--------------------------- MODULE Codegen_proofs ---------------------------
(***************************************************************************)
(* Theorems of Evolution and Codegen, for any contract that lint lets      *)
(* through, any growth of it, any order of map iteration and any message:  *)
(* the drift gate fires on stale crates only, a crate of packages that the *)
(* plugin can express builds and passes its tests, the two harnesses of a  *)
(* lifecycle without negative numbers are one machine, which keeps a bento *)
(* in an active state, and a message to a consumer of any age and back     *)
(* keeps all that the consumer knows.                                      *)
(***************************************************************************)
EXTENDS Codegen, WellFoundedInduction, TLAPS

-----------------------------------------------------------------------------
(* The loop over a sequence                                                *)

\* Induction up to a limit: as in Backends_proofs, over a set of naturals.
LEMMA UpTo ==
  ASSUME NEW limit \in Nat, NEW P, 0 \in P,
         \A n \in Nat : n < limit /\ n \in P => n + 1 \in P
  PROVE  limit \in P
  <1> DEFINE Missed == {n \in 0..limit : n \notin P}
             R == OpToRel(<, Nat)
  <1> SUFFICES ASSUME limit \notin P PROVE FALSE
    OBVIOUS
  <1>1. Missed \subseteq Nat /\ Missed # {}
    <2>1. limit \in Missed
      OBVIOUS
    <2> QED
      BY <2>1
  <1>2. PICK n \in Missed : \A m \in Missed : ~(<<m, n>> \in R)
    <2> HIDE DEF Missed
    <2> QED
      BY <1>1, WFMin, NatLessThanWellFounded
  <1>3. n \in 0..limit /\ n \notin P /\ n # 0
    BY <1>2
  <1>4. n - 1 \in Missed
    <2>1. n - 1 \in 0..limit /\ n - 1 \in Nat /\ n - 1 < limit /\ (n - 1) + 1 = n
      BY <1>3
    <2> QED
      BY <1>3, <2>1
  <1>5. n - 1 \in Nat /\ n \in Nat /\ n - 1 < n
    BY <1>3
  <1>6. <<n - 1, n>> \in R
    BY <1>5 DEF OpToRel
  <1> QED
    BY <1>2, <1>4, <1>6

\* The loop of Within has taken the members of S from the first n elements of q: all of
\* them, in their order, if all are members, and the first one first if it is one.
Taken(q, T, S, n, r) ==
  /\ r \in Seq(T) /\ ToSet(r) = {q[i] : i \in 1..n} \cap S
  /\ (\A i \in 1..n : q[i] \in S) => Len(r) = n /\ \A i \in 1..n : r[i] = q[i]
  /\ 1 <= n /\ q[1] \in S => r # <<>> /\ r[1] = q[1]

\* One turn of the loop of Within.
LEMMA TakeOne ==
  ASSUME NEW T, NEW q \in Seq(T), NEW S, NEW n \in Nat, n + 1 <= Len(q), NEW r, Taken(q, T, S, n, r)
  PROVE  Taken(q, T, S, n + 1, IF q[n + 1] \in S THEN Append(r, q[n + 1]) ELSE r)
  <1>1. q[n + 1] \in T /\ r \in Seq(T) /\ Len(r) \in Nat /\ DOMAIN r = 1..Len(r)
    BY DEF Taken
  <1>2. {q[i] : i \in 1..(n + 1)} = {q[i] : i \in 1..n} \cup {q[n + 1]}
    <2>1. 1..(n + 1) = (1..n) \cup {n + 1}
      OBVIOUS
    <2> QED
      BY <2>1
  <1>3. CASE q[n + 1] \in S
    <2> DEFINE x == q[n + 1]
               s == Append(r, x)
    <2>1. /\ s \in Seq(T) /\ DOMAIN s = (1..Len(r)) \cup {Len(r) + 1} /\ Len(s) = Len(r) + 1
          /\ s[Len(r) + 1] = x /\ \A i \in DOMAIN r : s[i] = r[i]
      BY <1>1
    <2> HIDE DEF s, x
    <2>2. ToSet(s) = ToSet(r) \cup {x}
      BY <1>1, <2>1 DEF ToSet
    <2>3. ToSet(s) = {q[i] : i \in 1..(n + 1)} \cap S
      BY <1>2, <1>3, <2>2 DEF Taken, x
    <2>4. ASSUME \A i \in 1..(n + 1) : q[i] \in S
          PROVE  Len(s) = n + 1 /\ \A i \in 1..(n + 1) : s[i] = q[i]
      <3>1. Len(r) = n /\ \A i \in 1..n : r[i] = q[i]
        BY <2>4 DEF Taken
      <3>2. \A i \in 1..(n + 1) : i \in 1..n \/ i = n + 1
        OBVIOUS
      <3> QED
        BY <1>1, <2>1, <3>1, <3>2 DEF x
    <2>5. ASSUME q[1] \in S PROVE s # <<>> /\ s[1] = q[1]
      <3>1. CASE n = 0
        <4>1. {q[i] : i \in 1..n} = {} /\ r \in Seq(T)
          BY <3>1 DEF Taken
        <4>2. ToSet(r) = {}
          BY <4>1 DEF Taken
        <4>3. Len(r) = 0
          <5>1. Len(r) # 0 => 1 \in DOMAIN r
            BY <1>1
          <5>2. \A i \in DOMAIN r : r[i] \in ToSet(r)
            BY DEF ToSet
          <5> QED
            BY <4>2, <5>1, <5>2
        <4>4. Len(r) + 1 = 1 /\ n + 1 = 1
          BY <3>1, <4>3
        <4>5. s[1] = x /\ Len(s) = 1 /\ x = q[1]
          BY <2>1, <4>4 DEF x
        <4>6. 1 \in DOMAIN s
          BY <2>1, <4>4
        <4>7. s # <<>>
          <5>1. 1 \notin DOMAIN <<>>
            OBVIOUS
          <5> HIDE DEF s
          <5> QED
            BY <4>6, <5>1
        <4> QED
          BY <4>5, <4>7
      <3>2. CASE n # 0
        <4>1. r # <<>> /\ r[1] = q[1]
          BY <2>5, <3>2 DEF Taken
        <4>2. 1 \in DOMAIN r
          BY <1>1, <4>1
        <4> QED
          BY <2>1, <4>1, <4>2
      <3> QED
        BY <3>1, <3>2
    <2> QED
      BY <1>3, <2>1, <2>3, <2>4, <2>5 DEF Taken, s, x
  <1>4. CASE q[n + 1] \notin S
    <2>1. n + 1 \in 1..(n + 1)
      OBVIOUS
    <2>2. q[1] \in S => 1 <= n
      BY <1>4
    <2> QED
      BY <1>1, <1>2, <1>4, <2>1, <2>2 DEF Taken
  <1> QED
    BY <1>3, <1>4

\* Within has the members of the sequence that are in the set, and no others; it is the
\* sequence itself when all are, and begins as it does when the first one is.
LEMMA WithinHas ==
  ASSUME NEW T, NEW q \in Seq(T), NEW S
  PROVE  /\ Within(q, S) \in Seq(T) /\ ToSet(Within(q, S)) = ToSet(q) \cap S
         /\ (\A i \in DOMAIN q : q[i] \in S) => Within(q, S) = q
         /\ q # <<>> /\ q[1] \in S => Within(q, S) # <<>> /\ Within(q, S)[1] = q[1]
  <1> DEFINE Body(f, i) == IF i = 0 THEN <<>>
                           ELSE IF q[i] \in S THEN Append(f[i - 1], q[i]) ELSE f[i - 1]
             Is(f, n) == f = [i \in 0..n |-> Body(f, i)]
             P == {n \in Nat : \E f : Is(f, n)}
             upTo == CHOOSE f : Is(f, Len(q))
  <1>0. Len(q) \in Nat /\ DOMAIN q = 1..Len(q)
    OBVIOUS
  <1>1. Len(q) \in P
    <2>1. 0 \in P
      <3>1. Is([i \in 0..0 |-> <<>>], 0)
        OBVIOUS
      <3> HIDE DEF Is
      <3> QED
        BY <3>1
    <2>2. ASSUME NEW n \in Nat, n \in P PROVE n + 1 \in P
      <3>1. PICK f : Is(f, n)
        BY <2>2
      <3> DEFINE g == [i \in 0..(n + 1) |-> IF i = n + 1 THEN Body(f, n + 1) ELSE f[i]]
      <3>2. \A i \in 0..(n + 1) : g[i] = Body(g, i)
        <4> TAKE i \in 0..(n + 1)
        <4>1. CASE i = 0
          <5>1. g[i] = f[0] /\ f[0] = Body(f, 0)
            BY <3>1, <4>1
          <5> QED
            BY <4>1, <5>1
        <4>2. CASE i # 0
          <5>1. i - 1 \in 0..n /\ i - 1 \in 0..(n + 1) /\ i - 1 # n + 1
            BY <4>2
          <5>2. g[i - 1] = f[i - 1]
            BY <5>1
          <5>3. g[i] = Body(f, i)
            <6>1. CASE i = n + 1
              BY <6>1
            <6>2. CASE i # n + 1
              <7>1. i \in 0..n
                BY <6>2
              <7>2. f[i] = Body(f, i)
                BY <3>1, <7>1
              <7> QED
                BY <6>2, <7>2
            <6> QED
              BY <6>1, <6>2
          <5> HIDE DEF g
          <5> QED
            BY <4>2, <5>2, <5>3
        <4> QED
          BY <4>1, <4>2
      <3>3. Is(g, n + 1)
        BY <3>2
      <3> HIDE DEF g, Is
      <3> QED
        BY <3>3
    <2> HIDE DEF P
    <2> QED
      BY <1>0, <2>1, <2>2, UpTo
  <1>2. upTo = [i \in 0..Len(q) |-> Body(upTo, i)]
    <2>1. \E f : Is(f, Len(q))
      BY <1>1
    <2> QED
      BY <2>1
  <1>3. Within(q, S) = upTo[Len(q)]
    BY DEF Within
  <1> HIDE DEF upTo, P
  <1> DEFINE Q == {n \in Nat : n <= Len(q) => Taken(q, T, S, n, upTo[n])}
  <1>4. 0 \in Q
    <2>1. upTo[0] = <<>>
      BY <1>0, <1>2
    <2>2. Taken(q, T, S, 0, <<>>)
      BY DEF Taken, ToSet
    <2> QED
      BY <2>1, <2>2
  <1>5. ASSUME NEW n \in Nat, n < Len(q), n \in Q PROVE n + 1 \in Q
    <2>1. Taken(q, T, S, n, upTo[n])
      BY <1>5
    <2>2. upTo[n + 1] = IF q[n + 1] \in S THEN Append(upTo[n], q[n + 1]) ELSE upTo[n]
      <3>1. n + 1 \in 0..Len(q) /\ n + 1 # 0 /\ (n + 1) - 1 = n
        BY <1>0, <1>5
      <3>2. upTo[n + 1] = Body(upTo, n + 1)
        BY <1>2, <3>1
      <3> QED
        BY <3>1, <3>2
    <2>3. Taken(q, T, S, n + 1, upTo[n + 1])
      BY <1>0, <1>5, <2>1, <2>2, TakeOne
    <2> QED
      BY <2>3
  <1>6. Len(q) \in Q
    <2> HIDE DEF Q
    <2> QED
      BY <1>0, <1>4, <1>5, UpTo
  <1>7. Taken(q, T, S, Len(q), Within(q, S))
    BY <1>0, <1>3, <1>6
  <1>8. {q[i] : i \in 1..Len(q)} = ToSet(q)
    BY <1>0 DEF ToSet
  <1>9. ASSUME \A i \in DOMAIN q : q[i] \in S PROVE Within(q, S) = q
    <2> DEFINE w == Within(q, S)
    <2>1. w \in Seq(T) /\ Len(w) = Len(q) /\ \A i \in 1..Len(q) : w[i] = q[i]
      BY <1>0, <1>7, <1>9 DEF Taken
    <2> HIDE DEF w
    <2>2. w = q
      BY <1>0, <2>1
    <2> QED
      BY <2>2 DEF w
  <1>10. ASSUME q # <<>>, q[1] \in S PROVE Within(q, S) # <<>> /\ Within(q, S)[1] = q[1]
    <2>1. 1 <= Len(q)
      BY <1>0, <1>10
    <2> QED
      BY <1>7, <1>10, <2>1 DEF Taken
  <1> QED
    BY <1>7, <1>8, <1>9, <1>10 DEF Taken

-----------------------------------------------------------------------------
(* The types along a path                                                  *)

\* What TypeAt computes on its way: the types after 0, 1, ... steps.
Along(b, s, p) ==
  CHOOSE f : f = [n \in 0..Len(p) |-> IF n = 0 THEN Option(Named(s)) ELSE Below(b, f[n - 1], p[n])]

\* The type at the end of a path is the last of them.
LEMMA TypesAlong ==
  ASSUME NEW b, NEW s, NEW p, Len(p) \in Nat
  PROVE  /\ Along(b, s, p)[0] = Option(Named(s))
         /\ \A n \in 0..Len(p) : n < Len(p) => Along(b, s, p)[n + 1] = Below(b, Along(b, s, p)[n], p[n + 1])
         /\ TypeAt(b, s, p) = Along(b, s, p)[Len(p)]
  <1> DEFINE Body(f, n) == IF n = 0 THEN Option(Named(s)) ELSE Below(b, f[n - 1], p[n])
             Is(f, n) == f = [i \in 0..n |-> Body(f, i)]
             P == {n \in Nat : \E f : Is(f, n)}
  <1>1. Len(p) \in P
    <2>1. 0 \in P
      <3>1. Is([i \in 0..0 |-> Option(Named(s))], 0)
        OBVIOUS
      <3> HIDE DEF Is
      <3> QED
        BY <3>1
    <2>2. ASSUME NEW n \in Nat, n \in P PROVE n + 1 \in P
      <3>1. PICK f : Is(f, n)
        BY <2>2
      <3> DEFINE g == [i \in 0..(n + 1) |-> IF i = n + 1 THEN Body(f, n + 1) ELSE f[i]]
      <3>2. \A i \in 0..(n + 1) : g[i] = Body(g, i)
        <4> TAKE i \in 0..(n + 1)
        <4>1. CASE i = 0
          <5>1. g[i] = f[0] /\ f[0] = Body(f, 0)
            BY <3>1, <4>1
          <5> QED
            BY <4>1, <5>1
        <4>2. CASE i # 0
          <5>1. i - 1 \in 0..n /\ i - 1 \in 0..(n + 1) /\ i - 1 # n + 1
            BY <4>2
          <5>2. g[i - 1] = f[i - 1]
            BY <5>1
          <5>3. g[i] = Body(f, i)
            <6>1. CASE i = n + 1
              BY <6>1
            <6>2. CASE i # n + 1
              <7>1. i \in 0..n
                BY <6>2
              <7>2. f[i] = Body(f, i)
                BY <3>1, <7>1
              <7> QED
                BY <6>2, <7>2
            <6> QED
              BY <6>1, <6>2
          <5> HIDE DEF g
          <5> QED
            BY <4>2, <5>2, <5>3
        <4> QED
          BY <4>1, <4>2
      <3>3. Is(g, n + 1)
        BY <3>2
      <3> HIDE DEF g, Is
      <3> QED
        BY <3>3
    <2> HIDE DEF P
    <2> QED
      BY <2>1, <2>2, UpTo
  <1> DEFINE at == Along(b, s, p)
  <1>2. at = [n \in 0..Len(p) |-> Body(at, n)]
    <2>1. \E f : Is(f, Len(p))
      BY <1>1
    <2>2. at = CHOOSE f : Is(f, Len(p))
      BY DEF Along
    <2> QED
      BY <2>1, <2>2
  <1>3. TypeAt(b, s, p) = at[Len(p)]
    BY DEF TypeAt, Along
  <1> HIDE DEF at
  <1>4. at[0] = Option(Named(s))
    BY <1>2
  <1>5. ASSUME NEW n \in 0..Len(p), n < Len(p) PROVE at[n + 1] = Below(b, at[n], p[n + 1])
    <2>1. n + 1 \in 0..Len(p) /\ n + 1 # 0 /\ (n + 1) - 1 = n
      <3> DEFINE k == Len(p)
      <3>1. k \in Nat /\ n \in 0..k /\ n < k
        BY <1>5
      <3> HIDE DEF k
      <3>2. n + 1 \in 0..k /\ n + 1 # 0 /\ (n + 1) - 1 = n
        BY <3>1
      <3> QED
        BY <3>2 DEF k
    <2>2. at[n + 1] = Body(at, n + 1)
      BY <1>2, <2>1
    <2> QED
      BY <2>1, <2>2
  <1> QED
    BY <1>3, <1>4, <1>5 DEF at

\* The type of the root, and of what is one step further than a path.
LEMMA TypeBelow ==
  ASSUME NEW b, NEW s, NEW T, NEW p \in Seq(T), NEW x \in T
  PROVE  /\ TypeAt(b, s, <<>>) = Option(Named(s))
         /\ TypeAt(b, s, Append(p, x)) = Below(b, TypeAt(b, s, p), x)
  <1> DEFINE q == Append(p, x)
             at == Along(b, s, p)
             far == Along(b, s, q)
             P == {n \in Nat : n <= Len(p) => far[n] = at[n]}
  <1>1. /\ Len(p) \in Nat /\ Len(q) = Len(p) + 1 /\ Len(q) \in Nat /\ q[Len(p) + 1] = x
        /\ \A n \in 1..Len(p) : q[n] = p[n]
    OBVIOUS
  <1>2. TypeAt(b, s, <<>>) = Option(Named(s))
    <2>1. Len(<<>>) = 0
      OBVIOUS
    <2> QED
      BY <2>1, TypesAlong
  <1> HIDE DEF q
  <1>3. /\ at[0] = Option(Named(s)) /\ far[0] = Option(Named(s))
        /\ \A n \in 0..Len(p) : n < Len(p) => at[n + 1] = Below(b, at[n], p[n + 1])
        /\ \A n \in 0..Len(q) : n < Len(q) => far[n + 1] = Below(b, far[n], q[n + 1])
        /\ TypeAt(b, s, p) = at[Len(p)] /\ TypeAt(b, s, q) = far[Len(q)]
    BY <1>1, TypesAlong
  <1> HIDE DEF at, far
  <1>4. 0 \in P
    BY <1>3
  <1>5. ASSUME NEW n \in Nat, n < Len(p), n \in P PROVE n + 1 \in P
    <2>1. far[n] = at[n]
      BY <1>5
    <2>2. n \in 0..Len(p) /\ n \in 0..Len(q) /\ n < Len(q) /\ n + 1 \in 1..Len(p)
      BY <1>1, <1>5
    <2> QED
      BY <1>1, <1>3, <1>5, <2>1, <2>2
  <1>6. far[Len(p)] = at[Len(p)]
    <2>1. Len(p) \in P
      <3> HIDE DEF P
      <3> QED
        BY <1>1, <1>4, <1>5, UpTo
    <2> QED
      BY <1>1, <2>1
  <1>7. far[Len(p) + 1] = Below(b, far[Len(p)], x)
    <2>1. Len(p) \in 0..Len(q) /\ Len(p) < Len(q)
      BY <1>1
    <2> QED
      BY <1>1, <1>3, <2>1
  <1> QED
    BY <1>1, <1>2, <1>3, <1>6, <1>7 DEF q

-----------------------------------------------------------------------------
(* A run of the Rust plugin does not depend on the order of its maps       *)

\* Sorting forgets the order in which the keys came.
LEMMA SortedKeysAlike ==
  ASSUME NEW it \in Iterations, NEW other \in Iterations, NEW S
  PROVE  sortedKeys(S, it) = sortedKeys(S, other)
  <1>1. /\ it \in Seq(ToSet(Lexicon)) /\ other \in Seq(ToSet(Lexicon))
        /\ ToSet(it) = ToSet(Lexicon) /\ ToSet(other) = ToSet(Lexicon)
    BY IterationAssumption
  <1>2. ToSet(Within(it, S)) = ToSet(it) \cap S
    BY <1>1, WithinHas
  <1>3. ToSet(Within(other, S)) = ToSet(other) \cap S
    BY <1>1, WithinHas
  <1>4. ToSet(Iterate(S, it)) = ToSet(Iterate(S, other))
    BY <1>1, <1>2, <1>3 DEF Iterate
  <1> QED
    BY <1>4 DEF sortedKeys

\* The keys of a set of path elements are those elements.
LEMMA SortedKeysOf ==
  ASSUME NEW it \in Iterations, NEW S \in SUBSET ToSet(Lexicon)
  PROVE  sortedKeys(S, it) \in Seq(S) /\ ToSet(sortedKeys(S, it)) = S
  <1>1. it \in Seq(ToSet(Lexicon)) /\ ToSet(it) = ToSet(Lexicon) /\ Lexicon \in Seq(ToSet(Lexicon))
    BY IterationAssumption
  <1>2. ToSet(Iterate(S, it)) = S
    <2>1. ToSet(Within(it, S)) = ToSet(it) \cap S
      BY <1>1, WithinHas
    <2> QED
      BY <1>1, <2>1 DEF Iterate
  <1>3. /\ sortedKeys(S, it) \in Seq(ToSet(Lexicon))
        /\ ToSet(sortedKeys(S, it)) = S
    <2>1. /\ Within(Lexicon, S) \in Seq(ToSet(Lexicon))
          /\ ToSet(Within(Lexicon, S)) = ToSet(Lexicon) \cap S
      BY <1>1, WithinHas
    <2> QED
      BY <1>2, <2>1 DEF sortedKeys
  <1>4. sortedKeys(S, it) \in Seq(S)
    BY <1>3 DEF ToSet
  <1> QED
    BY <1>3, <1>4

\* The module tree does not depend on the order of the maps.
LEMMA ModuleTreeAlike ==
  ASSUME NEW it \in Iterations, NEW other \in Iterations, NEW pkgs
  PROVE  genModuleTree(pkgs, it) = genModuleTree(pkgs, other)
  <1>1. \A S : sortedKeys(S, it) = sortedKeys(S, other)
    BY SortedKeysAlike
  <1> QED
    BY <1>1 DEF genModuleTree, genLibRoot

\* Two runs over the same files write the same crate.
LEMMA CrateAlike ==
  ASSUME NEW it \in Iterations, NEW other \in Iterations, NEW files, NEW opts
  PROVE  RustCrate(files, opts, it) = RustCrate(files, opts, other)
  <1>1. \A pkgs : genModuleTree(pkgs, it) = genModuleTree(pkgs, other)
    BY ModuleTreeAlike
  <1> QED
    BY <1>1 DEF RustCrate

-----------------------------------------------------------------------------
(* A crate that is written is linked up                                    *)

\* A node of the module tree above a package is a part of its path, and the next
\* element of the path is a child of the node.
LEMMA OnThePath ==
  ASSUME NEW pkgs, NEW T, NEW p \in Seq(T), p \in pkgs, NEW k \in 1..Len(p)
  PROVE  /\ SubSeq(p, 1, k - 1) \in Nodes(pkgs)
         /\ p[k] \in Children(pkgs, SubSeq(p, 1, k - 1))
  <1> DEFINE n == SubSeq(p, 1, k - 1)
  <1>1. n \in Seq(T) /\ Len(n) = k - 1 /\ k \in Nat /\ Len(p) \in Nat
    OBVIOUS
  <1>2. n \in Nodes(pkgs)
    <2>1. CASE k = 1
      <3>1. n = <<>>
        BY <2>1
      <3> QED
        BY <3>1 DEF Nodes
    <2>2. CASE k # 1
      <3>1. k - 1 \in 1..(Len(p) - 1)
        BY <1>1, <2>2
      <3> QED
        BY <3>1 DEF Nodes
    <2> QED
      BY <2>1, <2>2
  <1>3. IsStrictPrefix(n, p)
    <2>1. SubSeq(n, 1, Len(n)) = n
      BY <1>1
    <2>2. SubSeq(n, 1, Len(n)) = SubSeq(p, 1, Len(n))
      BY <1>1, <2>1
    <2>3. n # p
      BY <1>1
    <2>4. Len(n) <= Len(p)
      BY <1>1
    <2> HIDE DEF n
    <2> QED
      BY <2>2, <2>3, <2>4 DEF IsStrictPrefix, IsPrefix
  <1>4. Len(n) + 1 = k
    BY <1>1
  <1> HIDE DEF n
  <1>5. p[Len(n) + 1] \in Children(pkgs, n)
    BY <1>3 DEF Children
  <1> QED
    BY <1>2, <1>4, <1>5 DEF n

\* A strict prefix is shorter, and has the first elements.
LEMMA StrictPrefix ==
  ASSUME NEW T, NEW n \in Seq(T), NEW p \in Seq(T), IsStrictPrefix(n, p)
  PROVE  Len(n) < Len(p) /\ \A i \in 1..Len(n) : n[i] = p[i]
  <1>1. /\ Len(p) \in Nat /\ Len(n) \in Nat /\ Len(n) <= Len(p) /\ n # p
        /\ SubSeq(n, 1, Len(n)) = SubSeq(p, 1, Len(n))
    BY DEF IsStrictPrefix, IsPrefix
  <1>2. SubSeq(n, 1, Len(n)) = n
    BY <1>1
  <1>3. \A i \in 1..Len(n) : n[i] = p[i]
    BY <1>1, <1>2
  <1>4. ASSUME Len(n) = Len(p) PROVE n = p
    <2>1. SubSeq(p, 1, Len(p)) = p
      BY <1>1
    <2> QED
      BY <1>1, <1>2, <1>4, <2>1
  <1> QED
    BY <1>1, <1>3, <1>4

\* A child of a node is a node or a package itself.
LEMMA ChildIsThere ==
  ASSUME NEW T, NEW pkgs \in SUBSET Seq(T), NEW n \in Seq(T), NEW x \in Children(pkgs, n)
  PROVE  x \in T /\ Append(n, x) \in Nodes(pkgs) \cup pkgs
  <1>1. PICK p \in pkgs : IsStrictPrefix(n, p) /\ x = p[Len(n) + 1]
    BY DEF Children
  <1>2. p \in Seq(T) /\ Len(p) \in Nat /\ Len(n) \in Nat
    OBVIOUS
  <1>3. Len(n) < Len(p) /\ \A i \in 1..Len(n) : n[i] = p[i]
    BY <1>1, <1>2, StrictPrefix
  <1>4. x \in T
    BY <1>1, <1>2, <1>3
  <1>5. Append(n, x) = SubSeq(p, 1, Len(n) + 1)
    <2> DEFINE a == Append(n, x)
               b == SubSeq(p, 1, Len(n) + 1)
    <2>1. a \in Seq(T) /\ Len(a) = Len(n) + 1 /\ \A i \in 1..(Len(n) + 1) : a[i] = p[i]
      BY <1>1, <1>2, <1>3, <1>4
    <2>2. b \in Seq(T) /\ Len(b) = Len(n) + 1 /\ \A i \in 1..(Len(n) + 1) : b[i] = p[i]
      BY <1>2, <1>3
    <2> HIDE DEF a, b
    <2>3. a = b
      BY <1>2, <2>1, <2>2
    <2> QED
      BY <2>3 DEF a, b
  <1>6. CASE Len(n) + 1 = Len(p)
    <2>1. SubSeq(p, 1, Len(n) + 1) = p
      BY <1>2, <1>6
    <2> QED
      BY <1>1, <1>4, <1>5, <2>1
  <1>7. CASE Len(n) + 1 # Len(p)
    <2>1. Len(n) + 1 \in 1..(Len(p) - 1)
      BY <1>2, <1>3, <1>7
    <2> QED
      BY <1>1, <1>4, <1>5, <2>1 DEF Nodes
  <1> QED
    BY <1>6, <1>7

\* The module tree of packages that fit in one.
LEMMA TreeReaches ==
  ASSUME NEW pkgs \in SUBSET Seq(ToSet(Lexicon)), TreeFits(pkgs), NEW it \in Iterations,
         NEW c, c.mods = genModuleTree(pkgs, it), DOMAIN c.packages = pkgs
  PROVE  /\ Reached(c)
         /\ \A n \in DOMAIN c.mods : n \in Seq(ToSet(Lexicon)) /\ ToSet(c.mods[n]) = Children(pkgs, n)
  <1> DEFINE T == ToSet(Lexicon)
  <1>1. /\ DOMAIN c.mods = Nodes(pkgs)
        /\ \A n \in Nodes(pkgs) : c.mods[n] = sortedKeys(Children(pkgs, n), it)
    BY DEF genModuleTree, genLibRoot, TreeFits
  <1>2. Nodes(pkgs) \subseteq Seq(T)
    <2>1. ASSUME NEW p \in pkgs, NEW k \in 1..(Len(p) - 1) PROVE SubSeq(p, 1, k) \in Seq(T)
      <3>1. p \in Seq(T) /\ k \in 1..Len(p)
        OBVIOUS
      <3> HIDE DEF T
      <3> QED
        BY <3>1
    <2>2. <<>> \in Seq(T)
      OBVIOUS
    <2> HIDE DEF T
    <2>3. ASSUME NEW n \in Nodes(pkgs) PROVE n \in Seq(T)
      <3>1. n = <<>> \/ \E p \in pkgs : \E k \in 1..(Len(p) - 1) : n = SubSeq(p, 1, k)
        BY DEF Nodes
      <3> QED
        BY <2>1, <2>2, <3>1
    <2> QED
      BY <2>3
  <1>3. \A n \in Nodes(pkgs) : Children(pkgs, n) \subseteq T
    <2> HIDE DEF T
    <2> QED
      BY <1>2, ChildIsThere DEF T
  <1>4. \A n \in Nodes(pkgs) : /\ c.mods[n] \in Seq(Children(pkgs, n))
                               /\ ToSet(c.mods[n]) = Children(pkgs, n)
    BY <1>1, <1>3, SortedKeysOf
  <1>5. ASSUME NEW p \in pkgs
        PROVE  p \notin DOMAIN c.mods /\ \A k \in DOMAIN p : p[k] \in ToSet(c.mods[SubSeq(p, 1, k - 1)])
    <2>1. p \in Seq(T) /\ DOMAIN p = 1..Len(p)
      OBVIOUS
    <2>2. p \notin Nodes(pkgs)
      BY DEF TreeFits
    <2> HIDE DEF T
    <2>3. \A k \in DOMAIN p : /\ SubSeq(p, 1, k - 1) \in Nodes(pkgs)
                              /\ p[k] \in Children(pkgs, SubSeq(p, 1, k - 1))
      BY <2>1, OnThePath
    <2> QED
      BY <1>1, <1>4, <2>2, <2>3
  <1>6. ASSUME NEW n \in DOMAIN c.mods, NEW i \in DOMAIN c.mods[n]
        PROVE  Append(n, c.mods[n][i]) \in DOMAIN c.mods \cup DOMAIN c.packages
    <2>1. n \in Nodes(pkgs) /\ n \in Seq(T)
      BY <1>1, <1>2
    <2>2. c.mods[n][i] \in Children(pkgs, n)
      BY <1>4, <2>1 DEF ToSet
    <2>3. Append(n, c.mods[n][i]) \in Nodes(pkgs) \cup pkgs
      BY <2>1, <2>2, ChildIsThere
    <2> QED
      BY <1>1, <2>3
  <1>7. Reached(c)
    BY <1>5, <1>6 DEF Reached
  <1> QED
    BY <1>1, <1>2, <1>4, <1>7

\* Each module of the tree has a name that an element of a package's has.
LEMMA TreeIsNamed ==
  ASSUME NEW pkgs \in SUBSET Seq(ToSet(Lexicon)), TreeFits(pkgs), NEW it \in Iterations,
         NEW c, c.mods = genModuleTree(pkgs, it), DOMAIN c.packages = pkgs,
         \A p \in pkgs : ToSet(p) \cap reservedModules = {} /\ p[1] \notin cargoTargets
  PROVE  ModulesNamed(c)
  <1> DEFINE T == ToSet(Lexicon)
  <1>1. \A n \in DOMAIN c.mods : n \in Seq(T) /\ ToSet(c.mods[n]) = Children(pkgs, n)
    BY TreeReaches
  <1>2. ASSUME NEW n \in Seq(T), NEW x \in Children(pkgs, n)
        PROVE  x \notin reservedModules /\ (n = <<>> => x \notin cargoTargets)
    <2>1. PICK p \in pkgs : IsStrictPrefix(n, p) /\ x = p[Len(n) + 1]
      BY DEF Children
    <2>2. p \in Seq(T) /\ Len(p) \in Nat /\ Len(n) \in Nat
      OBVIOUS
    <2> HIDE DEF T
    <2>3. Len(n) < Len(p)
      BY <2>1, <2>2, StrictPrefix
    <2>4. x \in ToSet(p)
      BY <2>1, <2>2, <2>3 DEF ToSet
    <2>5. n = <<>> => x = p[1]
      BY <2>1
    <2> QED
      BY <2>4, <2>5
  <1> HIDE DEF T
  <1> QED
    BY <1>1, <1>2 DEF ModulesNamed

\* An identifier is never a word that Rust reserves.
LEMMA IdentLegal ==
  ASSUME NEW name \in Seq(STRING)
  PROVE  LET ident == rustIdent(name)
         IN  /\ ident.form = "plain" =>
                  ident.name \notin {<<w>> : w \in rustKeywords \cup rawUnsafeKeywords}
             /\ ident.form = "raw" => ident.name \notin {<<w>> : w \in rawUnsafeKeywords}
  <1>1. \A w : Len(<<w>>) = 1 /\ <<w>>[1] = w
    OBVIOUS
  <1>2. CASE Len(name) = 1 /\ name[1] \in rawUnsafeKeywords
    <2> DEFINE long == Append(name, Nothing)
    <2>1. rustIdent(name) = [form |-> "plain", name |-> long]
      BY <1>2 DEF rustIdent
    <2>2. Len(long) = 2
      BY <1>2
    <2> HIDE DEF long
    <2>3. \A w : long # <<w>>
      BY <1>1, <2>2
    <2>4. rustIdent(name).form # "raw" /\ rustIdent(name).name = long
      BY <2>1
    <2> QED
      BY <2>3, <2>4
  <1>3. CASE ~(Len(name) = 1 /\ name[1] \in rawUnsafeKeywords)
    <2>1. CASE Len(name) = 1 /\ name[1] \in rustKeywords
      <3>1. rustIdent(name) = [form |-> "raw", name |-> name]
        BY <1>3, <2>1 DEF rustIdent
      <3> QED
        BY <1>1, <1>3, <2>1, <3>1
    <2>2. CASE ~(Len(name) = 1 /\ name[1] \in rustKeywords)
      <3>1. rustIdent(name) = [form |-> "plain", name |-> name]
        BY <1>3, <2>2 DEF rustIdent
      <3> QED
        BY <1>1, <1>3, <2>2, <3>1
    <2> QED
      BY <2>1, <2>2
  <1> QED
    BY <1>2, <1>3

\* A package of the crate has messages of the contract only.
LEMMA PackageMessages ==
  ASSUME NEW files, files \in Seq(ToSet(files)), NEW S, NEW pkgs
  PROVE  MessagesOf(OfPackages(Within(files, S), pkgs)) \subseteq MessagesOf(files)
  <1> DEFINE T == ToSet(files)
             some == Within(files, S)
             ours == {f \in ToSet(some) : f.pkg \in pkgs}
  <1>1. some \in Seq(T) /\ ToSet(some) \subseteq T
    BY WithinHas
  <1> HIDE DEF some
  <1>2. ToSet(Within(some, ours)) \subseteq T
    BY <1>1, WithinHas
  <1>3. ASSUME NEW few, ToSet(few) \subseteq T, NEW m \in MessagesOf(few) PROVE m \in MessagesOf(files)
    <2>1. PICK i \in DOMAIN few : m \in ToSet(few[i].messages)
      BY <1>3 DEF MessagesOf
    <2>2. PICK j \in DOMAIN files : few[i] = files[j]
      BY <1>3 DEF ToSet
    <2> QED
      BY <2>1, <2>2 DEF MessagesOf
  <1> QED
    BY <1>2, <1>3 DEF OfPackages, some

\* The structs of a package have legal names for their fields.
LEMMA PackageLegal ==
  ASSUME NEW files, \A m \in MessagesOf(files) : \A i \in DOMAIN m.fields : m.fields[i].name \in Seq(STRING)
  PROVE  LegalIdentifiers(genPackage(files))
  <1> DEFINE b == genPackage(files)
             msgs == MessagesOf(files)
             at(n) == CHOOSE m \in msgs : m.ref.name = n
  <1>1. b.structs = [n \in {m.ref.name : m \in msgs} |-> genMessage(at(n))]
    BY DEF genPackage
  <1>2. \A n \in {m.ref.name : m \in msgs} : at(n) \in msgs
    OBVIOUS
  <1> HIDE DEF b, at, msgs
  <1>3. ASSUME NEW n \in DOMAIN b.structs, NEW i \in DOMAIN b.structs[n]
        PROVE  \E name \in Seq(STRING) : b.structs[n][i].name = rustIdent(name)
    <2>1. at(n) \in msgs /\ b.structs[n] = genMessage(at(n))
      BY <1>1, <1>2, <1>3
    <2>2. i \in DOMAIN at(n).fields /\ b.structs[n][i] = mapField(at(n).fields[i])
      BY <1>3, <2>1 DEF genMessage
    <2>3. at(n).fields[i].name \in Seq(STRING)
      BY <2>1, <2>2 DEF msgs
    <2>4. \A f : mapField(f).name = rustIdent(f.name)
      BY DEF mapField
    <2> QED
      BY <2>2, <2>3, <2>4
  <1>4. LegalIdentifiers(b)
    BY <1>3, IdentLegal DEF LegalIdentifiers
  <1> QED
    BY <1>4 DEF b

\* A crate that is made from the packages in scope.
MadeFrom(c, files, opts, it) ==
  LET scope == InScope(files, opts)
      pkgs  == Packages(scope)
  IN  /\ pkgs \subseteq Seq(ToSet(Lexicon)) /\ TreeFits(pkgs)
      /\ \A m \in MessagesOf(scope) : Emits(m)
      /\ c.mods = genModuleTree(pkgs, it)
      /\ c.packages = [p \in pkgs |-> genPackage(OfPackages(scope, {p}))]
      /\ \A p \in pkgs : MessagesOf(OfPackages(scope, {p})) \subseteq MessagesOf(files)

\* What a run that writes a crate writes.
LEMMA CrateParts ==
  ASSUME NEW h \in Histories, NEW v \in 1..Len(h.versions), NEW it \in Iterations,
         NEW c, c = RustCrate(h.versions[v], h.opts, it), c.status = "ok"
  PROVE  MadeFrom(c, h.versions[v], h.opts, it)
  <1> DEFINE files == h.versions[v]
             opts == h.opts
             scope == InScope(files, opts)
             pkgs == Packages(scope)
             S == {f \in ToSet(files) : f.generate /\ f.pkg \in parsePackages(opts.packages)}
  <1>1. files \in Seq(ToSet(files)) /\ \A p \in ToSet(opts.packages) : p \in Seq(ToSet(Lexicon))
    BY HistoryAssumption DEF WellFormed
  <1>2. NoCrate.status # "ok" /\ Failed.status # "ok"
    BY DEF NoCrate, Failed
  <1>3. scope = Within(files, S)
    BY DEF InScope
  <1> HIDE DEF files, opts, S
  <1>4. ToSet(scope) \subseteq S
    BY <1>1, <1>3, WithinHas
  <1> HIDE DEF scope
  <1>5. pkgs \subseteq Seq(ToSet(Lexicon))
    <2>1. \A f \in S : f.pkg \in ToSet(opts.packages)
      BY DEF S, parsePackages
    <2> QED
      BY <1>1, <1>4, <2>1 DEF Packages, ToSet
  <1> HIDE DEF pkgs
  <1>6. /\ TreeFits(pkgs) /\ \A m \in MessagesOf(scope) : Emits(m)
        /\ c.mods = genModuleTree(pkgs, it)
        /\ c.packages = [p \in pkgs |-> genPackage(OfPackages(scope, {p}))]
    BY <1>2 DEF RustCrate, files, opts, scope, pkgs
  <1>7. \A p : MessagesOf(OfPackages(scope, {p})) \subseteq MessagesOf(files)
    BY <1>1, <1>3, PackageMessages
  <1> QED
    BY <1>5, <1>6, <1>7 DEF MadeFrom, files, opts, scope, pkgs

\* Whatever a run writes is linked up.
LEMMA CrateIsLinked ==
  ASSUME NEW h \in Histories, NEW v \in 1..Len(h.versions), NEW it \in Iterations,
         NEW c, c = RustCrate(h.versions[v], h.opts, it), c.status = "ok"
  PROVE  Reached(c) /\ \A p \in DOMAIN c.packages : LegalIdentifiers(c.packages[p])
  <1> DEFINE files == h.versions[v]
             scope == InScope(files, h.opts)
             pkgs == Packages(scope)
  <1>1. \A m \in MessagesOf(files) : \A i \in DOMAIN m.fields : m.fields[i].name \in Seq(STRING)
    <2>1. WellFormed(files)
      BY HistoryAssumption
    <2> QED
      BY <2>1 DEF WellFormed, WellFormedMessage, IsName
  <1>0. MadeFrom(c, files, h.opts, it)
    BY CrateParts
  <1>2. /\ pkgs \subseteq Seq(ToSet(Lexicon)) /\ TreeFits(pkgs) /\ c.mods = genModuleTree(pkgs, it)
        /\ c.packages = [p \in pkgs |-> genPackage(OfPackages(scope, {p}))]
        /\ \A p \in pkgs : MessagesOf(OfPackages(scope, {p})) \subseteq MessagesOf(files)
    BY <1>0 DEF MadeFrom
  <1> HIDE DEF files, scope, pkgs
  <1>3. Reached(c)
    BY <1>2, TreeReaches
  <1>4. ASSUME NEW p \in pkgs PROVE LegalIdentifiers(genPackage(OfPackages(scope, {p})))
    <2>1. \A m \in MessagesOf(OfPackages(scope, {p})) : \A i \in DOMAIN m.fields : m.fields[i].name \in Seq(STRING)
      BY <1>1, <1>2
    <2> QED
      BY <2>1, PackageLegal
  <1> QED
    BY <1>2, <1>3, <1>4

-----------------------------------------------------------------------------
(* A crate that is written builds and passes its tests                     *)

\* No word of a name is dropped.
LEMMA PlainParts ==
  ASSUME NEW name, IsName(name)
  PROVE  Parts(name) = [i \in DOMAIN name |-> <<i, name[i]>>]
  <1> DEFINE words == [i \in DOMAIN name |-> <<i, name[i]>>]
             kept == {p \in ToSet(words) : p[2] # Nothing}
  <1>1. DOMAIN name = 1..Len(name) /\ Len(name) \in Nat /\ \A i \in DOMAIN name : name[i] # Nothing
    BY DEF IsName
  <1>2. words \in Seq(ToSet(words))
    <2>1. \A i \in 1..Len(name) : words[i] \in ToSet(words)
      BY <1>1 DEF ToSet
    <2>2. words \in [1..Len(name) -> ToSet(words)]
      BY <1>1, <2>1
    <2> QED
      BY <1>1, <2>2
  <1>3. \A i \in DOMAIN words : words[i] \in kept
    BY <1>1 DEF ToSet
  <1>4. Parts(name) = Within(words, kept)
    BY DEF Parts
  <1> HIDE DEF words, kept
  <1>5. Within(words, kept) = words
    BY <1>2, <1>3, WithinHas
  <1> QED
    BY <1>4, <1>5 DEF words

\* The identifiers that are made of a name, word by word.
LEMMA CasesOf ==
  ASSUME NEW name, IsName(name)
  PROVE  /\ pascalCase(name) = [k \in DOMAIN name |-> Title(name[k])]
         /\ lowerCamel(name) = [k \in DOMAIN name |-> IF k = 1 THEN Lower(name[k]) ELSE Title(name[k])]
  <1>1. /\ DOMAIN Parts(name) = DOMAIN name
        /\ \A k \in DOMAIN name : Parts(name)[k][1] = k /\ Parts(name)[k][2] = name[k]
    BY PlainParts
  <1> QED
    BY <1>1 DEF pascalCase, lowerCamel

\* A sequence of one element, and one more.
LEMMA OneLonger ==
  ASSUME NEW T, NEW s \in Seq(T), NEW x \in T
  PROVE  Len(s) = 1 => s = <<s[1]>> /\ Append(s, x) = <<s[1], x>>
  <1> DEFINE long == Append(s, x)
             pair == <<s[1], x>>
             k == Len(s)
  <1>1. /\ long \in Seq(T) /\ Len(long) = k + 1 /\ long[k + 1] = x
        /\ \A i \in 1..k : long[i] = s[i]
    OBVIOUS
  <1>2. \A i \in 1..k : s[i] \in T
    OBVIOUS
  <1>3. k = 1 => s = <<s[1]>>
    OBVIOUS
  <1> HIDE DEF long, k
  <1> SUFFICES ASSUME k = 1 PROVE s = <<s[1]>> /\ long = pair
    BY DEF k, long
  <1>4. 1 \in 1..k /\ k + 1 = 2
    OBVIOUS
  <1>5. Len(long) = 2 /\ long[2] = x /\ long[1] = s[1] /\ s[1] \in T
    BY <1>1, <1>2, <1>4
  <1>6. pair \in Seq(T) /\ Len(pair) = 2 /\ pair[1] = s[1] /\ pair[2] = x
    BY <1>5
  <1> HIDE DEF pair
  <1>7. \A i \in 1..2 : i = 1 \/ i = 2
    OBVIOUS
  <1>8. long = pair
    BY <1>1, <1>5, <1>6, <1>7
  <1> QED
    BY <1>3, <1>8

\* Distinct names make distinct variants, JSON keys and fields.
LEMMA NamesApart ==
  ASSUME NEW a, NEW c, IsName(a), IsName(c)
  PROVE  /\ pascalCase(a) = pascalCase(c) => a = c
         /\ lowerCamel(a) = lowerCamel(c) => a = c
         /\ rustIdent(a) = rustIdent(c) => a = c
  <1>1. /\ a \in Seq(STRING) /\ c \in Seq(STRING) /\ Len(a) \in Nat /\ Len(c) \in Nat
        /\ DOMAIN a = 1..Len(a) /\ DOMAIN c = 1..Len(c)
        /\ \A k \in DOMAIN a : a[k] # Nothing
        /\ \A k \in DOMAIN c : c[k] # Nothing
    BY DEF IsName
  <1>2. \A v, w : (Title(v) = Title(w) => v = w) /\ (Lower(v) = Lower(w) => v = w)
    BY DEF Title, Lower
  <1>3. ASSUME DOMAIN a = DOMAIN c, \A k \in DOMAIN a : a[k] = c[k] PROVE a = c
    BY <1>1, <1>3
  <1>4. ASSUME pascalCase(a) = pascalCase(c) PROVE a = c
    <2>1. DOMAIN a = DOMAIN c /\ \A k \in DOMAIN a : Title(a[k]) = Title(c[k])
      BY <1>4, CasesOf
    <2> QED
      BY <1>2, <1>3, <2>1
  <1>5. ASSUME lowerCamel(a) = lowerCamel(c) PROVE a = c
    <2>1. DOMAIN a = DOMAIN c
      BY <1>5, CasesOf
    <2>2. \A k \in DOMAIN a : IF k = 1 THEN Lower(a[k]) = Lower(c[k]) ELSE Title(a[k]) = Title(c[k])
      BY <1>5, <2>1, CasesOf
    <2> QED
      BY <1>2, <1>3, <2>1, <2>2
  <1>6. ASSUME rustIdent(a) = rustIdent(c) PROVE a = c
    <2> DEFINE unsafe(n) == Len(n) = 1 /\ n[1] \in rawUnsafeKeywords
    <2>1. \A n : rustIdent(n).name = IF unsafe(n) THEN Append(n, Nothing) ELSE n
      BY DEF rustIdent
    <2>2. ASSUME NEW n \in Seq(STRING), unsafe(n)
          PROVE  n = <<n[1]>> /\ Append(n, Nothing) = <<n[1], Nothing>>
      <3> DEFINE T == STRING \cup {Nothing}
      <3>1. n \in Seq(T) /\ Len(n) = 1 /\ DOMAIN n = 1..1 /\ n[1] \in T
        <4>1. Len(n) = 1 /\ DOMAIN n = 1..1 /\ n[1] \in STRING
          BY <2>2
        <4>2. n \in [1..1 -> T]
          BY <4>1
        <4> QED
          BY <4>1, <4>2
      <3>2. Nothing \in T
        OBVIOUS
      <3> HIDE DEF T
      <3> QED
        BY <3>1, <3>2, OneLonger
    <2>3. (IF unsafe(a) THEN Append(a, Nothing) ELSE a) = (IF unsafe(c) THEN Append(c, Nothing) ELSE c)
      BY <1>6, <2>1
    <2>4. \A n \in {a, c} : \A w : n # <<w, Nothing>>
      <3> TAKE n \in {a, c}
      <3> TAKE w
      <3>1. 2 \in DOMAIN <<w, Nothing>> /\ <<w, Nothing>>[2] = Nothing
        OBVIOUS
      <3> QED
        BY <1>1, <3>1
    <2> HIDE DEF unsafe
    <2>5. CASE unsafe(a) /\ unsafe(c)
      <3>1. <<a[1], Nothing>> = <<c[1], Nothing>>
        BY <1>1, <2>2, <2>3, <2>5
      <3>2. a[1] = c[1]
        BY <3>1
      <3> QED
        BY <1>1, <2>2, <2>5, <3>2
    <2>6. CASE ~(unsafe(a) /\ unsafe(c))
      BY <1>1, <2>2, <2>3, <2>4, <2>6
    <2> QED
      BY <2>5, <2>6
  <1> QED
    BY <1>4, <1>5, <1>6

\* An enum of the crate: its variants are distinct and none is the catch-all, it has a
\* default, and it stands the tests written for it.
EnumBuilds(e) ==
  LET x   == genEnum(e)
      ids == [i \in DOMAIN x.variants |-> x.variants[i].ident]
  IN  /\ IsInjective(ids) /\ <<Title("unknown")>> \notin ToSet(ids) /\ x.default # <<>>
      /\ [ident |-> enumInfo(e).ident, rename |-> enumInfo(e).value] \in ToSet(x.variants)
      /\ ReadEnum(x, <<"str", Alien>>) = Unknown

\* An enum that lint lets through builds, and its test passes.
LEMMA WellFormedEnumBuilds ==
  ASSUME NEW e, WellFormedEnum(e)
  PROVE  EnumBuilds(e)
  <1> DEFINE vs == e.values
             T == ToSet(vs)
             x == genEnum(e)
             zeros == {v \in T : v.number = 0}
             ids == [i \in DOMAIN x.variants |-> x.variants[i].ident]
  <1>1. /\ IsName(e.ref.name) /\ vs \in Seq(T)
        /\ \A i \in DOMAIN vs : IsName(vs[i].name) /\ IsStrictPrefix(e.ref.name, vs[i].name)
        /\ \A i, j \in DOMAIN vs : vs[i].name = vs[j].name => i = j
    BY DEF WellFormedEnum
  <1>2. /\ x.variants = [i \in DOMAIN vs |-> [ident |-> pascalCase(vs[i].name), rename |-> vs[i].name]]
        /\ x.known = {vs[i].name : i \in DOMAIN vs} /\ x.other = TRUE
        /\ x.default = IF Within(vs, zeros) = <<>> THEN <<>> ELSE Within(vs, zeros)[1].name
    BY DEF genEnum, Variants
  <1>3. ids = [i \in DOMAIN vs |-> pascalCase(vs[i].name)]
    BY <1>2
  <1>4. vs # <<>> /\ vs[1].number = 0
    BY DEF WellFormedEnum
  <1> HIDE DEF x, ids, vs
  <1>5. IsInjective(ids)
    BY <1>1, <1>3, NamesApart DEF IsInjective
  <1>6. <<Title("unknown")>> \notin ToSet(ids)
    <2>1. ASSUME NEW i \in DOMAIN vs PROVE pascalCase(vs[i].name) # <<Title("unknown")>>
      <3> DEFINE n == vs[i].name
                 p == e.ref.name
      <3>1. IsName(n) /\ IsName(p) /\ IsStrictPrefix(p, n)
        BY <1>1
      <3> HIDE DEF n, p
      <3>2. p \in Seq(STRING) /\ n \in Seq(STRING) /\ Len(p) \in Nat /\ Len(p) # 0
        BY <3>1 DEF IsName
      <3>3. Len(p) < Len(n)
        BY <3>1, <3>2, StrictPrefix
      <3>4. 2 \in DOMAIN n /\ DOMAIN pascalCase(n) = DOMAIN n
        BY <3>1, <3>2, <3>3, CasesOf
      <3>5. 2 \notin DOMAIN <<Title("unknown")>>
        OBVIOUS
      <3>6. pascalCase(n) # <<Title("unknown")>>
        BY <3>4, <3>5
      <3> QED
        BY <3>6 DEF n
    <2> QED
      BY <1>3, <2>1 DEF ToSet
  <1>7. x.default # <<>>
    <2> DEFINE w == Within(vs, zeros)
    <2>1. w \in Seq(T) /\ ToSet(w) = T \cap zeros
      BY <1>1, WithinHas
    <2>2. T \cap zeros # {}
      <3>1. vs[1] \in T
        BY <1>1, <1>4
      <3> QED
        BY <1>4, <3>1
    <2> HIDE DEF w, zeros
    <2>3. w # <<>>
      BY <2>1, <2>2 DEF ToSet
    <2>4. w[1] \in T
      BY <2>1, <2>3
    <2>5. \A v \in T : v.name # <<>>
      BY <1>1 DEF IsName, ToSet
    <2> QED
      BY <1>2, <2>3, <2>4, <2>5 DEF w
  <1>8. [ident |-> enumInfo(e).ident, rename |-> enumInfo(e).value] \in ToSet(x.variants)
    <2>1. 1 \in DOMAIN vs
      BY <1>1, <1>4
    <2>2. x.variants[1] = [ident |-> enumInfo(e).ident, rename |-> enumInfo(e).value]
      BY <1>2, <2>1 DEF enumInfo, vs
    <2> QED
      BY <1>2, <2>1, <2>2 DEF ToSet
  <1>9. ReadEnum(x, <<"str", Alien>>) = Unknown
    <2>1. Alien \notin x.known
      <3>1. Alien[1] = Nothing /\ 1 \in DOMAIN Alien
        BY DEF Alien
      <3> QED
        BY <1>1, <1>2, <3>1 DEF IsName
    <2>2. <<"str", Alien>>[1] = "str" /\ <<"str", Alien>>[2] = Alien
      OBVIOUS
    <2> QED
      BY <1>2, <2>1, <2>2 DEF ReadEnum
  <1> QED
    BY <1>5, <1>6, <1>7, <1>8, <1>9 DEF EnumBuilds, ids, x

\* The fields of a struct have distinct names and distinct keys.
LEMMA FieldsApart ==
  ASSUME NEW m, NEW files, WellFormedMessage(m, files), NEW i \in DOMAIN m.fields, NEW j \in DOMAIN m.fields
  PROVE  LET s == genMessage(m)
         IN  (s[i].name = s[j].name => i = j) /\ (s[i].key = s[j].key => i = j)
  <1> DEFINE a == m.fields[i]
             c == m.fields[j]
  <1>1. IsName(a.name) /\ IsName(c.name) /\ (a.name = c.name => i = j)
    BY DEF WellFormedMessage
  <1>2. /\ \A f : mapField(f).name = rustIdent(f.name) /\ mapField(f).key = lowerCamel(f.name)
        /\ genMessage(m)[i] = mapField(a) /\ genMessage(m)[j] = mapField(c)
    BY DEF mapField, genMessage
  <1> HIDE DEF a, c
  <1> QED
    BY <1>1, <1>2, NamesApart

\* A field of a named type is one of an enum or of a message, and of that name.
LEMMA FieldNames ==
  ASSUME NEW f, Maps(f), mapField(f).type.base = "named"
  PROVE  /\ f.kind \in {"enum", "message"} /\ (f.kind = "message" => f.type # Timestamp)
         /\ mapField(f).type.named = f.type.name
  <1>1. f.kind \in {"string", "uint32", "enum", "message"}
    BY DEF Maps
  <1>2. \A base : Scalar(base).base = base /\ Option(Scalar(base)).base = base
    BY DEF Scalar, Option
  <1>3. \A n : /\ Named(n).named = n /\ Option(Named(n)).named = n
    BY DEF Named, Option, Scalar
  <1>4. CASE f.kind \in {"string", "uint32"}
    BY <1>1, <1>2, <1>4 DEF mapField, wrapOptional
  <1>5. CASE f.kind = "enum"
    BY <1>3, <1>5 DEF mapField, wrapOptional
  <1>6. CASE f.kind = "message"
    <2>1. mapField(f).type = Option(IF f.type = Timestamp THEN Scalar("string") ELSE Named(f.type.name))
      BY <1>6 DEF mapField
    <2> QED
      BY <1>2, <1>3, <1>6, <2>1
  <1> QED
    BY <1>1, <1>4, <1>5, <1>6

\* A field is left out when it is empty, or not.
LEMMA SkipIsBoolean ==
  ASSUME NEW f, Maps(f), f.optional \in BOOLEAN
  PROVE  mapField(f).skip \in BOOLEAN
  <1>1. f.kind \in {"string", "uint32", "enum", "message"}
    BY DEF Maps
  <1>2. \A type : wrapOptional(f, type).skip = f.optional
    BY DEF wrapOptional
  <1>3. CASE f.kind = "message"
    BY <1>3 DEF mapField
  <1>4. CASE f.kind # "message"
    BY <1>1, <1>2, <1>4 DEF mapField
  <1> QED
    BY <1>3, <1>4

\* A field that is left out when it is empty is an Option.
LEMMA SkippedIsOption ==
  ASSUME NEW f, Maps(f), f.optional \in BOOLEAN, mapField(f).skip
  PROVE  mapField(f).type.option
  <1>1. f.kind \in {"string", "uint32", "enum", "message"}
    BY DEF Maps
  <1>2. /\ \A base : Option(Scalar(base)).option = TRUE
        /\ \A n : Option(Named(n)).option = TRUE
    BY DEF Option, Named, Scalar
  <1>3. \A type : wrapOptional(f, type).skip = f.optional
    BY DEF wrapOptional
  <1>4. \A type : f.optional => wrapOptional(f, type).type = Option(type)
    BY DEF wrapOptional
  <1>5. CASE f.kind = "message"
    <2>1. mapField(f).type = Option(IF f.type = Timestamp THEN Scalar("string") ELSE Named(f.type.name))
      BY <1>5 DEF mapField
    <2> QED
      BY <1>2, <2>1
  <1>6. CASE f.kind # "message"
    <2>1. PICK type : /\ mapField(f).type = wrapOptional(f, type).type
                      /\ mapField(f).skip = wrapOptional(f, type).skip
                      /\ (\E base : type = Scalar(base)) \/ (\E n : type = Named(n))
      BY <1>1, <1>6 DEF mapField
    <2>2. f.optional
      BY <1>3, <2>1
    <2> QED
      BY <1>2, <1>4, <2>1, <2>2
  <1> QED
    BY <1>5, <1>6

\* An empty message is what the reader of its struct makes of it, and is written with
\* the keys of the fields that are not left out.
LEMMA EmptyHeld ==
  ASSUME NEW b, NEW n, n \notin DOMAIN b.enums
  PROVE  Holds(b, n, Empty)
  <1>1. TypeAt(b, n, <<>>) = Option(Named(n))
    <2>1. <<>> \in Seq({0}) /\ 0 \in {0}
      OBVIOUS
    <2> QED
      BY <2>1, TypeBelow
  <1>2. LET t == Option(Named(n))
        IN  t.base = "named" /\ t.named = n /\ t.card = "one" /\ t.option = TRUE
    BY DEF Option, Named, Scalar
  <1>3. DOMAIN Empty = {<<>>} /\ Empty[<<>>] = Obj
    BY DEF Empty
  <1>4. IsMessage(Empty)
    <2>1. <<>> \in Seq(Steps)
      OBVIOUS
    <2> QED
      BY <1>3, <2>1 DEF IsMessage
  <1>5. ReadLeaf(b, Option(Named(n)), Obj) = Obj
    BY <1>2 DEF ReadLeaf
  <1>6. Known(b, n, Empty) = {<<>>}
    BY <1>1, <1>2, <1>3 DEF Known
  <1>7. Obj # Fail
    BY DEF Obj, Fail
  <1>8. Read(b, n, Empty) = [p \in {<<>>} |-> Obj]
    <2> DEFINE val == [p \in {<<>>} |-> ReadLeaf(b, TypeAt(b, n, p), Empty[p])]
               kept == {p \in {<<>>} : LET type == TypeAt(b, n, p)
                                       IN  type.option \/ ~ AtDefault(b, type, Empty, p, val[p])}
    <2>1. val = [p \in {<<>>} |-> Obj]
      BY <1>1, <1>3, <1>5
    <2>2. kept = {<<>>}
      BY <1>1, <1>2
    <2>3. Read(b, n, Empty) = IF (\E p \in {<<>>} : val[p] = Fail) \/ (b.strict /\ {<<>>} # DOMAIN Empty)
                                THEN Refused ELSE [p \in kept |-> val[p]]
      BY <1>6 DEF Read
    <2> HIDE DEF val, kept
    <2> QED
      BY <1>3, <1>7, <2>1, <2>2, <2>3
  <1> QED
    BY <1>4, <1>8 DEF Holds, Empty

\* An empty message is written with the keys of the fields that are not left out.
LEMMA EmptyWritten ==
  ASSUME NEW b, NEW n \in DOMAIN b.structs, b.sparse = FALSE
  PROVE  DOMAIN Write(b, n, Empty)
           = {<<>>} \cup {<<f.key>> : f \in {g \in ToSet(b.structs[n]) : ~ g.skip}}
  <1> DEFINE shown(q) == {f \in Fields(b, TypeAt(b, n, q)) : ~ (b.sparse \/ f.skip)}
             added == UNION {{Append(q, f.key) : f \in shown(q)} : q \in DOMAIN Empty}
  <1>1. DOMAIN Write(b, n, Empty) = DOMAIN Empty \cup added
    BY DEF Write
  <1>2. DOMAIN Empty = {<<>>}
    BY DEF Empty
  <1>3. TypeAt(b, n, <<>>) = Option(Named(n))
    <2>1. <<>> \in Seq({0}) /\ 0 \in {0}
      OBVIOUS
    <2> QED
      BY <2>1, TypeBelow
  <1>4. Fields(b, Option(Named(n))) = ToSet(b.structs[n])
    BY DEF Fields, Option, Named, Scalar
  <1>5. shown(<<>>) = {g \in ToSet(b.structs[n]) : ~ g.skip}
    BY <1>3, <1>4
  <1>6. added = {Append(<<>>, f.key) : f \in shown(<<>>)}
    BY <1>2
  <1>7. \A x : Append(<<>>, x) = <<x>>
    OBVIOUS
  <1> HIDE DEF added, shown
  <1>8. added = {<<f.key>> : f \in shown(<<>>)}
    BY <1>6, <1>7
  <1> QED
    BY <1>1, <1>2, <1>5, <1>8

\* A struct with its Options Some of something is written with their keys.
LEMMA PresentWritten ==
  ASSUME NEW b, NEW n, NEW i \in DOMAIN b.structs[n], b.structs[n][i].type.option
  PROVE  <<b.structs[n][i].key>> \in DOMAIN Write(b, n, Present(b, n))
  <1>1. <<b.structs[n][i].key>> \in DOMAIN Present(b, n)
    BY DEF Present
  <1> QED
    BY <1>1 DEF Write

\* What a package of the crate is made from: well-formed enums and messages of known
\* shapes, no two of one name, whose types are among them.
Closed(few, files) ==
  /\ \A e \in EnumsOf(few) : WellFormedEnum(e)
  /\ \A e \in EnumsOf(few) : \A m \in MessagesOf(few) : e.ref.name # m.ref.name
  /\ \A m \in MessagesOf(few) :
       /\ WellFormedMessage(m, files) /\ Emits(m)
       /\ \A i \in DOMAIN m.fields :
            LET f == m.fields[i]
            IN  /\ f.kind = "enum" => f.type \in Refs(EnumsOf(few))
                /\ f.kind = "message" => f.type \in Refs(MessagesOf(few)) \cup {Timestamp}

\* Their names are those of one package and not taken, and they are of finite size.
Buildable(few, p) ==
  /\ \A t \in EnumsOf(few) \cup MessagesOf(few) : t.ref = Ref(p, t.ref.name) /\ t.ref.name \notin takenNames
  /\ \A m, w \in MessagesOf(few) : m.ref.name = w.ref.name => m = w
  /\ \A S \in SUBSET Refs(MessagesOf(few)) : S # {} =>
       \E m \in MessagesOf(few) : m.ref \in S /\ \A i \in DOMAIN m.fields : m.fields[i].type \notin S

\* The module of such a package compiles, and its tests pass.
LEMMA PackageBuilds ==
  ASSUME NEW few, NEW files, Closed(few, files), NEW pkg, Buildable(few, pkg)
  PROVE  Compiles(genPackage(few)) /\ TestsPass(genPackage(few))
  <1> DEFINE b == genPackage(few)
             enums == EnumsOf(few)
             msgs == MessagesOf(few)
             enum(n) == CHOOSE e \in enums : e.ref.name = n
             msg(n) == CHOOSE m \in msgs : m.ref.name = n
  <1>1. /\ b.enums = [n \in {e.ref.name : e \in enums} |-> genEnum(enum(n))]
        /\ b.structs = [n \in {m.ref.name : m \in msgs} |-> genMessage(msg(n))]
        /\ b.tests = genTests(enums, msgs) /\ b.strict = FALSE /\ b.sparse = FALSE
    BY DEF genPackage
  <1>2. /\ b.tests.enums = [n \in {e.ref.name : e \in enums} |-> enumInfo(enum(n))]
        /\ b.tests.msgs = [n \in {m.ref.name : m \in msgs} |-> msgInfo(msg(n))]
    BY <1>1 DEF genTests
  <1>3. /\ \A n \in {e.ref.name : e \in enums} : enum(n) \in enums
        /\ \A n \in {m.ref.name : m \in msgs} : msg(n) \in msgs
    OBVIOUS
  <1>4. /\ \A e \in enums : EnumBuilds(e)
        /\ \A m \in msgs : WellFormedMessage(m, files) /\ Emits(m)
    BY WellFormedEnumBuilds DEF Closed
  <1>5. \A m \in msgs : \A i \in DOMAIN m.fields :
          LET f == m.fields[i]
          IN  /\ f.kind = "enum" => f.type.name \in {e.ref.name : e \in enums}
              /\ f.kind = "message" /\ f.type # Timestamp => f.type.name \in {w.ref.name : w \in msgs}
    BY DEF Closed, Refs
  <1>a. /\ \A t \in enums \cup msgs : t.ref = Ref(pkg, t.ref.name) /\ t.ref.name \notin takenNames
        /\ \A m, w \in msgs : m.ref.name = w.ref.name => m = w
        /\ \A S \in SUBSET Refs(msgs) : S # {} =>
             \E m \in msgs : m.ref \in S /\ \A i \in DOMAIN m.fields : m.fields[i].type \notin S
        /\ \A m \in msgs : \A i \in DOMAIN m.fields :
             LET f == m.fields[i]
             IN  /\ f.kind = "enum" => f.type \in Refs(enums)
                 /\ f.kind = "message" => f.type \in Refs(msgs) \cup {Timestamp}
    BY DEF Buildable, Closed
  <1> HIDE DEF b, enums, msgs, enum, msg
  <1>6. \A n \in DOMAIN b.enums : /\ b.enums[n] = genEnum(enum(n)) /\ EnumBuilds(enum(n))
                                  /\ n \in DOMAIN b.tests.enums
                                  /\ b.tests.enums[n] = enumInfo(enum(n))
    BY <1>1, <1>2, <1>3, <1>4
  <1>7. \A n \in DOMAIN b.structs :
          /\ b.structs[n] = genMessage(msg(n)) /\ DOMAIN b.structs[n] = DOMAIN msg(n).fields
          /\ msg(n) \in msgs /\ WellFormedMessage(msg(n), files) /\ Emits(msg(n))
    BY <1>1, <1>3, <1>4 DEF genMessage
  <1>8. DOMAIN b.tests.enums = DOMAIN b.enums /\ DOMAIN b.tests.msgs = DOMAIN b.structs
    BY <1>1, <1>2
  <1>9. ASSUME NEW n \in DOMAIN b.structs, NEW i \in DOMAIN b.structs[n]
        PROVE  LET f == b.structs[n][i]
               IN  f.type.base = "named" => f.type.named \in DOMAIN b.enums \cup DOMAIN b.structs
    <2> DEFINE f == msg(n).fields[i]
    <2>1. b.structs[n][i] = mapField(f) /\ Maps(f) /\ msg(n) \in msgs /\ i \in DOMAIN msg(n).fields
      BY <1>7, <1>9 DEF genMessage, Emits
    <2>2. ASSUME mapField(f).type.base = "named"
          PROVE  mapField(f).type.named \in {e.ref.name : e \in enums} \cup {w.ref.name : w \in msgs}
      <3>1. /\ f.kind \in {"enum", "message"} /\ (f.kind = "message" => f.type # Timestamp)
            /\ mapField(f).type.named = f.type.name
        BY <2>1, <2>2, FieldNames
      <3> QED
        BY <1>5, <2>1, <3>1
    <2> HIDE DEF f
    <2> QED
      BY <1>1, <2>1, <2>2
  <1>b. ASSUME NEW S \in SUBSET DOMAIN b.structs, S # {}
        PROVE  \E n \in S : \A i \in DOMAIN b.structs[n] :
                 LET type == b.structs[n][i].type IN ~ (type.base = "named" /\ type.named \in S)
    <2> DEFINE R == {Ref(pkg, n) : n \in S}
    <2>0. \A n : Ref(pkg, n).name = n
      BY DEF Ref
    <2>1. R \in SUBSET Refs(msgs) /\ R # {}
      <3>1. \A n \in S : Ref(pkg, n) \in Refs(msgs)
        BY <1>1, <1>a DEF Refs
      <3> QED
        BY <1>b, <3>1
    <2> HIDE DEF R
    <2>2. PICK m \in msgs : m.ref \in R /\ \A i \in DOMAIN m.fields : m.fields[i].type \notin R
      BY <1>a, <2>1
    <2>3. PICK n \in S : n = m.ref.name
      BY <2>0, <2>2 DEF R
    <2>4. n \in DOMAIN b.structs /\ b.structs[n] = genMessage(m) /\ Emits(m)
      <3>1. msg(n) \in msgs /\ msg(n).ref.name = n
        BY <2>2, <2>3 DEF msg
      <3>2. msg(n) = m
        BY <1>a, <2>2, <2>3, <3>1
      <3> QED
        BY <1>7, <3>2
    <2>5. ASSUME NEW i \in DOMAIN b.structs[n], b.structs[n][i].type.base = "named",
                 b.structs[n][i].type.named \in S
          PROVE  FALSE
      <3> DEFINE f == m.fields[i]
      <3>1. i \in DOMAIN m.fields /\ b.structs[n][i] = mapField(f) /\ Maps(f)
        BY <2>4, <2>5 DEF genMessage, Emits
      <3>2. /\ f.kind \in {"enum", "message"} /\ (f.kind = "message" => f.type # Timestamp)
            /\ f.type.name \in S
        BY <2>5, <3>1, FieldNames
      <3>3. f.type \in Refs(enums) \cup Refs(msgs)
        BY <1>a, <2>2, <3>1, <3>2
      <3>4. f.type = Ref(pkg, f.type.name)
        BY <1>a, <3>3 DEF Refs
      <3>5. f.type \in R
        BY <3>2, <3>4 DEF R
      <3> QED
        BY <2>2, <3>1, <3>5
    <2> QED
      BY <2>5
  <1>c. (DOMAIN b.enums \cup DOMAIN b.structs) \cap takenNames = {}
    BY <1>1, <1>a
  <1>10. Compiles(b)
    <2>1. \A n \in DOMAIN b.enums :
            LET ids == [i \in DOMAIN b.enums[n].variants |-> b.enums[n].variants[i].ident]
            IN  IsInjective(ids) /\ <<Title("unknown")>> \notin ToSet(ids) /\ b.enums[n].default # <<>>
      BY <1>6 DEF EnumBuilds
    <2>2. \A n \in DOMAIN b.structs : \A i, j \in DOMAIN b.structs[n] :
            b.structs[n][i].name = b.structs[n][j].name => i = j
      BY <1>7, FieldsApart
    <2> QED
      BY <1>9, <1>b, <1>c, <2>1, <2>2 DEF Compiles
  <1>11. TestsPass(b)
    <2>1. ASSUME NEW n \in DOMAIN b.tests.enums
          PROVE  /\ [ident |-> b.tests.enums[n].ident, rename |-> b.tests.enums[n].value]
                      \in ToSet(b.enums[n].variants)
                 /\ ReadEnum(b.enums[n], <<"str", Alien>>) = Unknown
      BY <1>6, <1>8, <2>1 DEF EnumBuilds
    <2>2. ASSUME NEW n \in DOMAIN b.structs
          PROVE  Holds(b, n, Empty)
      <3>1. n \notin DOMAIN b.enums
        BY <1>1 DEF Closed, enums, msgs
      <3> QED
        BY <3>1, EmptyHeld
    <2>3. ASSUME NEW n \in DOMAIN b.structs, NEW t \in ToSet(b.tests.msgs[n])
          PROVE  /\ t.optional = (<<t.key>> \notin DOMAIN Write(b, n, Empty))
                 /\ t.optional => \E g \in ToSet(b.structs[n]) : g.name = t.name /\ g.type.option
                 /\ t.optional => <<t.key>> \in DOMAIN Write(b, n, Present(b, n))
      <3> DEFINE s == b.structs[n]
      <3>0. \A i \in DOMAIN s : s[i].skip \in BOOLEAN
        <4>1. \A i \in DOMAIN s : s[i] = mapField(msg(n).fields[i]) /\ i \in DOMAIN msg(n).fields
          BY <1>7, <2>3 DEF genMessage
        <4> QED
          BY <1>7, <2>3, <4>1, SkipIsBoolean DEF WellFormedMessage, Emits
      <3>1. DOMAIN Write(b, n, Empty) = {<<>>} \cup {<<g.key>> : g \in {g \in ToSet(s) : ~ g.skip}}
        BY <1>1, EmptyWritten
      <3>2. PICK i \in DOMAIN s : t.name = s[i].name /\ t.key = s[i].key /\ t.optional = s[i].skip
        <4>1. b.tests.msgs[n] = msgInfo(msg(n)) /\ s = genMessage(msg(n))
          BY <1>1, <1>2, <2>3
        <4>2. PICK i \in DOMAIN msg(n).fields : t = msgInfo(msg(n))[i]
          BY <2>3, <4>1 DEF ToSet, msgInfo
        <4>3. /\ i \in DOMAIN s /\ s[i] = mapField(msg(n).fields[i])
              /\ t = [name |-> mapField(msg(n).fields[i]).name, key |-> mapField(msg(n).fields[i]).key,
                      optional |-> mapField(msg(n).fields[i]).skip]
          BY <4>1, <4>2 DEF msgInfo, genMessage
        <4> QED
          BY <4>3
      <3>3. s[i].skip \in BOOLEAN
        BY <3>0, <3>2
      <3>8. s[i].skip => s[i].type.option
        <4>1. s[i] = mapField(msg(n).fields[i]) /\ i \in DOMAIN msg(n).fields
          BY <1>7, <2>3, <3>2 DEF genMessage
        <4> QED
          BY <1>7, <2>3, <4>1, SkippedIsOption DEF WellFormedMessage, Emits
      <3>9. /\ t.optional => \E g \in ToSet(s) : g.name = t.name /\ g.type.option
            /\ t.optional => <<t.key>> \in DOMAIN Write(b, n, Present(b, n))
        BY <3>2, <3>8, PresentWritten DEF ToSet
      <3>4. \A j \in DOMAIN s : s[j].key = s[i].key => i = j
        BY <1>7, FieldsApart
      <3> HIDE DEF s
      <3>5. t.key \in {g.key : g \in {g \in ToSet(s) : ~ g.skip}} <=> ~s[i].skip
        BY <3>2, <3>4 DEF ToSet
      <3>6. <<t.key>> # <<>> /\ \A x : <<t.key>> = <<x>> <=> t.key = x
        OBVIOUS
      <3>7. <<t.key>> \in DOMAIN Write(b, n, Empty) <=> t.key \in {g.key : g \in {g \in ToSet(s) : ~ g.skip}}
        BY <3>1, <3>6
      <3> QED
        BY <3>2, <3>3, <3>5, <3>7, <3>9 DEF s
    <2> QED
      BY <1>8, <2>1, <2>2, <2>3 DEF TestsPass
  <1> QED
    BY <1>10, <1>11 DEF b

\* What is declared in a sequence of files depends on the set of these only.
LEMMA DeclaredIn ==
  ASSUME NEW q
  PROVE  /\ \A e : e \in EnumsOf(q) <=> \E f \in ToSet(q) : e \in ToSet(f.enums)
         /\ \A m : m \in MessagesOf(q) <=> \E f \in ToSet(q) : m \in ToSet(f.messages)
  BY DEF EnumsOf, MessagesOf, ToSet

\* A type is known by its package and its name.
LEMMA TypesHaveNames ==
  ASSUME NEW files, WellFormed(files), NEW t \in EnumsOf(files) \cup MessagesOf(files)
  PROVE  t.ref = Ref(t.ref.pkg, t.ref.name)
  <1>1. PICK f \in ToSet(files) : t \in ToSet(f.enums) \cup ToSet(f.messages)
    BY DeclaredIn
  <1>2. t.ref = Ref(f.pkg, t.ref.name)
    BY <1>1 DEF WellFormed, ToSet
  <1>3. t.ref.pkg = f.pkg
    BY <1>2 DEF Ref
  <1> QED
    BY <1>2, <1>3

\* A package of which a file is generated for is there as a whole.
LEMMA PackagesWhole ==
  ASSUME NEW files, WellFormed(files), NEW q, NEW P,
         \A f : f \in ToSet(q) <=> f \in ToSet(files) /\ f.generate /\ f.pkg \in P
  PROVE  /\ EnumsOf(q) = {e \in EnumsOf(files) : e.ref.pkg \in Packages(q)}
         /\ MessagesOf(q) = {m \in MessagesOf(files) : m.ref.pkg \in Packages(q)}
  <1> DEFINE T == ToSet(files)
             S == ToSet(q)
  <1>1. /\ \A f, g \in T : f.pkg = g.pkg => f.generate = g.generate
        /\ \A f \in T : \A t \in ToSet(f.enums) \cup ToSet(f.messages) : t.ref.pkg = f.pkg
    <2>1. \A f \in T : \A t \in ToSet(f.enums) \cup ToSet(f.messages) : t.ref = Ref(f.pkg, t.ref.name)
      BY DEF WellFormed, ToSet
    <2>2. \A pkg, name : Ref(pkg, name).pkg = pkg
      BY DEF Ref
    <2>3. \A f, g \in T : f.pkg = g.pkg => f.generate = g.generate
      BY DEF WellFormed, ToSet
    <2> QED
      BY <2>1, <2>2, <2>3
  <1>2. Packages(q) = {f.pkg : f \in S}
    BY DEF Packages, ToSet
  <1> HIDE DEF S, T
  <1>3. \A f : f \in S <=> f \in T /\ f.pkg \in Packages(q)
    BY <1>1, <1>2 DEF S, T
  <1>4. /\ \A e : e \in EnumsOf(q) <=> \E f \in S : e \in ToSet(f.enums)
        /\ \A m : m \in MessagesOf(q) <=> \E f \in S : m \in ToSet(f.messages)
        /\ \A e : e \in EnumsOf(files) <=> \E f \in T : e \in ToSet(f.enums)
        /\ \A m : m \in MessagesOf(files) <=> \E f \in T : m \in ToSet(f.messages)
    BY DeclaredIn DEF S, T
  <1>5. \A e : e \in EnumsOf(q) <=> e \in EnumsOf(files) /\ e.ref.pkg \in Packages(q)
    BY <1>1, <1>3, <1>4
  <1>6. \A m : m \in MessagesOf(q) <=> m \in MessagesOf(files) /\ m.ref.pkg \in Packages(q)
    BY <1>1, <1>3, <1>4
  <1> QED
    BY <1>5, <1>6

\* What the Rust plugin makes a module of: one package of those it is asked for.
LEMMA PackageInScope ==
  ASSUME NEW files, WellFormed(files), NEW opts, NEW p \in Packages(InScope(files, opts))
  PROVE  LET few == OfPackages(InScope(files, opts), {p})
         IN  /\ EnumsOf(few) = {e \in EnumsOf(files) : e.ref.pkg = p}
             /\ MessagesOf(few) = {m \in MessagesOf(files) : m.ref.pkg = p}
             /\ MessagesOf(few) \subseteq MessagesOf(InScope(files, opts))
  <1> DEFINE T == ToSet(files)
             S == {f \in T : f.generate /\ f.pkg \in parsePackages(opts.packages)}
             scope == InScope(files, opts)
             ours == {f \in ToSet(scope) : f.pkg \in {p}}
             few == OfPackages(scope, {p})
  <1>1. scope \in Seq(T) /\ ToSet(scope) = S
    <2>1. files \in Seq(T)
      BY DEF WellFormed
    <2>2. scope = Within(files, S)
      BY DEF InScope
    <2> HIDE DEF scope, S
    <2>3. scope \in Seq(T) /\ ToSet(scope) = T \cap S
      BY <2>1, <2>2, WithinHas
    <2> QED
      BY <2>3 DEF S
  <1>2. ToSet(few) = ours
    <2>1. few = Within(scope, ours)
      BY DEF OfPackages
    <2> HIDE DEF scope, few, ours
    <2>2. ToSet(few) = ToSet(scope) \cap ours
      BY <1>1, <2>1, WithinHas
    <2> QED
      BY <2>2 DEF ours
  <1>3. PICK f0 \in S : f0.pkg = p
    <2>1. \E i \in DOMAIN scope : scope[i].pkg = p
      BY DEF Packages
    <2> HIDE DEF scope
    <2> QED
      BY <1>1, <2>1 DEF ToSet
  <1> HIDE DEF scope, few
  <1>4. ToSet(few) = {f \in T : f.generate /\ f.pkg \in {p}}
    BY <1>1, <1>2, <1>3
  <1>5. Packages(few) = {p}
    <2>1. Packages(few) = {f.pkg : f \in ToSet(few)}
      BY DEF Packages, ToSet
    <2>2. f0 \in ToSet(few) /\ \A f \in ToSet(few) : f.pkg = p
      BY <1>1, <1>2, <1>3
    <2> QED
      BY <1>3, <2>1, <2>2
  <1>6. /\ EnumsOf(few) = {e \in EnumsOf(files) : e.ref.pkg \in {p}}
        /\ MessagesOf(few) = {m \in MessagesOf(files) : m.ref.pkg \in {p}}
    <2> DEFINE P == {p}
    <2>1. \A f : f \in ToSet(few) <=> f \in ToSet(files) /\ f.generate /\ f.pkg \in P
      BY <1>4 DEF T
    <2> HIDE DEF P, T
    <2>2. /\ EnumsOf(few) = {e \in EnumsOf(files) : e.ref.pkg \in Packages(few)}
          /\ MessagesOf(few) = {m \in MessagesOf(files) : m.ref.pkg \in Packages(few)}
      BY <2>1, PackagesWhole
    <2> QED
      BY <1>5, <2>2
  <1>7. MessagesOf(few) \subseteq MessagesOf(scope)
    <2>1. ToSet(few) \subseteq ToSet(scope)
      BY <1>2
    <2> QED
      BY <2>1, DeclaredIn
  <1> QED
    BY <1>6, <1>7 DEF few, scope

\* What self-contained and well-formed types have: names of their own, and among them
\* the types of their fields, apart from Timestamp.
LEMMA PackageClosed ==
  ASSUME NEW files, WellFormed(files), NEW opts, NEW p \in Packages(InScope(files, opts)),
         \A m \in MessagesOf(InScope(files, opts)) : Emits(m),
         \A m \in MessagesOf(InScope(files, opts)) : \A i \in DOMAIN m.fields :
           m.fields[i].type \in {NoRef, Timestamp} \/ m.fields[i].type.pkg = m.ref.pkg
  PROVE  Closed(OfPackages(InScope(files, opts), {p}), files)
  <1> DEFINE few == OfPackages(InScope(files, opts), {p})
  <1>1. /\ EnumsOf(few) = {e \in EnumsOf(files) : e.ref.pkg = p}
        /\ MessagesOf(few) = {m \in MessagesOf(files) : m.ref.pkg = p}
        /\ \A m \in MessagesOf(few) :
             /\ Emits(m)
             /\ \A i \in DOMAIN m.fields :
                  m.fields[i].type \in {NoRef, Timestamp} \/ m.fields[i].type.pkg = m.ref.pkg
    BY PackageInScope
  <1> HIDE DEF few
  <1>2. /\ \A e \in EnumsOf(files) : WellFormedEnum(e)
        /\ \A m \in MessagesOf(files) : WellFormedMessage(m, files)
        /\ \A t \in EnumsOf(files) \cup MessagesOf(files) :
             t.ref.pkg # NoRef.pkg /\ t.ref.pkg # Timestamp.pkg /\ Timestamp.pkg = Google
    BY DEF WellFormed, Timestamp, Ref
  <1>3. \A e \in EnumsOf(few) : \A m \in MessagesOf(few) : e.ref.name # m.ref.name
    <2> SUFFICES ASSUME NEW e \in EnumsOf(few), NEW m \in MessagesOf(few), e.ref.name = m.ref.name
                 PROVE  FALSE
      OBVIOUS
    <2>1. e \in EnumsOf(files) /\ m \in MessagesOf(files) /\ e.ref.pkg = p /\ m.ref.pkg = p
      BY <1>1
    <2>2. e.ref = Ref(p, e.ref.name) /\ m.ref = Ref(p, m.ref.name)
      BY <2>1, TypesHaveNames
    <2>3. e.ref \in Refs(EnumsOf(files)) /\ e.ref \in Refs(MessagesOf(files))
      BY <2>1, <2>2 DEF Refs
    <2> QED
      BY <2>3 DEF WellFormed
  <1>4. ASSUME NEW m \in MessagesOf(few), NEW i \in DOMAIN m.fields
        PROVE  LET f == m.fields[i]
               IN  /\ f.kind = "enum" => f.type \in Refs(EnumsOf(few))
                   /\ f.kind = "message" => f.type \in Refs(MessagesOf(few)) \cup {Timestamp}
    <2> DEFINE f == m.fields[i]
    <2>1. /\ m \in MessagesOf(files) /\ m.ref.pkg = p
          /\ f.type \in {NoRef, Timestamp} \/ f.type.pkg = p
          /\ f.kind = "enum" => f.type \in Refs(EnumsOf(files))
          /\ f.kind = "message" => f.type \in Refs(MessagesOf(files)) \/ f.type.pkg = Google
      BY <1>1, <1>2 DEF WellFormedMessage
    <2>2. m.ref.pkg # Google /\ NoRef.pkg # Google
      BY <1>2, <2>1 DEF NoRef, Ref, Google
    <2> HIDE DEF f
    <2>3. ASSUME f.kind = "enum" PROVE f.type \in Refs(EnumsOf(few))
      BY <1>1, <1>2, <2>1, <2>3 DEF Refs
    <2>4. ASSUME f.kind = "message" PROVE f.type \in Refs(MessagesOf(few)) \cup {Timestamp}
      BY <1>1, <1>2, <2>1, <2>2, <2>4 DEF Refs
    <2> QED
      BY <2>3, <2>4 DEF f
  <1>5. Closed(few, files)
    BY <1>1, <1>2, <1>3, <1>4 DEF Closed
  <1> QED
    BY <1>5 DEF few

\* What is true of the messages in scope is true of those of one package of them.
LEMMA PackageBuildable ==
  ASSUME history \in Histories, NEW v \in 1..Len(history.versions), Finite(v), Nameable(v),
         NEW p \in Packages(Spoken(v))
  PROVE  Buildable(OfPackages(Spoken(v), {p}), p)
  <1> DEFINE files == Contract(v)
             scope == Spoken(v)
             few == OfPackages(scope, {p})
             E == EnumsOf(few)
             M == MessagesOf(few)
  <1>1. WellFormed(files)
    BY HistoryAssumption DEF Contract
  <1>2. /\ E = {e \in EnumsOf(files) : e.ref.pkg = p} /\ M = {m \in MessagesOf(files) : m.ref.pkg = p}
        /\ M \subseteq MessagesOf(scope)
    BY <1>1, PackageInScope DEF Spoken
  <1>3. E \subseteq EnumsOf(scope)
    <2>1. few = Within(scope, {f \in ToSet(scope) : f.pkg \in {p}})
      BY DEF OfPackages
    <2>2. scope \in Seq(ToSet(files))
      BY <1>1, WithinHas DEF Spoken, InScope, WellFormed
    <2> HIDE DEF scope, few
    <2>3. ToSet(few) \subseteq ToSet(scope)
      BY <2>1, <2>2, WithinHas
    <2> QED
      BY <2>3, DeclaredIn
  <1>4. ASSUME NEW t \in E \cup M PROVE t.ref = Ref(p, t.ref.name) /\ t.ref.name \notin takenNames
    <2>1. t \in EnumsOf(files) \cup MessagesOf(files) /\ t.ref.pkg = p
      BY <1>2
    <2>2. t.ref = Ref(t.ref.pkg, t.ref.name)
      BY <1>1, <2>1, TypesHaveNames
    <2>3. t \in EnumsOf(scope) \cup MessagesOf(scope)
      BY <1>2, <1>3
    <2> QED
      BY <2>1, <2>2, <2>3 DEF Nameable
  <1>5. ASSUME NEW m \in M, NEW w \in M, m.ref.name = w.ref.name PROVE m = w
    <2>1. m.ref = w.ref
      BY <1>4, <1>5
    <2> QED
      BY <1>1, <1>2, <2>1 DEF WellFormed
  <1>6. ASSUME NEW S \in SUBSET Refs(M), S # {}
        PROVE  \E m \in M : m.ref \in S /\ \A i \in DOMAIN m.fields : m.fields[i].type \notin S
    <2>1. S \in SUBSET Refs(MessagesOf(scope))
      BY <1>2 DEF Refs
    <2>2. PICK m \in MessagesOf(scope) : m.ref \in S /\ \A i \in DOMAIN m.fields : m.fields[i].type \notin S
      BY <1>6, <2>1 DEF Finite
    <2>3. m.ref.pkg = p
      BY <1>2, <2>2 DEF Refs
    <2>4. MessagesOf(scope) \subseteq MessagesOf(files)
      <3>1. scope = Within(files, {f \in ToSet(files) : f.generate /\ f.pkg \in parsePackages(history.opts.packages)})
        BY DEF Spoken, InScope
      <3>2. files \in Seq(ToSet(files))
        BY <1>1 DEF WellFormed
      <3> HIDE DEF scope, files
      <3>3. ToSet(scope) \subseteq ToSet(files)
        BY <3>1, <3>2, WithinHas
      <3> QED
        BY <3>3, DeclaredIn
    <2>5. m \in M
      BY <1>2, <2>3, <2>4
    <2> QED
      BY <2>2, <2>5
  <1> QED
    BY <1>4, <1>5, <1>6 DEF Buildable

\* A crate that is written from expressible packages has legal modules, which build.
LEMMA CrateBuilds ==
  ASSUME history \in Histories, NEW v \in 1..Len(history.versions), NEW it \in Iterations,
         NEW c, c = RunRust(v, it), c.status = "ok", Expressible(v)
  PROVE  /\ ModulesNamed(c)
         /\ \A p \in DOMAIN c.packages : Compiles(c.packages[p]) /\ TestsPass(c.packages[p])
  <1> DEFINE files == Contract(v)
             scope == Spoken(v)
             pkgs == Packages(scope)
  <1>1. WellFormed(files)
    BY HistoryAssumption DEF Contract
  <1>0. MadeFrom(c, files, history.opts, it)
    BY CrateParts DEF RunRust, Contract
  <1>2. /\ pkgs \in SUBSET Seq(ToSet(Lexicon)) /\ TreeFits(pkgs)
        /\ \A m \in MessagesOf(scope) : Emits(m)
        /\ c.mods = genModuleTree(pkgs, it)
        /\ c.packages = [p \in pkgs |-> genPackage(OfPackages(scope, {p}))]
    BY <1>0 DEF MadeFrom, Spoken
  <1>3. ModulesNamed(c)
    <2>1. \A p \in pkgs : ToSet(p) \cap reservedModules = {} /\ p[1] \notin cargoTargets
      BY DEF Expressible, Nameable
    <2> HIDE DEF pkgs
    <2> QED
      BY <1>2, <2>1, TreeIsNamed
  <1>4. ASSUME NEW p \in pkgs
        PROVE  Compiles(genPackage(OfPackages(scope, {p}))) /\ TestsPass(genPackage(OfPackages(scope, {p})))
    <2>1. Closed(OfPackages(scope, {p}), files)
      BY <1>1, <1>2, PackageClosed DEF Expressible, SelfContained, Spoken
    <2>2. Buildable(OfPackages(scope, {p}), p)
      BY PackageBuildable DEF Expressible
    <2> HIDE DEF scope, files
    <2> QED
      BY <2>1, <2>2, PackageBuilds
  <1> HIDE DEF pkgs
  <1> QED
    BY <1>2, <1>3, <1>4

-----------------------------------------------------------------------------
(* The two harnesses of one lifecycle                                      *)

\* The states that the two generators find are the same.
LEMMA SameTables ==
  ASSUME NEW e, 0 \in Numbers(e), Numbers(e) \subseteq Nat
  PROVE  LET go == goHarness(e)
             py == pyHarness(e)
             active == {n \in Numbers(e) : n \in 1..19}
         IN  /\ DOMAIN go.dispatch = active /\ go.states = active /\ go.zero = 0
             /\ DOMAIN py.dispatch = active /\ DOMAIN py.names = active /\ py.zero = 0
  <1> DEFINE active == {n \in Numbers(e) : n \in 1..19}
  <1>1. Numbers(e) = {v.number : v \in ToSet(e.values)}
    BY DEF Numbers, ToSet
  <1>2. {s.number : s \in activeStates(e)} = active
    <2>1. \A v : Bound(v, e).number = v.number
      BY DEF Bound
    <2>2. \A v \in ToSet(e.values) : v.number \in Nat
      BY <1>1
    <2>3. \A v \in ToSet(e.values) : v.number > 0 /\ v.number < 20 <=> v.number \in 1..19
      BY <2>2
    <2> QED
      BY <1>1, <2>1, <2>3 DEF activeStates
  <1>3. {v.number : v \in {v \in ToSet(e.values) : v.number # 0 /\ v.number < 20}} = active
    <2>1. \A v \in ToSet(e.values) : v.number \in Nat
      BY <1>1
    <2>2. \A v \in ToSet(e.values) : v.number # 0 /\ v.number < 20 <=> v.number \in 1..19
      BY <2>1
    <2> QED
      BY <1>1, <2>2
  <1>4. Zeros(e) # {} /\ \A v \in Zeros(e) : v.number = 0
    BY <1>1 DEF Zeros
  <1>5. zeroIdent(e).number = 0 /\ (CHOOSE v \in Zeros(e) : TRUE).number = 0
    BY <1>4 DEF zeroIdent
  <1> HIDE DEF active
  <1>6. DOMAIN goHarness(e).dispatch = active /\ goHarness(e).states = active /\ goHarness(e).zero = 0
    BY <1>2, <1>5 DEF goHarness
  <1>7. DOMAIN pyHarness(e).dispatch = active /\ DOMAIN pyHarness(e).names = active /\ pyHarness(e).zero = 0
    BY <1>3, <1>5 DEF pyHarness
  <1> QED
    BY <1>6, <1>7 DEF active

\* So a step of the one is a step of the other, and stays among the active states.
LEMMA StepsAlike ==
  ASSUME NEW e, 0 \in Numbers(e), Numbers(e) \subseteq Nat, NEW cur, NEW next
  PROVE  /\ Step(goHarness(e), cur, next) = step(pyHarness(e), cur, next)
         /\ Step(goHarness(e), cur, next).state \in {cur} \cup {n \in Numbers(e) : n \in 1..19}
  BY SameTables DEF Step, step, Outcome

-----------------------------------------------------------------------------
(* The inductive invariant                                                 *)

\* The committed crate is what some run of the plugin writes from its version.
Written ==
  IF crate.from = 0 THEN crate.out = NoCrate
  ELSE \E it \in Iterations : crate.out = RunRust(crate.from, it)

\* Nothing is made from a version that is yet to come; the bento is in an active state
\* of the newest lifecycle if this has no negative number, or still in the first one.
EvolutionInv ==
  /\ history \in Histories
  /\ head \in 1..Len(history.versions) /\ swift \in 1..head
  /\ crate.from \in 0..head /\ pinned.from \in 0..crate.from
  /\ harness \in [{"go", "python"} -> 1..head]
  /\ Written /\ DriftMeansStale
  /\ IF Lifecycle(head) = {} THEN bento = 1
     ELSE Unsigned(head) => bento \in Numbers(BentoEnum(head)) /\ bento \in 1..19

\* Two versions of one history.
LEMMA LifecycleGrows ==
  ASSUME history \in Histories, NEW v \in 1..Len(history.versions), Lifecycle(v) # {},
         NEW w \in v..Len(history.versions)
  PROVE  /\ Lifecycle(w) # {} /\ Numbers(BentoEnum(v)) \subseteq Numbers(BentoEnum(w))
         /\ {0, 1} \subseteq Numbers(BentoEnum(v))
         /\ Unsigned(w) => Numbers(BentoEnum(v)) \subseteq Nat /\ Unsigned(v)
  <1>1. BentoEnum(v) \in LifecycleOf(history.versions[v])
    BY DEF BentoEnum, Lifecycle, Contract
  <1>2. /\ LifecycleOf(history.versions[w]) # {}
        /\ \A later \in LifecycleOf(history.versions[w]) : Numbers(BentoEnum(v)) \subseteq Numbers(later)
        /\ {0, 1} \subseteq Numbers(BentoEnum(v)) /\ Numbers(BentoEnum(v)) \subseteq Int
    BY <1>1, HistoryAssumption
  <1>3. BentoEnum(w) \in LifecycleOf(history.versions[w])
    BY <1>2 DEF BentoEnum, Lifecycle, Contract
  <1>4. Lifecycle(w) # {} /\ Numbers(BentoEnum(v)) \subseteq Numbers(BentoEnum(w))
    BY <1>2, <1>3 DEF Lifecycle, Contract
  <1>5. Unsigned(w) => \A n \in Numbers(BentoEnum(v)) : n \in Int /\ n >= 0
    BY <1>2, <1>4 DEF Unsigned
  <1> QED
    BY <1>2, <1>4, <1>5 DEF Unsigned

\* A first version, and nothing made from it.
LEMMA EvolutionStarts == EvolutionInit => EvolutionInv
  <1> SUFFICES ASSUME EvolutionInit PROVE EvolutionInv
    OBVIOUS
  <1> USE DEF EvolutionInit
  <1>1. Len(history.versions) \in Nat \ {0}
    BY HistoryAssumption
  <1>2. harness \in [{"go", "python"} -> 1..head]
    OBVIOUS
  <1>3. DriftMeansStale
    BY DEF DriftMeansStale, None
  <1>4. Lifecycle(head) # {} => bento \in Numbers(BentoEnum(head)) /\ bento \in 1..19
    BY <1>1, LifecycleGrows
  <1> QED
    BY <1>1, <1>2, <1>3, <1>4 DEF EvolutionInv, Written

\* A version more, and nothing else.
LEMMA GrowsSafely == EvolutionInv /\ Evolve => EvolutionInv'
  <1> SUFFICES ASSUME EvolutionInv, Evolve PROVE EvolutionInv'
    OBVIOUS
  <1>1. /\ history' = history /\ head' = head + 1 /\ crate' = crate /\ pinned' = pinned
        /\ swift' = swift /\ gate' = gate /\ bento' = bento /\ harness' = harness
        /\ head < Len(history.versions) /\ Len(history.versions) \in Nat
    BY HistoryAssumption DEF Evolve, code, walk, EvolutionInv
  <1>2. head' \in 1..Len(history.versions) /\ head \in 1..Len(history.versions) /\ head \in Nat
    BY <1>1 DEF EvolutionInv
  <1>3. head' \in head..Len(history.versions)
    BY <1>1, <1>2
  <1>4. /\ swift' \in 1..head' /\ crate'.from \in 0..head' /\ pinned'.from \in 0..crate'.from
        /\ harness' \in [{"go", "python"} -> 1..head']
    BY <1>1, <1>2 DEF EvolutionInv
  <1>5. \A v : /\ Lifecycle(v)' = Lifecycle(v) /\ BentoEnum(v)' = BentoEnum(v)
               /\ Unsigned(v)' = Unsigned(v) /\ \A it : RunRust(v, it)' = RunRust(v, it)
    BY <1>1 DEF Unsigned, Lifecycle, BentoEnum, RunRust, Contract
  <1>6. Written'
    <2>1. PICK c : c = crate
      OBVIOUS
    <2>2. crate' = c /\ \A it : RunRust(c.from, it)' = RunRust(c.from, it)
      BY <1>1, <1>5, <2>1
    <2> QED
      BY <2>1, <2>2 DEF EvolutionInv, Written
  <1>7. PICK next : next = head + 1
    OBVIOUS
  <1>8. IF Lifecycle(next) = {} THEN bento = 1
        ELSE Unsigned(next) => bento \in Numbers(BentoEnum(next)) /\ bento \in 1..19
    <2>1. CASE Lifecycle(head) # {}
      BY <1>1, <1>2, <1>3, <1>7, <2>1, LifecycleGrows DEF EvolutionInv
    <2>2. CASE Lifecycle(head) = {}
      <3>1. bento = 1
        BY <2>2 DEF EvolutionInv
      <3>2. Lifecycle(next) # {} => 1 \in Numbers(BentoEnum(next))
        BY <1>1, <1>2, <1>7, LifecycleGrows DEF EvolutionInv
      <3> QED
        BY <3>1, <3>2
    <2> QED
      BY <2>1, <2>2
  <1>9. (IF Lifecycle(head) = {} THEN bento = 1
         ELSE Unsigned(head) => bento \in Numbers(BentoEnum(head)) /\ bento \in 1..19)'
    BY <1>1, <1>7, <1>8 DEF Unsigned, Lifecycle, BentoEnum, Contract
  <1> QED
    BY <1>1, <1>2, <1>4, <1>6, <1>9 DEF EvolutionInv, DriftMeansStale

\* A step of either harness, of whatever age, to an active state of its version or none.
LEMMA WalksSafely ==
  ASSUME EvolutionInv, NEW v \in {harness.go, harness.python}, NEW state, Walk(state),
         Unsigned(v) /\ Lifecycle(v) # {} =>
           state \in {bento} \cup {n \in Numbers(BentoEnum(v)) : n \in 1..19}
  PROVE  EvolutionInv'
  <1>1. /\ history.follows = "bento" /\ history' = history /\ head' = head /\ crate' = crate
        /\ pinned' = pinned /\ swift' = swift /\ gate' = gate /\ harness' = harness
        /\ bento' = state
    BY DEF Walk, code
  <1>2. v \in 1..head /\ head \in 1..Len(history.versions) /\ Len(history.versions) \in Nat \ {0}
    BY HistoryAssumption DEF EvolutionInv
  <1>3. LifecycleOf(history.versions[1]) # {}
    BY <1>1, HistoryAssumption DEF EvolutionInv
  <1>4. v \in 1..Len(history.versions) /\ head \in v..Len(history.versions) /\ 1 \in 1..Len(history.versions)
    BY <1>2
  <1>5. Lifecycle(v) # {}
    <2>1. Lifecycle(1) # {}
      BY <1>3 DEF Lifecycle, Contract
    <2> QED
      BY <1>4, <2>1, LifecycleGrows DEF EvolutionInv
  <1>6. /\ Lifecycle(head) # {} /\ Numbers(BentoEnum(v)) \subseteq Numbers(BentoEnum(head))
        /\ Unsigned(head) => Unsigned(v)
    BY <1>4, <1>5, LifecycleGrows DEF EvolutionInv
  <1>7. Unsigned(head) => bento' \in 1..19 /\ bento' \in Numbers(BentoEnum(head))
    BY <1>1, <1>5, <1>6 DEF EvolutionInv
  <1>8. /\ Lifecycle(head)' = Lifecycle(head) /\ BentoEnum(head)' = BentoEnum(head)
        /\ Unsigned(head)' = Unsigned(head) /\ \A w, it : RunRust(w, it)' = RunRust(w, it)
    BY <1>1 DEF Unsigned, Lifecycle, BentoEnum, RunRust, Contract
  <1>9. Written'
    <2>1. PICK c : c = crate
      OBVIOUS
    <2>2. crate' = c /\ \A it : RunRust(c.from, it)' = RunRust(c.from, it)
      BY <1>1, <1>8, <2>1
    <2> QED
      BY <2>1, <2>2 DEF EvolutionInv, Written
  <1> QED
    BY <1>1, <1>6, <1>7, <1>8, <1>9 DEF EvolutionInv, DriftMeansStale

\* A step that changes neither the contract nor the bento.
LEMMA ContractStays ==
  ASSUME EvolutionInv, UNCHANGED <<history, head, bento>>,
         swift' \in 1..head, crate'.from \in 0..head, pinned'.from \in 0..crate'.from,
         harness' \in [{"go", "python"} -> 1..head], DriftMeansStale',
         IF crate'.from = 0 THEN crate'.out = NoCrate
         ELSE \E it \in Iterations : crate'.out = RunRust(crate'.from, it)
  PROVE  EvolutionInv'
  <1>1. /\ Lifecycle(head)' = Lifecycle(head) /\ BentoEnum(head)' = BentoEnum(head)
        /\ Unsigned(head)' = Unsigned(head) /\ \A w, it : RunRust(w, it)' = RunRust(w, it)
    BY DEF Unsigned, Lifecycle, BentoEnum, RunRust, Contract
  <1>2. Written'
    <2>1. PICK c : c = crate'
      OBVIOUS
    <2>2. \A it : RunRust(c.from, it)' = RunRust(c.from, it)
      BY <1>1
    <2> QED
      BY <2>1, <2>2 DEF Written
  <1> QED
    BY <1>1, <1>2 DEF EvolutionInv

\* The two harnesses of a version without negative numbers.
LEMMA HarnessesOfOne ==
  ASSUME EvolutionInv, NEW v \in {harness.go, harness.python}, NEW next, Unsigned(v), Lifecycle(v) # {}
  PROVE  /\ Step(goHarness(BentoEnum(v)), bento, next) = step(pyHarness(BentoEnum(v)), bento, next)
         /\ Step(goHarness(BentoEnum(v)), bento, next).state
              \in {bento} \cup {n \in Numbers(BentoEnum(v)) : n \in 1..19}
  <1>1. v \in 1..Len(history.versions) /\ v \in v..Len(history.versions) /\ history \in Histories
    BY HistoryAssumption DEF EvolutionInv
  <1>2. {0, 1} \subseteq Numbers(BentoEnum(v)) /\ Numbers(BentoEnum(v)) \subseteq Nat
    BY <1>1, LifecycleGrows
  <1> QED
    BY <1>2, StepsAlike

\* Every step keeps the invariant.
LEMMA EvolutionStep == EvolutionInv /\ [EvolutionNext]_evolutionVars => EvolutionInv'
  <1> SUFFICES ASSUME EvolutionInv, [EvolutionNext]_evolutionVars PROVE EvolutionInv'
    OBVIOUS
  <1>0. /\ head \in 1..Len(history.versions) /\ Len(history.versions) \in Nat /\ head \in Nat /\ head >= 1
        /\ crate.from \in 0..head /\ pinned.from \in 0..crate.from /\ swift \in 1..head
        /\ harness \in [{"go", "python"} -> 1..head]
        /\ IF crate.from = 0 THEN crate.out = NoCrate
           ELSE \E it \in Iterations : crate.out = RunRust(crate.from, it)
    BY HistoryAssumption DEF EvolutionInv, Written
  <1>1. CASE Evolve
    BY <1>1, GrowsSafely
  <1>2. CASE PinCrate
    <2>1. pinned'.from \in 0..crate.from
      BY <1>0, <1>2 DEF PinCrate
    <2> QED
      BY <1>0, <1>2, <2>1, ContractStays DEF PinCrate, walk, EvolutionInv, DriftMeansStale
  <1>3. CASE RebuildSwift
    <2>1. swift' \in 1..head
      BY <1>0, <1>3 DEF RebuildSwift
    <2> QED
      BY <1>0, <1>3, <2>1, ContractStays DEF RebuildSwift, walk, EvolutionInv, DriftMeansStale
  <1>4. ASSUME NEW it \in Iterations, BufGenerate(it) PROVE EvolutionInv'
    <2>1. crate' = [from |-> head, out |-> RunRust(head, it)]
      BY <1>4 DEF BufGenerate
    <2>2. crate'.from = head /\ crate'.out = RunRust(head, it)
      BY <2>1
    <2>3. pinned'.from \in 0..head
      BY <1>0, <1>4 DEF BufGenerate
    <2> QED
      BY <1>0, <1>4, <2>2, <2>3, ContractStays DEF BufGenerate, walk, EvolutionInv, DriftMeansStale
  <1>5. ASSUME NEW it \in Iterations, DriftGate(it) PROVE EvolutionInv'
    <2>1. /\ gate' = [is   |-> CASE RunRust(head, it).status # "ok" -> "refused"
                                 [] RunRust(head, it) = crate.out   -> "clean"
                                 [] OTHER                           -> "drift",
                      head |-> head, from |-> crate.from]
          /\ UNCHANGED <<history, head, crate, pinned, swift, bento, harness>>
      BY <1>5 DEF DriftGate, walk
    <2>2. ASSUME crate.from = head PROVE RunRust(head, it) = crate.out
      <3>1. PICK other \in Iterations : crate.out = RunRust(head, other)
        BY <1>0, <2>2
      <3> QED
        BY <3>1, CrateAlike DEF RunRust
    <2>3. DriftMeansStale'
      <3>1. CASE crate.from = head
        <4>1. gate'.is \in {"refused", "clean"}
          BY <2>1, <2>2, <3>1
        <4> QED
          BY <4>1 DEF DriftMeansStale
      <3>2. CASE crate.from # head
        BY <2>1, <3>2 DEF DriftMeansStale
      <3> QED
        BY <3>1, <3>2
    <2> QED
      BY <1>0, <2>1, <2>3, ContractStays
  <1>6. ASSUME NEW lang \in {"go", "python"}, RebuildHarness(lang) PROVE EvolutionInv'
    <2>1. harness' \in [{"go", "python"} -> 1..head]
      BY <1>0, <1>6 DEF RebuildHarness
    <2> QED
      BY <1>0, <1>6, <2>1, ContractStays DEF RebuildHarness, code, EvolutionInv, DriftMeansStale
  <1>7. ASSUME NEW v \in {harness.go, harness.python}, NEW next, Unsigned(v) /\ Lifecycle(v) # {}
        PROVE  /\ Step(goHarness(BentoEnum(v)), bento, next) = step(pyHarness(BentoEnum(v)), bento, next)
               /\ Step(goHarness(BentoEnum(v)), bento, next).state
                    \in {bento} \cup {n \in Numbers(BentoEnum(v)) : n \in 1..19}
    BY <1>7, HarnessesOfOne
  <1>8. ASSUME NEW next, StepGo(next) \/ StepPython(next) PROVE EvolutionInv'
    <2>1. CASE StepGo(next)
      BY <1>7, <2>1, WalksSafely DEF StepGo
    <2>2. CASE StepPython(next)
      BY <1>7, <2>2, WalksSafely DEF StepPython
    <2> QED
      BY <1>8, <2>1, <2>2
  <1>9. CASE UNCHANGED evolutionVars
    BY <1>0, <1>9, ContractStays DEF evolutionVars, code, walk, EvolutionInv, DriftMeansStale
  <1> QED
    BY <1>1, <1>2, <1>3, <1>4, <1>5, <1>6, <1>8, <1>9 DEF EvolutionNext

\* The invariant holds of every contract that grows, whatever is rebuilt when.
THEOREM EvolutionInvariant == EvolutionSpec => []EvolutionInv
  BY EvolutionStarts, EvolutionStep, PTL DEF EvolutionSpec

-----------------------------------------------------------------------------
(* What the invariant gives                                                *)

\* The drift gate reports drift only on a crate made from another version, for any
\* contract and any orders in which the two runs iterate over their maps.
THEOREM DriftGateIsRight == EvolutionSpec => []DriftMeansStale
  BY EvolutionInvariant, PTL DEF EvolutionInv

\* A committed crate is one that the plugin writes from a version of the contract.
LEMMA CommittedIsWritten ==
  ASSUME EvolutionInv, crate.out.status = "ok"
  PROVE  /\ history \in Histories /\ crate.from \in 1..Len(history.versions)
         /\ \E it \in Iterations : crate.out = RustCrate(history.versions[crate.from], history.opts, it)
  <1>1. crate.from # 0
    BY DEF EvolutionInv, Written, NoCrate
  <1>2. crate.from \in 1..Len(history.versions)
    BY <1>1, HistoryAssumption DEF EvolutionInv
  <1> QED
    BY <1>1, <1>2 DEF EvolutionInv, Written, RunRust, Contract

\* A committed crate declares every module it has and has every one it declares, and
\* no field of it is named by a word that Rust reserves, for any allowlist of packages.
THEOREM CommittedCrateIsLinked == EvolutionSpec => []CrateLinked
  <1>1. EvolutionInv => CrateLinked
    BY CommittedIsWritten, CrateIsLinked DEF CrateLinked
  <1> QED
    BY <1>1, EvolutionInvariant, PTL

\* A committed crate of expressible packages builds and passes the tests written with it,
\* for any contract and allowlist: modules, types and identifiers have legal and distinct
\* names, each enum has a default, each named type is defined, no struct is infinite, an
\* alien value reads as Unknown, an empty message is written with exactly the keys that
\* are not optional, and an Option that is there with its key.
THEOREM CommittedCrateBuilds == EvolutionSpec => []CratePassesItsTests
  <1>1. EvolutionInv /\ CrateLinked => CratePassesItsTests
    <2> SUFFICES ASSUME EvolutionInv, crate.out.status = "ok", Expressible(crate.from)
                 PROVE  /\ ModulesNamed(crate.out)
                        /\ \A p \in DOMAIN crate.out.packages :
                             Compiles(crate.out.packages[p]) /\ TestsPass(crate.out.packages[p])
      BY DEF CratePassesItsTests
    <2>1. /\ history \in Histories /\ crate.from \in 1..Len(history.versions)
          /\ \E it \in Iterations : crate.out = RunRust(crate.from, it)
      BY CommittedIsWritten DEF RunRust, Contract
    <2> QED
      BY <2>1, CrateBuilds
  <1> QED
    BY <1>1, EvolutionInvariant, CommittedCrateIsLinked, PTL

\* For every contract whose lifecycle has no negative number: the harness generated in Go
\* and the one generated in Python do the same with a bento, in every state it can be in
\* and for everything a handler returns.
THEOREM HarnessesAgree == EvolutionSpec => []HarnessParity
  <1>1. EvolutionInv => HarnessParity
    BY HarnessesOfOne DEF HarnessParity
  <1> QED
    BY <1>1, EvolutionInvariant, PTL

\* For every contract that only grows and harnesses of any age: a bento is always in an
\* active state of the newest version, if this has no negative number (so none had).
THEOREM BentoIsActive == EvolutionSpec => []BentoStaysActive
  <1>1. EvolutionInv => BentoStaysActive
    BY DEF EvolutionInv, BentoStaysActive, Numbers
  <1> QED
    BY <1>1, EvolutionInvariant, PTL

-----------------------------------------------------------------------------
(* Types at both ends, and of two versions                                 *)

\* What the Go types of a contract are like: no enum is a message, keys are distinct and
\* are no places of a list, a named type is declared or Google's, and what has no
\* presence is no message.
Fits(g, t) ==
  /\ t = [base |-> t.base, named |-> t.named, card |-> t.card, option |-> t.option]
  /\ t.base \in {"string", "u32", "named"} /\ t.card \in {"one", "list", "map"} /\ t.option \in BOOLEAN
  /\ t.base = "named" => t.named \in DOMAIN g.enums \cup DOMAIN g.structs \/ t.named.pkg = Google
  /\ t.base = "named" /\ t.card = "one" /\ ~ t.option => t.named \in DOMAIN g.enums

Sound(g) ==
  /\ \A r \in DOMAIN g.structs : r \notin DOMAIN g.enums
  /\ \A r \in DOMAIN g.structs \cup DOMAIN g.enums : r.pkg # Google
  /\ \A r \in DOMAIN g.structs : \A i \in DOMAIN g.structs[r] :
       LET f == g.structs[r][i]
       IN  /\ f.key \in Steps /\ f.key \notin Places /\ Fits(g, f.type)
           /\ \A j \in DOMAIN g.structs[r] : g.structs[r][j].key = f.key => i = j
  /\ \A r \in DOMAIN g.enums : /\ g.enums[r].default \in g.enums[r].known
                               /\ <<"Unknown">> \notin g.enums[r].known
                               /\ g.enums[r].other = FALSE
  /\ g.strict = TRUE /\ g.sparse = TRUE

\* A consumer's type and the Go type of the same field; N are the types that the
\* consumer's module declares, by their names alone.
Alike(t, u, N) ==
  /\ t.base = u.base /\ t.card = u.card /\ t.option = u.option
  /\ u.base = "named" => u.named \in N /\ t.named = u.named.name

Conforms(b, g, N) ==
  /\ b.strict = FALSE /\ b.sparse = FALSE
  /\ \A r \in N : /\ r \in DOMAIN g.structs <=> r.name \in DOMAIN b.structs
                  /\ r \in DOMAIN g.enums <=> r.name \in DOMAIN b.enums
                  /\ r \in DOMAIN g.structs \/ r \in DOMAIN g.enums
                  /\ r \in DOMAIN g.structs =>
                       /\ DOMAIN b.structs[r.name] = DOMAIN g.structs[r]
                       /\ \A i \in DOMAIN g.structs[r] :
                            /\ b.structs[r.name][i].key = g.structs[r][i].key
                            /\ Alike(b.structs[r.name][i].type, g.structs[r][i].type, N)
                            /\ b.structs[r.name][i].skip = b.structs[r.name][i].type.option
                  /\ r \in DOMAIN g.enums =>
                       /\ b.enums[r.name].known = g.enums[r].known
                       /\ b.enums[r.name].default = g.enums[r].default

\* A later version has the fields and the enum values of an earlier one.
Extends(g, h) ==
  /\ \A r \in DOMAIN g.structs :
       /\ r \in DOMAIN h.structs
       /\ \A i \in DOMAIN g.structs[r] : \E j \in DOMAIN h.structs[r] : h.structs[r][j] = g.structs[r][i]
  /\ \A r \in DOMAIN g.enums :
       /\ r \in DOMAIN h.enums /\ g.enums[r].known \subseteq h.enums[r].known
       /\ g.enums[r].default = h.enums[r].default

\* The three ways that a step from a type can go.
LEMMA BelowList ==
  ASSUME NEW b, NEW t, NEW x, t.card = "list", x \in Places
  PROVE  Below(b, t, x) = [Option(t) EXCEPT !.card = "one"]
  BY DEF Below

LEMMA BelowField ==
  ASSUME NEW b, NEW t, t.base = "named", t.card = "one", t.named \in DOMAIN b.structs,
         NEW i \in DOMAIN b.structs[t.named],
         \A j \in DOMAIN b.structs[t.named] :
           b.structs[t.named][j].key = b.structs[t.named][i].key => i = j
  PROVE  Below(b, t, b.structs[t.named][i].key) = b.structs[t.named][i].type
  <1> DEFINE fs == b.structs[t.named]
             x == fs[i].key
  <1>1. Fields(b, t) = ToSet(fs) /\ fs[i] \in ToSet(fs)
    BY DEF Fields, ToSet
  <1>2. \A f \in ToSet(fs) : f.key = x => f = fs[i]
    BY DEF ToSet
  <1>3. (CHOOSE f \in Fields(b, t) : f.key = x) = fs[i]
    <2> HIDE DEF fs
    <2> QED
      BY <1>1, <1>2
  <1> HIDE DEF fs, x
  <1>4. Below(b, t, x) = fs[i].type
    <2>1. fs[i].key = x
      BY DEF x
    <2> QED
      BY <1>1, <1>3, <2>1 DEF Below
  <1> QED
    BY <1>4 DEF fs, x

LEMMA BelowNothing ==
  ASSUME NEW b, NEW t, NEW x, ~(t.card = "list" /\ x \in Places),
         ~(t.base = "named" /\ t.card = "one" /\ t.named \in DOMAIN b.structs
             /\ \E i \in DOMAIN b.structs[t.named] : b.structs[t.named][i].key = x)
  PROVE  Below(b, t, x) = NoType /\ Below(b, t, x).base = "none"
  <1>1. ~ \E f \in Fields(b, t) : f.key = x
    BY DEF Fields, ToSet
  <1>2. NoType.base = "none"
    BY DEF NoType, Scalar
  <1> QED
    BY <1>1, <1>2 DEF Below

\* One step down, a consumer's type and Go's are still alike.
LEMMA BelowAlike ==
  ASSUME NEW b, NEW g, NEW N, Conforms(b, g, N), Sound(g), NEW t, NEW u, Alike(t, u, N), NEW x
  PROVE  Alike(Below(b, t, x), Below(g, u, x), N)
  <1>1. t.base = u.base /\ t.card = u.card /\ t.option = u.option
    BY DEF Alike
  <1>2. CASE u.card = "list" /\ x \in Places
    <2>1. /\ Below(b, t, x) = [Option(t) EXCEPT !.card = "one"]
          /\ Below(g, u, x) = [Option(u) EXCEPT !.card = "one"]
      BY <1>1, <1>2, BelowList
    <2> QED
      BY <1>1, <2>1 DEF Alike, Option
  <1>3. CASE u.base = "named" /\ u.card = "one" /\ u.named \in DOMAIN g.structs
               /\ \E i \in DOMAIN g.structs[u.named] : g.structs[u.named][i].key = x
    <2>1. PICK i \in DOMAIN g.structs[u.named] : g.structs[u.named][i].key = x
      BY <1>3
    <2>2. u.named \in N /\ t.named = u.named.name /\ u.named \in DOMAIN g.structs
      BY <1>3 DEF Alike
    <2>3. /\ t.named \in DOMAIN b.structs /\ DOMAIN b.structs[t.named] = DOMAIN g.structs[u.named]
          /\ \A j \in DOMAIN g.structs[u.named] :
               /\ b.structs[t.named][j].key = g.structs[u.named][j].key
               /\ Alike(b.structs[t.named][j].type, g.structs[u.named][j].type, N)
      BY <2>2 DEF Conforms
    <2>4. \A j \in DOMAIN g.structs[u.named] : g.structs[u.named][j].key = x => i = j
      BY <1>3, <2>1 DEF Sound
    <2>5. Below(g, u, x) = g.structs[u.named][i].type
      BY <1>3, <2>1, <2>4, BelowField
    <2>6. /\ t.base = "named" /\ t.card = "one" /\ i \in DOMAIN b.structs[t.named]
          /\ b.structs[t.named][i].key = x
          /\ \A j \in DOMAIN b.structs[t.named] :
               b.structs[t.named][j].key = b.structs[t.named][i].key => i = j
      BY <1>1, <1>3, <2>1, <2>3, <2>4
    <2>7. Below(b, t, x) = b.structs[t.named][i].type
      BY <2>3, <2>6, BelowField
    <2> QED
      BY <2>1, <2>3, <2>5, <2>7
  <1>4. CASE /\ ~(u.card = "list" /\ x \in Places)
             /\ ~(u.base = "named" /\ u.card = "one" /\ u.named \in DOMAIN g.structs
                    /\ \E i \in DOMAIN g.structs[u.named] : g.structs[u.named][i].key = x)
    <2>1. Below(g, u, x) = NoType
      BY <1>4, BelowNothing
    <2>2. ~(t.base = "named" /\ t.card = "one" /\ t.named \in DOMAIN b.structs
              /\ \E i \in DOMAIN b.structs[t.named] : b.structs[t.named][i].key = x)
      BY <1>1, <1>4 DEF Alike, Conforms
    <2>3. Below(b, t, x) = NoType
      BY <1>1, <1>4, <2>2, BelowNothing
    <2> QED
      BY <2>1, <2>3 DEF Alike, NoType, Scalar
  <1> QED
    BY <1>2, <1>3, <1>4

\* Along any path the consumer's types are like the Go types of its version.
LEMMA TypesAlike ==
  ASSUME NEW b, NEW g, NEW N, Conforms(b, g, N), Sound(g), NEW r \in N, NEW p, Len(p) \in Nat
  PROVE  Alike(TypeAt(b, r.name, p), TypeAt(g, r, p), N)
  <1> DEFINE at == Along(b, r.name, p)
             go == Along(g, r, p)
             P == {n \in Nat : n <= Len(p) => Alike(at[n], go[n], N)}
  <1>1. /\ at[0] = Option(Named(r.name)) /\ go[0] = Option(Named(r))
        /\ \A n \in 0..Len(p) : n < Len(p) => at[n + 1] = Below(b, at[n], p[n + 1])
        /\ \A n \in 0..Len(p) : n < Len(p) => go[n + 1] = Below(g, go[n], p[n + 1])
        /\ TypeAt(b, r.name, p) = at[Len(p)] /\ TypeAt(g, r, p) = go[Len(p)]
    BY TypesAlong
  <1> HIDE DEF at, go
  <1>2. 0 \in P
    BY <1>1 DEF Alike, Option, Named, Scalar
  <1>3. ASSUME NEW n \in Nat, n < Len(p), n \in P PROVE n + 1 \in P
    <2>1. Alike(at[n], go[n], N) /\ n \in 0..Len(p)
      BY <1>3
    <2>2. Alike(Below(b, at[n], p[n + 1]), Below(g, go[n], p[n + 1]), N)
      BY <2>1, BelowAlike
    <2> QED
      BY <1>1, <1>3, <2>1, <2>2
  <1>4. Len(p) \in P
    <2> HIDE DEF P
    <2> QED
      BY <1>2, <1>3, UpTo
  <1> QED
    BY <1>1, <1>4

\* A path that leads anywhere in the earlier version leads to the same type in the later.
LEMMA TypesKept ==
  ASSUME NEW g, NEW h, Sound(g), Sound(h), Extends(g, h), NEW r, NEW p, Len(p) \in Nat
  PROVE  TypeAt(g, r, p) = NoType \/ TypeAt(h, r, p) = TypeAt(g, r, p)
  <1> DEFINE at == Along(g, r, p)
             far == Along(h, r, p)
             P == {n \in Nat : n <= Len(p) => at[n] = NoType \/ far[n] = at[n]}
  <1>1. /\ at[0] = Option(Named(r)) /\ far[0] = Option(Named(r))
        /\ \A n \in 0..Len(p) : n < Len(p) => at[n + 1] = Below(g, at[n], p[n + 1])
        /\ \A n \in 0..Len(p) : n < Len(p) => far[n + 1] = Below(h, far[n], p[n + 1])
        /\ TypeAt(g, r, p) = at[Len(p)] /\ TypeAt(h, r, p) = far[Len(p)]
    BY TypesAlong
  <1> HIDE DEF at, far
  <1>2. 0 \in P
    BY <1>1
  <1>3. ASSUME NEW n \in Nat, n < Len(p), n \in P PROVE n + 1 \in P
    <2>1. n \in 0..Len(p) /\ (at[n] = NoType \/ far[n] = at[n])
      BY <1>3
    <2>2. at[n + 1] = Below(g, at[n], p[n + 1]) /\ far[n + 1] = Below(h, far[n], p[n + 1])
      BY <1>1, <1>3, <2>1
    <2>0. NoType.base = "none" /\ NoType.card = "one"
      BY DEF NoType, Scalar
    <2> DEFINE t == at[n]
               x == p[n + 1]
    <2>3. CASE t.card = "list" /\ x \in Places
      <3>1. far[n] = t
        BY <2>0, <2>1, <2>3
      <3>2. Below(g, t, x) = [Option(t) EXCEPT !.card = "one"] /\ Below(h, t, x) = [Option(t) EXCEPT !.card = "one"]
        BY <2>3, BelowList
      <3> QED
        BY <2>2, <3>1, <3>2
    <2>4. CASE t.base = "named" /\ t.card = "one" /\ t.named \in DOMAIN g.structs
                 /\ \E i \in DOMAIN g.structs[t.named] : g.structs[t.named][i].key = x
      <3>0. far[n] = t
        BY <2>0, <2>1, <2>4
      <3> HIDE DEF t, x
      <3>1. PICK i \in DOMAIN g.structs[t.named] : g.structs[t.named][i].key = x
        BY <2>4
      <3>2. /\ t.named \in DOMAIN h.structs
            /\ \E j \in DOMAIN h.structs[t.named] : h.structs[t.named][j] = g.structs[t.named][i]
        BY <2>4, <3>1 DEF Extends
      <3>3. PICK j \in DOMAIN h.structs[t.named] : h.structs[t.named][j] = g.structs[t.named][i]
        BY <3>2
      <3>4. /\ \A k \in DOMAIN g.structs[t.named] : g.structs[t.named][k].key = x => i = k
            /\ \A k \in DOMAIN h.structs[t.named] : h.structs[t.named][k].key = x => j = k
        BY <2>4, <3>1, <3>2, <3>3 DEF Sound
      <3>5. Below(g, t, x) = g.structs[t.named][i].type
        BY <2>4, <3>1, <3>4, BelowField
      <3>6. Below(h, t, x) = h.structs[t.named][j].type
        BY <2>4, <3>1, <3>2, <3>3, <3>4, BelowField
      <3>7. at[n + 1] = far[n + 1]
        BY <2>2, <3>0, <3>3, <3>5, <3>6 DEF t, x
      <3> QED
        BY <3>7
    <2>5. CASE /\ ~(t.card = "list" /\ x \in Places)
               /\ ~(t.base = "named" /\ t.card = "one" /\ t.named \in DOMAIN g.structs
                      /\ \E i \in DOMAIN g.structs[t.named] : g.structs[t.named][i].key = x)
      <3>1. Below(g, t, x) = NoType
        BY <2>5, BelowNothing
      <3> QED
        BY <2>2, <3>1
    <2> QED
      BY <2>3, <2>4, <2>5
  <1>4. Len(p) \in P
    <2> HIDE DEF P
    <2> QED
      BY <1>2, <1>3, UpTo
  <1> QED
    BY <1>1, <1>4

\* Every type on the way is one of the contract.
LEMMA BelowFits ==
  ASSUME NEW g, Sound(g), NEW t, Fits(g, t), NEW x
  PROVE  Below(g, t, x) = NoType \/ Fits(g, Below(g, t, x))
  <1>1. CASE t.card = "list" /\ x \in Places
    <2>1. Below(g, t, x) = [Option(t) EXCEPT !.card = "one"]
      BY <1>1, BelowList
    <2>2. t = [base |-> t.base, named |-> t.named, card |-> t.card, option |-> t.option]
      BY DEF Fits
    <2>3. Below(g, t, x) = [base |-> t.base, named |-> t.named, card |-> "one", option |-> TRUE]
      BY <2>1, <2>2 DEF Option
    <2> QED
      BY <2>3 DEF Fits
  <1>2. CASE t.base = "named" /\ t.card = "one" /\ t.named \in DOMAIN g.structs
               /\ \E i \in DOMAIN g.structs[t.named] : g.structs[t.named][i].key = x
    <2>1. PICK i \in DOMAIN g.structs[t.named] : g.structs[t.named][i].key = x
      BY <1>2
    <2>2. /\ \A k \in DOMAIN g.structs[t.named] : g.structs[t.named][k].key = x => i = k
          /\ Fits(g, g.structs[t.named][i].type)
      BY <1>2, <2>1 DEF Sound
    <2>3. Below(g, t, x) = g.structs[t.named][i].type
      BY <1>2, <2>1, <2>2, BelowField
    <2> QED
      BY <2>2, <2>3
  <1>3. CASE /\ ~(t.card = "list" /\ x \in Places)
             /\ ~(t.base = "named" /\ t.card = "one" /\ t.named \in DOMAIN g.structs
                    /\ \E i \in DOMAIN g.structs[t.named] : g.structs[t.named][i].key = x)
    BY <1>3, BelowNothing
  <1> QED
    BY <1>1, <1>2, <1>3

\* Where a path leads in the Go types, it leads to a type that fits.
LEMMA TypesFit ==
  ASSUME NEW g, Sound(g), NEW r \in DOMAIN g.structs, NEW p, Len(p) \in Nat
  PROVE  TypeAt(g, r, p) = NoType \/ Fits(g, TypeAt(g, r, p))
  <1> DEFINE at == Along(g, r, p)
             P == {n \in Nat : n <= Len(p) => at[n] = NoType \/ Fits(g, at[n])}
  <1>1. /\ at[0] = Option(Named(r))
        /\ \A n \in 0..Len(p) : n < Len(p) => at[n + 1] = Below(g, at[n], p[n + 1])
        /\ TypeAt(g, r, p) = at[Len(p)]
    BY TypesAlong
  <1> HIDE DEF at
  <1>2. 0 \in P
    BY <1>1 DEF Fits, Option, Named, Scalar
  <1>3. ASSUME NEW n \in Nat, n < Len(p), n \in P PROVE n + 1 \in P
    <2>1. n \in 0..Len(p) /\ (at[n] = NoType \/ Fits(g, at[n]))
      BY <1>3
    <2>2. at[n + 1] = Below(g, at[n], p[n + 1])
      BY <1>1, <1>3, <2>1
    <2>3. CASE at[n] = NoType
      <3>1. NoType.base = "none" /\ NoType.card = "one"
        BY DEF NoType, Scalar
      <3>2. Below(g, NoType, p[n + 1]) = NoType
        BY <3>1, BelowNothing
      <3> QED
        BY <2>2, <2>3, <3>2
    <2>4. CASE Fits(g, at[n])
      BY <2>2, <2>4, BelowFits
    <2> QED
      BY <2>1, <2>3, <2>4
  <1>4. Len(p) \in P
    <2> HIDE DEF P
    <2> QED
      BY <1>2, <1>3, UpTo
  <1> QED
    BY <1>1, <1>4

-----------------------------------------------------------------------------
(* A value at both ends, and in two versions                               *)

IsEnum(g, t) == t.base = "named" /\ t.card = "one" /\ t.named \in DOMAIN g.enums

\* What is read at a type that is no enum depends on no types.
LEMMA PlainLeaf ==
  ASSUME NEW g, NEW b, NEW t, NEW u, ~ IsEnum(g, t), ~ IsEnum(b, u), t.base = u.base, t.card = u.card,
         NEW j
  PROVE  ReadLeaf(g, t, j) = ReadLeaf(b, u, j) /\ ReadLeaf(g, t, j) \in {j, Fail}
  BY DEF ReadLeaf, IsEnum

\* A string of an enum is what it is, if it is a value of the enum.
LEMMA EnumLeaf ==
  ASSUME NEW b, NEW t, IsEnum(b, t), NEW j
  PROVE  ReadLeaf(b, t, j) = IF j[1] = "str" /\ j[2] \in b.enums[t.named].known THEN j
                             ELSE IF j[1] = "str" /\ b.enums[t.named].other THEN Unknown ELSE Fail
  BY DEF ReadLeaf, IsEnum, ReadEnum

\* Of two versions the one is later: a type that both have is an enum in both.
LEMMA SameEnums ==
  ASSUME NEW g, NEW h, Sound(g), Sound(h), Extends(g, h) \/ Extends(h, g), NEW t, Fits(g, t), Fits(h, t)
  PROVE  IsEnum(g, t) <=> IsEnum(h, t)
  <1>1. ASSUME NEW x, NEW y, Sound(x), Sound(y), Extends(x, y), Fits(x, t), Fits(y, t)
        PROVE  IsEnum(x, t) <=> IsEnum(y, t)
    <2>1. ASSUME IsEnum(x, t) PROVE IsEnum(y, t)
      BY <1>1, <2>1 DEF IsEnum, Extends
    <2>2. ASSUME IsEnum(y, t) PROVE IsEnum(x, t)
      <3>1. t.named \in DOMAIN y.enums /\ t.named.pkg # Google /\ t.base = "named" /\ t.card = "one"
        BY <1>1, <2>2 DEF IsEnum, Sound
      <3>2. t.named \in DOMAIN x.enums \cup DOMAIN x.structs
        BY <1>1, <3>1 DEF Fits
      <3>3. t.named \notin DOMAIN x.structs
        BY <1>1, <3>1 DEF Extends, Sound
      <3> QED
        BY <3>1, <3>2, <3>3 DEF IsEnum
    <2> QED
      BY <2>1, <2>2
  <1> QED
    BY <1>1

\* What one version can hold at a type, another holds as it is, but for a value that an
\* earlier enum does not have.
LEMMA LeafAcross ==
  ASSUME NEW g, NEW h, Sound(g), Sound(h), Extends(g, h) \/ Extends(h, g), NEW t, Fits(g, t), Fits(h, t),
         NEW j, ReadLeaf(g, t, j) = j, j # Fail
  PROVE  \/ ReadLeaf(h, t, j) = j
         \/ /\ ReadLeaf(h, t, j) = Fail /\ ~ Extends(g, h)
            /\ IsEnum(h, t) /\ j[1] = "str" /\ j[2] \notin h.enums[t.named].known
  <1>1. IsEnum(g, t) <=> IsEnum(h, t)
    BY SameEnums
  <1>2. CASE ~ IsEnum(g, t)
    BY <1>1, <1>2, PlainLeaf
  <1>3. CASE IsEnum(g, t)
    <2>0. IsEnum(h, t)
      BY <1>1, <1>3
    <2>1. g.enums[t.named].other = FALSE /\ h.enums[t.named].other = FALSE
      BY <1>3, <2>0 DEF Sound, IsEnum
    <2>2. j[1] = "str" /\ j[2] \in g.enums[t.named].known
      BY <1>3, <2>1, EnumLeaf
    <2>3. ReadLeaf(h, t, j) = IF j[2] \in h.enums[t.named].known THEN j ELSE Fail
      BY <2>0, <2>1, <2>2, EnumLeaf
    <2>4. Extends(g, h) => j[2] \in h.enums[t.named].known
      BY <1>3, <2>2 DEF Extends, IsEnum
    <2> QED
      BY <2>0, <2>2, <2>3, <2>4
  <1> QED
    BY <1>2, <1>3

\* A consumer reads what Go of its version reads; at an enum it may have a catch-all.
LEMMA LeafAlike ==
  ASSUME NEW b, NEW g, NEW N, Conforms(b, g, N), Sound(g), NEW t, NEW u, Alike(t, u, N), Fits(g, u),
         NEW j
  PROVE  /\ IsEnum(b, t) <=> IsEnum(g, u)
         /\ ReadLeaf(g, u, j) # Fail => ReadLeaf(b, t, j) = ReadLeaf(g, u, j)
         /\ ReadLeaf(g, u, j) = Fail =>
              ReadLeaf(b, t, j) = IF IsEnum(g, u) /\ j[1] = "str" /\ b.enums[t.named].other
                                    THEN Unknown ELSE Fail
  <1>1. IsEnum(b, t) <=> IsEnum(g, u)
    BY DEF IsEnum, Alike, Conforms
  <1>2. CASE ~ IsEnum(g, u)
    <2>1. ReadLeaf(b, t, j) = ReadLeaf(g, u, j)
      BY <1>1, <1>2, PlainLeaf DEF Alike
    <2> QED
      BY <1>1, <1>2, <2>1
  <1>3. CASE IsEnum(g, u)
    <2>1. g.enums[u.named].other = FALSE /\ b.enums[t.named].known = g.enums[u.named].known
      BY <1>1, <1>3 DEF IsEnum, Alike, Conforms, Sound
    <2>2. ReadLeaf(g, u, j) = IF j[1] = "str" /\ j[2] \in g.enums[u.named].known THEN j ELSE Fail
      BY <1>3, <2>1, EnumLeaf
    <2>3. ReadLeaf(b, t, j) = IF j[1] = "str" /\ j[2] \in g.enums[u.named].known THEN j
                              ELSE IF j[1] = "str" /\ b.enums[t.named].other THEN Unknown ELSE Fail
      BY <1>1, <1>3, <2>1, EnumLeaf
    <2>4. Fail[1] # "str"
      BY DEF Fail
    <2> QED
      BY <1>1, <1>3, <2>2, <2>3, <2>4
  <1> QED
    BY <1>2, <1>3

\* A default is the same at both ends and in every version, and each can be read.
LEMMA DefaultLeaf ==
  ASSUME NEW g, Sound(g), NEW t, Fits(g, t), ~ t.option
  PROVE  /\ ReadLeaf(g, t, DefaultOf(g, t)) = DefaultOf(g, t) /\ DefaultOf(g, t) # Fail
         /\ IsEnum(g, t) => DefaultOf(g, t) = <<"str", g.enums[t.named].default>>
  <1>1. /\ Arr # Fail /\ <<"map", <<>>>> # Fail /\ <<"str", <<>>>> # Fail /\ <<"num", 0>> # Fail
        /\ \A d : <<"str", d>> # Fail
    BY DEF Arr, Fail
  <1>2. CASE IsEnum(g, t)
    <2>1. t.base = "named" /\ t.card = "one"
      BY <1>2 DEF IsEnum
    <2>2. DefaultOf(g, t) = <<"str", g.enums[t.named].default>>
      BY <2>1 DEF DefaultOf
    <2>3. g.enums[t.named].default \in g.enums[t.named].known
      BY <1>2 DEF IsEnum, Sound
    <2>4. ReadLeaf(g, t, DefaultOf(g, t)) = DefaultOf(g, t)
      BY <1>2, <2>2, <2>3, EnumLeaf
    <2> QED
      BY <1>1, <2>2, <2>4
  <1>3. CASE ~ IsEnum(g, t)
    <2>1. t.card \in {"list", "map"} \/ t.base \in {"string", "u32"}
      BY <1>3 DEF Fits, IsEnum
    <2> QED
      BY <1>1, <1>3, <2>1 DEF ReadLeaf, DefaultOf, IsEnum
  <1> QED
    BY <1>2, <1>3

\* A type has one default in two versions.
LEMMA DefaultsAcross ==
  ASSUME NEW g, NEW h, Sound(g), Sound(h), Extends(g, h) \/ Extends(h, g), NEW t, Fits(g, t), Fits(h, t),
         ~ t.option
  PROVE  DefaultOf(g, t) = DefaultOf(h, t)
  <1>1. IsEnum(g, t) <=> IsEnum(h, t)
    BY SameEnums
  <1>2. CASE IsEnum(g, t)
    <2>1. IsEnum(h, t)
      BY <1>1, <1>2
    <2>2. g.enums[t.named].default = h.enums[t.named].default
      BY <1>2, <2>1 DEF Extends, IsEnum
    <2> QED
      BY <1>2, <2>1, <2>2, DefaultLeaf
  <1>3. CASE ~ IsEnum(g, t)
    <2>1. t.card \in {"list", "map"} \/ t.base \in {"string", "u32"}
      BY <1>3 DEF Fits, IsEnum
    <2> QED
      BY <2>1 DEF DefaultOf
  <1> QED
    BY <1>2, <1>3

\* A consumer has Go's default of a type, and for an enum it is a declared value.
LEMMA DefaultsAlike ==
  ASSUME NEW b, NEW g, NEW N, Conforms(b, g, N), Sound(g), NEW t, NEW u, Alike(t, u, N), Fits(g, u),
         ~ u.option
  PROVE  DefaultOf(b, t) = DefaultOf(g, u) /\ (IsEnum(g, u) => DefaultOf(b, t) # Unknown)
  <1>1. CASE IsEnum(g, u)
    <2>1. /\ t.base = "named" /\ t.card = "one" /\ b.enums[t.named].default = g.enums[u.named].default
          /\ g.enums[u.named].default # <<"Unknown">>
      BY <1>1 DEF IsEnum, Alike, Conforms, Sound
    <2>2. DefaultOf(b, t) = <<"str", g.enums[u.named].default>>
      BY <2>1 DEF DefaultOf
    <2>3. <<"str", g.enums[u.named].default>> # Unknown
      BY <2>1 DEF Unknown
    <2> QED
      BY <1>1, <2>2, <2>3, DefaultLeaf
  <1>2. CASE ~ IsEnum(g, u)
    <2>1. u.card \in {"list", "map"} \/ u.base \in {"string", "u32"}
      BY <1>2 DEF Fits, IsEnum
    <2> QED
      BY <1>2, <2>1 DEF DefaultOf, Alike
  <1> QED
    BY <1>1, <1>2

-----------------------------------------------------------------------------
(* A message there and back                                                *)

\* What it is for Go to hold a message of type r.
Carries(g, r, m) ==
  /\ <<>> \in DOMAIN m /\ m = [p \in DOMAIN m |-> m[p]]
  /\ \A p \in DOMAIN m :
       /\ p \in Seq(Steps) /\ (p # <<>> => Front(p) \in DOMAIN m)
       /\ LET t == TypeAt(g, r, p)
          IN  /\ Fits(g, t) /\ ReadLeaf(g, t, m[p]) = m[p] /\ m[p] # Fail
              /\ t.option \/ ~ AtDefault(g, t, m, p, m[p])

\* What a program can hold is what Read gives back.
LEMMA HeldIs ==
  ASSUME NEW g, Sound(g), NEW r \in DOMAIN g.structs, NEW m, Holds(g, r, m)
  PROVE  Carries(g, r, m)
  <1> DEFINE known == Known(g, r, m)
             val == [p \in known |-> ReadLeaf(g, TypeAt(g, r, p), m[p])]
             kept == {p \in known : LET type == TypeAt(g, r, p)
                                    IN  type.option \/ ~ AtDefault(g, type, m, p, val[p])}
             read == [p \in kept |-> val[p]]
             refuses == (\E p \in known : val[p] = Fail) \/ (g.strict /\ known # DOMAIN m)
  <1>1. /\ <<>> \in DOMAIN m /\ \A p \in DOMAIN m : p \in Seq(Steps)
        /\ \A p \in DOMAIN m : p # <<>> => Front(p) \in DOMAIN m
    BY DEF Holds, IsMessage
  <1>2. m = IF refuses THEN Refused ELSE read
    BY DEF Holds, Read
  <1>3. m # Refused
    BY <1>1 DEF Refused
  <1>4. g.strict = TRUE
    BY DEF Sound
  <1>5. m = read /\ known = DOMAIN m /\ \A p \in known : val[p] # Fail
    <2> HIDE DEF read, known, val
    <2> QED
      BY <1>2, <1>3, <1>4
  <1>6. DOMAIN m = kept
    <2> HIDE DEF kept, val
    <2> QED
      BY <1>5
  <1>7. m = [p \in DOMAIN m |-> m[p]]
    <2> HIDE DEF kept, val
    <2> QED
      BY <1>5, <1>6
  <1>8. ASSUME NEW p \in DOMAIN m
        PROVE  LET t == TypeAt(g, r, p)
               IN  /\ Fits(g, t) /\ ReadLeaf(g, t, m[p]) = m[p] /\ m[p] # Fail
                   /\ t.option \/ ~ AtDefault(g, t, m, p, m[p])
    <2> DEFINE t == TypeAt(g, r, p)
    <2>1. p \in known /\ t.base # "none"
      BY <1>5 DEF Known
    <2>2. Fits(g, t)
      <3>1. Len(p) \in Nat
        BY <1>1
      <3>2. NoType.base = "none"
        BY DEF NoType, Scalar
      <3>3. t = NoType \/ Fits(g, t)
        BY <3>1, TypesFit
      <3> QED
        BY <2>1, <3>2, <3>3
    <2>3. m[p] = val[p] /\ val[p] = ReadLeaf(g, t, m[p]) /\ val[p] # Fail
      <3>1. val[p] = ReadLeaf(g, t, m[p])
        BY <2>1
      <3> HIDE DEF known, val
      <3> QED
        BY <1>5, <1>6, <3>1
    <2>4. t.option \/ ~ AtDefault(g, t, m, p, val[p])
      <3>1. p \in kept
        BY <1>6
      <3> HIDE DEF val, known
      <3> QED
        BY <3>1
    <2> HIDE DEF t, val
    <2> QED
      BY <2>2, <2>3, <2>4 DEF t
  <1> QED
    BY <1>1, <1>7, <1>8 DEF Carries

\* protojson writes what there is.
LEMMA WrittenAsHeld ==
  ASSUME NEW g, Sound(g), NEW r, NEW m, m = [p \in DOMAIN m |-> m[p]]
  PROVE  Write(g, r, m) = m
  <1> DEFINE shown(q) == {f \in Fields(g, TypeAt(g, r, q)) : ~ (g.sparse \/ f.skip)}
             added == UNION {{Append(q, f.key) : f \in shown(q)} : q \in DOMAIN m}
  <1>1. added = {}
    BY DEF Sound
  <1>2. Write(g, r, m) = [p \in DOMAIN m \cup added |->
                            IF p \in DOMAIN m THEN m[p] ELSE DefaultOf(g, TypeAt(g, r, p))]
    BY DEF Write
  <1> HIDE DEF added
  <1>3. Write(g, r, m) = [p \in DOMAIN m |-> m[p]]
    BY <1>1, <1>2
  <1> QED
    BY <1>3

\* What a reader of version g, with the catch-all other, has of a message.
SeenIn(g, r, m, other) ==
  LET known == Known(g, r, m)
      val   == [p \in known |-> IF ReadLeaf(g, TypeAt(g, r, p), m[p]) = Fail THEN other ELSE m[p]]
  IN  IF \E p \in known : val[p] = Fail THEN Refused ELSE val

\* The paths that a consumer knows are those that Go of its version knows.
LEMMA KnownAlike ==
  ASSUME NEW b, NEW g, NEW N, Conforms(b, g, N), Sound(g), NEW r \in N, r \in DOMAIN g.structs,
         NEW m, \A p \in DOMAIN m : p \in Seq(Steps)
  PROVE  /\ Known(b, r.name, m) = Known(g, r, m)
         /\ \A p \in Known(g, r, m) :
              Alike(TypeAt(b, r.name, p), TypeAt(g, r, p), N) /\ Fits(g, TypeAt(g, r, p))
  <1>1. ASSUME NEW p \in DOMAIN m
        PROVE  /\ Alike(TypeAt(b, r.name, p), TypeAt(g, r, p), N)
               /\ TypeAt(g, r, p).base # "none" => Fits(g, TypeAt(g, r, p))
    <2>1. Len(p) \in Nat
      OBVIOUS
    <2>2. NoType.base = "none"
      BY DEF NoType, Scalar
    <2> QED
      BY <2>1, <2>2, TypesAlike, TypesFit
  <1>2. \A p \in DOMAIN m : TypeAt(b, r.name, p).base = TypeAt(g, r, p).base
    BY <1>1 DEF Alike
  <1> QED
    BY <1>1, <1>2 DEF Known

\* A consumer reads what it knows of a message of any version, earlier or later.
LEMMA ReadIsSeen ==
  ASSUME NEW b, NEW g, NEW w, NEW N, Conforms(b, g, N), Sound(g), Sound(w),
         Extends(g, w) \/ Extends(w, g), NEW r \in N, r \in DOMAIN g.structs, r \in DOMAIN w.structs,
         NEW m, Carries(w, r, m), NEW other \in {Unknown, Fail},
         \A n \in DOMAIN b.enums : b.enums[n].other <=> other = Unknown
  PROVE  Read(b, r.name, m) = SeenIn(g, r, m, other)
  <1> DEFINE known == Known(b, r.name, m)
             val == [p \in known |-> ReadLeaf(b, TypeAt(b, r.name, p), m[p])]
             kept == {p \in known : LET type == TypeAt(b, r.name, p)
                                    IN  type.option \/ ~ AtDefault(b, type, m, p, val[p])}
             seen == [p \in Known(g, r, m) |->
                        IF ReadLeaf(g, TypeAt(g, r, p), m[p]) = Fail THEN other ELSE m[p]]
  <1>1. /\ known = Known(g, r, m)
        /\ \A p \in known : Alike(TypeAt(b, r.name, p), TypeAt(g, r, p), N) /\ Fits(g, TypeAt(g, r, p))
    BY KnownAlike DEF Carries
  <1>2. Unknown # Fail
    BY DEF Unknown, Fail
  <1>3. ASSUME NEW p \in known
        PROVE  /\ val[p] = seen[p]
               /\ val[p] = Fail \/ TypeAt(b, r.name, p).option \/ ~ AtDefault(b, TypeAt(b, r.name, p), m, p, val[p])
    <2> DEFINE t == TypeAt(b, r.name, p)
               u == TypeAt(g, r, p)
               j == m[p]
    <2>1. Alike(t, u, N) /\ Fits(g, u) /\ p \in DOMAIN m /\ Len(p) \in Nat
      BY <1>1 DEF Known, Carries
    <2>2. TypeAt(w, r, p) = u
      <3>1. Fits(w, TypeAt(w, r, p))
        BY <2>1 DEF Carries
      <3>2. u # NoType /\ TypeAt(w, r, p) # NoType
        BY <2>1, <3>1 DEF Fits, NoType, Scalar
      <3> HIDE DEF u
      <3> QED
        BY <2>1, <3>2, TypesKept DEF u
    <2>3. /\ Fits(w, u) /\ ReadLeaf(w, u, j) = j /\ j # Fail
          /\ u.option \/ ~ AtDefault(w, u, m, p, j)
      BY <2>1, <2>2 DEF Carries
    <2>4. val[p] = ReadLeaf(b, t, j) /\ seen[p] = IF ReadLeaf(g, u, j) = Fail THEN other ELSE j
      BY <1>1
    <2> HIDE DEF t, u, j, val, seen
    <2>5. CASE ReadLeaf(g, u, j) = j
      <3>1. val[p] = j /\ seen[p] = j
        BY <2>1, <2>3, <2>4, <2>5, LeafAlike
      <3>2. t.option = u.option /\ t.card = u.card
        BY <2>1 DEF Alike
      <3>3. ASSUME ~ u.option PROVE ~ AtDefault(b, t, m, p, j)
        <4>1. DefaultOf(b, t) = DefaultOf(w, u)
          BY <2>1, <2>3, <3>3, DefaultsAlike, DefaultsAcross
        <4> QED
          BY <2>3, <3>2, <3>3, <4>1 DEF AtDefault
      <3> QED
        BY <3>1, <3>2, <3>3 DEF t
    <2>6. CASE /\ ReadLeaf(g, u, j) = Fail /\ IsEnum(g, u) /\ j[1] = "str"
      <3>1. IsEnum(b, t)
        BY <2>1, <2>6, LeafAlike
      <3>2. ReadLeaf(b, t, j) = IF b.enums[t.named].other THEN Unknown ELSE Fail
        BY <2>1, <2>6, LeafAlike
      <3>3. b.enums[t.named].other <=> other = Unknown
        BY <3>1 DEF IsEnum
      <3>4. val[p] = other /\ seen[p] = other
        BY <2>4, <2>6, <3>2, <3>3
      <3>5. t.option = u.option /\ t.card = u.card /\ u.card = "one"
        BY <2>1, <2>6 DEF Alike, IsEnum
      <3>6. ASSUME ~ u.option, other = Unknown PROVE ~ AtDefault(b, t, m, p, other)
        <4>1. DefaultOf(b, t) # Unknown
          BY <2>1, <2>6, <3>6, DefaultsAlike
        <4> QED
          BY <3>5, <3>6, <4>1 DEF AtDefault
      <3> QED
        BY <3>4, <3>5, <3>6 DEF t
    <2> QED
      BY <2>1, <2>3, <2>5, <2>6, LeafAcross
  <1>4. b.strict = FALSE
    BY DEF Conforms
  <1>5. Read(b, r.name, m) = IF \E p \in known : val[p] = Fail THEN Refused ELSE [p \in kept |-> val[p]]
    BY <1>4 DEF Read
  <1>6. SeenIn(g, r, m, other) = IF \E p \in known : seen[p] = Fail THEN Refused ELSE seen
    BY <1>1 DEF SeenIn
  <1>7. (\A p \in known : val[p] # Fail) => kept = known
    BY <1>3
  <1>8. DOMAIN seen = known /\ seen = [p \in known |-> seen[p]]
    BY <1>1
  <1> HIDE DEF kept, known, val, seen
  <1>9. (\A p \in known : val[p] # Fail) => [p \in kept |-> val[p]] = seen
    BY <1>3, <1>7, <1>8
  <1> QED
    BY <1>3, <1>5, <1>6, <1>9

\* What a consumer writes, y, of what it holds, x: that, and fields at their default.
Adds(b, s, x, y) ==
  /\ \A p \in DOMAIN x : p \in DOMAIN y /\ y[p] = x[p]
  /\ \A p \in DOMAIN y : p \notin DOMAIN x =>
       /\ y[p] = DefaultOf(b, TypeAt(b, s, p))
       /\ \E q \in DOMAIN x : \E f \in Fields(b, TypeAt(b, s, q)) : ~ f.skip /\ p = Append(q, f.key)

\* A consumer writes what it holds, and adds defaults only.
LEMMA WriteAdds ==
  ASSUME NEW b, b.sparse = FALSE, NEW s, NEW x
  PROVE  Adds(b, s, x, Write(b, s, x))
  <1> DEFINE shown(q) == {f \in Fields(b, TypeAt(b, s, q)) : ~ (b.sparse \/ f.skip)}
             new == UNION {{Append(q, f.key) : f \in shown(q)} : q \in DOMAIN x}
  <1>1. Write(b, s, x) = [p \in DOMAIN x \cup new |->
                            IF p \in DOMAIN x THEN x[p] ELSE DefaultOf(b, TypeAt(b, s, p))]
    BY DEF Write
  <1>2. \A p \in new : \E q \in DOMAIN x : \E f \in Fields(b, TypeAt(b, s, q)) :
          ~ f.skip /\ p = Append(q, f.key)
    OBVIOUS
  <1> HIDE DEF new
  <1> QED
    BY <1>1, <1>2 DEF Adds

\* A field that is shown although it was not held is no Option; in the version of the
\* consumer and in a later one it has the type of the consumer's field.
LEMMA ShownField ==
  ASSUME NEW b, NEW g, NEW h, NEW N, Conforms(b, g, N), Sound(g), Sound(h), Extends(g, h),
         NEW r \in N, r \in DOMAIN g.structs, NEW q \in Seq(Steps),
         NEW f \in Fields(b, TypeAt(b, r.name, q)), ~ f.skip
  PROVE  LET p == Append(q, f.key)
             u == TypeAt(g, r, p)
         IN  /\ p \in Seq(Steps) /\ f.key \notin Places
             /\ Fits(g, u) /\ ~ u.option /\ TypeAt(h, r, p) = u
             /\ Alike(TypeAt(b, r.name, p), u, N)
  <1> DEFINE s == TypeAt(b, r.name, q)
             a == TypeAt(g, r, q)
             p == Append(q, f.key)
             u == TypeAt(g, r, p)
  <1>1. Alike(s, a, N)
    <2>1. Len(q) \in Nat
      OBVIOUS
    <2> QED
      BY <2>1, TypesAlike
  <1>2. /\ s.base = "named" /\ s.card = "one" /\ s.named \in DOMAIN b.structs
        /\ \E i \in DOMAIN b.structs[s.named] : f = b.structs[s.named][i]
    BY DEF Fields, ToSet
  <1> HIDE DEF s, a
  <1>3. PICK i \in DOMAIN b.structs[s.named] : f = b.structs[s.named][i]
    BY <1>2
  <1>4. /\ a.base = "named" /\ a.card = "one" /\ a.named \in N /\ s.named = a.named.name
        /\ a.named \in DOMAIN g.structs
    BY <1>1, <1>2 DEF Alike, Conforms
  <1> DEFINE e == g.structs[a.named][i]
  <1>5. /\ i \in DOMAIN g.structs[a.named] /\ f.key = e.key /\ Alike(f.type, e.type, N)
        /\ f.skip = f.type.option
    BY <1>3, <1>4 DEF Conforms
  <1>6. /\ e.key \in Steps /\ e.key \notin Places /\ Fits(g, e.type)
        /\ \A j \in DOMAIN g.structs[a.named] : g.structs[a.named][j].key = e.key => i = j
    BY <1>4, <1>5 DEF Sound
  <1>7. Below(g, a, e.key) = e.type
    <2>1. i \in DOMAIN g.structs[a.named]
      BY <1>5
    <2>2. \A j \in DOMAIN g.structs[a.named] : g.structs[a.named][j].key = e.key => i = j
      BY <1>6
    <2> QED
      BY ONLY <1>4, <2>1, <2>2, BelowField
  <1> HIDE DEF e
  <1>8. f.key \in Steps /\ f.key \notin Places
    BY <1>5, <1>6
  <1>9. p \in Seq(Steps) /\ Len(p) \in Nat
    BY <1>8
  <1>10. u = Below(g, TypeAt(g, r, q), f.key)
    BY <1>8, TypeBelow
  <1> HIDE DEF p
  <1>11. u = e.type
    BY <1>5, <1>7, <1>10 DEF a
  <1>12. Fits(g, u) /\ ~ u.option
    BY <1>5, <1>6, <1>11 DEF Alike
  <1>13. TypeAt(h, r, p) = u
    <2>1. u # NoType
      BY <1>12 DEF Fits, NoType, Scalar
    <2> QED
      BY <1>9, <2>1, TypesKept
  <1>14. Alike(TypeAt(b, r.name, p), u, N)
    BY <1>9, TypesAlike
  <1> QED
    BY <1>8, <1>9, <1>12, <1>13, <1>14 DEF p

\* A path that is one step longer.
LEMMA AppendFront ==
  ASSUME NEW T, NEW p \in Seq(T), NEW x
  PROVE  /\ Append(p, x) # <<>> /\ Front(Append(p, x)) = p
         /\ Append(p, x)[Len(p) + 1] = x /\ Len(p) + 1 \in DOMAIN Append(p, x)
         /\ \A q \in Seq(T) : \A y : Append(p, x) = Append(q, y) => x = y
  <1> DEFINE s == Append(p, x)
  <1>1. /\ Len(p) \in Nat /\ Len(s) = Len(p) + 1 /\ s[Len(p) + 1] = x
        /\ DOMAIN s = 1..(Len(p) + 1) /\ \A i \in 1..Len(p) : s[i] = p[i]
    OBVIOUS
  <1>2. s \in Seq(T \cup {x})
    OBVIOUS
  <1> HIDE DEF s
  <1>3. s # <<>>
    BY <1>1
  <1>4. Front(s) = p
    <2>1. Front(s) = SubSeq(s, 1, Len(s) - 1)
      BY DEF Front
    <2>2. Len(s) - 1 = Len(p)
      BY <1>1
    <2>3. Front(s) = [i \in 1..Len(p) |-> s[i]]
      BY <1>1, <1>2, <2>1, <2>2
    <2> QED
      BY <1>1, <2>3
  <1>5. ASSUME NEW q \in Seq(T), NEW y, s = Append(q, y) PROVE x = y
    <2>1. Len(Append(q, y)) = Len(q) + 1 /\ Append(q, y)[Len(q) + 1] = y /\ Len(q) \in Nat
      OBVIOUS
    <2> QED
      BY <1>1, <1>5, <2>1
  <1> QED
    BY <1>1, <1>3, <1>4, <1>5 DEF s

\* Where nothing was held, Go of any version reads back what the consumer held.
LEMMA NothingComesBack ==
  ASSUME NEW b, b.sparse = FALSE, NEW s, NEW h, NEW r
  PROVE  Read(h, r, Write(b, s, Refused)) = Refused
  <1> DEFINE y == Write(b, s, Refused)
             known == Known(h, r, y)
             val == [p \in known |-> ReadLeaf(h, TypeAt(h, r, p), y[p])]
             kept == {p \in known : LET type == TypeAt(h, r, p)
                                    IN  type.option \/ ~ AtDefault(h, type, y, p, val[p])}
  <1>1. DOMAIN Refused = {}
    BY DEF Refused
  <1>2. DOMAIN y = {}
    <2>1. ASSUME NEW p \in DOMAIN y PROVE FALSE
      BY <1>1, WriteAdds DEF Adds
    <2> QED
      BY <2>1
  <1> HIDE DEF y
  <1>3. known = {} /\ kept = {}
    BY <1>2 DEF Known
  <1>4. Read(h, r, y) = IF (\E p \in known : val[p] = Fail) \/ (h.strict /\ known # DOMAIN y)
                          THEN Refused ELSE [p \in kept |-> val[p]]
    BY DEF Read
  <1> HIDE DEF known, kept, val
  <1>5. [p \in {} |-> val[p]] = Refused
    BY DEF Refused
  <1> QED
    BY <1>2, <1>3, <1>4, <1>5 DEF y

\* A path of a message that a version knows is known as far as it goes.
LEMMA KnownBefore ==
  ASSUME NEW g, Sound(g), NEW r \in DOMAIN g.structs, NEW p \in Seq(Steps), NEW x \in Steps,
         TypeAt(g, r, Append(p, x)) # NoType
  PROVE  Fits(g, TypeAt(g, r, p))
  <1>1. TypeAt(g, r, Append(p, x)) = Below(g, TypeAt(g, r, p), x)
    BY TypeBelow
  <1>2. ASSUME TypeAt(g, r, p) = NoType PROVE FALSE
    <2>1. NoType.base = "none" /\ NoType.card = "one"
      BY DEF NoType, Scalar
    <2>2. Below(g, NoType, x) = NoType
      BY <2>1, BelowNothing
    <2> QED
      BY <1>1, <1>2, <2>2
  <1>3. Len(p) \in Nat
    OBVIOUS
  <1> QED
    BY <1>2, <1>3, TypesFit

\* What a consumer holds of a message, written and read by Go of a version that is no
\* earlier, is what it holds; only a consumer that is older than the message can have
\* made Unknown of something, which Go refuses.
LEMMA Relay ==
  ASSUME NEW b, NEW g, NEW w, NEW h, NEW N, Conforms(b, g, N), Sound(g), Sound(w), Sound(h),
         Extends(g, w) \/ Extends(w, g), Extends(g, h), Extends(w, h),
         NEW r \in N, r \in DOMAIN g.structs, r \in DOMAIN w.structs,
         NEW m, Carries(w, r, m), NEW other \in {Unknown, Fail}
  PROVE  LET x == SeenIn(g, r, m, other)
             back == Read(h, r, Write(b, r.name, x))
         IN  back = x \/ (back = Refused /\ ~ Extends(w, g))
  <1> DEFINE known == Known(g, r, m)
             x == SeenIn(g, r, m, other)
             y == Write(b, r.name, x)
             seen == [p \in known |-> IF ReadLeaf(g, TypeAt(g, r, p), m[p]) = Fail THEN other ELSE m[p]]
             there == Known(h, r, y)
             val == [p \in there |-> ReadLeaf(h, TypeAt(h, r, p), y[p])]
             kept == {p \in there : LET type == TypeAt(h, r, p)
                                    IN  type.option \/ ~ AtDefault(h, type, y, p, val[p])}
             back == Read(h, r, y)
  <1>0. b.sparse = FALSE /\ h.strict = TRUE /\ Unknown # Fail /\ Unknown[1] = "str" /\ NoType.base = "none"
    BY DEF Conforms, Sound, Unknown, Fail, NoType, Scalar
  <1>1. back = IF (\E p \in there : val[p] = Fail) \/ there # DOMAIN y
                 THEN Refused ELSE [p \in kept |-> val[p]]
    BY <1>0 DEF Read
  <1>2. x = IF \E p \in known : seen[p] = Fail THEN Refused ELSE seen
    BY DEF SeenIn
  <1>3. ASSUME x = Refused PROVE back = x
    <2>1. Read(h, r, Write(b, r.name, Refused)) = Refused
      BY <1>0, NothingComesBack
    <2> HIDE DEF x
    <2> QED
      BY <1>3, <2>1
  <1>4. ASSUME x # Refused PROVE back = x \/ (back = Refused /\ ~ Extends(w, g))
    <2>1. x = seen /\ DOMAIN x = known /\ \A p \in known : x[p] # Fail
      <3>1. DOMAIN seen = known
        OBVIOUS
      <3> HIDE DEF seen, x, known
      <3> QED
        BY <1>2, <1>4, <3>1
    <2>2. ASSUME NEW p \in known
          PROVE  LET u == TypeAt(g, r, p)
                 IN  /\ p \in Seq(Steps) /\ p \in DOMAIN m /\ Fits(g, u)
                     /\ TypeAt(w, r, p) = u /\ TypeAt(h, r, p) = u
                     /\ Fits(w, u) /\ Fits(h, u)
      <3> DEFINE u == TypeAt(g, r, p)
      <3>1. p \in DOMAIN m /\ p \in Seq(Steps) /\ u.base # "none" /\ Len(p) \in Nat
        BY DEF Known, Carries
      <3>2. Fits(w, TypeAt(w, r, p)) /\ TypeAt(w, r, p).base # "none"
        BY <3>1 DEF Carries, Fits
      <3>3. r \in DOMAIN h.structs
        BY DEF Extends
      <3>4. Fits(g, u)
        BY <1>0, <3>1, TypesFit
      <3>5. TypeAt(h, r, p) = u /\ TypeAt(w, r, p) = u
        <4> HIDE DEF u
        <4>1. TypeAt(h, r, p) = u
          BY <1>0, <3>1, TypesKept DEF u
        <4>2. TypeAt(w, r, p) = u
          BY <1>0, <3>1, <3>2, TypesKept DEF u
        <4> QED
          BY <4>1, <4>2
      <3>6. Fits(h, u)
        BY <1>0, <3>1, <3>3, <3>5, TypesFit
      <3> QED
        BY <3>1, <3>2, <3>4, <3>5, <3>6
    <2> HIDE DEF x
    <2>3. Adds(b, r.name, x, y)
      BY <1>0, WriteAdds
    <2> HIDE DEF y
    <2>9. \A p \in known : p \in DOMAIN y /\ y[p] = x[p]
      <3> HIDE DEF known
      <3> QED
        BY <2>1, <2>3 DEF Adds
    <2>4. ASSUME NEW p \in known, x[p] # m[p]
          PROVE  p \in there /\ val[p] = Fail /\ ~ Extends(w, g)
      <3> DEFINE u == TypeAt(g, r, p)
      <3>1. /\ Fits(g, u) /\ Fits(w, u) /\ Fits(h, u) /\ TypeAt(h, r, p) = u /\ p \in DOMAIN m
            /\ ReadLeaf(w, u, m[p]) = m[p] /\ m[p] # Fail
        BY <2>2, <2>4 DEF Carries
      <3>2. ReadLeaf(g, u, m[p]) = Fail /\ x[p] = other /\ other = Unknown
        BY <2>1, <2>4
      <3> HIDE DEF u
      <3>3. IsEnum(g, u) /\ ~ Extends(w, g)
        BY <3>1, <3>2, LeafAcross
      <3>4. IsEnum(h, u)
        BY <3>1, <3>3, SameEnums
      <3>5. h.enums[u.named].other = FALSE /\ Unknown[2] \notin h.enums[u.named].known
        BY <3>4 DEF IsEnum, Sound, Unknown
      <3>6. ReadLeaf(h, u, Unknown) = Fail
        BY <3>4, <3>5, EnumLeaf
      <3>7. u.base # "none"
        BY <3>1 DEF Fits
      <3>8. p \in there
        BY <2>4, <2>9, <3>1, <3>7 DEF Known
      <3> QED
        BY <2>4, <2>9, <3>1, <3>2, <3>3, <3>6, <3>8
    <2>5. CASE \E p \in known : x[p] # m[p]
      <3> HIDE DEF there, val, back, kept
      <3> QED
        BY <1>1, <2>4, <2>5
    <2>6. CASE \A p \in known : x[p] = m[p]
      <3>1. ASSUME NEW p \in known
            PROVE  LET u == TypeAt(h, r, p)
                   IN  /\ p \in there /\ val[p] = x[p] /\ val[p] # Fail
                       /\ u.option \/ ~ AtDefault(h, u, y, p, val[p])
        <4> DEFINE u == TypeAt(g, r, p)
                   j == m[p]
        <4>1. /\ Fits(g, u) /\ Fits(w, u) /\ Fits(h, u) /\ TypeAt(h, r, p) = u /\ p \in DOMAIN m
              /\ p \in Seq(Steps)
              /\ ReadLeaf(w, u, j) = j /\ j # Fail /\ (u.option \/ ~ AtDefault(w, u, m, p, j))
          BY <2>2, <3>1 DEF Carries
        <4>2. y[p] = j /\ x[p] = j /\ p \in DOMAIN y
          BY <2>6, <2>9, <3>1
        <4> HIDE DEF u, j
        <4>3. u.base # "none"
          BY <4>1 DEF Fits
        <4>4. p \in there
          BY <4>1, <4>2, <4>3 DEF Known
        <4>5. ReadLeaf(h, u, j) = j
          BY <4>1, LeafAcross
        <4>6. val[p] = j
          BY <4>1, <4>2, <4>4, <4>5
        <4>7. ASSUME ~ u.option PROVE ~ AtDefault(h, u, y, p, j)
          <5>1. CASE u.card = "list"
            <6>1. PICK place \in Places : Append(p, place) \in DOMAIN m
              BY <4>1, <4>7, <5>1 DEF AtDefault
            <6>2. place \in Steps
              <7>1. Append(p, place) \in Seq(Steps)
                BY <6>1 DEF Carries
              <7>2. Append(p, place)[Len(p) + 1] = place /\ Len(p) + 1 \in DOMAIN Append(p, place)
                BY <4>1
              <7> QED
                BY <7>1, <7>2
            <6>3. TypeAt(g, r, Append(p, place)) = [Option(u) EXCEPT !.card = "one"]
              BY <4>1, <5>1, <6>1, <6>2, TypeBelow, BelowList DEF u
            <6>4. TypeAt(g, r, Append(p, place)).base = u.base
              BY <4>1, <6>3 DEF Option, Fits
            <6>5. Append(p, place) \in known
              BY <4>3, <6>1, <6>4 DEF Known
            <6> QED
              BY <2>9, <5>1, <6>1, <6>5 DEF AtDefault
          <5>2. CASE u.card # "list"
            <6>1. DefaultOf(w, u) = DefaultOf(h, u)
              BY <4>1, <4>7, DefaultsAcross
            <6> QED
              BY <4>1, <4>7, <5>2, <6>1 DEF AtDefault
          <5> QED
            BY <5>1, <5>2
        <4> HIDE DEF val, there
        <4> QED
          BY <4>1, <4>2, <4>4, <4>6, <4>7
      <3>2. ASSUME NEW p \in DOMAIN y, p \notin known
            PROVE  LET u == TypeAt(h, r, p)
                   IN  /\ p \in there /\ val[p] # Fail
                       /\ ~ u.option /\ AtDefault(h, u, y, p, val[p])
        <4>1. /\ y[p] = DefaultOf(b, TypeAt(b, r.name, p))
              /\ \E q \in known : \E f \in Fields(b, TypeAt(b, r.name, q)) : ~ f.skip /\ p = Append(q, f.key)
          BY <2>1, <2>3, <3>2 DEF Adds
        <4>2. PICK q \in known : \E f \in Fields(b, TypeAt(b, r.name, q)) : ~ f.skip /\ p = Append(q, f.key)
          BY <4>1
        <4>3. PICK f \in Fields(b, TypeAt(b, r.name, q)) : ~ f.skip /\ p = Append(q, f.key)
          BY <4>2
        <4> DEFINE u == TypeAt(g, r, p)
        <4>4. /\ p \in Seq(Steps) /\ Fits(g, u) /\ ~ u.option /\ TypeAt(h, r, p) = u
              /\ Alike(TypeAt(b, r.name, p), u, N)
          BY <2>2, <4>3, ShownField
        <4> HIDE DEF u
        <4>5. Fits(h, u)
          <5>1. r \in DOMAIN h.structs /\ Len(p) \in Nat /\ u # NoType
            BY <1>0, <4>4 DEF Extends, Fits
          <5> QED
            BY <4>4, <5>1, TypesFit
        <4>6. y[p] = DefaultOf(h, u)
          BY <4>1, <4>4, <4>5, DefaultsAlike, DefaultsAcross
        <4>7. u.base # "none"
          BY <4>4 DEF Fits
        <4>8. p \in there
          BY <3>2, <4>4, <4>7 DEF Known
        <4>9. val[p] = DefaultOf(h, u) /\ val[p] # Fail
          BY <4>4, <4>5, <4>6, <4>8, DefaultLeaf
        <4>10. AtDefault(h, u, y, p, val[p])
          <5>1. CASE u.card = "list"
            <6> SUFFICES ASSUME NEW place \in Places, Append(p, place) \in DOMAIN y PROVE FALSE
              BY <5>1 DEF AtDefault
            <6>1. CASE Append(p, place) \in known
              <7>1. Append(p, place) \in DOMAIN m /\ Append(p, place) \in Seq(Steps)
                BY <2>2, <6>1
              <7>2. /\ Append(p, place) # <<>> /\ Front(Append(p, place)) = p
                    /\ Append(p, place)[Len(p) + 1] = place /\ Len(p) + 1 \in DOMAIN Append(p, place)
                BY <4>4, AppendFront
              <7>3. p \in DOMAIN m
                BY <7>1, <7>2 DEF Carries
              <7>4. p \in known
                BY <4>7, <7>3 DEF Known, u
              <7> QED
                BY <3>2, <7>4
            <6>2. CASE Append(p, place) \notin known
              <7>1. PICK q2 \in known : \E e \in Fields(b, TypeAt(b, r.name, q2)) :
                      ~ e.skip /\ Append(p, place) = Append(q2, e.key)
                BY <2>1, <2>3, <6>2 DEF Adds
              <7>2. PICK e \in Fields(b, TypeAt(b, r.name, q2)) :
                      ~ e.skip /\ Append(p, place) = Append(q2, e.key)
                BY <7>1
              <7>3. e.key \notin Places
                BY <2>2, <7>2, ShownField
              <7>4. q2 \in Seq(Steps)
                BY <2>2
              <7>5. place = e.key
                BY <4>4, <7>2, <7>4, AppendFront
              <7> QED
                BY <7>3, <7>5
            <6> QED
              BY <6>1, <6>2
          <5>2. CASE u.card # "list"
            BY <4>9, <5>2 DEF AtDefault
          <5> QED
            BY <5>1, <5>2
        <4> HIDE DEF val, there
        <4> QED
          BY <4>4, <4>8, <4>9, <4>10
      <3>3. there = DOMAIN y
        BY <2>9, <3>1, <3>2 DEF Known
      <3>4. \A p \in there : val[p] # Fail
        <4> HIDE DEF there, val
        <4> QED
          BY <3>1, <3>2, <3>3
      <3>5. kept = known
        <4>1. \A p : p \in kept <=> p \in there /\ (TypeAt(h, r, p).option \/ ~ AtDefault(h, TypeAt(h, r, p), y, p, val[p]))
          OBVIOUS
        <4> HIDE DEF there, val, kept
        <4> QED
          BY <3>1, <3>2, <3>3, <4>1
      <3>6. x = [p \in known |-> x[p]]
        <4>1. seen = [p \in known |-> seen[p]]
          OBVIOUS
        <4> HIDE DEF seen
        <4> QED
          BY <2>1, <4>1
      <3> HIDE DEF there, val, back, kept, known
      <3>7. [p \in kept |-> val[p]] = x
        BY <3>1, <3>5, <3>6
      <3> QED
        BY <1>1, <3>3, <3>4, <3>7
    <2> QED
      BY <2>5, <2>6
  <1> QED
    BY <1>3, <1>4

-----------------------------------------------------------------------------
(* The types that the plugins generate                                     *)

\* What protoc-gen-go makes of the types of a contract.
GoField(f) == [key |-> JsonKey(f.name), type |-> GoType(f), skip |-> TRUE]

IsGo(g, files) ==
  /\ DOMAIN g.enums = Refs(EnumsOf(files)) /\ DOMAIN g.structs = Refs(MessagesOf(files))
  /\ g.strict = TRUE /\ g.sparse = TRUE
  /\ \A e \in EnumsOf(files) :
       /\ e.ref \in DOMAIN g.enums /\ g.enums[e.ref].known = {e.values[i].name : i \in DOMAIN e.values}
       /\ g.enums[e.ref].default = e.values[1].name /\ g.enums[e.ref].other = FALSE
  /\ \A m \in MessagesOf(files) :
       /\ m.ref \in DOMAIN g.structs /\ DOMAIN g.structs[m.ref] = DOMAIN m.fields
       /\ \A i \in DOMAIN m.fields : g.structs[m.ref][i] = GoField(m.fields[i])

\* GoBindings is that, as the types of a contract that lint lets through have one name
\* each.
LEMMA GoOf ==
  ASSUME NEW files, WellFormed(files)
  PROVE  IsGo(GoBindings(files), files)
  <1> DEFINE g == GoBindings(files)
             E == EnumsOf(files)
             M == MessagesOf(files)
             goEnum(e) == [known |-> {e.values[i].name : i \in DOMAIN e.values},
                           default |-> e.values[1].name, other |-> FALSE]
             goMessage(m) == [i \in DOMAIN m.fields |-> GoField(m.fields[i])]
             enum(r) == CHOOSE e \in E : e.ref = r
             msg(r) == CHOOSE m \in M : m.ref = r
  <1>1. /\ g.enums = [r \in Refs(E) |-> goEnum(enum(r))]
        /\ g.structs = [r \in Refs(M) |-> goMessage(msg(r))]
        /\ g.strict = TRUE /\ g.sparse = TRUE
    BY DEF GoBindings, Refs, MessageAt, GoField
  <1>2. /\ \A e, d \in E : e.ref = d.ref => e = d
        /\ \A m, n \in M : m.ref = n.ref => m = n
    BY DEF WellFormed
  <1> HIDE DEF g, E, M, goEnum, goMessage
  <1>3. (\A e \in E : enum(e.ref) = e) /\ (\A m \in M : msg(m.ref) = m)
    BY <1>2
  <1> HIDE DEF enum, msg
  <1>4. (\A e \in E : e.ref \in Refs(E)) /\ (\A m \in M : m.ref \in Refs(M))
    BY DEF Refs
  <1>5. /\ \A e \in E : g.enums[e.ref] = goEnum(e)
        /\ \A m \in M : g.structs[m.ref] = goMessage(m)
    BY <1>1, <1>3, <1>4
  <1>6. /\ DOMAIN g.enums = Refs(E) /\ DOMAIN g.structs = Refs(M)
        /\ \A e \in E : e.ref \in DOMAIN g.enums
        /\ \A m \in M : m.ref \in DOMAIN g.structs
    BY <1>1, <1>4
  <1>7. \A e : /\ goEnum(e).known = {e.values[i].name : i \in DOMAIN e.values}
               /\ goEnum(e).default = e.values[1].name /\ goEnum(e).other = FALSE
    BY DEF goEnum
  <1>8. \A m : /\ DOMAIN goMessage(m) = DOMAIN m.fields
               /\ \A i \in DOMAIN m.fields : goMessage(m)[i] = GoField(m.fields[i])
    BY DEF goMessage
  <1>9. \A e \in E : /\ e.ref \in DOMAIN g.enums
                    /\ g.enums[e.ref].known = {e.values[i].name : i \in DOMAIN e.values}
                    /\ g.enums[e.ref].default = e.values[1].name /\ g.enums[e.ref].other = FALSE
    BY <1>5, <1>6, <1>7
  <1>10. \A m \in M : /\ m.ref \in DOMAIN g.structs /\ DOMAIN g.structs[m.ref] = DOMAIN m.fields
                     /\ \A i \in DOMAIN m.fields : g.structs[m.ref][i] = GoField(m.fields[i])
    BY <1>5, <1>6, <1>8
  <1> QED
    BY <1>1, <1>6, <1>9, <1>10 DEF IsGo, g, E, M

\* A JSON key is a step, but no place in a list, and distinct names have distinct ones;
\* the other plugins write the same keys.
LEMMA KeysAreSteps ==
  ASSUME NEW name, IsName(name)
  PROVE  /\ JsonKey(name) \in Steps /\ JsonKey(name) \notin Places /\ JsonKey(name) = lowerCamel(name)
         /\ \A n : IsName(n) /\ JsonKey(n) = JsonKey(name) => n = name
  <1>1. /\ name \in Seq(STRING) /\ name # <<>> /\ Len(name) \in Nat /\ DOMAIN name = 1..Len(name)
        /\ \A i \in DOMAIN name : name[i] \in STRING
    BY DEF IsName
  <1>2. \A n : IsName(n) => JsonKey(n) = lowerCamel(n)
    BY CasesOf DEF JsonKey
  <1> DEFINE key == JsonKey(name)
             T == STRING \X {"lower", "Title", "nth"}
  <1>3. /\ DOMAIN key = 1..Len(name)
        /\ \A i \in 1..Len(name) : key[i] = IF i = 1 THEN Lower(name[i]) ELSE Title(name[i])
    BY <1>1 DEF JsonKey
  <1>4. \A i \in 1..Len(name) : key[i] \in T
    BY <1>1, <1>3 DEF Lower, Title
  <1>5. key = [i \in 1..Len(name) |-> key[i]]
    BY <1>1 DEF JsonKey
  <1>6. key \in Seq(T)
    <2> HIDE DEF key, T
    <2> QED
      BY <1>1, <1>4, <1>5
  <1>7. key[1] = <<name[1], "lower">>
    <2>1. 1 \in 1..Len(name)
      BY <1>1
    <2> QED
      BY <1>3, <2>1 DEF Lower
  <1>8. \A place \in Places : place[1][2] = "nth"
    BY DEF Places
  <1>9. key[1][2] = "lower"
    BY <1>7
  <1> QED
    BY <1>2, <1>6, <1>8, <1>9, NamesApart DEF Steps

\* The shapes of a field's type in Go.
LEMMA GoTypes ==
  ASSUME NEW f
  PROVE  LET t == GoType(f)
             named == f.kind \in {"enum", "message"} /\ f.type # Timestamp
         IN  /\ t = [base |-> t.base, named |-> t.named, card |-> t.card, option |-> t.option]
             /\ t.card = f.card /\ t.option = (f.card = "one" /\ (f.optional \/ f.kind = "message"))
             /\ named => t.base = "named" /\ t.named = f.type
             /\ ~ named => t.base = IF f.type # Timestamp /\ f.kind = "uint32" THEN "u32" ELSE "string"
  <1> DEFINE t == GoType(f)
             option == f.card = "one" /\ (f.optional \/ f.kind = "message")
             type(base, name) == [base |-> base, named |-> name, card |-> f.card, option |-> option]
  <1>1. CASE f.kind \in {"enum", "message"} /\ f.type # Timestamp
    <2>1. t = [Named(f.type) EXCEPT !.card = f.card, !.option = option]
      BY <1>1 DEF GoType
    <2>2. t = type("named", f.type)
      BY <2>1 DEF Named, Scalar
    <2> QED
      BY <1>1, <2>2
  <1>2. CASE f.type # Timestamp /\ f.kind = "uint32"
    <2>1. t = [Scalar("u32") EXCEPT !.card = f.card, !.option = option]
      BY <1>2 DEF GoType
    <2>2. t = type("u32", <<>>)
      BY <2>1 DEF Scalar
    <2> QED
      BY <1>2, <2>2
  <1>3. CASE f.type = Timestamp \/ f.kind \notin {"enum", "message", "uint32"}
    <2>1. t = [Scalar("string") EXCEPT !.card = f.card, !.option = option]
      BY <1>3 DEF GoType
    <2>2. t = type("string", <<>>)
      BY <2>1 DEF Scalar
    <2> QED
      BY <1>3, <2>2
  <1> QED
    BY <1>1, <1>2, <1>3

\* The Go types of any contract that lint lets through are sound.
LEMMA GoIsSound ==
  ASSUME NEW files, WellFormed(files)
  PROVE  Sound(GoBindings(files))
  <1> DEFINE g == GoBindings(files)
             E == EnumsOf(files)
             M == MessagesOf(files)
  <1>1. /\ DOMAIN g.enums = Refs(E) /\ DOMAIN g.structs = Refs(M) /\ g.strict = TRUE /\ g.sparse = TRUE
        /\ \A e \in E : /\ g.enums[e.ref].known = {e.values[i].name : i \in DOMAIN e.values}
                        /\ g.enums[e.ref].default = e.values[1].name /\ g.enums[e.ref].other = FALSE
        /\ \A m \in M : /\ DOMAIN g.structs[m.ref] = DOMAIN m.fields
                        /\ \A i \in DOMAIN m.fields : /\ g.structs[m.ref][i].key = JsonKey(m.fields[i].name)
                                                      /\ g.structs[m.ref][i].type = GoType(m.fields[i])
    <2>1. IsGo(g, files)
      BY GoOf
    <2> HIDE DEF g
    <2>2. \A f : GoField(f).key = JsonKey(f.name) /\ GoField(f).type = GoType(f)
      BY DEF GoField
    <2> QED
      BY <2>1, <2>2 DEF IsGo, E, M
  <1>2. /\ Refs(E) \cap Refs(M) = {}
        /\ \A t \in E \cup M : t.ref.pkg # Google
        /\ \A e \in E : WellFormedEnum(e)
        /\ \A m \in M : WellFormedMessage(m, files)
    BY DEF WellFormed
  <1> HIDE DEF g
  <1>3. ASSUME NEW r \in DOMAIN g.enums
        PROVE  /\ g.enums[r].default \in g.enums[r].known /\ <<"Unknown">> \notin g.enums[r].known
               /\ g.enums[r].other = FALSE
    <2>1. PICK e \in E : e.ref = r
      BY <1>1 DEF Refs
    <2>2. /\ IsName(e.ref.name) /\ e.values \in Seq(ToSet(e.values)) /\ e.values # <<>>
          /\ \A i \in DOMAIN e.values : IsName(e.values[i].name) /\ IsStrictPrefix(e.ref.name, e.values[i].name)
      BY <1>2 DEF WellFormedEnum
    <2>3. 1 \in DOMAIN e.values
      BY <2>2
    <2>4. ASSUME NEW i \in DOMAIN e.values PROVE e.values[i].name # <<"Unknown">>
      <3> DEFINE n == e.values[i].name
                 p == e.ref.name
      <3>1. IsName(n) /\ IsName(p) /\ IsStrictPrefix(p, n)
        BY <2>2
      <3> HIDE DEF n, p
      <3>2. p \in Seq(STRING) /\ n \in Seq(STRING) /\ Len(p) \in Nat /\ Len(p) # 0
        BY <3>1 DEF IsName
      <3>3. Len(p) < Len(n)
        BY <3>1, <3>2, StrictPrefix
      <3>4. 2 \in DOMAIN n /\ 2 \notin DOMAIN <<"Unknown">>
        BY <3>2, <3>3
      <3>5. n # <<"Unknown">>
        BY <3>4
      <3> QED
        BY <3>5 DEF n
    <2> QED
      BY <1>1, <2>1, <2>3, <2>4
  <1>4. ASSUME NEW r \in DOMAIN g.structs, NEW i \in DOMAIN g.structs[r]
        PROVE  LET f == g.structs[r][i]
               IN  /\ f.key \in Steps /\ f.key \notin Places /\ Fits(g, f.type)
                   /\ \A j \in DOMAIN g.structs[r] : g.structs[r][j].key = f.key => i = j
    <2>1. PICK m \in M : m.ref = r
      BY <1>1 DEF Refs
    <2>2. /\ WellFormedMessage(m, files) /\ i \in DOMAIN m.fields /\ DOMAIN g.structs[r] = DOMAIN m.fields
          /\ \A j \in DOMAIN m.fields : g.structs[r][j].key = JsonKey(m.fields[j].name)
          /\ g.structs[r][i].type = GoType(m.fields[i])
      BY <1>1, <1>2, <1>4, <2>1
    <2>3. /\ \A j \in DOMAIN m.fields : IsName(m.fields[j].name)
          /\ \A j \in DOMAIN m.fields : m.fields[i].name = m.fields[j].name => i = j
      BY <2>2 DEF WellFormedMessage
    <2>4. /\ g.structs[r][i].key \in Steps /\ g.structs[r][i].key \notin Places
          /\ \A j \in DOMAIN g.structs[r] : g.structs[r][j].key = g.structs[r][i].key => i = j
      BY <2>2, <2>3, KeysAreSteps
    <2> DEFINE f == m.fields[i]
    <2>5. /\ f.optional \in BOOLEAN /\ f.card \in {"one", "list", "map"}
          /\ f.kind = "enum" => f.type \in Refs(E)
          /\ f.kind = "message" => f.type \in Refs(M) \/ f.type.pkg = Google
      BY <2>2 DEF WellFormedMessage
    <2> HIDE DEF f
    <2> DEFINE t == GoType(f)
    <2>6. /\ t = [base |-> t.base, named |-> t.named, card |-> t.card, option |-> t.option]
          /\ t.card = f.card /\ t.option = (f.card = "one" /\ (f.optional \/ f.kind = "message"))
          /\ t.base = "named" => f.kind \in {"enum", "message"} /\ t.named = f.type
          /\ t.base \in {"string", "u32", "named"}
      BY GoTypes
    <2> HIDE DEF t
    <2>7. Fits(g, t)
      BY <1>1, <2>5, <2>6 DEF Fits
    <2> QED
      BY <2>2, <2>4, <2>7 DEF t, f
  <1>5. \A r \in DOMAIN g.structs \cup DOMAIN g.enums : r.pkg # Google
    BY <1>1, <1>2 DEF Refs
  <1>6. \A r \in DOMAIN g.structs : r \notin DOMAIN g.enums
    BY <1>1, <1>2
  <1> QED
    BY <1>1, <1>3, <1>4, <1>5, <1>6 DEF Sound, g

\* What buf's breaking rules allow extends the Go types.
LEMMA GoGrows ==
  ASSUME NEW old, NEW new, WellFormed(old), WellFormed(new), Grows(old, new)
  PROVE  Extends(GoBindings(old), GoBindings(new))
  <1> DEFINE g == GoBindings(old)
             h == GoBindings(new)
  <1>1. IsGo(g, old)
    BY GoOf
  <1>2. IsGo(h, new)
    BY GoOf
  <1> HIDE DEF g, h
  <1>3. ASSUME NEW r \in DOMAIN g.structs
        PROVE  /\ r \in DOMAIN h.structs
               /\ \A i \in DOMAIN g.structs[r] : \E j \in DOMAIN h.structs[r] : h.structs[r][j] = g.structs[r][i]
    <2>1. PICK m \in MessagesOf(old) : m.ref = r
      BY <1>1 DEF IsGo, Refs
    <2>2. PICK n \in MessagesOf(new) : n.ref = r /\ ToSet(m.fields) \subseteq ToSet(n.fields)
      BY <2>1 DEF Grows
    <2>3. \A i \in DOMAIN m.fields : \E j \in DOMAIN n.fields : n.fields[j] = m.fields[i]
      BY <2>2 DEF ToSet
    <2> QED
      BY <1>1, <1>2, <2>1, <2>2, <2>3 DEF IsGo
  <1>4. ASSUME NEW r \in DOMAIN g.enums
        PROVE  /\ r \in DOMAIN h.enums /\ g.enums[r].known \subseteq h.enums[r].known
               /\ g.enums[r].default = h.enums[r].default
    <2>1. PICK e \in EnumsOf(old) : e.ref = r
      BY <1>1 DEF IsGo, Refs
    <2>2. PICK d \in EnumsOf(new) : d.ref = r /\ ToSet(e.values) \subseteq ToSet(d.values) /\ d.values[1] = e.values[1]
      BY <2>1 DEF Grows
    <2>3. \A i \in DOMAIN e.values : \E j \in DOMAIN d.values : d.values[j] = e.values[i]
      BY <2>2 DEF ToSet
    <2> QED
      BY <1>1, <1>2, <2>1, <2>2, <2>3 DEF IsGo
  <1> QED
    BY <1>3, <1>4 DEF Extends, g, h

\* What a plugin makes of the types E and M, known by their names alone.
Makes(b, E, M) ==
  /\ b.strict = FALSE /\ b.sparse = FALSE
  /\ DOMAIN b.enums = {e.ref.name : e \in E} /\ DOMAIN b.structs = {m.ref.name : m \in M}
  /\ \A e \in E : /\ b.enums[e.ref.name].known = {e.values[i].name : i \in DOMAIN e.values}
                  /\ b.enums[e.ref.name].default = e.values[1].name
  /\ \A m \in M :
       /\ DOMAIN b.structs[m.ref.name] = DOMAIN m.fields
       /\ \A i \in DOMAIN m.fields :
            LET c == b.structs[m.ref.name][i]
            IN  /\ c.key = JsonKey(m.fields[i].name) /\ c.skip = c.type.option
                /\ Alike(c.type, GoType(m.fields[i]), Refs(E \cup M))

\* If no two of them have one name, they are those that Go has.
LEMMA MadeConforms ==
  ASSUME NEW files, WellFormed(files), NEW E \in SUBSET EnumsOf(files), NEW M \in SUBSET MessagesOf(files),
         \A t, u \in E \cup M : t.ref.name = u.ref.name => t = u,
         NEW b, Makes(b, E, M)
  PROVE  Conforms(b, GoBindings(files), Refs(E \cup M))
  <1> DEFINE g == GoBindings(files)
             N == Refs(E \cup M)
  <1>1. IsGo(g, files)
    BY GoOf
  <1>2. Refs(EnumsOf(files)) \cap Refs(MessagesOf(files)) = {}
    BY DEF WellFormed
  <1> HIDE DEF g, N
  <1>3. \A e \in E : \A m \in M : e.ref.name # m.ref.name
    BY <1>2 DEF Refs
  <1>4. \A f : GoField(f).key = JsonKey(f.name) /\ GoField(f).type = GoType(f)
    BY DEF GoField
  <1>5. ASSUME NEW r \in N
        PROVE  /\ r \in DOMAIN g.structs <=> r.name \in DOMAIN b.structs
               /\ r \in DOMAIN g.enums <=> r.name \in DOMAIN b.enums
               /\ r \in DOMAIN g.structs \/ r \in DOMAIN g.enums
               /\ r \in DOMAIN g.structs =>
                    /\ DOMAIN b.structs[r.name] = DOMAIN g.structs[r]
                    /\ \A i \in DOMAIN g.structs[r] :
                         /\ b.structs[r.name][i].key = g.structs[r][i].key
                         /\ Alike(b.structs[r.name][i].type, g.structs[r][i].type, N)
                         /\ b.structs[r.name][i].skip = b.structs[r.name][i].type.option
               /\ r \in DOMAIN g.enums =>
                    /\ b.enums[r.name].known = g.enums[r].known
                    /\ b.enums[r.name].default = g.enums[r].default
    <2>1. CASE \E e \in E : e.ref = r
      <3>1. PICK e \in E : e.ref = r
        BY <2>1
      <3>2. e \in EnumsOf(files) /\ r \in DOMAIN g.enums /\ r \notin DOMAIN g.structs
        BY <1>1, <1>2, <3>1 DEF IsGo, Refs
      <3>3. r.name \in DOMAIN b.enums /\ r.name \notin DOMAIN b.structs
        BY <1>3, <3>1 DEF Makes
      <3>4. b.enums[r.name].known = g.enums[r].known /\ b.enums[r.name].default = g.enums[r].default
        BY <1>1, <3>1, <3>2 DEF IsGo, Makes
      <3> QED
        BY <3>2, <3>3, <3>4
    <2>2. CASE \E m \in M : m.ref = r
      <3>1. PICK m \in M : m.ref = r
        BY <2>2
      <3>2. m \in MessagesOf(files) /\ r \in DOMAIN g.structs /\ r \notin DOMAIN g.enums
        BY <1>1, <1>2, <3>1 DEF IsGo, Refs
      <3>3. r.name \in DOMAIN b.structs /\ r.name \notin DOMAIN b.enums
        BY <1>3, <3>1 DEF Makes
      <3>4. /\ DOMAIN g.structs[r] = DOMAIN m.fields
            /\ \A i \in DOMAIN m.fields : g.structs[r][i] = GoField(m.fields[i])
        BY <1>1, <3>1, <3>2 DEF IsGo
      <3>5. /\ DOMAIN b.structs[r.name] = DOMAIN m.fields
            /\ \A i \in DOMAIN m.fields :
                 /\ b.structs[r.name][i].key = JsonKey(m.fields[i].name)
                 /\ b.structs[r.name][i].skip = b.structs[r.name][i].type.option
                 /\ Alike(b.structs[r.name][i].type, GoType(m.fields[i]), N)
        BY <3>1 DEF Makes, N
      <3>6. ASSUME NEW i \in DOMAIN g.structs[r]
            PROVE  /\ b.structs[r.name][i].key = g.structs[r][i].key
                   /\ Alike(b.structs[r.name][i].type, g.structs[r][i].type, N)
                   /\ b.structs[r.name][i].skip = b.structs[r.name][i].type.option
        <4>1. g.structs[r][i].key = JsonKey(m.fields[i].name) /\ g.structs[r][i].type = GoType(m.fields[i])
          BY <1>4, <3>4
        <4> QED
          BY <3>4, <3>5, <4>1
      <3>7. DOMAIN b.structs[r.name] = DOMAIN g.structs[r]
        BY <3>4, <3>5
      <3> QED
        BY <3>2, <3>3, <3>6, <3>7
    <2> QED
      BY <1>5, <2>1, <2>2 DEF N, Refs
  <1>6. b.strict = FALSE /\ b.sparse = FALSE
    BY DEF Makes
  <1> QED
    BY <1>5, <1>6 DEF Conforms, g, N

\* A field of the Rust crate is like the Go field.
LEMMA RustField ==
  ASSUME NEW files, WellFormed(files), NEW m \in MessagesOf(files), NEW i \in DOMAIN m.fields,
         NEW N, Maps(m.fields[i]),
         m.fields[i].kind = "enum" => m.fields[i].type \in N /\ m.fields[i].type # Timestamp,
         m.fields[i].kind = "message" => m.fields[i].type \in N \cup {Timestamp}
  PROVE  LET c == mapField(m.fields[i])
         IN  /\ c.key = JsonKey(m.fields[i].name) /\ c.skip = c.type.option
             /\ Alike(c.type, GoType(m.fields[i]), N)
  <1> DEFINE f == m.fields[i]
             c == mapField(f)
             t == GoType(f)
  <1>1. /\ IsName(f.name) /\ f.optional \in BOOLEAN
        /\ f.kind \notin {"enum", "message"} => f.type = NoRef
        /\ f.card = "one" /\ f.kind \in {"string", "uint32", "enum", "message"}
    BY DEF WellFormed, WellFormedMessage, Maps
  <1>2. /\ f.kind = "enum" => f.type \in N /\ f.type # Timestamp
        /\ f.kind = "message" => f.type \in N \cup {Timestamp}
    OBVIOUS
  <1> HIDE DEF f
  <1>3. c.key = JsonKey(f.name)
    BY <1>1, KeysAreSteps DEF mapField
  <1>4. NoRef # Timestamp
    BY DEF NoRef, Timestamp, Ref, Google
  <1>5. /\ t.card = "one" /\ t.option = (f.optional \/ f.kind = "message")
        /\ f.kind \in {"enum", "message"} /\ f.type # Timestamp => t.base = "named" /\ t.named = f.type
        /\ ~ (f.kind \in {"enum", "message"} /\ f.type # Timestamp) =>
             t.base = IF f.type # Timestamp /\ f.kind = "uint32" THEN "u32" ELSE "string"
    BY <1>1, GoTypes
  <1> HIDE DEF t
  <1>6. \A type : /\ wrapOptional(f, type).skip = f.optional
                  /\ wrapOptional(f, type).type = IF f.optional THEN Option(type) ELSE type
    BY DEF wrapOptional
  <1>7. /\ \A base : /\ Scalar(base).base = base /\ Scalar(base).card = "one" /\ Scalar(base).option = FALSE
                     /\ Option(Scalar(base)).base = base /\ Option(Scalar(base)).card = "one"
                     /\ Option(Scalar(base)).option = TRUE
        /\ \A n : /\ Named(n).base = "named" /\ Named(n).card = "one" /\ Named(n).option = FALSE
                  /\ Named(n).named = n /\ Option(Named(n)).named = n
                  /\ Option(Named(n)).base = "named" /\ Option(Named(n)).card = "one"
                  /\ Option(Named(n)).option = TRUE
    BY DEF Scalar, Named, Option
  <1>8. CASE f.kind = "string"
    <2>1. c.type = wrapOptional(f, Scalar("string")).type /\ c.skip = f.optional
      BY <1>6, <1>8 DEF mapField
    <2>2. t.base = "string" /\ t.option = f.optional
      BY <1>1, <1>4, <1>5, <1>8
    <2>3. c.type.base = "string" /\ c.type.card = "one" /\ c.type.option = f.optional
      <3> DEFINE s == Scalar("string")
                 w == wrapOptional(f, s).type
      <3>0. /\ s.card = "one" /\ s.option = FALSE /\ Option(s).base = s.base /\ Option(s).named = s.named
            /\ Option(s).card = "one" /\ Option(s).option = TRUE
        BY DEF Scalar, Named, Option
      <3>1. w = IF f.optional THEN Option(s) ELSE s
        BY <1>6
      <3>3. c.type = w
        BY <2>1
      <3> HIDE DEF s, w
      <3>2. w.base = s.base /\ w.card = "one" /\ w.option = f.optional
        <4>1. CASE f.optional = TRUE
          BY <3>0, <3>1, <4>1
        <4>2. CASE f.optional = FALSE
          BY <3>0, <3>1, <4>2
        <4> QED
          BY <1>1, <4>1, <4>2
      <3> QED
        BY <1>7, <3>2, <3>3 DEF s
    <2> QED
      BY <1>3, <1>5, <2>1, <2>2, <2>3 DEF Alike, t, f
  <1>9. CASE f.kind = "uint32"
    <2>1. c.type = wrapOptional(f, Scalar("u32")).type /\ c.skip = f.optional
      BY <1>6, <1>9 DEF mapField
    <2>2. t.base = "u32" /\ t.option = f.optional
      BY <1>1, <1>4, <1>5, <1>9
    <2>3. c.type.base = "u32" /\ c.type.card = "one" /\ c.type.option = f.optional
      <3> DEFINE s == Scalar("u32")
                 w == wrapOptional(f, s).type
      <3>0. /\ s.card = "one" /\ s.option = FALSE /\ Option(s).base = s.base /\ Option(s).named = s.named
            /\ Option(s).card = "one" /\ Option(s).option = TRUE
        BY DEF Scalar, Named, Option
      <3>1. w = IF f.optional THEN Option(s) ELSE s
        BY <1>6
      <3>3. c.type = w
        BY <2>1
      <3> HIDE DEF s, w
      <3>2. w.base = s.base /\ w.card = "one" /\ w.option = f.optional
        <4>1. CASE f.optional = TRUE
          BY <3>0, <3>1, <4>1
        <4>2. CASE f.optional = FALSE
          BY <3>0, <3>1, <4>2
        <4> QED
          BY <1>1, <4>1, <4>2
      <3> QED
        BY <1>7, <3>2, <3>3 DEF s
    <2> QED
      BY <1>3, <1>5, <2>1, <2>2, <2>3 DEF Alike, t, f
  <1>10. CASE f.kind = "enum"
    <2>1. c.type = wrapOptional(f, Named(f.type.name)).type /\ c.skip = f.optional
      BY <1>6, <1>10 DEF mapField
    <2>2. t.base = "named" /\ t.named = f.type /\ t.option = f.optional /\ f.type \in N
      BY <1>1, <1>2, <1>5, <1>10
    <2>3. /\ c.type.base = "named" /\ c.type.card = "one" /\ c.type.option = f.optional
          /\ c.type.named = f.type.name
      <3> DEFINE s == Named(f.type.name)
                 w == wrapOptional(f, s).type
      <3>0. /\ s.card = "one" /\ s.option = FALSE /\ Option(s).base = s.base /\ Option(s).named = s.named
            /\ Option(s).card = "one" /\ Option(s).option = TRUE
        BY DEF Scalar, Named, Option
      <3>1. w = IF f.optional THEN Option(s) ELSE s
        BY <1>6
      <3>3. c.type = w
        BY <2>1
      <3> HIDE DEF s, w
      <3>2. w.base = s.base /\ w.card = "one" /\ w.option = f.optional /\ w.named = s.named
        <4>1. CASE f.optional = TRUE
          BY <3>0, <3>1, <4>1
        <4>2. CASE f.optional = FALSE
          BY <3>0, <3>1, <4>2
        <4> QED
          BY <1>1, <4>1, <4>2
      <3> QED
        BY <1>7, <3>2, <3>3 DEF s
    <2> QED
      BY <1>3, <1>5, <2>1, <2>2, <2>3 DEF Alike, t, f
  <1>11. CASE f.kind = "message"
    <2>1. /\ c.type = Option(IF f.type = Timestamp THEN Scalar("string") ELSE Named(f.type.name))
          /\ c.skip = TRUE
      BY <1>11 DEF mapField
    <2>2. CASE f.type = Timestamp
      <3>1. t.base = "string" /\ t.option = TRUE
        BY <1>5, <1>11, <2>2
      <3>2. c.type.base = "string" /\ c.type.card = "one" /\ c.type.option = TRUE
        BY <1>7, <2>1, <2>2
      <3> QED
        BY <1>3, <1>5, <2>1, <3>1, <3>2 DEF Alike, t, f
    <2>3. CASE f.type # Timestamp
      <3>1. t.base = "named" /\ t.named = f.type /\ t.option = TRUE /\ f.type \in N
        BY <1>2, <1>5, <1>11, <2>3
      <3>2. /\ c.type.base = "named" /\ c.type.card = "one" /\ c.type.option = TRUE
            /\ c.type.named = f.type.name
        BY <1>7, <2>1, <2>3
      <3> QED
        BY <1>3, <1>5, <2>1, <3>1, <3>2 DEF Alike, t, f
    <2> QED
      BY <2>2, <2>3
  <1> QED
    BY <1>1, <1>8, <1>9, <1>10, <1>11

\* The types of one package have distinct names.
LEMMA PackageNames ==
  ASSUME NEW files, WellFormed(files), NEW p,
         NEW t \in EnumsOf(files) \cup MessagesOf(files), t.ref.pkg = p,
         NEW u \in EnumsOf(files) \cup MessagesOf(files), u.ref.pkg = p, t.ref.name = u.ref.name
  PROVE  t = u
  <1>1. t.ref = u.ref
    <2>1. t.ref = Ref(p, t.ref.name) /\ u.ref = Ref(p, u.ref.name)
      BY TypesHaveNames
    <2> QED
      BY <2>1
  <1>2. /\ \A e, d \in EnumsOf(files) : e.ref = d.ref => e = d
        /\ \A m, n \in MessagesOf(files) : m.ref = n.ref => m = n
        /\ Refs(EnumsOf(files)) \cap Refs(MessagesOf(files)) = {}
    BY DEF WellFormed
  <1>3. ASSUME NEW e \in EnumsOf(files), NEW m \in MessagesOf(files) PROVE e.ref # m.ref
    BY <1>2 DEF Refs
  <1> QED
    BY <1>1, <1>2, <1>3

\* Each module of a crate that is made from self-contained types conforms to the Go types.
LEMMA RustConforms ==
  ASSUME NEW files, WellFormed(files), NEW opts, NEW p \in Packages(InScope(files, opts)),
         \A m \in MessagesOf(InScope(files, opts)) : Emits(m),
         \A m \in MessagesOf(InScope(files, opts)) : \A i \in DOMAIN m.fields :
           m.fields[i].type \in {NoRef, Timestamp} \/ m.fields[i].type.pkg = m.ref.pkg
  PROVE  LET few == OfPackages(InScope(files, opts), {p})
             b == genPackage(few)
         IN  /\ Conforms(b, GoBindings(files), Refs(EnumsOf(few) \cup MessagesOf(few)))
             /\ \A n \in DOMAIN b.enums : b.enums[n].other = TRUE
  <1> DEFINE few == OfPackages(InScope(files, opts), {p})
             b == genPackage(few)
             E == EnumsOf(few)
             M == MessagesOf(few)
             N == Refs(E \cup M)
             enum(n) == CHOOSE e \in E : e.ref.name = n
             msg(n) == CHOOSE m \in M : m.ref.name = n
  <1>1. /\ E = {e \in EnumsOf(files) : e.ref.pkg = p} /\ M = {m \in MessagesOf(files) : m.ref.pkg = p}
        /\ \A m \in M : Emits(m)
    BY PackageInScope
  <1>2. Closed(few, files)
    BY PackageClosed
  <1> HIDE DEF few
  <1>3. /\ b.enums = [n \in {e.ref.name : e \in E} |-> genEnum(enum(n))]
        /\ b.structs = [n \in {m.ref.name : m \in M} |-> genMessage(msg(n))]
        /\ b.strict = FALSE /\ b.sparse = FALSE
    BY DEF genPackage
  <1>4. /\ \A e \in E : WellFormedEnum(e)
        /\ \A m \in M : \A i \in DOMAIN m.fields :
             LET f == m.fields[i]
             IN  /\ f.kind = "enum" => f.type \in Refs(E)
                 /\ f.kind = "message" => f.type \in Refs(M) \cup {Timestamp}
    BY <1>2 DEF Closed
  <1>5. \A t, u \in E \cup M : t.ref.name = u.ref.name => t = u
    BY <1>1, PackageNames
  <1>6. (\A t \in E \cup M : t.ref \in N /\ t.ref # Timestamp) /\ Refs(E) \subseteq N /\ Refs(M) \subseteq N
    <2>1. \A t \in EnumsOf(files) \cup MessagesOf(files) : t.ref.pkg # Google
      BY DEF WellFormed
    <2>2. Timestamp.pkg = Google
      BY DEF Timestamp, Ref
    <2> QED
      BY <1>1, <2>1, <2>2 DEF Refs
  <1> HIDE DEF b, E, M, N
  <1>7. (\A e \in E : enum(e.ref.name) = e) /\ (\A m \in M : msg(m.ref.name) = m)
    BY <1>5
  <1> HIDE DEF enum, msg
  <1>8. /\ \A e \in E : e.ref.name \in DOMAIN b.enums /\ b.enums[e.ref.name] = genEnum(e)
        /\ \A m \in M : b.structs[m.ref.name] = genMessage(m)
        /\ DOMAIN b.enums = {e.ref.name : e \in E} /\ DOMAIN b.structs = {m.ref.name : m \in M}
    BY <1>3, <1>7
  <1>9. ASSUME NEW e \in E
        PROVE  /\ genEnum(e).known = {e.values[i].name : i \in DOMAIN e.values}
               /\ genEnum(e).default = e.values[1].name /\ genEnum(e).other = TRUE
    <2> DEFINE T == ToSet(e.values)
               S == {v \in T : v.number = 0}
               zero == Within(e.values, S)
    <2>1. e.values \in Seq(T) /\ e.values # <<>> /\ e.values[1].number = 0
      BY <1>4 DEF WellFormedEnum
    <2>2. e.values[1] \in S
      BY <2>1 DEF ToSet
    <2>3. /\ genEnum(e).known = {e.values[i].name : i \in DOMAIN e.values} /\ genEnum(e).other = TRUE
          /\ genEnum(e).default = IF zero = <<>> THEN <<>> ELSE zero[1].name
      BY DEF genEnum
    <2> HIDE DEF T, S
    <2>4. zero # <<>> /\ zero[1] = e.values[1]
      BY <2>1, <2>2, WithinHas
    <2> QED
      BY <2>3, <2>4
  <1>10. ASSUME NEW m \in M, NEW i \in DOMAIN m.fields
         PROVE  LET c == mapField(m.fields[i])
                IN  /\ c.key = JsonKey(m.fields[i].name) /\ c.skip = c.type.option
                    /\ Alike(c.type, GoType(m.fields[i]), N)
    <2> DEFINE f == m.fields[i]
    <2>1. m \in MessagesOf(files) /\ Maps(f)
      BY <1>1, <1>10 DEF Emits
    <2>2. /\ f.kind = "enum" => f.type \in N /\ f.type # Timestamp
          /\ f.kind = "message" => f.type \in N \cup {Timestamp}
      BY <1>4, <1>6, <1>10 DEF Refs
    <2> QED
      BY <2>1, <2>2, RustField
  <1>11. \A m \in M : /\ DOMAIN genMessage(m) = DOMAIN m.fields
                      /\ \A i \in DOMAIN m.fields : genMessage(m)[i] = mapField(m.fields[i])
    BY DEF genMessage
  <1>12. Makes(b, E, M)
    <2>1. \A e \in E : /\ b.enums[e.ref.name].known = {e.values[i].name : i \in DOMAIN e.values}
                       /\ b.enums[e.ref.name].default = e.values[1].name
      BY <1>8, <1>9
    <2>2. ASSUME NEW m \in M
          PROVE  /\ DOMAIN b.structs[m.ref.name] = DOMAIN m.fields
                 /\ \A i \in DOMAIN m.fields :
                      LET c == b.structs[m.ref.name][i]
                      IN  /\ c.key = JsonKey(m.fields[i].name) /\ c.skip = c.type.option
                          /\ Alike(c.type, GoType(m.fields[i]), N)
      BY <1>8, <1>10, <1>11
    <2> QED
      BY <1>3, <1>8, <2>1, <2>2 DEF Makes, N
  <1>13. E \in SUBSET EnumsOf(files) /\ M \in SUBSET MessagesOf(files)
    BY <1>1
  <1>14. Conforms(b, GoBindings(files), N)
    BY <1>5, <1>12, <1>13, MadeConforms DEF N
  <1>15. ASSUME NEW n \in DOMAIN b.enums PROVE b.enums[n].other = TRUE
    <2>1. PICK e \in E : e.ref.name = n
      BY <1>8
    <2>2. b.enums[n] = genEnum(e)
      BY <1>8, <2>1
    <2> QED
      BY <1>9, <2>2
  <1> QED
    BY <1>14, <1>15 DEF b, E, M, N, few

\* The Swift plugin reads a contract as the others do.
LEMMA SwiftSame ==
  /\ \A q, S : Swift!Within(q, S) = Within(q, S)
  /\ \A files : Swift!EnumsOf(files) = EnumsOf(files) /\ Swift!MessagesOf(files) = MessagesOf(files)
  /\ \A q : Swift!ToSet(q) = ToSet(q)
  /\ \A name : Swift!lowerCamel(name) = lowerCamel(name)
  /\ \A x : Swift!Scalar(x) = Scalar(x) /\ Swift!Named(x) = Named(x)
  <1>1. \A q, S : Swift!Within(q, S) = Within(q, S)
    BY DEF Swift!Within, Within
  <1>2. \A q : Swift!ToSet(q) = ToSet(q)
    BY DEF Swift!ToSet, ToSet
  <1>3. \A files : Swift!EnumsOf(files) = EnumsOf(files) /\ Swift!MessagesOf(files) = MessagesOf(files)
    BY <1>2 DEF Swift!EnumsOf, EnumsOf, Swift!MessagesOf, MessagesOf
  <1>4. ASSUME NEW name PROVE Swift!lowerCamel(name) = lowerCamel(name)
    BY <1>1, <1>2 DEF Swift!lowerCamel, lowerCamel, Parts, Swift!Lower, Swift!Title, Lower, Title, Swift!Nothing, Nothing
  <1>5. \A x : Swift!Scalar(x) = Scalar(x) /\ Swift!Named(x) = Named(x)
    BY DEF Swift!Scalar, Scalar, Swift!Named, Named
  <1> QED
    BY <1>1, <1>2, <1>3, <1>4, <1>5

\* A field of the Swift types is like the Go field, where Swift can say what it is.
LEMMA SwiftField ==
  ASSUME NEW files, WellFormed(files), NEW m \in MessagesOf(files), NEW i \in DOMAIN m.fields,
         NEW N, Swift!Maps(m.fields[i]), ~ m.fields[i].optional, m.fields[i].type \in {NoRef} \cup N,
         NoRef \notin N, \A r \in N : r.pkg \notin {NoRef.pkg, Google}
  PROVE  LET c == Swift!mapField(m.fields[i])
         IN  /\ c.key = JsonKey(m.fields[i].name) /\ c.skip = c.type.option
             /\ Alike(c.type, GoType(m.fields[i]), N)
  <1> DEFINE f == m.fields[i]
             c == Swift!mapField(f)
             t == GoType(f)
             option == f.card = "one" /\ f.kind = "message"
  <1>1. /\ IsName(f.name) /\ f.card \in {"one", "list", "map"}
        /\ f.kind = "enum" => f.type \in Refs(EnumsOf(files))
        /\ f.kind = "message" => f.type \in Refs(MessagesOf(files)) \/ f.type.pkg = Google
        /\ f.kind \notin {"enum", "message"} => f.type = NoRef
        /\ f.kind \in {"string", "enum", "message"}
    BY DEF WellFormed, WellFormedMessage, Swift!Maps
  <1>2. /\ NoRef # Timestamp /\ Timestamp.pkg = Google /\ NoRef.pkg # Google
    BY DEF NoRef, Timestamp, Ref, Google
  <1>3. f.type \in {NoRef} \cup N /\ ~ f.optional
    OBVIOUS
  <1>4. f.kind \in {"enum", "message"} => f.type \in N
    <2>1. \A u \in EnumsOf(files) \cup MessagesOf(files) : u.ref.pkg # NoRef.pkg
      BY DEF WellFormed
    <2>2. f.type.pkg # NoRef.pkg \/ f.type.pkg = Google \/ f.kind \notin {"enum", "message"}
      BY <1>1, <2>1 DEF Refs
    <2> QED
      BY <1>2, <1>3, <2>2
  <1>5. f.type # Timestamp
    BY <1>2, <1>3
  <1> HIDE DEF f
  <1>6. /\ t.card = f.card /\ t.option = option
        /\ f.kind \in {"enum", "message"} => t.base = "named" /\ t.named = f.type
        /\ f.kind = "string" => t.base = "string"
    BY <1>1, <1>3, <1>5, GoTypes
  <1> HIDE DEF t
  <1>7. c.key = JsonKey(f.name)
    BY <1>1, KeysAreSteps, SwiftSame DEF Swift!mapField
  <1>8. /\ c.skip = option
        /\ c.type = [Swift!baseType(f) EXCEPT !.card = f.card, !.option = option]
    BY DEF Swift!mapField
  <1>9. CASE f.kind = "string"
    <2>1. Swift!baseType(f) = Scalar("string")
      BY <1>9, SwiftSame DEF Swift!baseType
    <2>2. c.type.base = "string" /\ c.type.card = f.card /\ c.type.option = option
      BY <1>8, <2>1 DEF Scalar
    <2> QED
      BY <1>6, <1>7, <1>8, <1>9, <2>2 DEF Alike, t, f
  <1>10. CASE f.kind \in {"enum", "message"}
    <2>1. Swift!baseType(f) = Named(f.type.name)
      BY <1>10, SwiftSame DEF Swift!baseType
    <2>2. /\ c.type.base = "named" /\ c.type.card = f.card /\ c.type.option = option
          /\ c.type.named = f.type.name
      BY <1>8, <2>1 DEF Scalar, Named
    <2> QED
      BY <1>4, <1>6, <1>7, <1>8, <1>10, <2>2 DEF Alike, t, f
  <1> QED
    BY <1>1, <1>9, <1>10

\* The Swift plugin generates for types of the contract.
LEMMA SwiftScope ==
  ASSUME NEW files, WellFormed(files)
  PROVE  /\ EnumsOf(Swift!InScope(files)) \subseteq EnumsOf(files)
         /\ MessagesOf(Swift!InScope(files)) \subseteq MessagesOf(files)
  <1> DEFINE scope == Swift!InScope(files)
             S == {f \in ToSet(files) : f.generate /\ f.pkg \in Swift!swiftPackages}
  <1>1. scope = Within(files, S)
    BY SwiftSame DEF Swift!InScope
  <1>2. files \in Seq(ToSet(files))
    BY DEF WellFormed
  <1> HIDE DEF scope, S
  <1>3. ToSet(scope) \subseteq ToSet(files)
    BY <1>1, <1>2, WithinHas
  <1>4. EnumsOf(scope) \subseteq EnumsOf(files) /\ MessagesOf(scope) \subseteq MessagesOf(files)
    BY <1>3, DeclaredIn
  <1> QED
    BY <1>4 DEF scope

\* The Swift types conform to the Go types, if each can be known by its name alone and
\* Swift can say what each field is.
LEMMA SwiftConforms ==
  ASSUME NEW files, WellFormed(files), Swift!SwiftFiles(files).status = "ok",
         LET scope == Swift!InScope(files)
             types == EnumsOf(scope) \cup MessagesOf(scope)
         IN  /\ \A t, u \in types : t.ref.name = u.ref.name => t = u
             /\ \A m \in MessagesOf(scope) : \A i \in DOMAIN m.fields :
                  ~ m.fields[i].optional /\ m.fields[i].type \in {NoRef} \cup Refs(types)
  PROVE  LET scope == Swift!InScope(files)
             b == Swift!SwiftFiles(files)
         IN  /\ Conforms(b, GoBindings(files), Refs(EnumsOf(scope) \cup MessagesOf(scope)))
             /\ \A n \in DOMAIN b.enums : b.enums[n].other = FALSE
  <1> DEFINE scope == Swift!InScope(files)
             b == Swift!SwiftFiles(files)
             E == EnumsOf(scope)
             M == MessagesOf(scope)
             N == Refs(E \cup M)
             enum(n) == CHOOSE e \in E : e.ref.name = n
             msg(n) == CHOOSE m \in M : m.ref.name = n
  <1>1. E \subseteq EnumsOf(files) /\ M \subseteq MessagesOf(files)
    BY SwiftScope
  <1>2. /\ \A t, u \in E \cup M : t.ref.name = u.ref.name => t = u
        /\ \A m \in M : \A i \in DOMAIN m.fields :
             ~ m.fields[i].optional /\ m.fields[i].type \in {NoRef} \cup N
    OBVIOUS
  <1>3. /\ b = Swift!genSwift(scope)
        /\ \A m \in M : Swift!Emits(m)
    <2>1. [status |-> "error"].status # "ok"
      OBVIOUS
    <2> QED
      BY <2>1, SwiftSame DEF Swift!SwiftFiles
  <1> HIDE DEF scope
  <1>4. /\ b.enums = [n \in {e.ref.name : e \in E} |-> Swift!genEnum(enum(n))]
        /\ b.structs = [n \in {m.ref.name : m \in M} |-> Swift!genMessage(msg(n))]
        /\ b.strict = FALSE /\ b.sparse = FALSE
    <2>1. Swift!EnumsOf(scope) = E /\ Swift!MessagesOf(scope) = M
      BY SwiftSame
    <2> DEFINE SE == Swift!EnumsOf(scope)
               SM == Swift!MessagesOf(scope)
    <2>2. /\ b.enums = [n \in {e.ref.name : e \in SE} |-> Swift!genEnum(CHOOSE e \in SE : e.ref.name = n)]
          /\ b.structs = [n \in {m.ref.name : m \in SM} |-> Swift!genMessage(CHOOSE m \in SM : m.ref.name = n)]
          /\ b.strict = FALSE /\ b.sparse = FALSE
      BY <1>3 DEF Swift!genSwift
    <2> HIDE DEF SE, SM, b
    <2> QED
      BY <2>1, <2>2 DEF SE, SM
  <1>5. \A t \in E \cup M : t.ref.pkg \notin {NoRef.pkg, Google}
    BY <1>1 DEF WellFormed
  <1> HIDE DEF b, E, M
  <1>6. NoRef \notin N /\ \A r \in N : r.pkg \notin {NoRef.pkg, Google}
    BY <1>5 DEF Refs
  <1> HIDE DEF N
  <1>7. (\A e \in E : enum(e.ref.name) = e) /\ (\A m \in M : msg(m.ref.name) = m)
    BY <1>2
  <1> HIDE DEF enum, msg
  <1>8. /\ \A e \in E : e.ref.name \in DOMAIN b.enums /\ b.enums[e.ref.name] = Swift!genEnum(e)
        /\ \A m \in M : b.structs[m.ref.name] = Swift!genMessage(m)
        /\ DOMAIN b.enums = {e.ref.name : e \in E} /\ DOMAIN b.structs = {m.ref.name : m \in M}
    BY <1>4, <1>7
  <1>9. ASSUME NEW e \in E
        PROVE  /\ Swift!genEnum(e).known = {e.values[i].name : i \in DOMAIN e.values}
               /\ Swift!genEnum(e).default = e.values[1].name /\ Swift!genEnum(e).other = FALSE
    <2> DEFINE T == ToSet(e.values)
               Z == {v \in T : v.number = 0}
               zero == Within(e.values, Z)
    <2>1. e.values \in Seq(T) /\ e.values # <<>> /\ e.values[1].number = 0
      BY <1>1 DEF WellFormed, WellFormedEnum
    <2>2. e.values[1] \in Z
      BY <2>1 DEF ToSet
    <2>3. /\ Swift!genEnum(e).known = {e.values[i].name : i \in DOMAIN e.values} /\ Swift!genEnum(e).other = FALSE
          /\ Swift!genEnum(e).default = IF zero = <<>> THEN e.values[1].name ELSE zero[1].name
      BY SwiftSame DEF Swift!genEnum
    <2> HIDE DEF T, Z
    <2>4. zero # <<>> /\ zero[1] = e.values[1]
      BY <2>1, <2>2, WithinHas
    <2> QED
      BY <2>3, <2>4
  <1>10. ASSUME NEW m \in M, NEW i \in DOMAIN m.fields
         PROVE  LET c == Swift!mapField(m.fields[i])
                IN  /\ c.key = JsonKey(m.fields[i].name) /\ c.skip = c.type.option
                    /\ Alike(c.type, GoType(m.fields[i]), N)
    <2>1. m \in MessagesOf(files) /\ Swift!Maps(m.fields[i])
      BY <1>1, <1>3, <1>10 DEF Swift!Emits
    <2>2. ~ m.fields[i].optional /\ m.fields[i].type \in {NoRef} \cup N
      BY <1>2, <1>10
    <2> QED
      BY <1>6, <2>1, <2>2, SwiftField
  <1>11. \A m \in M : /\ DOMAIN Swift!genMessage(m) = DOMAIN m.fields
                      /\ \A i \in DOMAIN m.fields : Swift!genMessage(m)[i] = Swift!mapField(m.fields[i])
    BY DEF Swift!genMessage
  <1>12. Makes(b, E, M)
    <2>1. \A e \in E : /\ b.enums[e.ref.name].known = {e.values[i].name : i \in DOMAIN e.values}
                       /\ b.enums[e.ref.name].default = e.values[1].name
      BY <1>8, <1>9
    <2>2. ASSUME NEW m \in M
          PROVE  /\ DOMAIN b.structs[m.ref.name] = DOMAIN m.fields
                 /\ \A i \in DOMAIN m.fields :
                      LET c == b.structs[m.ref.name][i]
                      IN  /\ c.key = JsonKey(m.fields[i].name) /\ c.skip = c.type.option
                          /\ Alike(c.type, GoType(m.fields[i]), N)
      BY <1>8, <1>10, <1>11
    <2> QED
      BY <1>4, <1>8, <2>1, <2>2 DEF Makes, N
  <1>13. Conforms(b, GoBindings(files), N)
    BY <1>1, <1>2, <1>12, MadeConforms DEF N
  <1>14. ASSUME NEW n \in DOMAIN b.enums PROVE b.enums[n].other = FALSE
    <2>1. PICK e \in E : e.ref.name = n
      BY <1>8
    <2>2. b.enums[n] = Swift!genEnum(e)
      BY <1>8, <2>1
    <2> QED
      BY <1>9, <2>2
  <1> QED
    BY <1>1, <1>13, <1>14 DEF b, E, M, N, scope

-----------------------------------------------------------------------------
(* Messages between consumers of any age                                   *)

\* The crate that a Rust consumer is built with was a committed one.
PinnedWritten ==
  IF pinned.from = 0 THEN pinned.out = NoCrate
  ELSE \E it \in Iterations : pinned.out = RunRust(pinned.from, it)

\* A message on the wire is one that Go, of a version there has been, held and wrote as
\* it held it.
InFlight ==
  flight # None =>
    /\ flight.version \in 1..head /\ flight.ref \in DOMAIN Go(flight.version).structs
    /\ Carries(Go(flight.version), flight.ref, flight.sent) /\ flight.json = flight.sent

\* The invariant of the code in time, and of the messages and who has read them.
CodegenInv ==
  /\ EvolutionInv /\ PinnedWritten /\ InFlight
  /\ got.is = "read" => flight # None
  /\ ReadsWhatItKnows /\ RelayKeepsMessage

\* The Go types of a contract that has been, and of any later one.
LEMMA GoInTime ==
  ASSUME history \in Histories, NEW v \in 1..Len(history.versions)
  PROVE  /\ WellFormed(Contract(v)) /\ Sound(Go(v)) /\ IsGo(Go(v), Contract(v))
         /\ \A w \in v..Len(history.versions) : Extends(Go(v), Go(w))
  <1>1. WellFormed(Contract(v)) /\ Sound(Go(v)) /\ IsGo(Go(v), Contract(v))
    BY HistoryAssumption, GoIsSound, GoOf DEF Contract, Go
  <1>2. ASSUME NEW w \in v..Len(history.versions) PROVE Extends(Go(v), Go(w))
    <2>1. w \in 1..Len(history.versions)
      BY HistoryAssumption
    <2>2. WellFormed(Contract(w)) /\ Grows(Contract(v), Contract(w))
      BY <2>1, HistoryAssumption DEF Contract
    <2> QED
      BY <1>1, <2>2, GoGrows DEF Go
  <1> QED
    BY <1>1, <1>2

\* What a message of the consumer's package is in its crate: a type that Go of the
\* crate's version has, and N that the crate's module declares.
LEMMA RustHas ==
  ASSUME EvolutionInv, PinnedWritten, NEW ref \in RustReads
  PROVE  LET few == OfPackages(InScope(Contract(pinned.from), history.opts), {ref.pkg})
         IN  /\ pinned.from \in 1..head
             /\ ref.pkg \in Packages(InScope(Contract(pinned.from), history.opts))
             /\ \A m \in MessagesOf(InScope(Contract(pinned.from), history.opts)) : Emits(m)
             /\ Rust(ref.pkg) = genPackage(few)
             /\ ref \in Refs(MessagesOf(few)) /\ ref \in DOMAIN Go(pinned.from).structs
  <1> DEFINE files == Contract(pinned.from)
             scope == InScope(files, history.opts)
             pkgs == Packages(scope)
             few == OfPackages(scope, {ref.pkg})
  <1>1. NoCrate.status # "ok" /\ Failed.status # "ok"
    BY DEF NoCrate, Failed
  <1>2. pinned.out.status = "ok" /\ \E p \in DOMAIN pinned.out.packages :
                                      \E n \in DOMAIN Rust(p).structs : ref = Ref(p, n)
    BY DEF RustReads
  <1>3. head \in 1..Len(history.versions) /\ Len(history.versions) \in Nat /\ history \in Histories
    BY HistoryAssumption DEF EvolutionInv
  <1>4. pinned.from \in 1..head /\ pinned.from \in 1..Len(history.versions)
    <2>1. pinned.from # 0
      BY <1>1, <1>2 DEF PinnedWritten
    <2>2. crate.from \in 0..head /\ pinned.from \in 0..crate.from
      BY DEF EvolutionInv
    <2> QED
      BY <1>3, <2>1, <2>2
  <1>5. PICK it \in Iterations : pinned.out = RustCrate(files, history.opts, it)
    BY <1>4 DEF PinnedWritten, RunRust
  <1>6. WellFormed(files) /\ IsGo(Go(pinned.from), files)
    BY <1>3, <1>4, GoInTime
  <1> HIDE DEF files
  <1>7. /\ \A m \in MessagesOf(scope) : Emits(m)
        /\ pinned.out.packages = [p \in pkgs |-> genPackage(OfPackages(scope, {p}))]
    BY <1>1, <1>2, <1>5 DEF RustCrate
  <1>8. PICK p \in DOMAIN pinned.out.packages : \E n \in DOMAIN Rust(p).structs : ref = Ref(p, n)
    BY <1>2
  <1> PICK n \in DOMAIN Rust(p).structs : ref = Ref(p, n)
    BY <1>8
  <1>9. ref.pkg = p /\ ref = Ref(p, n)
    BY <1>8 DEF Ref
  <1>10. ref.pkg \in pkgs
    BY <1>7, <1>9
  <1>11. Rust(ref.pkg) = genPackage(few)
    BY <1>7, <1>10 DEF Rust
  <1>12. PICK m \in MessagesOf(few) : m.ref.name = n
    <2>1. n \in DOMAIN genPackage(few).structs
      BY <1>9, <1>11, <1>8
    <2> HIDE DEF few
    <2> QED
      BY <2>1 DEF genPackage
  <1>13. m \in MessagesOf(files) /\ m.ref.pkg = ref.pkg
    BY <1>6, <1>10, PackageInScope
  <1>14. m.ref = ref
    <2>1. m.ref = Ref(m.ref.pkg, m.ref.name)
      BY <1>6, <1>13, TypesHaveNames
    <2> QED
      BY <1>9, <1>12, <1>13, <2>1
  <1>15. ref \in Refs(MessagesOf(few)) /\ ref \in DOMAIN Go(pinned.from).structs
    BY <1>6, <1>12, <1>13, <1>14 DEF IsGo, Refs
  <1> QED
    BY <1>4, <1>7, <1>10, <1>11, <1>15 DEF files

\* The same for Swift, whose types are in one module.
LEMMA SwiftHas ==
  ASSUME EvolutionInv, NEW ref \in SwiftReads
  PROVE  /\ SwiftFiles(swift).status = "ok" /\ ref \in Refs(MessagesOf(Swift!InScope(Contract(swift))))
         /\ ref \in DOMAIN Go(swift).structs /\ swift \in 1..head
  <1>1. swift \in 1..head /\ swift \in 1..Len(history.versions) /\ history \in Histories
    BY HistoryAssumption DEF EvolutionInv
  <1>2. WellFormed(Contract(swift)) /\ IsGo(Go(swift), Contract(swift))
    BY <1>1, GoInTime
  <1>3. SwiftFiles(swift).status = "ok" /\ ref \in Refs(MessagesOf(Swift!InScope(Contract(swift))))
    BY DEF SwiftReads
  <1>4. MessagesOf(Swift!InScope(Contract(swift))) \subseteq MessagesOf(Contract(swift))
    BY <1>2, SwiftScope
  <1> QED
    BY <1>1, <1>2, <1>3, <1>4 DEF IsGo, Refs

\* What is read of a message in flight with types that conform to those of version v, and
\* what comes back.
LEMMA ReadAndRelayed ==
  ASSUME EvolutionInv, InFlight, flight # None, NEW v \in 1..head, NEW b, NEW N,
         Conforms(b, Go(v), N), flight.ref \in N, flight.ref \in DOMAIN Go(v).structs,
         NEW other \in {Unknown, Fail}, \A n \in DOMAIN b.enums : b.enums[n].other <=> other = Unknown
  PROVE  LET value == Read(b, flight.ref.name, flight.json)
             back == Read(Go(head), flight.ref, Write(b, flight.ref.name, value))
         IN  /\ value = Seen(v, flight.ref, flight.sent, other)
             /\ back = value \/ (back = Refused /\ v < flight.version)
  <1> DEFINE w == flight.version
             r == flight.ref
             m == flight.sent
  <1>1. /\ w \in 1..head /\ r \in DOMAIN Go(w).structs /\ Carries(Go(w), r, m) /\ flight.json = m
        /\ history \in Histories /\ head \in 1..Len(history.versions) /\ Len(history.versions) \in Nat
    BY HistoryAssumption DEF InFlight, EvolutionInv
  <1>2. /\ v \in 1..Len(history.versions) /\ w \in 1..Len(history.versions) /\ v \in Nat /\ w \in Nat
        /\ head \in v..Len(history.versions) /\ head \in w..Len(history.versions)
        /\ v <= w => w \in v..Len(history.versions)
        /\ w <= v => v \in w..Len(history.versions)
    BY <1>1
  <1>3. /\ Sound(Go(v)) /\ Sound(Go(w)) /\ Sound(Go(head))
        /\ Extends(Go(v), Go(head)) /\ Extends(Go(w), Go(head))
        /\ v <= w => Extends(Go(v), Go(w))
        /\ w <= v => Extends(Go(w), Go(v))
    BY <1>1, <1>2, GoInTime
  <1>4. /\ Extends(Go(v), Go(w)) \/ Extends(Go(w), Go(v))
        /\ ~ Extends(Go(w), Go(v)) => v < w
    BY <1>2, <1>3
  <1>5. Read(b, r.name, m) = SeenIn(Go(v), r, m, other)
    <2> DEFINE g == Go(v)
               h == Go(w)
    <2>1. /\ Conforms(b, g, N) /\ Sound(g) /\ Sound(h)
          /\ Extends(g, h) \/ Extends(h, g)
          /\ r \in N /\ r \in DOMAIN g.structs /\ r \in DOMAIN h.structs /\ Carries(h, r, m)
          /\ \A n \in DOMAIN b.enums : b.enums[n].other <=> other = Unknown
      BY <1>1, <1>3, <1>4
    <2> HIDE DEF r, m, g, h
    <2>2. Read(b, r.name, m) = SeenIn(g, r, m, other)
      BY <2>1, ReadIsSeen
    <2> QED
      BY <2>2 DEF g
  <1>6. LET x == SeenIn(Go(v), r, m, other)
            back == Read(Go(head), r, Write(b, r.name, x))
        IN  back = x \/ (back = Refused /\ ~ Extends(Go(w), Go(v)))
    BY <1>1, <1>3, <1>4, Relay
  <1>7. Seen(v, r, m, other) = SeenIn(Go(v), r, m, other)
    BY DEF Seen, SeenIn
  <1> QED
    BY <1>1, <1>4, <1>5, <1>6, <1>7

\* What the last two properties say does not depend on how old the other consumers and
\* the services have become.
LEMMA SaidOfThePast ==
  ASSUME CodegenInv, UNCHANGED <<history, traffic>>
  PROVE  ReadsWhatItKnows' /\ RelayKeepsMessage'
  <1>1. history' = history /\ flight' = flight /\ got' = got
    BY DEF traffic
  <1>2. /\ \A v : SwiftSpeaks(v)' = SwiftSpeaks(v) /\ SelfContained(v)' = SelfContained(v)
        /\ \A v, r, m, other : Seen(v, r, m, other)' = Seen(v, r, m, other)
    BY <1>1 DEF SwiftSpeaks, SelfContained, Spoken, Seen, Go, Contract
  <1>3. \A lang, v : Speaks(lang, v)' = Speaks(lang, v)
    BY <1>2 DEF Speaks
  <1> QED
    BY <1>1, <1>2, <1>3 DEF CodegenInv, ReadsWhatItKnows, RelayKeepsMessage

\* What a step of the contract, the crate or a consumer leaves alone.
LEMMA EvolutionKeeps ==
  ASSUME EvolutionInv, [EvolutionNext]_evolutionVars
  PROVE  history' = history /\ head' \in head..head + 1 /\ pinned' \in {pinned, crate}
  <1>1. head \in Nat
    BY HistoryAssumption DEF EvolutionInv
  <1>2. CASE Evolve
    BY <1>1, <1>2 DEF Evolve, code
  <1>3. CASE PinCrate
    BY <1>1, <1>3 DEF PinCrate
  <1>4. CASE RebuildSwift
    BY <1>1, <1>4 DEF RebuildSwift
  <1>5. ASSUME NEW it \in Iterations, BufGenerate(it) \/ DriftGate(it)
        PROVE  UNCHANGED <<history, head, pinned>>
    BY <1>5 DEF BufGenerate, DriftGate
  <1>6. ASSUME NEW lang \in {"go", "python"}, RebuildHarness(lang) PROVE UNCHANGED <<history, head, pinned>>
    BY <1>6 DEF RebuildHarness, code
  <1>7. ASSUME NEW next \in Replies, StepGo(next) \/ StepPython(next)
        PROVE  UNCHANGED <<history, head, pinned>>
    BY <1>7 DEF StepGo, StepPython, Walk, code
  <1>8. CASE UNCHANGED evolutionVars
    BY <1>1, <1>8 DEF evolutionVars, code
  <1> QED
    BY <1>1, <1>2, <1>3, <1>4, <1>5, <1>6, <1>7, <1>8 DEF EvolutionNext

\* The contract grows, code is generated, consumers are rebuilt: what is on the wire stays
\* a message of a version there has been.
LEMMA EvolutionStepIsSafe ==
  ASSUME CodegenInv, [EvolutionNext]_evolutionVars, UNCHANGED traffic
  PROVE  CodegenInv'
  <1>1. EvolutionInv'
    BY EvolutionStep DEF CodegenInv
  <1>2. /\ history' = history /\ head' \in head..head + 1 /\ pinned' \in {pinned, crate}
        /\ head \in Nat
    BY EvolutionKeeps, HistoryAssumption DEF CodegenInv, EvolutionInv
  <1>3. flight' = flight /\ got' = got
    BY DEF traffic
  <1>4. \A v : Go(v)' = Go(v) /\ \A it : RunRust(v, it)' = RunRust(v, it)
    BY <1>2 DEF Go, RunRust, Contract
  <1>5. PinnedWritten'
    <2>1. PICK c : c = pinned'
      OBVIOUS
    <2>2. IF c.from = 0 THEN c.out = NoCrate ELSE \E it \in Iterations : c.out = RunRust(c.from, it)
      BY <1>2, <2>1 DEF CodegenInv, PinnedWritten, EvolutionInv, Written
    <2>3. \A it : RunRust(c.from, it)' = RunRust(c.from, it)
      BY <1>4
    <2> QED
      BY <2>1, <2>2, <2>3 DEF PinnedWritten
  <1>6. InFlight'
    <2>1. flight # None =>
            /\ flight.version \in 1..head' /\ flight.ref \in DOMAIN Go(flight.version).structs
            /\ Carries(Go(flight.version), flight.ref, flight.sent) /\ flight.json = flight.sent
      BY <1>2 DEF CodegenInv, InFlight
    <2> QED
      BY <1>3, <1>4, <2>1 DEF InFlight
  <1>7. ReadsWhatItKnows' /\ RelayKeepsMessage'
    BY <1>2, SaidOfThePast
  <1> QED
    BY <1>1, <1>3, <1>5, <1>6, <1>7 DEF CodegenInv

\* A service sends what it can hold, of a type that a consumer knew before it did.
LEMMA SendIsSafe ==
  ASSUME CodegenInv, NEW ref \in RustReads \cup SwiftReads, Send(ref)
  PROVE  CodegenInv'
  <1>1. /\ history' = history /\ head' = head /\ pinned' = pinned /\ got' = got /\ flight = None
        /\ UNCHANGED evolutionVars
    BY DEF Send, evolutionVars, code
  <1>2. PICK msg \in Drafts[ref] :
          /\ Holds(Go(head), ref, msg)
          /\ flight' = [is |-> "message", ref |-> ref, version |-> head, sent |-> msg,
                        json |-> Write(Go(head), ref, msg)]
    BY DEF Send
  <1>3. head \in 1..Len(history.versions) /\ head \in 1..head /\ history \in Histories
    BY HistoryAssumption DEF CodegenInv, EvolutionInv
  <1>4. Sound(Go(head)) /\ ref \in DOMAIN Go(head).structs
    <2>1. PICK v \in 1..head : ref \in DOMAIN Go(v).structs
      BY RustHas, SwiftHas DEF CodegenInv
    <2>2. v \in 1..Len(history.versions) /\ head \in v..Len(history.versions)
      BY <1>3, HistoryAssumption
    <2>3. Sound(Go(head)) /\ Extends(Go(v), Go(head))
      BY <1>3, <2>2, GoInTime
    <2> QED
      BY <2>1, <2>3 DEF Extends
  <1>5. Carries(Go(head), ref, msg)
    BY <1>2, <1>4, HeldIs
  <1>6. Write(Go(head), ref, msg) = msg
    BY <1>4, <1>5, WrittenAsHeld DEF Carries
  <1>7. EvolutionInv' /\ PinnedWritten'
    <2>1. EvolutionInv'
      BY <1>1, EvolutionStep DEF CodegenInv
    <2>2. \A v, it : RunRust(v, it)' = RunRust(v, it)
      BY <1>1 DEF RunRust, Contract
    <2> QED
      BY <1>1, <2>1, <2>2 DEF CodegenInv, PinnedWritten
  <1>8. InFlight'
    <2>1. \A v : Go(v)' = Go(v)
      BY <1>1 DEF Go, Contract
    <2> QED
      BY <1>1, <1>2, <1>3, <1>4, <1>5, <1>6, <2>1 DEF InFlight
  <1>9. got'.is # "read"
    BY <1>1 DEF CodegenInv
  <1> QED
    BY <1>7, <1>8, <1>9 DEF CodegenInv, ReadsWhatItKnows, RelayKeepsMessage

\* A consumer reads a message in flight, with whatever types it was built with.
LEMMA ReceiveIsSafe ==
  ASSUME CodegenInv, flight # None, NEW lang \in {"rust", "swift"}, NEW v, NEW b, Receive(lang, v, b),
         LET value == Read(b, flight.ref.name, flight.json)
             back == Read(Go(head), flight.ref, Write(b, flight.ref.name, value))
         IN  Speaks(lang, v) =>
               /\ value = Seen(v, flight.ref, flight.sent, IF lang = "rust" THEN Unknown ELSE Fail)
               /\ back = value \/ (back = Refused /\ v < flight.version)
  PROVE  CodegenInv'
  <1> DEFINE value == Read(b, flight.ref.name, flight.json)
             back == Read(Go(head), flight.ref, Write(b, flight.ref.name, value))
  <1>1. /\ UNCHANGED <<evolutionVars, flight>>
        /\ history' = history /\ head' = head /\ pinned' = pinned /\ flight' = flight
        /\ got' = [is |-> "read", lang |-> lang, by |-> v, value |-> value, back |-> back]
    BY DEF Receive, evolutionVars, code
  <1>2. Speaks(lang, v) =>
          /\ value = Seen(v, flight.ref, flight.sent, IF lang = "rust" THEN Unknown ELSE Fail)
          /\ back = value \/ (back = Refused /\ v < flight.version)
    OBVIOUS
  <1> HIDE DEF value, back
  <1>3. EvolutionInv' /\ PinnedWritten' /\ InFlight'
    <2>1. EvolutionInv'
      BY <1>1, EvolutionStep DEF CodegenInv
    <2>2. \A w : Go(w)' = Go(w) /\ \A it : RunRust(w, it)' = RunRust(w, it)
      BY <1>1 DEF Go, RunRust, Contract
    <2>3. PinnedWritten'
      BY <1>1, <2>2 DEF CodegenInv, PinnedWritten
    <2>4. InFlight'
      BY <1>1, <2>2 DEF CodegenInv, InFlight
    <2> QED
      BY <2>1, <2>3, <2>4
  <1>4. got'.lang = lang /\ got'.by = v /\ got'.value = value /\ got'.back = back
    BY <1>1
  <1>5. /\ \A l, u : Speaks(l, u)' = Speaks(l, u)
        /\ \A u, r, m, other : Seen(u, r, m, other)' = Seen(u, r, m, other)
    BY <1>1 DEF Speaks, SwiftSpeaks, SelfContained, Spoken, Seen, Go, Contract
  <1>6. ReadsWhatItKnows' /\ RelayKeepsMessage'
    BY <1>1, <1>2, <1>4, <1>5 DEF ReadsWhatItKnows, RelayKeepsMessage
  <1> QED
    BY <1>1, <1>3, <1>6 DEF CodegenInv

\* A Rust reader's types conform to the Go types of the version its crate was made from.
LEMMA ReceiveRustIsSafe ==
  ASSUME CodegenInv, ReceiveRust PROVE CodegenInv'
  <1> DEFINE files == Contract(pinned.from)
             ref == flight.ref
             few == OfPackages(InScope(files, history.opts), {ref.pkg})
             b == Rust(ref.pkg)
             N == Refs(EnumsOf(few) \cup MessagesOf(few))
  <1>1. flight # None /\ ref \in RustReads /\ Receive("rust", pinned.from, b)
    BY DEF ReceiveRust
  <1>2. /\ pinned.from \in 1..head /\ ref.pkg \in Packages(InScope(files, history.opts))
        /\ \A m \in MessagesOf(InScope(files, history.opts)) : Emits(m)
        /\ b = genPackage(few) /\ ref \in Refs(MessagesOf(few)) /\ ref \in DOMAIN Go(pinned.from).structs
    BY <1>1, RustHas DEF CodegenInv
  <1>3. WellFormed(files)
    BY <1>2, HistoryAssumption, GoInTime DEF CodegenInv, EvolutionInv
  <1>4. ref \in N
    <2>1. \A E, M : Refs(M) \subseteq Refs(E \cup M)
      BY DEF Refs
    <2> QED
      BY <1>2, <2>1
  <1>5. ASSUME Speaks("rust", pinned.from)
        PROVE  /\ Conforms(b, Go(pinned.from), N)
               /\ \A n \in DOMAIN b.enums : b.enums[n].other = TRUE
    <2>1. \A m \in MessagesOf(InScope(files, history.opts)) : \A i \in DOMAIN m.fields :
            m.fields[i].type \in {NoRef, Timestamp} \/ m.fields[i].type.pkg = m.ref.pkg
      BY <1>5 DEF Speaks, SelfContained, Spoken
    <2> HIDE DEF b, ref, files
    <2> QED
      BY <1>2, <1>3, <2>1, RustConforms DEF Go, files
  <1> DEFINE value == Read(b, ref.name, flight.json)
             back == Read(Go(head), ref, Write(b, ref.name, value))
  <1>6. ASSUME Speaks("rust", pinned.from)
        PROVE  /\ value = Seen(pinned.from, ref, flight.sent, Unknown)
               /\ back = value \/ (back = Refused /\ pinned.from < flight.version)
    <2>1. \A n \in DOMAIN b.enums : b.enums[n].other <=> Unknown = Unknown
      BY <1>5, <1>6
    <2>2. Conforms(b, Go(pinned.from), N)
      BY <1>5, <1>6
    <2> HIDE DEF b, N
    <2> QED
      BY <1>1, <1>2, <1>4, <2>1, <2>2, ReadAndRelayed DEF CodegenInv
  <1> HIDE DEF b
  <1> QED
    BY <1>1, <1>6, ReceiveIsSafe

\* A Swift reader's types conform to the Go types of the version it was built from.
LEMMA ReceiveSwiftIsSafe ==
  ASSUME CodegenInv, ReceiveSwift PROVE CodegenInv'
  <1> DEFINE files == Contract(swift)
             scope == Swift!InScope(files)
             ref == flight.ref
             b == SwiftFiles(swift)
             N == Refs(EnumsOf(scope) \cup MessagesOf(scope))
  <1>1. flight # None /\ ref \in SwiftReads /\ Receive("swift", swift, b)
    BY DEF ReceiveSwift
  <1>2. /\ swift \in 1..head /\ b.status = "ok" /\ ref \in Refs(MessagesOf(scope))
        /\ ref \in DOMAIN Go(swift).structs
    BY <1>1, SwiftHas DEF CodegenInv
  <1>3. WellFormed(files)
    BY <1>2, HistoryAssumption, GoInTime DEF CodegenInv, EvolutionInv
  <1>4. ref \in N
    <2>1. \A E, M : Refs(M) \subseteq Refs(E \cup M)
      BY DEF Refs
    <2> QED
      BY <1>2, <2>1
  <1>5. ASSUME Speaks("swift", swift)
        PROVE  /\ Conforms(b, Go(swift), N)
               /\ \A n \in DOMAIN b.enums : b.enums[n].other = FALSE
    <2>1. SwiftSpeaks(swift)
      BY <1>5 DEF Speaks
    <2>2. Swift!SwiftFiles(files).status = "ok" /\ b = Swift!SwiftFiles(files)
      BY <1>2 DEF SwiftFiles
    <2> QED
      BY <1>3, <2>1, <2>2, SwiftConforms DEF Go, SwiftSpeaks
  <1> DEFINE value == Read(b, ref.name, flight.json)
             back == Read(Go(head), ref, Write(b, ref.name, value))
  <1>6. ASSUME Speaks("swift", swift)
        PROVE  /\ value = Seen(swift, ref, flight.sent, Fail)
               /\ back = value \/ (back = Refused /\ swift < flight.version)
    <2>1. Unknown # Fail
      BY DEF Unknown, Fail
    <2>2. \A n \in DOMAIN b.enums : b.enums[n].other <=> Fail = Unknown
      BY <1>5, <1>6, <2>1
    <2>3. Conforms(b, Go(swift), N)
      BY <1>5, <1>6
    <2> HIDE DEF b, N
    <2> QED
      BY <1>1, <1>2, <1>4, <2>2, <2>3, ReadAndRelayed DEF CodegenInv
  <1> HIDE DEF b
  <1> QED
    BY <1>1, <1>6, ReceiveIsSafe

\* Every step keeps the invariant of the messages.
LEMMA CodegenStep == CodegenInv /\ [Next]_vars => CodegenInv'
  <1> SUFFICES ASSUME CodegenInv, [Next]_vars PROVE CodegenInv'
    OBVIOUS
  <1>1. CASE EvolutionNext /\ UNCHANGED traffic
    BY <1>1, EvolutionStepIsSafe
  <1>2. ASSUME NEW ref \in RustReads \cup SwiftReads, Send(ref) PROVE CodegenInv'
    BY <1>2, SendIsSafe
  <1>3. CASE ReceiveRust
    BY <1>3, ReceiveRustIsSafe
  <1>4. CASE ReceiveSwift
    BY <1>4, ReceiveSwiftIsSafe
  <1>5. CASE UNCHANGED vars
    BY <1>5, EvolutionStepIsSafe DEF vars
  <1> QED
    BY <1>1, <1>2, <1>3, <1>4, <1>5 DEF Next

\* The contract, the crate, the consumers and the bento go through what Evolution says,
\* whatever messages are sent: every step of Codegen is one of Evolution or leaves it.
THEOREM CodegenImplementsEvolution == Spec => EvolutionSpec
  <1>1. Init => EvolutionInit
    BY DEF Init
  <1>2. [Next]_vars => [EvolutionNext]_evolutionVars
    <2> SUFFICES ASSUME [Next]_vars PROVE [EvolutionNext]_evolutionVars
      OBVIOUS
    <2>1. ASSUME NEW ref, Send(ref) PROVE UNCHANGED evolutionVars
      BY <2>1 DEF Send
    <2>2. CASE ReceiveRust
      BY <2>2 DEF ReceiveRust, Receive
    <2>3. CASE ReceiveSwift
      BY <2>3 DEF ReceiveSwift, Receive
    <2>4. CASE UNCHANGED vars
      BY <2>4 DEF vars
    <2> QED
      BY <2>1, <2>2, <2>3, <2>4 DEF Next
  <1> QED
    BY <1>1, <1>2, PTL DEF Spec, EvolutionSpec

\* The invariant holds of any contract that grows, any consumers and any messages.
THEOREM CodegenInvariant == Spec => []CodegenInv
  <1>1. Init => CodegenInv
    <2> SUFFICES ASSUME Init PROVE CodegenInv
      OBVIOUS
    <2>1. EvolutionInv
      BY EvolutionStarts DEF Init
    <2>2. PinnedWritten
      BY DEF Init, EvolutionInit, PinnedWritten
    <2>3. flight = None /\ got.is # "read"
      BY DEF Init, None
    <2> QED
      BY <2>1, <2>2, <2>3 DEF CodegenInv, InFlight, ReadsWhatItKnows, RelayKeepsMessage
  <1> QED
    BY <1>1, CodegenStep, PTL DEF Spec

\* A reader of any age gets the sent value of every field it knows, for any contract
\* that lint lets through and its growth: a Rust reader has Unknown for an enum value
\* added since, and fails on nothing; a Swift reader fails on such a value only.
THEOREM ReadersKnow == Spec => []ReadsWhatItKnows
  BY CodegenInvariant, PTL DEF CodegenInv

\* A message that a consumer relays comes back to Go as the consumer held it, and is
\* refused only if the consumer is older than the message: no field is lost or changed.
THEOREM RelaysKeep == Spec => []RelayKeepsMessage
  BY CodegenInvariant, PTL DEF CodegenInv

\* So what is proved of Evolution holds with the messages.
THEOREM EvolutionUnderMessages ==
  Spec => [](DriftMeansStale /\ CratePassesItsTests /\ HarnessParity /\ BentoStaysActive)
  BY CodegenImplementsEvolution, DriftGateIsRight, CommittedCrateBuilds, HarnessesAgree, BentoIsActive, PTL

=============================================================================
