-------------------------- MODULE Backends_proofs --------------------------
(***************************************************************************)
(* Theorems of Dispatch, for any list of backends, and of ModelClient, for *)
(* any sources: dispatch runs the first usable backend and its decision    *)
(* tree tells why; the two clients fail closed, and alike.                 *)
(*                                                                         *)
(* Three loops of the code are recursive functions.  That each computes    *)
(* what it should is proved by induction, over sets of naturals.           *)
(***************************************************************************)
EXTENDS MCBackends, WellFoundedInduction, TLAPS

-----------------------------------------------------------------------------
(* Induction                                                               *)

\* A set of naturals has a least element.
LEMMA LeastNat ==
  ASSUME NEW T \in SUBSET Nat, T # {}
  PROVE  \E n \in T : \A m \in T : n <= m
  <1> DEFINE R == OpToRel(<, Nat)
  <1>1. PICK n \in T : \A m \in T : ~(<<m, n>> \in R)
    BY WFMin, NatLessThanWellFounded
  <1>2. \A m \in T : n <= m
    <2> TAKE m \in T
    <2>1. m \in Nat /\ n \in Nat /\ ~(m < n)
      BY <1>1 DEF OpToRel
    <2> QED
      BY <2>1
  <1> QED
    BY <1>2

\* One with 0, and with the successor of each of its members below a limit, has all
\* naturals up to the limit.
LEMMA UpTo ==
  ASSUME NEW limit \in Nat, NEW P, 0 \in P,
         \A n \in Nat : n < limit /\ n \in P => n + 1 \in P
  PROVE  \A n \in 0..limit : n \in P
  <1> DEFINE Missed == {n \in 0..limit : n \notin P}
  <1> SUFFICES ASSUME Missed # {} PROVE FALSE
    OBVIOUS
  <1>a. Missed \in SUBSET Nat
    OBVIOUS
  <1> HIDE DEF Missed
  <1>b. PICK n \in Missed : \A m \in Missed : n <= m
    BY <1>a, LeastNat
  <1>1. /\ n \in 0..limit /\ n \notin P
        /\ \A m \in 0..limit : m \notin P => n <= m
    BY <1>b DEF Missed
  <1>2. n # 0 /\ n - 1 \in 0..limit /\ n - 1 \in Nat /\ n - 1 < limit /\ ~(n <= n - 1)
    BY <1>1
  <1>3. n - 1 \in P
    BY <1>1, <1>2
  <1>4. (n - 1) + 1 = n
    BY <1>1
  <1> QED
    BY <1>1, <1>2, <1>3, <1>4

-----------------------------------------------------------------------------
(* The probe order                                                         *)

\* One more element at the end of a sequence.
LEMMA AppendOne ==
  ASSUME NEW S, NEW q \in Seq(S), NEW x \in S
  PROVE  /\ Append(q, x) \in Seq(S) /\ Len(Append(q, x)) = Len(q) + 1
         /\ DOMAIN Append(q, x) = 1..(Len(q) + 1) /\ DOMAIN q = 1..Len(q) /\ Len(q) \in Nat
         /\ Append(q, x)[Len(q) + 1] = x /\ \A i \in DOMAIN q : Append(q, x)[i] = q[i]
  OBVIOUS

\* The list that the comprehension has made of the first n backends.
Kept(ns, p, n, q) ==
  /\ q \in Seq(1..n)
  /\ \A a, b \in DOMAIN q : a < b => q[a] < q[b]
  /\ \A i \in 1..n : ns[i] # p <=> \E a \in DOMAIN q : q[a] = i

LEMMA KeepOne ==
  ASSUME NEW ns, NEW p, NEW n \in Nat, NEW q, Kept(ns, p, n, q)
  PROVE  Kept(ns, p, n + 1, IF ns[n + 1] # p THEN Append(q, n + 1) ELSE q)
  <1>1. q \in Seq(1..n) /\ q \in Seq(1..(n + 1)) /\ DOMAIN q = 1..Len(q) /\ Len(q) \in Nat
    BY DEF Kept
  <1>2. \A a \in DOMAIN q : q[a] \in 1..n
    BY <1>1
  <1>3. 1..(n + 1) = (1..n) \cup {n + 1} /\ n + 1 \notin 1..n
    OBVIOUS
  <1>4. CASE ns[n + 1] = p
    <2>1. \A i \in 1..(n + 1) : ns[i] # p <=> \E a \in DOMAIN q : q[a] = i
      BY <1>2, <1>3, <1>4 DEF Kept
    <2> QED
      BY <1>1, <1>4, <2>1 DEF Kept
  <1>5. CASE ns[n + 1] # p
    <2> DEFINE r == Append(q, n + 1)
    <2>1. /\ r \in Seq(1..(n + 1)) /\ DOMAIN r = 1..(Len(q) + 1)
          /\ r[Len(q) + 1] = n + 1 /\ \A a \in DOMAIN q : r[a] = q[a]
      BY <1>1, <1>3, AppendOne
    <2> HIDE DEF r
    <2>2. \A a, b \in DOMAIN r : a < b => r[a] < r[b]
      <3> SUFFICES ASSUME NEW a \in DOMAIN r, NEW b \in DOMAIN r, a < b PROVE r[a] < r[b]
        OBVIOUS
      <3>1. a \in DOMAIN q
        BY <1>1, <2>1
      <3>2. CASE b \in DOMAIN q
        BY <2>1, <3>1, <3>2 DEF Kept
      <3>3. CASE b = Len(q) + 1
        BY <1>2, <2>1, <3>1, <3>3
      <3> QED
        BY <1>1, <2>1, <3>2, <3>3
    <2>3. \A i \in 1..(n + 1) : ns[i] # p <=> \E a \in DOMAIN r : r[a] = i
      <3> TAKE i \in 1..(n + 1)
      <3>1. CASE i = n + 1
        <4>1. Len(q) + 1 \in DOMAIN r
          BY <1>1, <2>1
        <4> QED
          BY <1>5, <2>1, <3>1, <4>1
      <3>2. CASE i \in 1..n
        <4>1. i # n + 1 /\ i \in 1..n
          BY <3>2
        <4>2. ASSUME NEW a \in DOMAIN r, r[a] = i PROVE \E b \in DOMAIN q : q[b] = i
          <5>1. a # Len(q) + 1 /\ a \in DOMAIN q
            BY <1>1, <2>1, <4>1, <4>2
          <5> QED
            BY <2>1, <4>2, <5>1
        <4>3. ASSUME NEW a \in DOMAIN q, q[a] = i PROVE \E b \in DOMAIN r : r[b] = i
          <5>1. a \in DOMAIN r
            BY <1>1, <2>1
          <5> QED
            BY <2>1, <4>3, <5>1
        <4>4. (\E a \in DOMAIN r : r[a] = i) <=> (\E a \in DOMAIN q : q[a] = i)
          BY <4>2, <4>3
        <4> QED
          BY <4>1, <4>4 DEF Kept
      <3> QED
        BY <1>3, <3>1, <3>2
    <2> QED
      BY <1>5, <2>1, <2>2, <2>3 DEF Kept, r
  <1> QED
    BY <1>4, <1>5

\* The comprehension keeps the backends without the name, in their order.
LEMMA OthersKept ==
  ASSUME NEW ns, Len(ns) \in Nat, NEW p
  PROVE  Kept(ns, p, Len(ns), Others(ns, p))
  <1> DEFINE Body(f, i) == IF i = 0 THEN <<>>
                           ELSE IF ns[i] # p THEN Append(f[i - 1], i) ELSE f[i - 1]
             Is(f, n) == f = [i \in 0..n |-> Body(f, i)]
             P == {n \in Nat : \E f : Is(f, n)}
             upTo == CHOOSE f : Is(f, Len(ns))
  <1>1. Len(ns) \in P
    <2>1. 0 \in P
      <3>1. Is([i \in 0..0 |-> <<>>], 0)
        OBVIOUS
      <3> HIDE DEF Is
      <3> QED
        BY <3>1
    <2>2. ASSUME NEW n \in Nat, n \in P PROVE n + 1 \in P
      <3>1. PICK f : Is(f, n)
        BY <2>2
      <3> DEFINE g == [i \in 0..(n + 1) |-> IF i = n + 1 THEN Body(f, n + 1) ELSE f[i]]
      <3>2. \A i \in 0..(n + 1) : g[i] = Body(g, i)
        <4> TAKE i \in 0..(n + 1)
        <4>1. CASE i = 0
          <5>1. g[i] = f[0] /\ f[0] = Body(f, 0)
            BY <3>1, <4>1
          <5> QED
            BY <4>1, <5>1
        <4>2. CASE i # 0
          <5>1. i - 1 \in 0..n /\ i - 1 \in 0..(n + 1) /\ i - 1 # n + 1
            BY <4>2
          <5>2. g[i - 1] = f[i - 1]
            BY <5>1
          <5>3. g[i] = Body(f, i)
            <6>1. CASE i = n + 1
              BY <6>1
            <6>2. CASE i # n + 1
              <7>1. i \in 0..n
                BY <6>2
              <7>2. f[i] = Body(f, i)
                BY <3>1, <7>1
              <7> QED
                BY <6>2, <7>2
            <6> QED
              BY <6>1, <6>2
          <5> HIDE DEF g
          <5> QED
            BY <4>2, <5>2, <5>3
        <4> QED
          BY <4>1, <4>2
      <3>3. Is(g, n + 1)
        BY <3>2
      <3> HIDE DEF g, Is
      <3> QED
        BY <3>3
    <2> HIDE DEF P
    <2>3. \A n \in 0..Len(ns) : n \in P
      BY <2>1, <2>2, UpTo
    <2> QED
      BY <2>3
  <1>2. upTo = [i \in 0..Len(ns) |-> Body(upTo, i)]
    <2>1. \E f : Is(f, Len(ns))
      BY <1>1
    <2> QED
      BY <2>1
  <1>3. Others(ns, p) = upTo[Len(ns)]
    BY DEF Others
  <1> HIDE DEF upTo, P
  <1> DEFINE Q == {n \in Nat : n <= Len(ns) => Kept(ns, p, n, upTo[n])}
  <1>4. 0 \in Q
    <2>1. upTo[0] = <<>>
      BY <1>2
    <2>2. Kept(ns, p, 0, <<>>)
      BY DEF Kept
    <2> QED
      BY <2>1, <2>2
  <1>5. ASSUME NEW n \in Nat, n < Len(ns), n \in Q PROVE n + 1 \in Q
    <2>1. Kept(ns, p, n, upTo[n])
      BY <1>5
    <2>2. upTo[n + 1] = IF ns[n + 1] # p THEN Append(upTo[n], n + 1) ELSE upTo[n]
      <3>1. n + 1 \in 0..Len(ns) /\ n + 1 # 0 /\ (n + 1) - 1 = n
        BY <1>5
      <3>2. upTo[n + 1] = Body(upTo, n + 1)
        BY <1>2, <3>1
      <3> QED
        BY <3>1, <3>2
    <2>3. Kept(ns, p, n + 1, upTo[n + 1])
      BY <2>1, <2>2, KeepOne
    <2> QED
      BY <2>3
  <1> HIDE DEF Q
  <1>6. \A n \in 0..Len(ns) : n \in Q
    BY <1>4, <1>5, UpTo
  <1>7. Len(ns) \in 0..Len(ns)
    OBVIOUS
  <1> QED
    BY <1>3, <1>6, <1>7 DEF Q

-----------------------------------------------------------------------------
(* Dispatch: the inductive invariant                                       *)

\* The backends that are still to be probed; the one being run is among them.
Left == {order[k] : k \in DOMAIN order}

Working == pc \in {"run", "returned"}

\* What is left is in the promised order, and comes after whatever is done with.
InOrder ==
  /\ \A a, b \in DOMAIN order : a < b => ComesBefore(order[a], order[b])
  /\ \A i \in Backends \ Left : Hidden(i) \/ \A j \in Left : ComesBefore(i, j)
  /\ \A i \in Left : ~Hidden(i)

\* Who is left has not been asked, but for the one whose turn it is; who is not left has
\* failed, or is hidden.
AskedInTurn ==
  \A i \in Backends :
    /\ i \in Left /\ ~(Working /\ i = Current) => said[i] = "-"
    /\ Working /\ i = Current => said[i] = "up"
    /\ i \notin Left => IF Hidden(i) THEN said[i] = "-" ELSE said[i] \in {"down", "broke"}

Stands ==
  /\ Working => order # <<>>
  /\ pc = "exhausted" => order = <<>>
  /\ pc = "returned" => ran = Current

\* The tree has the report of the last backend asked of each name.
Asked(n) == {i \in Named(names, n) : said[i] # "-"}

Told ==
  \A n \in Names :
    \/ Asked(n) = {} /\ tried[n] = "-"
    \/ \E i \in Asked(n) : tried[n] = said[i] /\ \A j \in Asked(n) \ {i} : ComesBefore(j, i)

DispatchInv == TypeOK /\ InOrder /\ AskedInTurn /\ Stands /\ Told

\* The promised order is one: no backend comes before itself, two are not before each
\* other, and of two that are not hidden one comes first.
LEMMA OneOrder ==
  ASSUME NEW i \in Nat, NEW j \in Nat
  PROVE  /\ ~ComesBefore(i, i)
         /\ ComesBefore(i, j) => ~ComesBefore(j, i)
  BY DEF ComesBefore

\* The last backend with a name.
LEMMA ByNameLast ==
  ASSUME NEW ns, NEW len \in Nat, DOMAIN ns = 1..len, NEW p, Named(ns, p) # {}
  PROVE  ByName(ns, p) \in Named(ns, p) /\ \A j \in Named(ns, p) : j <= ByName(ns, p)
  <1> DEFINE T == {n \in 0..len : len - n \in Named(ns, p)}
  <1>1. \A i \in Named(ns, p) : i \in 1..len /\ i \in Nat /\ len - (len - i) = i /\ len - i \in 0..len
    BY DEF Named
  <1>2. T \in SUBSET Nat /\ T # {}
    <2>1. PICK i \in Named(ns, p) : TRUE
      OBVIOUS
    <2>2. len - i \in T
      BY <1>1, <2>1
    <2> QED
      BY <2>2
  <1>3. PICK n \in T : \A m \in T : n <= m
    <2> HIDE DEF T
    <2> QED
      BY <1>2, LeastNat
  <1>4. len - n \in Named(ns, p)
    BY <1>3
  <1>5. \A j \in Named(ns, p) : j <= len - n
    <2> TAKE j \in Named(ns, p)
    <2>1. len - j \in T /\ j \in Nat /\ n \in Nat
      BY <1>1, <1>3
    <2>2. n <= len - j
      BY <1>3, <2>1
    <2> QED
      BY <2>1, <2>2
  <1>6. \E i \in Named(ns, p) : \A j \in Named(ns, p) : j <= i
    BY <1>4, <1>5
  <1> QED
    BY <1>6 DEF ByName

\* The probe order is the promised one, and has every backend that is not hidden.
LEMMA OrderPromised ==
  ASSUME names \in Seq(Names), order = Order(names, prefer)
  PROVE  order \in Seq(Backends) /\ InOrder /\ \A i \in Backends : i \in Left \/ Hidden(i)
  <1>1. DOMAIN names = 1..Len(names) /\ Len(names) \in Nat
    OBVIOUS
  <1>2. CASE Named(names, prefer) = {}
    <2>1. order = [i \in 1..Len(names) |-> i]
      BY <1>1, <1>2 DEF Order, Declared
    <2>2. order \in Seq(Backends) /\ DOMAIN order = Backends
      BY <1>1, <2>1 DEF Backends
    <2>3. \A i \in Backends : names[i] # prefer
      BY <1>2 DEF Named, Backends
    <2>4. Left = Backends
      BY <1>1, <2>1, <2>2 DEF Left, Backends
    <2>5. \A a, b \in DOMAIN order : a < b => ComesBefore(order[a], order[b])
      BY <1>1, <2>1, <2>2, <2>3 DEF ComesBefore, Backends
    <2> QED
      BY <2>2, <2>3, <2>4, <2>5 DEF InOrder, Hidden
  <1>3. CASE Named(names, prefer) # {}
    <2> DEFINE h == ByName(names, prefer)
               q == Others(names, prefer)
    <2>1. h \in Backends /\ names[h] = prefer /\ \A j \in Backends : names[j] = prefer => j <= h
      BY <1>1, <1>3, ByNameLast DEF Named, Backends
    <2>2. Kept(names, prefer, Len(names), q)
      BY <1>1, OthersKept
    <2>3. order = <<h>> \o q
      BY <1>3 DEF Order
    <2> HIDE DEF h, q
    <2>4. /\ q \in Seq(Backends) /\ DOMAIN q = 1..Len(q) /\ Len(q) \in Nat
          /\ \A a \in DOMAIN q : q[a] \in Backends
      BY <1>1, <2>2 DEF Kept, Backends
    <2>5. /\ order \in Seq(Backends) /\ DOMAIN order = 1..(Len(q) + 1)
          /\ order[1] = h /\ \A a \in DOMAIN q : order[a + 1] = q[a]
      BY <2>1, <2>3, <2>4
    <2>6. \A a \in DOMAIN order : a = 1 \/ (a - 1 \in DOMAIN q /\ order[a] = q[a - 1] /\ a - 1 \in Nat)
      BY <2>4, <2>5
    <2>7. \A i \in Backends : i \in Left <=> i = h \/ names[i] # prefer
      <3> TAKE i \in Backends
      <3>1. names[i] # prefer <=> \E a \in DOMAIN q : q[a] = i
        BY <1>1, <2>2 DEF Kept, Backends
      <3>2. ASSUME i \in Left PROVE i = h \/ names[i] # prefer
        <4>1. PICK a \in DOMAIN order : order[a] = i
          BY <3>2 DEF Left
        <4> QED
          BY <2>5, <2>6, <3>1, <4>1
      <3>3. ASSUME i = h PROVE i \in Left
        <4>1. 1 \in DOMAIN order
          BY <2>4, <2>5
        <4> QED
          BY <2>5, <3>3, <4>1 DEF Left
      <3>4. ASSUME names[i] # prefer PROVE i \in Left
        <4>1. PICK a \in DOMAIN q : q[a] = i
          BY <3>1, <3>4
        <4>2. a + 1 \in DOMAIN order /\ order[a + 1] = i
          BY <2>4, <2>5, <4>1
        <4> QED
          BY <4>2 DEF Left
      <3> QED
        BY <3>2, <3>3, <3>4
    <2>8. \A a \in DOMAIN q : names[q[a]] # prefer
      BY <1>1, <2>2, <2>4 DEF Kept, Backends
    <2>9. \A i \in Backends : i \in Left <=> ~Hidden(i)
      <3>1. \A i \in Backends : Hidden(i) <=> names[i] = prefer /\ i # h
        BY <1>1, <2>1 DEF Hidden, Backends
      <3> QED
        BY <2>1, <2>7, <3>1
    <2>10. ASSUME NEW a \in DOMAIN order, NEW b \in DOMAIN order, a < b
           PROVE  ComesBefore(order[a], order[b])
      <3>1. b - 1 \in DOMAIN q /\ order[b] = q[b - 1] /\ names[order[b]] # prefer
        BY <2>4, <2>5, <2>6, <2>8, <2>10
      <3>2. CASE a = 1
        BY <2>1, <2>5, <3>1, <3>2 DEF ComesBefore
      <3>3. CASE a # 1
        <4>1. a - 1 \in DOMAIN q /\ order[a] = q[a - 1] /\ names[order[a]] # prefer
          BY <2>6, <2>8, <3>3
        <4>2. a - 1 < b - 1
          BY <2>4, <2>5, <2>10
        <4>3. order[a] < order[b]
          BY <2>2, <3>1, <4>1, <4>2 DEF Kept
        <4> QED
          BY <3>1, <4>1, <4>3 DEF ComesBefore
      <3> QED
        BY <3>2, <3>3
    <2>11. \A i \in Left : i \in Backends
      BY <2>5 DEF Left
    <2> QED
      BY <2>5, <2>9, <2>10, <2>11 DEF InOrder
  <1> QED
    BY <1>2, <1>3

\* The declared lists are sequences of names.
LEMMA ListsAreSequences ==
  ASSUME NEW ns \in Lists
  PROVE  ns \in Seq(Names) /\ Len(ns) <= MaxBackends
  <1>1. PICK k \in 0..MaxBackends : ns \in [1..k -> Names]
    BY DEF Lists
  <1>2. k \in Nat /\ k <= MaxBackends
    BY <1>1, DispatchAssumption
  <1>3. ns \in Seq(Names) /\ Len(ns) = k
    BY <1>1, <1>2
  <1> QED
    BY <1>2, <1>3

LEMMA DispatchInit == Init => DispatchInv
  <1> SUFFICES ASSUME NEW ns \in Lists, NEW p \in Names \cup {NoName}, Call(ns, p)
               PROVE  DispatchInv
    BY DEF Init
  <1> USE DEF Call
  <1>1. names \in Seq(Names) /\ Len(names) <= MaxBackends
    BY ListsAreSequences
  <1>2. order \in Seq(Backends) /\ InOrder /\ \A i \in Backends : i \in Left \/ Hidden(i)
    BY <1>1, OrderPromised
  <1>3. TypeOK
    BY <1>1, <1>2 DEF TypeOK, Backends, Reports
  <1>4. AskedInTurn /\ Stands
    BY <1>2 DEF AskedInTurn, Stands, Working, Backends
  <1>5. Told
    BY DEF Told, Asked, Named
  <1> QED
    BY <1>2, <1>3, <1>4, <1>5 DEF DispatchInv

\* What is known where a backend is up to be probed or run: whoever was asked and is not
\* it comes before it, and nobody after it was asked.
LEMMA CurrentIsLast ==
  ASSUME DispatchInv, order # <<>>
  PROVE  /\ Current \in Backends /\ Current \in Left /\ ~Hidden(Current)
         /\ \A j \in Backends : said[j] # "-" /\ j # Current => ComesBefore(j, Current)
  <1>1. /\ order \in Seq(Backends) /\ 1 \in DOMAIN order /\ Current = order[1]
        /\ Current \in Backends
    BY DEF DispatchInv, TypeOK, Current
  <1>2. Current \in Left /\ ~Hidden(Current)
    BY <1>1 DEF DispatchInv, InOrder, Left
  <1>3. ASSUME NEW j \in Backends, said[j] # "-", j # Current PROVE ComesBefore(j, Current)
    <2>1. j \notin Left /\ ~Hidden(j)
      BY <1>3 DEF DispatchInv, AskedInTurn
    <2> QED
      BY <1>2, <2>1 DEF DispatchInv, InOrder
  <1> QED
    BY <1>1, <1>2, <1>3

\* A report of the backend whose turn it is leaves the tree true.
LEMMA RecordTells ==
  ASSUME DispatchInv, order # <<>>, NEW report \in {"down", "up", "broke"}, Record(report)
  PROVE  Told'
  <1> PICK c : c = Current
    OBVIOUS
  <1>0. /\ c \in Backends /\ names' = names /\ prefer' = prefer
        /\ \A j \in Backends : said[j] # "-" /\ j # c => ComesBefore(j, c)
    BY CurrentIsLast DEF Record
  <1>1. /\ c \in Backends /\ names[c] \in Names /\ names' = names /\ prefer' = prefer
        /\ \A j \in Backends : said[j] # "-" /\ j # c => ComesBefore(j, c)
    BY <1>0 DEF DispatchInv, TypeOK, Backends
  <1>2. /\ said' = [said EXCEPT ![c] = report] /\ said \in [Backends -> Reports]
        /\ tried' = [tried EXCEPT ![names[c]] = report] /\ tried \in [Names -> Reports]
    BY DEF DispatchInv, TypeOK, Record
  <1>3. SUFFICES ASSUME NEW n \in Names
                 PROVE  \/ Asked(n)' = {} /\ tried'[n] = "-"
                        \/ \E i \in Asked(n)' : /\ tried'[n] = said'[i]
                                                /\ \A j \in Asked(n)' \ {i} : ComesBefore(j, i)'
    BY DEF Told
  <1>4. \A i, j \in Backends : ComesBefore(i, j)' <=> ComesBefore(i, j)
    BY <1>1 DEF ComesBefore
  <1>5. Asked(n) \subseteq Backends /\ Asked(n)' \subseteq Backends
    BY <1>1 DEF Asked, Named, Backends
  <1>6. CASE n = names[c]
    <2>1. Asked(n)' = Asked(n) \cup {c}
      BY <1>1, <1>2, <1>6 DEF Asked, Named, Backends
    <2>2. tried'[n] = report /\ said'[c] = report
      BY <1>1, <1>2, <1>6
    <2>3. \A j \in Asked(n)' \ {c} : ComesBefore(j, c)
      BY <1>1, <1>5, <2>1 DEF Asked
    <2>4. c \in Asked(n)' /\ \A j \in Asked(n)' \ {c} : ComesBefore(j, c)'
      BY <1>4, <1>5, <2>1, <2>3
    <2> QED
      BY <2>2, <2>4
  <1>7. CASE n # names[c]
    <2>1. Asked(n)' = Asked(n) /\ tried'[n] = tried[n] /\ \A i \in Asked(n) : said'[i] = said[i]
      BY <1>1, <1>2, <1>5, <1>7 DEF Asked, Named, Backends
    <2>2. CASE Asked(n) = {} /\ tried[n] = "-"
      BY <2>1, <2>2
    <2>3. CASE \E i \in Asked(n) : tried[n] = said[i] /\ \A j \in Asked(n) \ {i} : ComesBefore(j, i)
      <3>1. PICK i \in Asked(n) : tried[n] = said[i] /\ \A j \in Asked(n) \ {i} : ComesBefore(j, i)
        BY <2>3
      <3>2. \A j \in Asked(n) \ {i} : ComesBefore(j, i)'
        BY <1>4, <1>5, <3>1
      <3> QED
        BY <2>1, <3>1, <3>2
    <2> QED
      BY <2>2, <2>3 DEF DispatchInv, Told
  <1> QED
    BY <1>6, <1>7

\* One that cannot is done with: the next one's turn.
LEMMA GivesUp ==
  ASSUME DispatchInv, order # <<>>, NEW report \in {"down", "broke"}, Record(report),
         order' = Tail(order), pc' = "probe", ran' = ran
  PROVE  DispatchInv'
  <1> PICK c : c = Current
    OBVIOUS
  <1>1. /\ c \in Backends /\ c \in Left /\ ~Hidden(c) /\ names' = names /\ prefer' = prefer
        /\ Backends' = Backends
    BY CurrentIsLast DEF Record, Backends
  <1>2. said' = [said EXCEPT ![c] = report] /\ said \in [Backends -> Reports]
    BY DEF DispatchInv, TypeOK, Record
  <1>3. /\ order \in Seq(Backends) /\ order' \in Seq(Backends) /\ Len(order) \in Nat \ {0}
        /\ DOMAIN order = 1..Len(order) /\ DOMAIN order' = 1..(Len(order) - 1)
        /\ \A k \in DOMAIN order' : order'[k] = order[k + 1]
        /\ c = order[1]
    BY DEF DispatchInv, TypeOK, Current
  <1>4. \A i, j \in Backends : ComesBefore(i, j)' <=> ComesBefore(i, j)
    BY <1>1 DEF ComesBefore
  <1>5. \A i \in Backends : Hidden(i)' <=> Hidden(i)
    BY <1>1 DEF Hidden, Backends
  <1>6. \A k \in DOMAIN order \ {1} : ComesBefore(c, order[k]) /\ order[k] # c
    <2> TAKE k \in DOMAIN order \ {1}
    <2>1. ComesBefore(c, order[k])
      BY <1>3 DEF DispatchInv, InOrder
    <2>2. c \in Nat /\ order[k] \in Nat
      BY <1>1, <1>3 DEF Backends, DispatchInv, TypeOK
    <2> QED
      BY <2>1, <2>2, OneOrder
  <1>7. Left' = Left \ {c} /\ Left \subseteq Backends
    <2>1. \A k \in DOMAIN order' : k + 1 \in DOMAIN order \ {1}
      BY <1>3
    <2>2. \A k \in DOMAIN order \ {1} : k - 1 \in DOMAIN order' /\ order'[k - 1] = order[k]
      BY <1>3
    <2>3. Left' \subseteq Left \ {c}
      BY <1>3, <1>6, <2>1 DEF Left
    <2>4. Left \ {c} \subseteq Left'
      BY <1>3, <2>2 DEF Left
    <2>5. Left \subseteq Backends
      BY <1>3 DEF Left
    <2> QED
      BY <2>3, <2>4, <2>5
  <1>8. InOrder'
    <2>1. \A a, b \in DOMAIN order' : a < b => ComesBefore(order[a], order[b])'
      <3> SUFFICES ASSUME NEW a \in DOMAIN order', NEW b \in DOMAIN order', a < b
                   PROVE  ComesBefore(order[a], order[b])'
        OBVIOUS
      <3>1. /\ a + 1 \in DOMAIN order /\ b + 1 \in DOMAIN order /\ a + 1 < b + 1
            /\ order'[a] = order[a + 1] /\ order'[b] = order[b + 1]
            /\ order'[a] \in Backends /\ order'[b] \in Backends
        BY <1>3
      <3>2. ComesBefore(order[a + 1], order[b + 1])
        BY <3>1 DEF DispatchInv, InOrder
      <3> QED
        BY <1>4, <3>1, <3>2
    <2>2. \A i \in Backends \ Left' : Hidden(i) \/ \A j \in Left' : ComesBefore(i, j)
      <3> TAKE i \in Backends \ Left'
      <3>1. CASE i = c
        BY <1>3, <1>6, <1>7, <3>1 DEF Left
      <3>2. CASE i # c
        BY <1>7, <3>2 DEF DispatchInv, InOrder
      <3> QED
        BY <3>1, <3>2
    <2>3. \A i \in Left' : ~Hidden(i)
      BY <1>7 DEF DispatchInv, InOrder
    <2>4. \A i \in Backends \ Left' : Hidden(i)' \/ \A j \in Left' : ComesBefore(i, j)'
      BY <1>4, <1>5, <1>7, <2>2
    <2>5. \A i \in Left' : ~Hidden(i)'
      BY <1>5, <1>7, <2>3
    <2> QED
      BY <1>1, <2>1, <2>4, <2>5 DEF InOrder
  <1>9. AskedInTurn'
    <2> SUFFICES ASSUME NEW i \in Backends
                 PROVE  /\ i \in Left' => said'[i] = "-"
                        /\ i \notin Left' => IF Hidden(i)' THEN said'[i] = "-"
                                                           ELSE said'[i] \in {"down", "broke"}
      BY <1>1 DEF AskedInTurn, Working
    <2>1. CASE i = c
      BY <1>1, <1>2, <1>5, <1>7, <2>1
    <2>2. CASE i # c
      <3>1. said'[i] = said[i] /\ (i \in Left' <=> i \in Left)
        BY <1>2, <1>7, <2>2
      <3> QED
        BY <1>5, <2>2, <3>1 DEF DispatchInv, AskedInTurn
    <2> QED
      BY <2>1, <2>2
  <1>10. Told'
    BY RecordTells
  <1>11. TypeOK'
    BY <1>1, <1>3 DEF DispatchInv, TypeOK, Record, Reports, Backends
  <1>12. Stands'
    BY DEF Stands, Working
  <1> QED
    BY <1>8, <1>9, <1>10, <1>11, <1>12 DEF DispatchInv

\* A step that touches no backend and no report.
LEMMA OnlyThePlaceMoves ==
  ASSUME DispatchInv, UNCHANGED <<names, prefer, order, tried, said>>,
         Working' <=> Working, Stands', TypeOK'
  PROVE  DispatchInv'
  <1>1. Left' = Left /\ Backends' = Backends /\ Current' = Current
    BY DEF Left, Backends, Current
  <1>2. \A i, j : ComesBefore(i, j)' <=> ComesBefore(i, j)
    BY DEF ComesBefore
  <1>3. \A i : Hidden(i)' <=> Hidden(i)
    BY <1>1 DEF Hidden
  <1>4. InOrder'
    BY <1>1, <1>2, <1>3 DEF DispatchInv, InOrder
  <1>5. AskedInTurn'
    BY <1>1, <1>3 DEF DispatchInv, AskedInTurn
  <1>6. \A n : Asked(n)' = Asked(n)
    BY DEF Asked, Named
  <1>7. Told'
    BY <1>2, <1>6 DEF DispatchInv, Told
  <1> QED
    BY <1>4, <1>5, <1>7 DEF DispatchInv

LEMMA DispatchStep == DispatchInv /\ [Next]_vars => DispatchInv'
  <1> SUFFICES ASSUME DispatchInv, [Next]_vars PROVE DispatchInv'
    OBVIOUS
  <1>1. CASE Unavailable
    BY <1>1, GivesUp DEF Unavailable
  <1>2. CASE RunFails
    <2>1. order # <<>>
      BY <1>2 DEF RunFails, DispatchInv, Stands, Working
    <2> QED
      BY <1>2, <2>1, GivesUp DEF RunFails
  <1>3. CASE Available
    <2> PICK c : c = Current
      OBVIOUS
    <2>1. /\ c \in Backends /\ c \in Left /\ names' = names /\ prefer' = prefer
          /\ order # <<>> /\ order' = order /\ pc = "probe" /\ pc' = "run" /\ ran' = ran
      BY <1>3, CurrentIsLast DEF Available, Record
    <2>2. said' = [said EXCEPT ![c] = "up"] /\ said \in [Backends -> Reports]
      BY <1>3 DEF DispatchInv, TypeOK, Available, Record
    <2>3. Left' = Left /\ Backends' = Backends /\ Current' = c
      BY <2>1 DEF Left, Backends, Current
    <2>4. \A i, j : ComesBefore(i, j)' <=> ComesBefore(i, j)
      BY <2>1 DEF ComesBefore
    <2>5. \A i : Hidden(i)' <=> Hidden(i)
      BY <2>1, <2>3 DEF Hidden
    <2>6. InOrder'
      BY <2>1, <2>3, <2>4, <2>5 DEF DispatchInv, InOrder
    <2>7. AskedInTurn'
      <3> SUFFICES ASSUME NEW i \in Backends
                   PROVE  /\ i \in Left /\ i # c => said'[i] = "-"
                          /\ i = c => said'[i] = "up"
                          /\ i \notin Left => IF Hidden(i) THEN said'[i] = "-"
                                                           ELSE said'[i] \in {"down", "broke"}
        BY <2>1, <2>3, <2>5 DEF AskedInTurn, Working
      <3>1. CASE i = c
        BY <2>1, <2>2, <3>1
      <3>2. CASE i # c
        BY <2>1, <2>2, <3>2 DEF DispatchInv, AskedInTurn, Working
      <3> QED
        BY <3>1, <3>2
    <2>8. Told'
      BY <1>3, <2>1, RecordTells DEF Available
    <2>9. TypeOK'
      BY <1>3, <2>1, <2>3 DEF DispatchInv, TypeOK, Available, Record, Reports
    <2>10. Stands'
      BY <2>1 DEF Stands, Working
    <2> QED
      BY <2>6, <2>7, <2>8, <2>9, <2>10 DEF DispatchInv
  <1>4. CASE ProbeRaises
    BY <1>4, OnlyThePlaceMoves DEF ProbeRaises, DispatchInv, TypeOK, Stands, Working, Backends
  <1>5. CASE Run
    <2>1. order # <<>>
      BY <1>5 DEF Run, DispatchInv, Stands, Working
    <2>2. Current \in Backends
      BY <2>1, CurrentIsLast
    <2>3. Current' = Current /\ Backends' = Backends
      BY <1>5 DEF Run, Current, Backends
    <2>4. TypeOK'
      BY <1>5, <2>2, <2>3 DEF Run, DispatchInv, TypeOK
    <2>5. Stands'
      BY <1>5, <2>1, <2>3 DEF Run, Stands, Working
    <2> QED
      BY <1>5, <2>4, <2>5, OnlyThePlaceMoves DEF Run, Working
  <1>6. CASE Exhausted
    BY <1>6, OnlyThePlaceMoves DEF Exhausted, DispatchInv, TypeOK, Stands, Working, Backends
  <1>7. CASE UNCHANGED vars
    BY <1>7, OnlyThePlaceMoves DEF vars, DispatchInv, TypeOK, Stands, Working, Backends, Current
  <1> QED
    BY <1>1, <1>2, <1>3, <1>4, <1>5, <1>6, <1>7 DEF Next

\* Every state of a call satisfies the invariant.
THEOREM DispatchInvariant == Spec => []DispatchInv
  BY DispatchInit, DispatchStep, PTL DEF Spec

-----------------------------------------------------------------------------
(* Dispatch: what the invariant gives                                      *)

\* The variables of a call hold what the code keeps in them: the order is one of
\* declared backends, and the report of each is one of four.
THEOREM DispatchTyped == Spec => []TypeOK
  BY DispatchInvariant, PTL DEF DispatchInv

\* For every list of backends, however long and whatever their names: dispatch returns
\* the output of the first usable one in the promised order, or raises after all were
\* asked in vain.
THEOREM DispatchRunsTheFirstUsable == Spec => []FirstUsable
  <1>1. DispatchInv => FirstUsable
    <2> SUFFICES ASSUME DispatchInv PROVE FirstUsable
      OBVIOUS
    <2>1. ASSUME pc = "returned"
          PROVE  /\ ~Hidden(ran) /\ said[ran] = "up"
                 /\ \A i \in Backends \ {ran} :
                      IF ComesBefore(i, ran) /\ ~Hidden(i) THEN said[i] \in {"down", "broke"}
                                                           ELSE said[i] = "-"
      <3>1. order # <<>> /\ ran = Current /\ Working
        BY <2>1 DEF DispatchInv, Stands, Working
      <3>2. ran \in Backends /\ ran \in Left /\ ~Hidden(ran) /\ said[ran] = "up"
        BY <3>1, CurrentIsLast DEF DispatchInv, AskedInTurn
      <3>3. ASSUME NEW i \in Backends \ {ran}
            PROVE  IF ComesBefore(i, ran) /\ ~Hidden(i) THEN said[i] \in {"down", "broke"}
                                                        ELSE said[i] = "-"
        <4>1. CASE i \in Left
          <5>1. said[i] = "-"
            BY <3>1, <4>1 DEF DispatchInv, AskedInTurn
          <5>2. ~ComesBefore(i, ran)
            <6>1. PICK a \in DOMAIN order : order[a] = i
              BY <4>1 DEF Left
            <6>2. 1 \in DOMAIN order /\ a # 1 /\ 1 < a /\ ran = order[1]
              BY <3>1, <3>3, <6>1 DEF Current, DispatchInv, TypeOK
            <6>3. ComesBefore(ran, i)
              BY <6>1, <6>2 DEF DispatchInv, InOrder
            <6>4. i \in Nat /\ ran \in Nat
              BY <3>2 DEF Backends, DispatchInv, TypeOK
            <6> QED
              BY <6>3, <6>4, OneOrder
          <5> QED
            BY <5>1, <5>2
        <4>2. CASE i \notin Left
          <5>1. Hidden(i) \/ ComesBefore(i, ran)
            BY <3>2, <4>2 DEF DispatchInv, InOrder
          <5> QED
            BY <3>3, <4>2, <5>1 DEF DispatchInv, AskedInTurn
        <4> QED
          BY <4>1, <4>2
      <3> QED
        BY <3>2, <3>3
    <2>2. ASSUME pc = "exhausted", NEW i \in Backends
          PROVE  IF Hidden(i) THEN said[i] = "-" ELSE said[i] \in {"down", "broke"}
      <3>1. i \notin Left
        BY <2>2 DEF DispatchInv, Stands, Left
      <3> QED
        BY <3>1 DEF DispatchInv, AskedInTurn
    <2> QED
      BY <2>1, <2>2 DEF FirstUsable
  <1> QED
    BY <1>1, DispatchInvariant, PTL

\* The decision tree has, for every name, the report of the last backend of that name
\* that was asked, and nothing for a name that nobody was asked under.
THEOREM DispatchTellsWhy == Spec => []TreeTellsWhy
  <1>1. DispatchInv => TreeTellsWhy
    <2> SUFFICES ASSUME DispatchInv, NEW n \in Names
                 PROVE  tried[n] = IF Asked(n) = {} THEN "-"
                                   ELSE said[CHOOSE i \in Asked(n) : \A j \in Asked(n) : ~ComesBefore(i, j)]
      BY DEF TreeTellsWhy, Asked
    <2>1. CASE Asked(n) = {} /\ tried[n] = "-"
      BY <2>1
    <2>2. CASE \E i \in Asked(n) : tried[n] = said[i] /\ \A j \in Asked(n) \ {i} : ComesBefore(j, i)
      <3>1. PICK i \in Asked(n) : tried[n] = said[i] /\ \A j \in Asked(n) \ {i} : ComesBefore(j, i)
        BY <2>2
      <3>2. \A j \in Asked(n) : j \in Nat
        BY DEF Asked, Named, DispatchInv, TypeOK
      <3>3. \A j \in Asked(n) : ~ComesBefore(i, j)
        BY <3>1, <3>2, OneOrder
      <3>4. \A k \in Asked(n) : (\A j \in Asked(n) : ~ComesBefore(k, j)) => k = i
        BY <3>1
      <3>5. (CHOOSE k \in Asked(n) : \A j \in Asked(n) : ~ComesBefore(k, j)) = i
        BY <3>1, <3>3, <3>4
      <3> QED
        BY <3>1, <3>5
    <2> QED
      BY <2>1, <2>2 DEF DispatchInv, Told
  <1> QED
    BY <1>1, DispatchInvariant, PTL

-----------------------------------------------------------------------------
(* ModelClient: the loop of resolve                                        *)

\* The least of some positions.
LEMMA FirstIsLeast ==
  ASSUME NEW T \in SUBSET (Nat \ {0})
  PROVE  /\ T = {} => First(T) = 0
         /\ T # {} => First(T) \in T
         /\ \A i \in T : First(T) <= i
         /\ First(T) = 0 <=> T = {}
  <1>1. CASE T = {}
    BY <1>1 DEF First
  <1>2. CASE T # {}
    <2>1. \E i \in T : \A j \in T : i <= j
      BY <1>2, LeastNat
    <2>2. First(T) \in T /\ \A j \in T : First(T) <= j
      BY <1>2, <2>1 DEF First
    <2> QED
      BY <1>2, <2>2
  <1> QED
    BY <1>1, <1>2

\* One position more at the front, or none.
LEMMA FirstFrom ==
  ASSUME NEW T \in SUBSET (Nat \ {0}), NEW i \in Nat \ {0}
  PROVE  First({j \in T : j >= i}) = IF i \in T THEN i ELSE First({j \in T : j >= i + 1})
  <1>0. \A j \in T : j \in Nat \ {0}
    OBVIOUS
  <1>1. CASE i \in T
    <2> DEFINE A == {j \in T : j >= i}
    <2>1. A \in SUBSET (Nat \ {0}) /\ \A j \in A : j >= i /\ j \in Nat
      BY <1>0
    <2>2. i \in A
      BY <1>1
    <2> HIDE DEF A
    <2>3. First(A) \in A /\ First(A) <= i
      BY <2>1, <2>2, FirstIsLeast
    <2>4. First(A) = i
      <3>1. First(A) \in Nat /\ First(A) >= i
        BY <2>1, <2>3
      <3> QED
        BY <2>3, <3>1
    <2> QED
      BY <1>1, <2>4 DEF A
  <1>2. CASE i \notin T
    <2>1. \A j \in T : j >= i <=> j >= i + 1
      BY <1>0, <1>2
    <2>2. {j \in T : j >= i} = {j \in T : j >= i + 1}
      BY <2>1
    <2> QED
      BY <1>2, <2>2
  <1> QED
    BY <1>1, <1>2

\* Where the loop of the Python client may end.
LoopEnds(list) == {i \in DOMAIN list : list[i].healthy /\ list[i].models # "others"}

\* It ends at the first of them.
LEMMA LoopFindsFirst ==
  ASSUME NEW list, NEW len \in Nat, Len(list) = len, DOMAIN list = 1..len
  PROVE  first_healthy(list) = First(LoopEnds(list))
  <1> DEFINE T == LoopEnds(list)
             Body(f, i) == IF i > len THEN 0
                           ELSE IF list[i].healthy /\ list[i].models # "others" THEN i ELSE f[i + 1]
             Is(f) == f = [i \in 1..(len + 1) |-> Body(f, i)]
             from == CHOOSE f : Is(f)
             rest == [i \in 1..(len + 1) |-> First({j \in T : j >= i})]
  <1>1. T \in SUBSET (Nat \ {0}) /\ \A j \in T : j <= len
    BY DEF LoopEnds
  <1>2. \A i \in 1..len : i \in T <=> list[i].healthy /\ list[i].models # "others"
    BY DEF LoopEnds
  <1>3. first_healthy(list) = from[1]
    BY DEF first_healthy
  <1> HIDE DEF T
  <1>4. \A i \in 1..(len + 1) : rest[i] = Body(rest, i)
    <2> TAKE i \in 1..(len + 1)
    <2>1. CASE i > len
      <3>1. {j \in T : j >= i} = {}
        <4>1. \A j \in T : j \in Nat /\ j <= len
          BY <1>1
        <4> QED
          BY <2>1, <4>1
      <3> QED
        BY <1>1, <2>1, <3>1, FirstIsLeast
    <2>2. CASE i <= len
      <3>1. i + 1 \in 1..(len + 1) /\ i \in 1..len /\ ~(i > len) /\ i \in Nat \ {0}
        BY <2>2
      <3>2. rest[i] = IF i \in T THEN i ELSE rest[i + 1]
        BY <1>1, <3>1, FirstFrom
      <3> HIDE DEF rest
      <3> QED
        BY <1>2, <3>1, <3>2
    <2> QED
      BY <2>1, <2>2
  <1>5. Is(rest)
    <2> DEFINE body == [i \in 1..(len + 1) |-> Body(rest, i)]
    <2>1. \A i \in 1..(len + 1) : rest[i] = body[i]
      BY <1>4
    <2>2. DOMAIN rest = 1..(len + 1) /\ DOMAIN body = 1..(len + 1)
      OBVIOUS
    <2> QED
      BY <2>1, <2>2
  <1>6. from = [i \in 1..(len + 1) |-> Body(from, i)]
    <2>1. \E f : Is(f)
      <3> HIDE DEF rest, Is
      <3> QED
        BY <1>5
    <2>2. Is(from)
      BY <2>1
    <2> QED
      BY <2>2
  <1> HIDE DEF from, rest
  <1> DEFINE P == {k \in Nat : k <= len => from[len + 1 - k] = rest[len + 1 - k]}
  <1>7. 0 \in P
    <2>1. len + 1 - 0 \in 1..(len + 1) /\ len + 1 - 0 > len
      OBVIOUS
    <2>2. from[len + 1 - 0] = 0 /\ rest[len + 1 - 0] = 0
      BY <1>4, <1>6, <2>1
    <2> QED
      BY <2>2
  <1>8. ASSUME NEW k \in Nat, k < len, k \in P PROVE k + 1 \in P
    <2> DEFINE i == len + 1 - (k + 1)
    <2>1. i \in 1..(len + 1) /\ i + 1 = len + 1 - k
      BY <1>8
    <2>2. from[i + 1] = rest[i + 1]
      BY <1>8, <2>1
    <2> HIDE DEF i
    <2>3. from[i] = rest[i]
      BY <1>4, <1>6, <2>1, <2>2
    <2> QED
      BY <2>3 DEF i
  <1>9. from[1] = rest[1]
    <2> HIDE DEF P
    <2>1. \A k \in 0..len : k \in P
      BY <1>7, <1>8, UpTo
    <2>2. len \in P
      BY <2>1
    <2>3. len + 1 - len = 1
      OBVIOUS
    <2> QED
      BY <2>2, <2>3 DEF P
  <1>10. {j \in T : j >= 1} = T
    <2>1. \A j \in T : j >= 1
      BY <1>1
    <2> QED
      BY <2>1
  <1>11. rest[1] = First(T)
    BY <1>10 DEF rest
  <1> QED
    BY <1>3, <1>9, <1>11 DEF T

-----------------------------------------------------------------------------
(* ModelClient: the inductive invariant                                    *)

\* What each client makes of an answer.
MakesOf(l, answer) == IF l = "go" THEN Resolve(answer) ELSE resolve(answer)

\* What delightd can answer: a list that is a sequence, or none.
Answered(answer) ==
  /\ answer.is \in NoList \cup {"list"}
  /\ answer.list \in Seq(Source)
  /\ answer.is # "list" => answer.list = <<>>

\* A client's pick and its result are what it made of what it saw, whatever has come or
\* gone since; before it asked it has neither.
ClientInv ==
  /\ sources \in Seq(Source)
  /\ saw \in [Langs -> [is : NoList \cup {"list", "-"}, list : Seq(Source)]]
  /\ pick \in [Langs -> Nat]
  /\ result \in [Langs -> {"-", "generate", "text", "failed", "unavailable", "unsupported", "error"}]
  /\ \A l \in Langs :
       IF result[l] = "-" THEN saw[l] = NoAnswer /\ pick[l] = 0
       ELSE /\ Answered(saw[l])
            /\ pick[l] = MakesOf(l, saw[l]).found
            /\ Decision(l) = MakesOf(l, saw[l]).result

\* Go's loop finds the first usable source of an answer, or none; Python's finds the
\* same one, or ends at a null.
LEMMA FindsFirst ==
  ASSUME NEW list \in Seq(Source)
  PROVE  /\ FirstHealthy(list) \in Usable(list) \cup {0} /\ FirstHealthy(list) \in Nat
         /\ FirstHealthy(list) = 0 <=> Usable(list) = {}
         /\ \A i \in Usable(list) : FirstHealthy(list) <= i
         /\ first_healthy(list) \in Nat
         /\ \/ first_healthy(list) = FirstHealthy(list)
               /\ (first_healthy(list) # 0 => list[first_healthy(list)].models # "null")
            \/ /\ first_healthy(list) # 0 /\ first_healthy(list) \in DOMAIN list
               /\ list[first_healthy(list)].healthy /\ list[first_healthy(list)].models = "null"
  <1>1. DOMAIN list = 1..Len(list) /\ Len(list) \in Nat
    OBVIOUS
  <1>2. Usable(list) \in SUBSET (Nat \ {0}) /\ LoopEnds(list) \in SUBSET (Nat \ {0})
    BY <1>1 DEF Usable, LoopEnds
  <1>3. FirstHealthy(list) = First(Usable(list)) /\ first_healthy(list) = First(LoopEnds(list))
    BY <1>1, LoopFindsFirst DEF FirstHealthy, Usable
  <1>4. \A T \in {Usable(list), LoopEnds(list)} :
          /\ First(T) \in T \cup {0} /\ First(T) \in Nat
          /\ First(T) = 0 <=> T = {}
          /\ \A i \in T : First(T) <= i
    BY <1>2, FirstIsLeast
  <1>5. Usable(list) \subseteq LoopEnds(list)
    BY DEF Usable, LoopEnds
  <1>6. ASSUME NEW i, i = first_healthy(list), i # 0
        PROVE  i \in DOMAIN list /\ list[i].healthy /\ list[i].models \in {"serving", "null"}
    <2>1. i \in LoopEnds(list)
      BY <1>3, <1>4, <1>6
    <2>2. i \in DOMAIN list /\ list[i].healthy /\ list[i].models # "others"
      BY <2>1 DEF LoopEnds
    <2>3. list[i] \in Source
      BY <2>2
    <2> QED
      BY <2>2, <2>3 DEF Source
  <1>7. ASSUME NEW i, i = first_healthy(list), i # 0, list[i].models = "serving"
        PROVE  i = FirstHealthy(list)
    <2>1. i \in Usable(list)
      BY <1>6, <1>7 DEF Usable
    <2>2. FirstHealthy(list) \in Usable(list) /\ FirstHealthy(list) <= i /\ FirstHealthy(list) \in Nat
      BY <1>3, <1>4, <2>1
    <2>3. i <= FirstHealthy(list) /\ i \in Nat
      BY <1>3, <1>4, <1>5, <1>7, <2>2
    <2> QED
      BY <2>2, <2>3
  <1>8. first_healthy(list) = 0 => FirstHealthy(list) = 0
    BY <1>3, <1>4, <1>5
  <1> QED
    BY <1>3, <1>4, <1>6, <1>7, <1>8

\* An answer without a list has no usable source.
LEMMA NothingUsable == Usable(<<>>) = {}
  BY DEF Usable

\* What a call that has asked makes of it.
LEMMA MadeOf ==
  ASSUME NEW l \in Langs, NEW answer, Answered(answer)
  PROVE  LET i == FirstHealthy(answer.list)
             of == MakesOf(l, answer)
         IN  /\ of.found \in Nat
             /\ of.result \in {"generate", "unavailable", "unsupported", "error"}
             /\ of.result = "unavailable" => Usable(answer.list) = {}
             /\ of.result = "generate" => of.found = i /\ i # 0 /\ answer.list[i].provider = "ollama"
  <1> DEFINE list == answer.list
             i == FirstHealthy(list)
             k == first_healthy(list)
  <1>1. /\ i \in Nat /\ (i = 0 <=> Usable(list) = {}) /\ k \in Nat
        /\ (k = i /\ (k # 0 => list[k].models # "null")) \/ (k # 0 /\ list[k].models = "null")
    BY FindsFirst DEF Answered
  <1>2. answer.is \in NoList => Usable(list) = {}
    BY NothingUsable DEF Answered, NoList, Failures
  <1> HIDE DEF i, k, list
  <1>3. CASE l = "go"
    <2>1. MakesOf(l, answer) = Resolve(answer)
      BY <1>3 DEF MakesOf
    <2>2. CASE answer.is = "unreachable"
      BY <1>1, <1>2, <2>1, <2>2 DEF Resolve, NotResolved, NoList, Failures, list
    <2>3. CASE answer.is \in {"broken", "misshapen"}
      BY <1>1, <1>3, <2>1, <2>3 DEF Resolve, NotResolved, list
    <2>4. CASE answer.is \notin {"unreachable", "broken", "misshapen"}
      <3>1. Resolve(answer) = Resolved(i, i # 0 /\ providerFor(list[i].provider) = "OLLAMA")
        BY <2>4 DEF Resolve, i, list
      <3>2. providerFor(list[i].provider) = "OLLAMA" => list[i].provider = "ollama"
        BY DEF providerFor
      <3> QED
        BY <1>1, <2>1, <3>1, <3>2 DEF Resolved, list, i
    <2> QED
      BY <2>2, <2>3, <2>4
  <1>4. CASE l # "go"
    <2>1. MakesOf(l, answer) = resolve(answer)
      BY <1>4 DEF MakesOf
    <2>2. CASE answer.is \in NoList
      BY <1>1, <1>2, <2>1, <2>2 DEF resolve, NotResolved, NoList, Failures, list
    <2>3. CASE answer.is \notin NoList
      <3>1. resolve(answer) = IF k # 0 /\ list[k].models = "null" THEN NotResolved("error")
                              ELSE Resolved(k, k # 0 /\ list[k].provider = "ollama")
        BY <2>3 DEF resolve, list, k, NoList, Failures
      <3>2. CASE k # 0 /\ list[k].models = "null"
        BY <2>1, <3>1, <3>2 DEF NotResolved
      <3>3. CASE ~(k # 0 /\ list[k].models = "null")
        <4>1. k = i /\ resolve(answer) = Resolved(i, i # 0 /\ list[i].provider = "ollama")
          BY <1>1, <3>1, <3>3
        <4> QED
          BY <1>1, <2>1, <4>1 DEF Resolved, list, i
      <3> QED
        BY <3>2, <3>3
    <2> QED
      BY <2>2, <2>3
  <1> QED
    BY <1>3, <1>4

\* What two clients make of one answer, in the terms of PairAgrees.
Matched(answer, go, python) ==
  \/ go.found = python.found /\ go.result = python.result
  \/ answer.is = "broken" /\ go.result = "error" /\ python.result = "unavailable"
  \/ HasNull(answer) /\ go.result # "error" /\ python.result = "error"

\* Told the same, the two make the same of it, but for an answer that is no JSON, and
\* one with null in the place of a list.
LEMMA MadeAlike ==
  ASSUME NEW answer, Answered(answer)
  PROVE  Matched(answer, MakesOf("go", answer), MakesOf("python", answer))
  <1> DEFINE list == answer.list
             i == FirstHealthy(list)
             k == first_healthy(list)
             go == Resolved(i, i # 0 /\ providerFor(list[i].provider) = "OLLAMA")
  <1>1. /\ i = 0 <=> Usable(list) = {}
        /\ \/ k = i /\ (k # 0 => list[k].models # "null")
           \/ k # 0 /\ k \in DOMAIN list /\ list[k].healthy /\ list[k].models = "null"
    BY FindsFirst DEF Answered
  <1>2. answer.is \in NoList => i = 0
    BY <1>1, NothingUsable DEF Answered, NoList, Failures
  <1>3. MakesOf("go", answer) = Resolve(answer) /\ MakesOf("python", answer) = resolve(answer)
    BY DEF MakesOf
  <1>4. answer.is \notin {"unreachable", "broken", "misshapen"} => Resolve(answer) = go
    BY DEF Resolve
  <1> HIDE DEF i, k, list
  <1>5. go.result # "error"
    BY DEF Resolved
  <1>6. CASE answer.is \in {"unreachable", "broken", "misshapen"}
    BY <1>3, <1>6 DEF Resolve, resolve, NotResolved, Failures, Matched
  <1>7. CASE answer.is = "refused"
    <2>1. resolve(answer) = NotResolved("unavailable") /\ i = 0
      BY <1>2, <1>7 DEF resolve, NoList, Failures
    <2> QED
      BY <1>3, <1>4, <1>7, <2>1 DEF Resolved, NotResolved, Matched
  <1>8. CASE answer.is = "null"
    <2>1. resolve(answer) = NotResolved("error") /\ HasNull(answer)
      BY <1>8 DEF resolve, Failures, HasNull
    <2>2. Resolve(answer) = go
      BY <1>4, <1>8
    <2> HIDE DEF go
    <2> QED
      BY <1>3, <1>5, <2>1, <2>2 DEF NotResolved, Matched
  <1>9. CASE answer.is \notin NoList
    <2>1. resolve(answer) = IF k # 0 /\ list[k].models = "null" THEN NotResolved("error")
                            ELSE Resolved(k, k # 0 /\ list[k].provider = "ollama")
      BY <1>9 DEF resolve, list, k, NoList, Failures
    <2>2. Resolve(answer) = go
      BY <1>4, <1>9 DEF NoList, Failures
    <2>3. CASE k # 0 /\ k \in DOMAIN list /\ list[k].healthy /\ list[k].models = "null"
      <3>1. HasNull(answer)
        BY <2>3 DEF HasNull, list
      <3>2. resolve(answer) = NotResolved("error")
        BY <2>1, <2>3
      <3> HIDE DEF go
      <3> QED
        BY <1>3, <1>5, <2>2, <3>1, <3>2 DEF NotResolved, Matched
    <2>4. CASE k = i /\ (k # 0 => list[k].models # "null")
      <3>1. resolve(answer) = Resolved(i, i # 0 /\ list[i].provider = "ollama")
        BY <2>1, <2>4
      <3>2. providerFor(list[i].provider) = "OLLAMA" <=> list[i].provider = "ollama"
        BY DEF providerFor
      <3> QED
        BY <1>3, <2>2, <3>1, <3>2 DEF Resolved, Matched
    <2> QED
      BY <1>1, <2>3, <2>4
  <1> QED
    BY <1>6, <1>7, <1>8, <1>9 DEF NoList, Failures

LEMMA ClientStarts == ClientInit => ClientInv
  <1> SUFFICES ASSUME ClientInit PROVE ClientInv
    OBVIOUS
  <1>1. sources \in Seq(Source)
    <2>1. PICK k \in 0..MaxSources : sources \in [1..k -> Source]
      BY DEF ClientInit
    <2>2. k \in Nat
      BY <2>1, ClientAssumption
    <2> QED
      BY <2>1, <2>2
  <1>2. NoAnswer \in [is : NoList \cup {"list", "-"}, list : Seq(Source)]
    BY DEF NoAnswer
  <1> QED
    BY <1>1, <1>2 DEF ClientInit, ClientInv

\* A client that asks.
LEMMA AsksOnce ==
  ASSUME ClientInv, NEW l \in Langs, NEW answer \in Answers(sources),
         Discover(l, answer, MakesOf(l, answer))
  PROVE  ClientInv'
  <1>0. \/ \E f \in NoList : answer = [is |-> f, list |-> <<>>]
        \/ answer = [is |-> "list", list |-> sources]
    BY DEF Answers
  <1>1. Answered(answer)
    <2>1. CASE \E f \in NoList : answer = [is |-> f, list |-> <<>>]
      BY <2>1 DEF Answered
    <2>2. CASE answer = [is |-> "list", list |-> sources]
      BY <2>2 DEF Answered, ClientInv
    <2> QED
      BY <1>0, <2>1, <2>2
  <1>2. answer \in [is : NoList \cup {"list", "-"}, list : Seq(Source)]
    <2>1. CASE \E f \in NoList : answer = [is |-> f, list |-> <<>>]
      BY <2>1
    <2>2. CASE answer = [is |-> "list", list |-> sources]
      BY <2>2 DEF ClientInv
    <2> QED
      BY <1>0, <2>1, <2>2
  <1>3. /\ MakesOf(l, answer).found \in Nat
        /\ MakesOf(l, answer).result \in {"generate", "unavailable", "unsupported", "error"}
    BY <1>1, MadeOf
  <1>4. PICK made : made = MakesOf(l, answer)
    OBVIOUS
  <1>5. /\ sources' = sources /\ saw' = [saw EXCEPT ![l] = answer]
        /\ pick' = [pick EXCEPT ![l] = made.found] /\ result' = [result EXCEPT ![l] = made.result]
    BY <1>4 DEF Discover
  <1>6. ASSUME NEW k \in Langs
        PROVE  IF result'[k] = "-" THEN saw'[k] = NoAnswer /\ pick'[k] = 0
               ELSE /\ Answered(saw'[k])
                    /\ pick'[k] = MakesOf(k, saw'[k]).found
                    /\ Decision(k)' = MakesOf(k, saw'[k]).result
    <2>1. CASE k = l
      <3>1. saw'[k] = answer /\ pick'[k] = made.found /\ result'[k] = made.result
        BY <1>5, <2>1 DEF ClientInv
      <3>2. Decision(k)' = made.result
        BY <1>3, <1>4, <3>1 DEF Decision
      <3> QED
        BY <1>1, <1>3, <1>4, <2>1, <3>1, <3>2
    <2>2. CASE k # l
      <3>1. saw'[k] = saw[k] /\ pick'[k] = pick[k] /\ result'[k] = result[k]
        BY <1>5, <2>2 DEF ClientInv
      <3>2. Decision(k)' = Decision(k)
        BY <3>1 DEF Decision
      <3> QED
        BY <3>1, <3>2 DEF ClientInv
    <2> QED
      BY <2>1, <2>2
  <1>7. /\ saw' \in [Langs -> [is : NoList \cup {"list", "-"}, list : Seq(Source)]]
        /\ pick' \in [Langs -> Nat]
        /\ result' \in [Langs -> {"-", "generate", "text", "failed", "unavailable", "unsupported", "error"}]
    BY <1>2, <1>3, <1>4, <1>5 DEF ClientInv
  <1> QED
    BY <1>5, <1>6, <1>7 DEF ClientInv

\* A completion that ends, well or not, is of the same decision.
LEMMA Completes ==
  ASSUME ClientInv, NEW l \in Langs, NEW how \in {"text", "failed"}, result[l] = "generate",
         result' = [result EXCEPT ![l] = how], UNCHANGED <<sources, saw, pick>>
  PROVE  ClientInv'
  <1>1. \A k \in Langs : (result'[k] = "-" <=> result[k] = "-") /\ Decision(k)' = Decision(k)
    BY DEF ClientInv, Decision
  <1>2. result' \in [Langs -> {"-", "generate", "text", "failed", "unavailable", "unsupported", "error"}]
    BY DEF ClientInv
  <1> QED
    BY <1>1, <1>2 DEF ClientInv

LEMMA ClientStep == ClientInv /\ [ClientNext]_clientVars => ClientInv'
  <1> SUFFICES ASSUME ClientInv, [ClientNext]_clientVars PROVE ClientInv'
    OBVIOUS
  <1>1. ASSUME NEW i \in DOMAIN sources, Turn(i) PROVE ClientInv'
    <2>1. PICK s \in Source : sources' = [sources EXCEPT ![i] = [s EXCEPT !.provider = sources[i].provider]]
      BY <1>1 DEF Turn
    <2>2. [s EXCEPT !.provider = sources[i].provider] \in Source
      <3>1. sources[i] \in Source
        BY DEF ClientInv
      <3>2. sources[i].provider \in Providers /\ s \in [provider : Providers, healthy : BOOLEAN, models : {"serving", "others", "null"}]
        BY <3>1 DEF Source
      <3> QED
        BY <3>2 DEF Source
    <2>3. sources' \in Seq(Source)
      BY <2>1, <2>2 DEF ClientInv
    <2>4. \A l : Decision(l)' = Decision(l)
      BY <1>1 DEF Decision, Turn
    <2> QED
      BY <1>1, <2>3, <2>4 DEF ClientInv, Turn
  <1>2. ASSUME NEW answer \in Answers(sources), DiscoverGo(answer) PROVE ClientInv'
    BY <1>2, AsksOnce DEF DiscoverGo, MakesOf, Langs
  <1>3. ASSUME NEW answer \in Answers(sources), DiscoverPython(answer) PROVE ClientInv'
    BY <1>3, AsksOnce DEF DiscoverPython, MakesOf, Langs
  <1>4. ASSUME NEW l \in Langs, Generated(l) PROVE ClientInv'
    BY <1>4, Completes DEF Generated
  <1>5. ASSUME NEW l \in Langs, GenerateFails(l) PROVE ClientInv'
    BY <1>5, Completes DEF GenerateFails
  <1>6. CASE UNCHANGED clientVars
    <2>1. \A l : Decision(l)' = Decision(l)
      BY <1>6 DEF Decision, clientVars
    <2> QED
      BY <1>6, <2>1 DEF ClientInv, clientVars
  <1> QED
    BY <1>1, <1>2, <1>3, <1>4, <1>5, <1>6 DEF ClientNext

\* A client's pick and result follow from what it was told, in every state of the calls.
THEOREM ClientInvariant == ClientSpec => []ClientInv
  BY ClientStarts, ClientStep, PTL DEF ClientSpec

\* For any sources, turning at any time: a text comes from the first source that was
\* reported healthy and serving the model, and "unavailable" is never said of a model
\* that an answer showed as served.
THEOREM ClientsFailClosed == ClientSpec => []FailClosed
  <1>1. ClientInv => FailClosed
    <2> SUFFICES ASSUME ClientInv, NEW l \in Langs
                 PROVE  /\ result[l] = "text" =>
                             /\ pick[l] \in Usable(saw[l].list)
                             /\ \A i \in Usable(saw[l].list) : pick[l] <= i
                             /\ saw[l].list[pick[l]].provider = "ollama"
                        /\ result[l] = "unavailable" => Usable(saw[l].list) = {}
      BY DEF FailClosed
    <2>1. CASE result[l] \in {"text", "unavailable"}
      <3>1. /\ Answered(saw[l]) /\ pick[l] = MakesOf(l, saw[l]).found
            /\ Decision(l) = MakesOf(l, saw[l]).result
        BY <2>1 DEF ClientInv
      <3>2. result[l] = "text" => Decision(l) = "generate"
        BY DEF Decision
      <3>3. result[l] = "unavailable" => Decision(l) = "unavailable"
        BY DEF Decision
      <3>4. saw[l].list \in Seq(Source)
        BY <3>1 DEF Answered
      <3>5. /\ FirstHealthy(saw[l].list) \in Usable(saw[l].list) \cup {0}
            /\ \A i \in Usable(saw[l].list) : FirstHealthy(saw[l].list) <= i
        BY <3>4, FindsFirst
      <3> QED
        BY <3>1, <3>2, <3>3, <3>5, MadeOf
    <2> QED
      BY <2>1
  <1> QED
    BY <1>1, ClientInvariant, PTL

\* For any sources: two clients that were told the same pick the same source and come to
\* the same decision, but for an answer that is no JSON (an error in Go, "unavailable" in
\* Python) and one with null in the place of a list (a TypeError in Python, empty in Go).
THEOREM ClientsAgree == ClientSpec => []PairAgrees
  <1>1. ClientInv => PairAgrees
    <2> SUFFICES ASSUME ClientInv, saw["go"] = saw["python"]
                 PROVE  \/ pick["go"] = pick["python"] /\ Decision("go") = Decision("python")
                        \/ saw["go"].is = "broken" /\ Decision("go") = "error"
                           /\ Decision("python") = "unavailable"
                        \/ HasNull(saw["go"]) /\ Decision("go") # "error" /\ Decision("python") = "error"
      BY DEF PairAgrees
    <2>1. "go" \in Langs /\ "python" \in Langs
      BY DEF Langs
    <2>2. CASE saw["go"] = NoAnswer
      <3>1. ~Answered(NoAnswer)
        BY DEF Answered, NoAnswer, NoList, Failures
      <3>2. result["go"] = "-" /\ result["python"] = "-"
        BY <2>1, <2>2, <3>1 DEF ClientInv
      <3> QED
        BY <2>1, <3>2 DEF ClientInv, Decision
    <2>3. CASE saw["go"] # NoAnswer
      <3>1. /\ Answered(saw["go"])
            /\ pick["go"] = MakesOf("go", saw["go"]).found
            /\ pick["python"] = MakesOf("python", saw["go"]).found
            /\ Decision("go") = MakesOf("go", saw["go"]).result
            /\ Decision("python") = MakesOf("python", saw["go"]).result
        BY <2>1, <2>3 DEF ClientInv
      <3>2. Matched(saw["go"], MakesOf("go", saw["go"]), MakesOf("python", saw["go"]))
        BY <3>1, MadeAlike
      <3> QED
        BY <3>1, <3>2 DEF Matched
    <2> QED
      BY <2>2, <2>3
  <1> QED
    BY <1>1, ClientInvariant, PTL

-----------------------------------------------------------------------------
(* The checked composition                                                 *)

\* What the model checker explores is covered: a behaviour of the composed module is one
\* of a dispatch call, and one of the two clients.
THEOREM BackendsCovered == MCSpec => Spec /\ ClientSpec
  <1>1. MCInit => Init /\ ClientInit
    <2>1. <<>> \in Lists
      <3>1. 0 \in 0..MaxBackends
        BY DispatchAssumption
      <3>2. <<>> \in [1..0 -> Names]
        OBVIOUS
      <3> QED
        BY <3>1, <3>2 DEF Lists
    <2> QED
      BY <2>1 DEF MCInit, Init
  <1>2. [MCNext]_<<vars, clientVars>> => [Next]_vars /\ [ClientNext]_clientVars
    BY DEF MCNext
  <1> QED
    BY <1>1, <1>2, PTL DEF MCSpec, Spec, ClientSpec

=============================================================================
