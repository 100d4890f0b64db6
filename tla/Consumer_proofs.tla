-------------------------- MODULE Consumer_proofs --------------------------
(***************************************************************************)
(* Theorems of Consumer, for any partitions, records, failed fetches and   *)
(* ends of the process: the loop hands each partition to the handler in    *)
(* its order, no offset is committed past a message that no handler has    *)
(* seen, and what a handler gets of a message is its payload.              *)
(*                                                                         *)
(* The first part is about WireFrame: StripFrame takes away exactly what   *)
(* Encode puts before a payload, whatever the schema id, the message index *)
(* and the payload.  Its functions are recursive over numbers and byte     *)
(* strings; that they have the values their definitions say is what        *)
(* Recursion is for.                                                       *)
(***************************************************************************)
EXTENDS Consumer, WellFoundedInduction, SequenceTheorems, FiniteSetTheorems, TLAPS

-----------------------------------------------------------------------------
(* Recursion over data                                                     *)

\* A set that has 0, and the next number of every one it has, has all of them.
LEMMA UpTo ==
  ASSUME NEW limit \in Nat, NEW P, 0 \in P,
         \A n \in Nat : n < limit /\ n \in P => n + 1 \in P
  PROVE  limit \in P
  <1> DEFINE Missed == {n \in 0..limit : n \notin P}
             R == OpToRel(<, Nat)
  <1> SUFFICES ASSUME limit \notin P PROVE FALSE
    OBVIOUS
  <1>1. Missed \subseteq Nat /\ Missed # {}
    <2>1. limit \in Missed
      OBVIOUS
    <2> QED
      BY <2>1
  <1>2. PICK n \in Missed : \A m \in Missed : ~(<<m, n>> \in R)
    <2> HIDE DEF Missed
    <2> QED
      BY <1>1, WFMin, NatLessThanWellFounded
  <1>3. n \in 0..limit /\ n \notin P /\ n # 0
    BY <1>2
  <1>4. n - 1 \in Missed
    <2>1. n - 1 \in 0..limit /\ n - 1 \in Nat /\ n - 1 < limit /\ (n - 1) + 1 = n
      BY <1>3
    <2> QED
      BY <1>3, <2>1
  <1>5. n - 1 \in Nat /\ n \in Nat /\ n - 1 < n
    BY <1>3
  <1>6. <<n - 1, n>> \in R
    BY <1>5 DEF OpToRel
  <1> QED
    BY <1>2, <1>4, <1>6

\* A recursive definition: on stop its value is base, elsewhere what more makes of the
\* value at the next argument, which measures less.
Recursive(D, V, mu, next, stop, base, more) ==
  /\ mu \in [D -> Nat] /\ next \in [D -> D]
  /\ \A x \in D : x \notin stop => mu[next[x]] < mu[x]
  /\ base \in [D -> V] /\ more \in [D -> [V -> V]]
Defines(f, D, next, stop, base, more) ==
  \A x \in D : f[x] = IF x \in stop THEN base[x] ELSE more[x][f[next[x]]]

\* f is a solution as far as n.
Solves(f, D, mu, next, stop, base, more, n) ==
  \A x \in D : mu[x] <= n => f[x] = IF x \in stop THEN base[x] ELSE more[x][f[next[x]]]

\* Such a definition has a solution.
LEMMA Recursion ==
  ASSUME NEW D, NEW V, NEW mu, NEW next, NEW stop, NEW base, NEW more,
         Recursive(D, V, mu, next, stop, base, more)
  PROVE  \E f \in [D -> V] : Defines(f, D, next, stop, base, more)
  <1>0. /\ mu \in [D -> Nat] /\ next \in [D -> D]
        /\ \A x \in D : x \notin stop => mu[next[x]] < mu[x]
        /\ base \in [D -> V] /\ more \in [D -> [V -> V]]
    BY DEF Recursive
  <1> DEFINE S(f, n) == Solves(f, D, mu, next, stop, base, more, n)
  <1>1. \A n \in Nat : \E f \in [D -> V] : S(f, n)
    <2> DEFINE P == {n \in Nat : \E f \in [D -> V] : S(f, n)}
    <2>1. 0 \in P
      <3>1. \A x \in D : mu[x] <= 0 => x \in stop
        <4> SUFFICES ASSUME NEW x \in D, mu[x] <= 0, x \notin stop PROVE FALSE
          OBVIOUS
        <4>1. mu[next[x]] < mu[x] /\ mu[next[x]] \in Nat /\ mu[x] \in Nat
          BY <1>0
        <4> QED
          BY <4>1
      <3>2. S(base, 0)
        BY <3>1 DEF Solves
      <3> QED
        BY <1>0, <3>2
    <2>2. ASSUME NEW n \in Nat, n \in P PROVE n + 1 \in P
      <3>1. PICK f \in [D -> V] : S(f, n)
        BY <2>2
      <3> DEFINE g == [x \in D |-> IF x \in stop THEN base[x] ELSE more[x][f[next[x]]]]
      <3>2. g \in [D -> V]
        BY <1>0
      <3>3. \A x \in D : mu[x] <= n => g[x] = f[x]
        BY <3>1 DEF Solves
      <3>4. \A x \in D : x \notin stop /\ mu[x] <= n + 1 => mu[next[x]] <= n
        <4> SUFFICES ASSUME NEW x \in D, x \notin stop, mu[x] <= n + 1 PROVE mu[next[x]] <= n
          OBVIOUS
        <4>1. mu[next[x]] < mu[x] /\ mu[next[x]] \in Nat /\ mu[x] \in Nat
          BY <1>0
        <4> QED
          BY <4>1
      <3>5. S(g, n + 1)
        BY <1>0, <3>3, <3>4 DEF Solves
      <3> QED
        BY <3>2, <3>5
    <2> HIDE DEF P
    <2>3. \A n \in Nat : n \in P
      BY <2>1, <2>2, UpTo
    <2> QED
      BY <2>3 DEF P
  <1>2. ASSUME NEW n \in Nat, NEW m \in Nat, NEW f, S(f, n), NEW g, S(g, m),
               NEW x \in D, mu[x] <= n, mu[x] <= m
        PROVE  f[x] = g[x]
    <2> DEFINE P == {k \in Nat : \A y \in D : mu[y] <= k /\ mu[y] <= n /\ mu[y] <= m => f[y] = g[y]}
    <2>0. \A y \in D : mu[y] \in Nat /\ (y \notin stop => mu[next[y]] \in Nat /\ mu[next[y]] < mu[y] /\ next[y] \in D)
      BY <1>0
    <2>1. 0 \in P
      <3>1. \A y \in D : mu[y] <= 0 => y \in stop
        BY <2>0
      <3> QED
        BY <1>2, <3>1 DEF Solves
    <2>2. ASSUME NEW k \in Nat, k \in P PROVE k + 1 \in P
      <3> SUFFICES ASSUME NEW y \in D, mu[y] <= k + 1, mu[y] <= n, mu[y] <= m PROVE f[y] = g[y]
        OBVIOUS
      <3>1. CASE y \in stop
        BY <1>2, <3>1 DEF Solves
      <3>2. CASE y \notin stop
        <4>1. mu[next[y]] <= k /\ mu[next[y]] <= n /\ mu[next[y]] <= m /\ next[y] \in D
          BY <2>0, <3>2
        <4>2. f[next[y]] = g[next[y]]
          BY <2>2, <4>1
        <4> QED
          BY <1>2, <3>2, <4>2 DEF Solves
      <3> QED
        BY <3>1, <3>2
    <2> HIDE DEF P
    <2>3. mu[x] \in P
      BY <2>0, <2>1, <2>2, UpTo
    <2>4. mu[x] <= mu[x]
      BY <2>0
    <2> QED
      BY <1>2, <2>3, <2>4 DEF P
  <1> DEFINE G(n) == CHOOSE f \in [D -> V] : S(f, n)
             h == [x \in D |-> G(mu[x])[x]]
  <1>3. \A n \in Nat : G(n) \in [D -> V] /\ S(G(n), n)
    BY <1>1
  <1> HIDE DEF G
  <1>4. h \in [D -> V]
    BY <1>0, <1>3
  <1>5. ASSUME NEW x \in D
        PROVE  h[x] = IF x \in stop THEN base[x] ELSE more[x][h[next[x]]]
    <2>1. mu[x] \in Nat /\ mu[x] <= mu[x] /\ h[x] = G(mu[x])[x]
      BY <1>0
    <2>2. h[x] = IF x \in stop THEN base[x] ELSE more[x][G(mu[x])[next[x]]]
      BY <1>3, <2>1 DEF Solves
    <2>3. ASSUME x \notin stop PROVE G(mu[x])[next[x]] = h[next[x]]
      <3>1. next[x] \in D /\ mu[next[x]] \in Nat /\ mu[next[x]] < mu[x]
        BY <1>0, <2>3
      <3>2. mu[next[x]] <= mu[x] /\ mu[next[x]] <= mu[next[x]]
        BY <2>1, <3>1
      <3>3. h[next[x]] = G(mu[next[x]])[next[x]]
        BY <3>1
      <3> QED
        BY <1>2, <1>3, <2>1, <3>1, <3>2, <3>3
    <2> QED
      BY <2>2, <2>3
  <1> QED
    BY <1>4, <1>5 DEF Defines

-----------------------------------------------------------------------------
(* The wire format                                                         *)

LEMMA UvarintStep ==
  \A u \in Nat : Uvarint[u] = IF u < 128 THEN <<u>> ELSE <<128 + (u % 128)>> \o Uvarint[u \div 128]
  <1> DEFINE V == Seq(Int)
             mu == [u \in Nat |-> u]
             next == [u \in Nat |-> u \div 128]
             stop == 0..127
             base == [u \in Nat |-> <<u>>]
             more == [u \in Nat |-> [s \in V |-> <<128 + (u % 128)>> \o s]]
             Eq(f) == f = [u \in Nat |-> IF u < 128 THEN <<u>> ELSE <<128 + (u % 128)>> \o f[u \div 128]]
  <1>1. mu \in [Nat -> Nat] /\ next \in [Nat -> Nat] /\ base \in [Nat -> V]
    OBVIOUS
  <1>2. more \in [Nat -> [V -> V]]
    <2>1. \A u \in Nat, s \in V : <<128 + (u % 128)>> \o s \in V
      OBVIOUS
    <2> QED
      BY <2>1
  <1>3. \A u \in Nat : u \notin stop => mu[next[u]] < mu[u]
    OBVIOUS
  <1>4. PICK f \in [Nat -> V] : Defines(f, Nat, next, stop, base, more)
    <2> HIDE DEF mu, next, stop, base, more, V
    <2>1. Recursive(Nat, V, mu, next, stop, base, more)
      BY <1>1, <1>2, <1>3 DEF Recursive
    <2> QED
      BY <2>1, Recursion
  <1>5. \A u \in Nat : f[u] = IF u < 128 THEN <<u>> ELSE <<128 + (u % 128)>> \o f[u \div 128]
    <2> TAKE u \in Nat
    <2>1. u \in stop <=> u < 128
      OBVIOUS
    <2>2. u \div 128 \in Nat
      OBVIOUS
    <2>3. f[u \div 128] \in V
      BY <2>2
    <2>4. more[u][f[next[u]]] = <<128 + (u % 128)>> \o f[u \div 128]
      BY <2>2, <2>3
    <2>5. f[u] = IF u \in stop THEN base[u] ELSE more[u][f[next[u]]]
      BY <1>4 DEF Defines
    <2> QED
      BY <2>1, <2>4, <2>5
  <1>6. Eq(f)
    BY <1>5
  <1>7. Uvarint = CHOOSE g : Eq(g)
    BY DEF Uvarint
  <1>8. Eq(Uvarint)
    <2> HIDE DEF Eq
    <2> QED
      BY <1>6, <1>7
  <1> HIDE DEF mu, next, stop, base, more, V
  <1> QED
    BY <1>8

LEMMA UnsignedStep ==
  \A s \in Seq(Bytes) :
    Unsigned[s] = IF s = <<>> THEN 0 ELSE (Head(s) % 128) + (128 * Unsigned[Tail(s)])
  <1> DEFINE D == Seq(Bytes)
             mu == [s \in D |-> Len(s)]
             next == [s \in D |-> IF s = <<>> THEN s ELSE Tail(s)]
             stop == {<<>>}
             base == [s \in D |-> 0]
             more == [s \in D |-> [v \in Int |-> IF s = <<>> THEN v ELSE (Head(s) % 128) + (128 * v)]]
             Eq(f) == f = [s \in D |-> IF s = <<>> THEN 0 ELSE (Head(s) % 128) + (128 * f[Tail(s)])]
  <1>0. \A s \in D : s # <<>> => Head(s) \in Int /\ Tail(s) \in D /\ Len(Tail(s)) = Len(s) - 1 /\ Len(s) \in Nat
    <2> TAKE s \in D
    <2>1. Bytes \subseteq Int
      BY DEF Bytes
    <2> QED
      BY <2>1, HeadTailProperties, LenProperties
  <1>1. mu \in [D -> Nat] /\ next \in [D -> D] /\ base \in [D -> Int]
    BY <1>0
  <1>2. more \in [D -> [Int -> Int]]
    <2>1. \A s \in D, v \in Int : s # <<>> => (Head(s) % 128) + (128 * v) \in Int
      BY <1>0
    <2> QED
      BY <2>1
  <1>3. \A s \in D : s \notin stop => mu[next[s]] < mu[s]
    BY <1>0
  <1>4. PICK f \in [D -> Int] : Defines(f, D, next, stop, base, more)
    <2> HIDE DEF mu, next, stop, base, more, D
    <2>1. Recursive(D, Int, mu, next, stop, base, more)
      BY <1>1, <1>2, <1>3 DEF Recursive
    <2> QED
      BY <2>1, Recursion
  <1>5. \A s \in D : f[s] = IF s = <<>> THEN 0 ELSE (Head(s) % 128) + (128 * f[Tail(s)])
    <2> TAKE s \in D
    <2>1. f[s] = IF s \in stop THEN base[s] ELSE more[s][f[next[s]]]
      BY <1>4 DEF Defines
    <2>2. CASE s = <<>>
      BY <2>1, <2>2
    <2>3. CASE s # <<>>
      <3>1. next[s] = Tail(s) /\ f[Tail(s)] \in Int
        BY <1>0, <2>3
      <3>2. more[s][f[next[s]]] = (Head(s) % 128) + (128 * f[Tail(s)])
        BY <2>3, <3>1
      <3> QED
        BY <2>1, <2>3, <3>2
    <2> QED
      BY <2>2, <2>3
  <1>6. Eq(f)
    BY <1>5
  <1>7. Unsigned = CHOOSE g : Eq(g)
    BY DEF Unsigned
  <1>8. Eq(Unsigned)
    <2> HIDE DEF Eq
    <2> QED
      BY <1>6, <1>7
  <1> HIDE DEF mu, next, stop, base, more, D
  <1>9. Unsigned = [s \in D |-> IF s = <<>> THEN 0 ELSE (Head(s) % 128) + (128 * Unsigned[Tail(s)])]
    BY <1>8
  <1> QED
    BY <1>9 DEF D

\* The last byte of a varint is below 128, and none before it.
EndsAt(s, n) == n \in 1..Len(s) /\ s[n] < 128 /\ \A i \in 1..(n - 1) : s[i] >= 128

\* That byte is what VarintLen looks for.
LEMMA VarintLenFinds ==
  ASSUME NEW s \in Seq(Bytes)
  PROVE  /\ VarintLen(s) \in 0..Len(s)
         /\ \A n : EndsAt(s, n) => VarintLen(s) = n
  <1> DEFINE ends == {i \in DOMAIN s : s[i] < 128}
             Least(i) == i \in ends /\ \A j \in ends : i <= j
  <1>1. DOMAIN s = 1..Len(s) /\ Len(s) \in Nat /\ \A i \in DOMAIN s : s[i] \in Int
    <2>1. \A i \in 1..Len(s) : s[i] \in Bytes
      BY ElementOfSeq
    <2>2. DOMAIN s = 1..Len(s) /\ Len(s) \in Nat
      BY LenProperties
    <2>3. Bytes \subseteq Int
      BY DEF Bytes
    <2> QED
      BY <2>1, <2>2, <2>3
  <1>2. VarintLen(s) = IF ends = {} THEN 0 ELSE CHOOSE i \in ends : \A j \in ends : i <= j
    BY DEF VarintLen
  <1>3. ASSUME ends # {} PROVE \E i \in ends : \A j \in ends : i <= j
    <2>1. ends \subseteq Nat
      BY <1>1
    <2> HIDE DEF ends
    <2>2. PICK i \in ends : \A j \in ends : ~(<<j, i>> \in OpToRel(<, Nat))
      BY <1>3, <2>1, WFMin, NatLessThanWellFounded
    <2>3. \A j \in ends : i <= j
      <3> SUFFICES ASSUME NEW j \in ends, ~(i <= j) PROVE FALSE
        OBVIOUS
      <3>1. i \in Nat /\ j \in Nat /\ j < i
        BY <2>1
      <3> QED
        BY <2>2, <3>1 DEF OpToRel
    <2> QED
      BY <2>3
  <1>4. ends # {} => VarintLen(s) \in ends /\ \A j \in ends : VarintLen(s) <= j
    <2> HIDE DEF ends
    <2> QED
      BY <1>2, <1>3
  <1>5. VarintLen(s) \in 0..Len(s)
    BY <1>1, <1>2, <1>4
  <1>6. ASSUME NEW n, EndsAt(s, n) PROVE VarintLen(s) = n
    <2>1. n \in ends /\ n \in Int
      BY <1>1, <1>6 DEF EndsAt
    <2>2. \A j \in ends : n <= j
      <3> SUFFICES ASSUME NEW j \in ends, ~(n <= j) PROVE FALSE
        OBVIOUS
      <3>1. j \in 1..(n - 1) /\ s[j] < 128 /\ s[j] \in Int
        BY <1>1, <2>1
      <3>2. s[j] >= 128
        BY <1>6, <3>1 DEF EndsAt
      <3> QED
        BY <3>1, <3>2
    <2>3. VarintLen(s) \in ends /\ VarintLen(s) <= n /\ n <= VarintLen(s)
      BY <1>4, <2>1, <2>2
    <2> HIDE DEF ends
    <2> QED
      BY <1>5, <2>1, <2>3
  <1> QED
    BY <1>5, <1>6

LEMMA SkipIndicesStep ==
  \A k \in Nat, s \in Seq(Bytes) :
    SkipIndices[k][s] = IF k = 0 THEN Payload(s)
                        ELSE IF VarintLen(s) = 0 THEN Malformed
                        ELSE SkipIndices[k - 1][From(s, VarintLen(s) + 1)]
  <1> DEFINE R == [ok : BOOLEAN, payload : Seq(Bytes)]
             V == [Seq(Bytes) -> R]
             rest(s) == From(s, VarintLen(s) + 1)
             mu == [k \in Nat |-> k]
             next == [k \in Nat |-> IF k = 0 THEN 0 ELSE k - 1]
             stop == {0}
             base == [k \in Nat |-> [s \in Seq(Bytes) |-> Payload(s)]]
             more == [k \in Nat |-> [v \in V |->
                       [s \in Seq(Bytes) |-> IF VarintLen(s) = 0 THEN Malformed ELSE v[rest(s)]]]]
             Eq(f) == f = [k \in Nat |-> [s \in Seq(Bytes) |->
                             IF k = 0 THEN Payload(s)
                             ELSE IF VarintLen(s) = 0 THEN Malformed
                             ELSE f[k - 1][From(s, VarintLen(s) + 1)]]]
  <1>0. \A s \in Seq(Bytes) : rest(s) \in Seq(Bytes)
    <2> TAKE s \in Seq(Bytes)
    <2>1. VarintLen(s) + 1 \in Int /\ VarintLen(s) + 1 >= 1 /\ Len(s) \in Int
      BY VarintLenFinds, LenProperties
    <2>2. \A i \in (VarintLen(s) + 1)..Len(s) : s[i] \in Bytes
      BY <2>1, ElementOfSeq
    <2> QED
      BY <2>1, <2>2, SubSeqProperties DEF From
  <1> HIDE DEF rest
  <1>1. \A s \in Seq(Bytes) : Payload(s) \in R /\ Malformed \in R
    BY DEF Payload, Malformed
  <1> HIDE DEF R
  <1>2. mu \in [Nat -> Nat] /\ next \in [Nat -> Nat] /\ base \in [Nat -> V] /\ more \in [Nat -> [V -> V]]
    <2>1. \A v \in V : [s \in Seq(Bytes) |-> IF VarintLen(s) = 0 THEN Malformed ELSE v[rest(s)]] \in V
      BY <1>0, <1>1
    <2> QED
      BY <1>1, <2>1
  <1>3. \A k \in Nat : k \notin stop => mu[next[k]] < mu[k]
    OBVIOUS
  <1>4. PICK f \in [Nat -> V] : Defines(f, Nat, next, stop, base, more)
    <2> HIDE DEF mu, next, stop, base, more, V
    <2>1. Recursive(Nat, V, mu, next, stop, base, more)
      BY <1>2, <1>3 DEF Recursive
    <2> QED
      BY <2>1, Recursion
  <1>5. \A k \in Nat : f[k] = [s \in Seq(Bytes) |->
                               IF k = 0 THEN Payload(s)
                               ELSE IF VarintLen(s) = 0 THEN Malformed
                               ELSE f[k - 1][rest(s)]]
    <2> TAKE k \in Nat
    <2>1. f[k] = IF k \in stop THEN base[k] ELSE more[k][f[next[k]]]
      BY <1>4 DEF Defines
    <2>2. CASE k = 0
      BY <2>1, <2>2
    <2>3. CASE k # 0
      <3>1. next[k] = k - 1 /\ k - 1 \in Nat /\ f[k - 1] \in V
        BY <2>3
      <3>2. f[k] = more[k][f[k - 1]]
        BY <2>1, <2>3, <3>1
      <3> HIDE DEF V
      <3>3. f[k] = [s \in Seq(Bytes) |-> IF VarintLen(s) = 0 THEN Malformed ELSE f[k - 1][rest(s)]]
        BY <3>1, <3>2
      <3> QED
        BY <2>3, <3>3
    <2> QED
      BY <2>2, <2>3
  <1>6. Eq(f)
    BY <1>5 DEF rest
  <1>7. SkipIndices = CHOOSE g : Eq(g)
    BY DEF SkipIndices
  <1>8. Eq(SkipIndices)
    <2> HIDE DEF Eq
    <2> QED
      BY <1>6, <1>7
  <1> HIDE DEF mu, next, stop, base, more, V
  <1>9. \A k \in Nat : SkipIndices[k] = [s \in Seq(Bytes) |->
                                         IF k = 0 THEN Payload(s)
                                         ELSE IF VarintLen(s) = 0 THEN Malformed
                                         ELSE SkipIndices[k - 1][From(s, VarintLen(s) + 1)]]
    BY <1>8
  <1> HIDE DEF Eq
  <1> QED
    <2> TAKE k \in Nat, s \in Seq(Bytes)
    <2>1. SkipIndices[k] = [t \in Seq(Bytes) |->
                              IF k = 0 THEN Payload(t)
                              ELSE IF VarintLen(t) = 0 THEN Malformed
                              ELSE SkipIndices[k - 1][From(t, VarintLen(t) + 1)]]
      BY <1>9
    <2> QED
      BY <2>1

\* A varint is bytes, of which the last alone is below 128, and its value is the number.
LEMMA UvarintEnds ==
  \A u \in Nat :
    /\ Uvarint[u] \in Seq(Bytes) /\ Len(Uvarint[u]) >= 1
    /\ EndsAt(Uvarint[u], Len(Uvarint[u]))
    /\ Unsigned[Uvarint[u]] = u
  <1> DEFINE Good(u) == /\ Uvarint[u] \in Seq(Bytes) /\ Len(Uvarint[u]) >= 1
                        /\ EndsAt(Uvarint[u], Len(Uvarint[u]))
                        /\ Unsigned[Uvarint[u]] = u
             P == {n \in Nat : \A u \in 0..n : Good(u)}
  <1>0. Unsigned[<<>>] = 0
    <2>1. <<>> \in Seq(Bytes)
      OBVIOUS
    <2> QED
      BY <2>1, UnsignedStep
  <1>1. ASSUME NEW u \in 0..127 PROVE Good(u)
    <2>1. Uvarint[u] = <<u>> /\ u \in Bytes
      <3>1. u \in Nat /\ u < 128 /\ u \in Bytes
        BY DEF Bytes
      <3>2. Uvarint[u] = IF u < 128 THEN <<u>> ELSE <<128 + (u % 128)>> \o Uvarint[u \div 128]
        BY <3>1, UvarintStep
      <3> QED
        BY <3>1, <3>2
    <2>2. <<u>> \in Seq(Bytes) /\ Len(<<u>>) = 1 /\ <<u>> # <<>> /\ <<u>>[1] = u
          /\ Head(<<u>>) = u /\ Tail(<<u>>) = <<>>
      BY <2>1
    <2>3. Unsigned[<<u>>] = (u % 128) + (128 * Unsigned[<<>>])
      BY <2>2, UnsignedStep
    <2>4. Unsigned[<<u>>] = u
      <3>1. u % 128 = u /\ u \in Int
        OBVIOUS
      <3> QED
        BY <1>0, <2>3, <3>1
    <2>5. EndsAt(<<u>>, 1)
      BY <2>2 DEF EndsAt
    <2> QED
      BY <2>1, <2>2, <2>4, <2>5
  <1>2. ASSUME NEW u \in Nat, u >= 128, Good(u \div 128) PROVE Good(u)
    <2> DEFINE t == Uvarint[u \div 128]
               b == 128 + (u % 128)
               s == <<b>> \o t
    <2>1. Uvarint[u] = s
      <3>1. Uvarint[u] = IF u < 128 THEN <<u>> ELSE <<128 + (u % 128)>> \o Uvarint[u \div 128]
        BY UvarintStep
      <3>2. ~(u < 128)
        BY <1>2
      <3> QED
        BY <3>1, <3>2
    <2>2. b \in Bytes /\ b \in Int /\ b >= 128 /\ b % 128 = u % 128 /\ <<b>> \in Seq(Bytes) /\ Len(<<b>>) = 1
          /\ <<b>>[1] = b
      BY DEF Bytes
    <2>3. t \in Seq(Bytes) /\ Len(t) \in Nat /\ Len(t) >= 1 /\ EndsAt(t, Len(t)) /\ Unsigned[t] = u \div 128
      BY <1>2, LenProperties
    <2> HIDE DEF b, t
    <2>4. /\ s \in Seq(Bytes) /\ Len(s) = 1 + Len(t)
          /\ \A i \in 1..(1 + Len(t)) : s[i] = IF i <= 1 THEN <<b>>[i] ELSE t[i - 1]
      BY <2>2, <2>3, ConcatProperties
    <2>5. s[1] = b /\ \A i \in 2..Len(s) : s[i] = t[i - 1]
      BY <2>2, <2>3, <2>4
    <2> HIDE DEF s
    <2>6. EndsAt(s, Len(s))
      <3>1. Len(s) \in 1..Len(s) /\ Len(s) \in 2..Len(s) /\ Len(s) - 1 = Len(t)
        BY <2>3, <2>4
      <3>2. s[Len(s)] < 128
        BY <2>3, <2>5, <3>1 DEF EndsAt
      <3>3. ASSUME NEW i \in 1..(Len(s) - 1) PROVE s[i] >= 128
        <4>1. CASE i = 1
          BY <2>2, <2>5, <4>1
        <4>2. CASE i # 1
          <5>1. i \in 2..Len(s) /\ i - 1 \in 1..(Len(t) - 1)
            BY <2>3, <3>1, <4>2
          <5> QED
            BY <2>3, <2>5, <5>1 DEF EndsAt
        <4> QED
          BY <4>1, <4>2
      <3> QED
        BY <3>1, <3>2, <3>3 DEF EndsAt
    <2>7. s # <<>> /\ Head(s) = b /\ Tail(s) = t
      <3>1. s # <<>>
        BY <2>3, <2>4, EmptySeq
      <3>2. Head(s) = b
        BY <2>5, <3>1
      <3>3. Tail(s) \in Seq(Bytes) /\ Len(Tail(s)) = Len(s) - 1
            /\ \A i \in 1..Len(Tail(s)) : Tail(s)[i] = s[i + 1]
        BY <2>4, <3>1, HeadTailProperties
      <3>4. Len(Tail(s)) = Len(t)
        BY <2>3, <2>4, <3>3
      <3>5. \A i \in 1..Len(t) : Tail(s)[i] = t[i]
        <4> TAKE i \in 1..Len(t)
        <4>1. i + 1 \in 2..Len(s) /\ (i + 1) - 1 = i
          BY <2>3, <2>4
        <4> QED
          BY <2>5, <3>3, <3>4, <4>1
      <3> QED
        BY <2>3, <3>1, <3>2, <3>3, <3>4, <3>5, SeqEqual
    <2>8. Unsigned[s] = (b % 128) + (128 * Unsigned[t])
      BY <2>4, <2>7, UnsignedStep
    <2>9. Unsigned[s] = u
      BY <2>2, <2>3, <2>8
    <2>10. Len(s) >= 1
      BY <2>3, <2>4
    <2> QED
      BY <2>1, <2>4, <2>6, <2>9, <2>10
  <1> HIDE DEF Good
  <1>3. 0 \in P
    BY <1>1
  <1>4. ASSUME NEW n \in Nat, n \in P PROVE n + 1 \in P
    <2>1. Good(n + 1)
      <3>1. CASE n + 1 < 128
        BY <1>1, <3>1
      <3>2. CASE n + 1 >= 128
        <4>1. (n + 1) \div 128 \in 0..n
          BY <3>2
        <4>2. Good((n + 1) \div 128)
          BY <1>4, <4>1
        <4> QED
          BY <1>2, <3>2, <4>2
      <3> QED
        BY <3>1, <3>2
    <2>2. \A u \in 0..(n + 1) : u \in 0..n \/ u = n + 1
      OBVIOUS
    <2> QED
      BY <1>4, <2>1, <2>2
  <1> HIDE DEF P
  <1>5. \A n \in Nat : n \in P
    BY <1>3, <1>4, UpTo
  <1>6. \A u \in Nat : Good(u)
    <2> TAKE u \in Nat
    <2>1. u \in 0..u /\ u \in P
      BY <1>5
    <2> QED
      BY <2>1 DEF P
  <1> QED
    BY <1>6 DEF Good

\* Dropping the first of two sequences leaves the second.
LEMMA FromConcat ==
  ASSUME NEW S, NEW v \in Seq(S), NEW p \in Seq(S)
  PROVE  From(v \o p, Len(v) + 1) = p
  <1> DEFINE s == v \o p
  <1>0. /\ Len(v) \in Nat /\ Len(p) \in Nat
        /\ s \in Seq(S) /\ Len(s) = Len(v) + Len(p)
        /\ \A i \in 1..(Len(v) + Len(p)) : s[i] = IF i <= Len(v) THEN v[i] ELSE p[i - Len(v)]
    BY ConcatProperties, LenProperties
  <1> HIDE DEF s
  <1>1. \A i \in (Len(v) + 1)..Len(s) : s[i] \in S
    <2> TAKE i \in (Len(v) + 1)..Len(s)
    <2>1. i \in 1..Len(s)
      BY <1>0
    <2> QED
      BY <1>0, <2>1, ElementOfSeq
  <1> DEFINE f == SubSeq(s, Len(v) + 1, Len(s))
  <1>2. /\ f \in Seq(S)
        /\ Len(f) = IF Len(v) + 1 <= Len(s) THEN Len(s) - (Len(v) + 1) + 1 ELSE 0
        /\ \A i \in 1..(Len(s) - (Len(v) + 1) + 1) : f[i] = s[Len(v) + 1 + i - 1]
    <2>1. Len(v) + 1 \in Int /\ Len(s) \in Int
      BY <1>0
    <2> QED
      BY <1>1, <2>1, SubSeqProperties
  <1> HIDE DEF f
  <1>3. Len(f) = Len(p)
    BY <1>0, <1>2
  <1>4. \A i \in 1..Len(p) : f[i] = p[i]
    <2> TAKE i \in 1..Len(p)
    <2>1. /\ i \in 1..(Len(s) - (Len(v) + 1) + 1) /\ Len(v) + 1 + i - 1 = Len(v) + i
          /\ Len(v) + i \in 1..(Len(v) + Len(p)) /\ ~(Len(v) + i <= Len(v)) /\ Len(v) + i - Len(v) = i
      BY <1>0
    <2>2. f[i] = s[Len(v) + i]
      BY <1>2, <2>1
    <2> QED
      BY <1>0, <2>1, <2>2
  <1>5. f = p
    BY <1>2, <1>3, <1>4, SeqEqual
  <1> QED
    BY <1>5 DEF f, s, From

\* Reading a varint from the front of a byte string gives the number written, and the
\* length of what was written.
LEMMA VarintRead ==
  ASSUME NEW n \in Nat, NEW p \in Seq(Bytes)
  PROVE  /\ Varint(n) \in Seq(Bytes) /\ Len(Varint(n)) \in Nat /\ Len(Varint(n)) >= 1
         /\ VarintLen(Varint(n) \o p) = Len(Varint(n))
         /\ VarintValue(Varint(n) \o p) = n
         /\ From(Varint(n) \o p, Len(Varint(n)) + 1) = p
  <1> DEFINE v == Uvarint[2 * n]
             s == v \o p
  <1>1. /\ v \in Seq(Bytes) /\ Len(v) \in Nat /\ Len(v) >= 1 /\ EndsAt(v, Len(v)) /\ Unsigned[v] = 2 * n
        /\ Len(p) \in Nat
    <2>1. 2 * n \in Nat
      OBVIOUS
    <2> QED
      BY <2>1, UvarintEnds, LenProperties
  <1>2. Varint(n) = v
    BY DEF Varint
  <1> HIDE DEF v
  <1>3. /\ s \in Seq(Bytes) /\ Len(s) = Len(v) + Len(p)
        /\ \A i \in 1..(Len(v) + Len(p)) : s[i] = IF i <= Len(v) THEN v[i] ELSE p[i - Len(v)]
    BY <1>1, ConcatProperties
  <1> HIDE DEF s
  <1>4. \A i \in 1..Len(v) : s[i] = v[i]
    BY <1>1, <1>3
  <1>5. EndsAt(s, Len(v))
    <2>1. Len(v) \in 1..Len(s) /\ Len(v) \in 1..Len(v)
      BY <1>1, <1>3
    <2>2. \A i \in 1..(Len(v) - 1) : i \in 1..Len(v)
      BY <1>1
    <2> QED
      BY <1>1, <1>4, <2>1, <2>2 DEF EndsAt
  <1>6. VarintLen(s) = Len(v)
    BY <1>3, <1>5, VarintLenFinds
  <1>7. SubSeq(s, 1, Len(v)) = v
    <2>1. \A i \in 1..Len(v) : s[i] \in Bytes
      BY <1>1, <1>4, ElementOfSeq
    <2>2. /\ SubSeq(s, 1, Len(v)) \in Seq(Bytes)
          /\ Len(SubSeq(s, 1, Len(v))) = IF 1 <= Len(v) THEN Len(v) - 1 + 1 ELSE 0
          /\ \A i \in 1..(Len(v) - 1 + 1) : SubSeq(s, 1, Len(v))[i] = s[1 + i - 1]
      BY <1>1, <2>1, SubSeqProperties
    <2>3. Len(SubSeq(s, 1, Len(v))) = Len(v)
      BY <1>1, <2>2
    <2>4. \A i \in 1..Len(v) : SubSeq(s, 1, Len(v))[i] = v[i]
      <3> TAKE i \in 1..Len(v)
      <3>1. i \in 1..(Len(v) - 1 + 1) /\ 1 + i - 1 = i
        BY <1>1
      <3> QED
        BY <1>4, <2>2, <3>1
    <2> QED
      BY <1>1, <2>2, <2>3, <2>4, SeqEqual
  <1>8. VarintValue(s) = n
    <2>1. (2 * n) % 2 = 0 /\ (2 * n) \div 2 = n
      OBVIOUS
    <2> QED
      BY <1>1, <1>6, <1>7, <2>1 DEF VarintValue
  <1>9. From(s, Len(v) + 1) = p
    BY <1>1, FromConcat DEF s
  <1> QED
    BY <1>1, <1>2, <1>6, <1>8, <1>9 DEF s

\* Whatever Publisher.Publish puts before a payload, StripFrame takes away, and no more.
THEOREM FrameStripped ==
  ASSUME NEW id \in Nat, NEW idx \in Nat, NEW payload \in Seq(Bytes)
  PROVE  StripFrame(Encode(id, idx, payload)) = Payload(payload)
  <1> DEFINE four == [i \in 1..4 |-> (id \div (256 ^ (4 - i))) % 256]
             S == {four[i] : i \in 1..4} \cup Bytes
             head == <<0>> \o four
             mi == MessageIndex(idx)
             rest == mi \o payload
             frame == Encode(id, idx, payload)
  <1>1. mi \in Seq(Bytes) /\ Len(mi) \in Nat /\ Len(mi) >= 1
    <2>1. CASE idx = 0
      <3>1. mi = <<0>> /\ <<0>> \in Seq(Bytes) /\ Len(<<0>>) = 1
        BY <2>1 DEF MessageIndex, Bytes
      <3> QED
        BY <3>1
    <2>2. CASE idx # 0
      <3>1. mi = Varint(1) \o Varint(idx)
        BY <2>2 DEF MessageIndex
      <3>2. /\ Varint(1) \in Seq(Bytes) /\ Len(Varint(1)) \in Nat /\ Len(Varint(1)) >= 1
            /\ Varint(idx) \in Seq(Bytes) /\ Len(Varint(idx)) \in Nat
        BY VarintRead
      <3> HIDE DEF mi
      <3> QED
        BY <3>1, <3>2, ConcatProperties
    <2> QED
      BY <2>1, <2>2
  <1>2. head \in Seq(S) /\ Len(head) = 5 /\ head[1] = 0
    <2>1. four \in Seq(S) /\ Len(four) = 4
      <3> HIDE DEF S
      <3>1. \A i \in 1..4 : four[i] \in S
        BY DEF S
      <3>2. four \in [1..4 -> S]
        BY <3>1
      <3> QED
        BY <3>2
    <2>2. <<0>> \in Seq(S) /\ Len(<<0>>) = 1 /\ <<0>>[1] = 0
      <3>1. 0 \in S
        BY DEF Bytes
      <3> HIDE DEF S
      <3> QED
        BY <3>1
    <2> HIDE DEF S, four
    <2>3. /\ head \in Seq(S) /\ Len(head) = Len(<<0>>) + Len(four)
          /\ \A i \in 1..(Len(<<0>>) + Len(four)) : head[i] = IF i <= Len(<<0>>) THEN <<0>>[i] ELSE four[i - Len(<<0>>)]
      BY <2>1, <2>2, ConcatProperties
    <2> HIDE DEF head
    <2> QED
      BY <2>1, <2>2, <2>3
  <1>3. /\ rest \in Seq(Bytes) /\ Len(rest) = Len(mi) + Len(payload) /\ Len(payload) \in Nat
        /\ \A i \in 1..(Len(mi) + Len(payload)) : rest[i] = IF i <= Len(mi) THEN mi[i] ELSE payload[i - Len(mi)]
    <2> HIDE DEF mi
    <2> QED
      BY <1>1, ConcatProperties, LenProperties
  <1>4. frame = (head \o mi) \o payload
    BY DEF Encode
  <1> HIDE DEF head, mi, rest, four, frame
  <1>5. mi \in Seq(S) /\ payload \in Seq(S) /\ rest \in Seq(S)
    <2>1. Bytes \subseteq S
      OBVIOUS
    <2> HIDE DEF S
    <2> QED
      BY <1>1, <1>3, <2>1, SeqMonotonic
  <1> HIDE DEF S
  <1>6. frame = head \o rest
    BY <1>2, <1>4, <1>5, ConcatAssociative DEF rest
  <1>7. From(frame, 6) = rest
    <2>1. Len(head) + 1 = 6
      BY <1>2
    <2> QED
      BY <1>2, <1>5, <1>6, <2>1, FromConcat
  <1>8. ~(Len(frame) < 6) /\ frame[1] = 0
    <2>1. /\ Len(frame) = Len(head) + Len(rest)
          /\ \A i \in 1..(Len(head) + Len(rest)) : frame[i] = IF i <= Len(head) THEN head[i] ELSE rest[i - Len(head)]
      BY <1>2, <1>5, <1>6, ConcatProperties
    <2>2. 1 \in 1..(Len(head) + Len(rest)) /\ 1 <= Len(head)
      BY <1>1, <1>2, <1>3
    <2> QED
      BY <1>1, <1>2, <1>3, <2>1, <2>2
  <1>9. StripFrame(frame) =
          IF rest[1] = 0 THEN Payload(Tail(rest))
          ELSE IF VarintLen(rest) = 0 THEN Malformed
          ELSE SkipIndices[IF VarintValue(rest) > 0 THEN VarintValue(rest) ELSE 0][From(rest, VarintLen(rest) + 1)]
    BY <1>7, <1>8 DEF StripFrame
  <1>10. rest[1] = mi[1]
    BY <1>1, <1>3
  <1>11. CASE idx = 0
    <2>1. mi = <<0>> /\ Len(<<0>>) + 1 = 2 /\ <<0>>[1] = 0 /\ <<0>> \in Seq(Bytes)
      BY <1>11 DEF mi, MessageIndex, Bytes
    <2>2. From(rest, 2) = payload
      BY <2>1, FromConcat DEF rest
    <2>3. rest # <<>>
      <3>1. Len(rest) # 0
        BY <1>1, <1>3
      <3> QED
        BY <3>1
    <2>4. Tail(rest) = payload
      BY <1>3, <2>2, <2>3, TailIsSubSeq DEF From
    <2>5. rest[1] = 0
      BY <1>10, <2>1
    <2> QED
      BY <1>9, <2>4, <2>5 DEF frame
  <1>12. CASE idx # 0
    <2> DEFINE one == Varint(1)
               index == Varint(idx)
               body == index \o payload
    <2>1. /\ one \in Seq(Bytes) /\ Len(one) \in Nat /\ Len(one) >= 1
          /\ index \in Seq(Bytes) /\ Len(index) \in Nat /\ Len(index) >= 1
      BY VarintRead
    <2>2. mi = one \o index
      BY <1>12 DEF mi, MessageIndex
    <2>3. body \in Seq(Bytes)
      <3> HIDE DEF index
      <3> QED
        BY <2>1, ConcatProperties
    <2>4. rest = one \o body
      <3>1. (one \o index) \o payload = one \o (index \o payload)
        <4>1. one \in Seq(Bytes) /\ index \in Seq(Bytes) /\ payload \in Seq(Bytes)
          BY <2>1
        <4> HIDE DEF one, index
        <4> QED
          BY ONLY <4>1, ConcatAssociative
      <3>2. rest = mi \o payload
        BY DEF rest
      <3> QED
        BY <2>2, <3>1, <3>2
    <2>5. one[1] = 2
      <3>1. one = Uvarint[2]
        BY DEF Varint
      <3>2. Uvarint[2] = IF 2 < 128 THEN <<2>> ELSE <<128 + (2 % 128)>> \o Uvarint[2 \div 128]
        BY UvarintStep
      <3> QED
        BY <3>1, <3>2
    <2>6. rest[1] # 0
      <3> HIDE DEF one, index, body
      <3>1. mi[1] = one[1]
        BY <2>1, <2>2, ConcatProperties
      <3> QED
        BY <1>10, <2>5, <3>1
    <2>7. VarintLen(rest) = Len(one) /\ VarintValue(rest) = 1 /\ From(rest, Len(one) + 1) = body
      <3>1. /\ VarintLen(one \o body) = Len(one) /\ VarintValue(one \o body) = 1
            /\ From(one \o body, Len(one) + 1) = body
        <4> HIDE DEF body
        <4> QED
          BY <2>3, VarintRead
      <3> QED
        BY <2>4, <3>1
    <2>8. StripFrame(frame) = SkipIndices[1][body]
      <3> HIDE DEF one, index, body
      <3>1. VarintLen(rest) # 0
        BY <2>1, <2>7
      <3>2. (IF VarintValue(rest) > 0 THEN VarintValue(rest) ELSE 0) = 1
        BY <2>7
      <3>3. From(rest, VarintLen(rest) + 1) = body
        BY <2>7
      <3> QED
        BY <1>9, <2>6, <3>1, <3>2, <3>3
    <2>9. VarintLen(body) = Len(index) /\ From(body, Len(index) + 1) = payload
      BY VarintRead
    <2>10. SkipIndices[1][body] = SkipIndices[0][payload]
      <3> HIDE DEF index, body
      <3>1. SkipIndices[1][body] = IF 1 = 0 THEN Payload(body)
                                   ELSE IF VarintLen(body) = 0 THEN Malformed
                                   ELSE SkipIndices[1 - 1][From(body, VarintLen(body) + 1)]
        BY <2>3, SkipIndicesStep
      <3>2. VarintLen(body) # 0 /\ From(body, VarintLen(body) + 1) = payload /\ 1 - 1 = 0
        BY <2>1, <2>9
      <3> QED
        BY <3>1, <3>2
    <2>11. SkipIndices[0][payload] = Payload(payload)
      BY SkipIndicesStep
    <2> QED
      BY <2>8, <2>10, <2>11 DEF frame
  <1> QED
    BY <1>11, <1>12

-----------------------------------------------------------------------------
(* Records and offsets                                                     *)

\* A record is produced when its partition has its offset.
LEMMA InProduced ==
  ASSUME NEW r
  PROVE  r \in Produced <=>
           /\ r = <<r[1], r[2]>> /\ r[1] \in Partitions /\ r[2] \in DOMAIN log[r[1]]
  BY DEF Produced

LEMMA InBetween ==
  ASSUME NEW from, NEW to, NEW r
  PROVE  r \in Between(from, to) <=>
           /\ r = <<r[1], r[2]>> /\ r[1] \in Partitions /\ r[2] \in from[r[1]]..(to[r[1]] - 1)
  BY DEF Between

\* One more element at the end of a sequence.
LEMMA AppendOne ==
  ASSUME NEW S, NEW q \in Seq(S), NEW x \in S
  PROVE  /\ Append(q, x) \in Seq(S) /\ Len(Append(q, x)) = Len(q) + 1
         /\ DOMAIN Append(q, x) = 1..(Len(q) + 1) /\ DOMAIN q = 1..Len(q) /\ Len(q) \in Nat
         /\ Append(q, x)[Len(q) + 1] = x /\ \A i \in DOMAIN q : Append(q, x)[i] = q[i]
  OBVIOUS

-----------------------------------------------------------------------------
(* The inductive invariant                                                 *)

Live == {"poll", "handle", "backoff", "stopped"}

\* What the handler may get: whatever StripFrame makes of a record.
Contents == {StripFrame(rec.bytes).payload : rec \in Framed \cup Strange}
HandledRecords == [life : Nat, at : Partitions \X Nat, payload : Contents]

Shape ==
  /\ log \in [Partitions -> Seq(Framed \cup Strange)]
  /\ committed \in [Partitions -> Nat]
  /\ start \in [Partitions -> Nat] /\ position \in [Partitions -> Nat] /\ settled \in [Partitions -> Nat]
  /\ handled \in Seq(HandledRecords)
  /\ restarts \in Nat

\* The offsets stay within the log; the batch is what a fetch has handed out.
Bounds ==
  /\ \A p \in Partitions :
       /\ committed[p] <= Len(log[p]) + 1
       /\ 1 <= settled[p] /\ settled[p] <= position[p] /\ position[p] <= Len(log[p]) + 1
  /\ pc # "handle" => batch = {}
  /\ \A r \in batch : r \in Produced /\ r[2] < position[r[1]]

\* A Publisher's message that needs no more handling.
Rests(r) == RecordAt(r).sent => WasHandled(r) \/ r \in passed \cup cut

\* Whatever was handed out rests or is still in the batch, also after the end of the
\* process where the group has no offset; the group's offset, and those it may be set
\* to, pass only over what rests.
Settled ==
  \A r \in Produced :
    /\ r[2] < committed[r[1]] => Rests(r)
    /\ pc \in Live /\ r[2] < settled[r[1]] => Rests(r)
    /\ (pc \in Live \/ committed[r[1]] = 0) /\ r[2] < position[r[1]] => Rests(r) \/ r \in batch

\* What this process has handled came before all it has still to handle.
Ahead ==
  \A i \in DOMAIN handled :
    /\ handled[i].life <= restarts
    /\ handled[i].life = restarts =>
         /\ pc \in Live
         /\ handled[i].at[2] < position[handled[i].at[1]]
         /\ \A r \in batch : r[1] = handled[i].at[1] => handled[i].at[2] < r[2]

OrderInv  == Shape /\ Bounds /\ Ahead /\ HandledInOrder

LEMMA InitOrder == Init => OrderInv /\ Settled
  <1> SUFFICES ASSUME Init PROVE OrderInv /\ Settled
    OBVIOUS
  <1>1. /\ log = [p \in Partitions |-> <<>>] /\ committed = [p \in Partitions |-> 0]
        /\ start = [p \in Partitions |-> 1] /\ position = start /\ settled = start
        /\ batch = {} /\ handled = <<>> /\ pc = "down" /\ restarts = 0
    BY DEF Init
  <1>2. \A p \in Partitions : log[p] = <<>> /\ Len(log[p]) = 0 /\ DOMAIN log[p] = {}
    BY <1>1
  <1>3. Shape
    BY <1>1 DEF Shape
  <1>4. Bounds
    BY <1>1, <1>2 DEF Bounds
  <1>5. Ahead /\ HandledInOrder
    BY <1>1 DEF Ahead, HandledInOrder
  <1>6. Settled
    BY <1>2, InProduced DEF Settled
  <1> QED
    BY <1>3, <1>4, <1>5, <1>6 DEF OrderInv

-----------------------------------------------------------------------------
(* The steps                                                               *)

\* Steps that touch neither the log, the offsets, the batch nor the handled: a turn
\* of the loop, a cancelled context, a broker that cannot be reached.
Turns == Backoff \/ Return \/ OpenFails \/ Cancel \/ UNCHANGED vars

LEMMA TurnStep ==
  ASSUME OrderInv, Turns
  PROVE  /\ UNCHANGED <<log, committed, client, batch, handled, passed, cut, restarts>>
         /\ pc' = pc \/ (pc' \in Live /\ pc \in Live /\ pc' # "handle" /\ pc # "handle")
              \/ (pc' = "off" /\ pc = "down")
  <1>1. CASE Backoff
    BY <1>1 DEF Backoff, Live
  <1>2. CASE Return
    BY <1>2 DEF Return, Live
  <1>3. CASE OpenFails
    BY <1>3 DEF OpenFails
  <1>4. CASE Cancel
    BY <1>4 DEF Cancel
  <1>5. CASE UNCHANGED vars
    BY <1>5 DEF vars
  <1> QED
    BY <1>1, <1>2, <1>3, <1>4, <1>5 DEF Turns

LEMMA TurnInv ==
  ASSUME OrderInv, Turns
  PROVE  OrderInv' /\ (Settled => Settled')
  <1>1. /\ log' = log /\ committed' = committed /\ start' = start /\ position' = position
        /\ settled' = settled /\ batch' = batch /\ handled' = handled /\ passed' = passed
        /\ cut' = cut /\ restarts' = restarts
    BY TurnStep DEF client
  <1>2. /\ pc' = "handle" => pc = "handle"
        /\ pc # "handle" => pc' # "handle"
        /\ pc' \in Live <=> pc \in Live
    BY TurnStep DEF Live
  <1>3. Produced' = Produced
    BY <1>1 DEF Produced
  <1>4. Shape'
    BY <1>1 DEF OrderInv, Shape
  <1>5. pc' # "handle" => batch = {}
    BY TurnStep DEF OrderInv, Bounds
  <1>6. Bounds'
    BY <1>1, <1>3, <1>5 DEF OrderInv, Bounds
  <1>7. Ahead' /\ HandledInOrder'
    BY <1>1, <1>2 DEF OrderInv, Ahead, HandledInOrder
  <1>8. Settled => Settled'
    BY <1>1, <1>2, <1>3 DEF Settled, Rests, WasHandled, RecordAt
  <1> QED
    BY <1>4, <1>6, <1>7, <1>8 DEF OrderInv

\* A topic that grows leaves its records alone.
LEMMA ProduceKeeps ==
  ASSUME OrderInv, NEW p \in Partitions, Produce(p)
  PROVE  /\ \A q \in Partitions :
              /\ Len(log[q]) \in Nat /\ Len(log'[q]) \in Nat
              /\ Len(log[q]) <= Len(log'[q])
              /\ DOMAIN log[q] = 1..Len(log[q]) /\ DOMAIN log'[q] = 1..Len(log'[q])
              /\ \A i \in DOMAIN log[q] : log'[q][i] = log[q][i]
         /\ \A r \in Produced : r \in Produced' /\ RecordAt(r)' = RecordAt(r)
         /\ \A r \in Produced' : r \in Produced \/ r[2] > Len(log[r[1]])
  <1> USE DEF OrderInv
  <1>2. PICK rec \in Framed \cup Strange : log' = [log EXCEPT ![p] = Append(@, rec)]
    BY DEF Produce
  <1>3. log[p] \in Seq(Framed \cup Strange) /\ log'[p] = Append(log[p], rec)
        /\ \A q \in Partitions : q # p => log'[q] = log[q]
    BY <1>2 DEF Shape
  <1>4. \A q \in Partitions :
          /\ Len(log[q]) \in Nat /\ Len(log'[q]) \in Nat
          /\ Len(log[q]) <= Len(log'[q])
          /\ DOMAIN log[q] = 1..Len(log[q]) /\ DOMAIN log'[q] = 1..Len(log'[q])
          /\ \A i \in DOMAIN log[q] : log'[q][i] = log[q][i]
    <2> TAKE q \in Partitions
    <2>1. CASE q = p
      <3> DEFINE longer == Append(log[p], rec)
      <3>1. log[p] \in Seq(Framed \cup Strange) /\ rec \in Framed \cup Strange
        BY <1>3
      <3>2. /\ Len(longer) = Len(log[p]) + 1 /\ Len(log[p]) \in Nat
            /\ DOMAIN longer = 1..(Len(log[p]) + 1) /\ DOMAIN log[p] = 1..Len(log[p])
            /\ \A i \in DOMAIN log[p] : longer[i] = log[p][i]
        BY ONLY <3>1, AppendOne
      <3>3. log'[q] = longer /\ log[q] = log[p]
        BY <1>3, <2>1
      <3> HIDE DEF longer
      <3>4. Len(log[p]) <= Len(longer)
        BY <3>2
      <3> QED
        BY <3>2, <3>3, <3>4
    <2>2. CASE q # p
      <3>1. log'[q] = log[q] /\ log[q] \in Seq(Framed \cup Strange)
        BY <1>3, <2>2 DEF Shape
      <3> QED
        BY <3>1
    <2> QED
      BY <2>1, <2>2
  <1>5. \A r \in Produced : r \in Produced' /\ RecordAt(r)' = RecordAt(r)
    BY <1>4, InProduced DEF Produced, RecordAt
  <1>6. \A r \in Produced' : r \in Produced \/ r[2] > Len(log[r[1]])
    <2> TAKE r \in Produced'
    <2>1. r = <<r[1], r[2]>> /\ r[1] \in Partitions /\ r[2] \in DOMAIN log'[r[1]]
      BY DEF Produced
    <2> QED
      BY <1>4, <2>1, InProduced
  <1> QED
    BY <1>4, <1>5, <1>6

\* The new record is beyond every offset.
LEMMA ProduceInv ==
  ASSUME OrderInv, NEW p \in Partitions, Produce(p)
  PROVE  OrderInv' /\ (Settled => Settled')
  <1> USE DEF OrderInv
  <1>1. /\ committed' = committed /\ start' = start /\ position' = position
        /\ settled' = settled /\ batch' = batch /\ handled' = handled /\ passed' = passed
        /\ cut' = cut /\ restarts' = restarts /\ pc' = pc
    BY DEF Produce, client
  <1>2. PICK rec \in Framed \cup Strange : log' = [log EXCEPT ![p] = Append(@, rec)]
    BY DEF Produce
  <1>4. \A q \in Partitions :
          /\ Len(log[q]) \in Nat /\ Len(log'[q]) \in Nat
          /\ Len(log[q]) <= Len(log'[q])
          /\ DOMAIN log[q] = 1..Len(log[q]) /\ DOMAIN log'[q] = 1..Len(log'[q])
    BY ProduceKeeps
  <1>5. \A r \in Produced : r \in Produced' /\ RecordAt(r)' = RecordAt(r)
    BY ProduceKeeps
  <1>6. \A r \in Produced' : r \in Produced \/ r[2] > Len(log[r[1]])
    BY ProduceKeeps
  <1>7. Shape'
    BY <1>1, <1>2, AppendOne DEF Shape
  <1>8. Bounds'
    <2>1. \A q \in Partitions : /\ committed[q] \in Nat /\ settled[q] \in Nat /\ position[q] \in Nat
      BY DEF Shape
    <2>2. \A q \in Partitions :
            /\ committed'[q] <= Len(log'[q]) + 1
            /\ 1 <= settled'[q] /\ settled'[q] <= position'[q] /\ position'[q] <= Len(log'[q]) + 1
      BY <1>1, <1>4, <2>1 DEF Bounds
    <2>3. \A r \in batch' : r \in Produced' /\ r[2] < position'[r[1]]
      BY <1>1, <1>5 DEF Bounds
    <2> QED
      BY <1>1, <2>2, <2>3 DEF Bounds
  <1>9. Ahead' /\ HandledInOrder'
    BY <1>1 DEF Ahead, HandledInOrder
  <1>10. ASSUME Settled PROVE Settled'
    <2> SUFFICES ASSUME NEW r \in Produced'
                 PROVE  /\ r[2] < committed'[r[1]] => Rests(r)'
                        /\ pc' \in Live /\ r[2] < settled'[r[1]] => Rests(r)'
                        /\ (pc' \in Live \/ committed'[r[1]] = 0) /\ r[2] < position'[r[1]]
                             => Rests(r)' \/ r \in batch'
      BY DEF Settled
    <2>1. CASE r \in Produced
      <3>1. Rests(r)' <=> Rests(r)
        BY <1>1, <1>5, <2>1 DEF Rests, WasHandled
      <3> QED
        BY <1>1, <1>10, <2>1, <3>1 DEF Settled
    <2>2. CASE r \notin Produced
      <3>1. r[1] \in Partitions /\ r[2] \in DOMAIN log'[r[1]] /\ r[2] > Len(log[r[1]])
        BY <1>6, <2>2 DEF Produced
      <3>2. r[2] \in Nat
        BY <1>4, <3>1
      <3>3. /\ committed[r[1]] \in Nat /\ settled[r[1]] \in Nat /\ position[r[1]] \in Nat
            /\ Len(log[r[1]]) \in Nat
        BY <1>4, <3>1 DEF Shape
      <3>4. ~(r[2] < committed[r[1]]) /\ ~(r[2] < settled[r[1]]) /\ ~(r[2] < position[r[1]])
        BY <3>1, <3>2, <3>3 DEF Bounds
      <3> QED
        BY <1>1, <3>4
    <2> QED
      BY <2>1, <2>2
  <1> QED
    BY <1>7, <1>8, <1>9, <1>10

\* Setting the offsets of the group to some that rest.
LEMMA CommitStep ==
  ASSUME OrderInv, NEW next \in [Partitions -> Nat], CommitUpTo(next),
         \A p \in Partitions : next[p] <= Len(log[p]) + 1
  PROVE  /\ committed' \in [Partitions -> Nat]
         /\ \A p \in Partitions : committed'[p] <= Len(log[p]) + 1
         /\ Settled /\ (\A r \in Produced : r[2] < next[r[1]] => Rests(r))
              => \A r \in Produced : r[2] < committed'[r[1]] => Rests(r)
  <1>1. committed' = [p \in Partitions |-> IF next[p] > start[p] THEN next[p] ELSE committed[p]]
    BY DEF CommitUpTo
  <1>2. \A p \in Partitions : committed'[p] = next[p] \/ committed'[p] = committed[p]
    BY <1>1
  <1>3. committed' \in [Partitions -> Nat]
    BY <1>1 DEF OrderInv, Shape
  <1>4. \A p \in Partitions : committed'[p] <= Len(log[p]) + 1
    BY <1>2 DEF OrderInv, Bounds
  <1>5. ASSUME Settled, \A r \in Produced : r[2] < next[r[1]] => Rests(r)
        PROVE  \A r \in Produced : r[2] < committed'[r[1]] => Rests(r)
    BY <1>2, <1>5, InProduced DEF Settled
  <1> QED
    BY <1>3, <1>4, <1>5

LEMMA CommitInv ==
  ASSUME OrderInv, Commit
  PROVE  OrderInv' /\ (Settled => Settled')
  <1> USE DEF OrderInv
  <1>1. /\ log' = log /\ start' = start /\ position' = position /\ settled' = settled
        /\ batch' = batch /\ handled' = handled /\ passed' = passed /\ restarts' = restarts
        /\ cut' = cut /\ pc' = pc /\ pc \in Live /\ CommitUpTo(settled)
    BY DEF Commit, client, Live
  <1>2. settled \in [Partitions -> Nat] /\ \A p \in Partitions : settled[p] <= Len(log[p]) + 1
    <2>1. \A p \in Partitions : settled[p] \in Nat /\ position[p] \in Nat /\ Len(log[p]) \in Nat
      BY DEF Shape
    <2> QED
      BY <2>1 DEF Bounds, Shape
  <1>3. Settled => \A r \in Produced : r[2] < settled[r[1]] => Rests(r)
    BY <1>1 DEF Settled
  <1>4. /\ committed' \in [Partitions -> Nat]
        /\ \A p \in Partitions : committed'[p] <= Len(log[p]) + 1
        /\ Settled => \A r \in Produced : r[2] < committed'[r[1]] => Rests(r)
    BY <1>1, <1>2, <1>3, CommitStep
  <1>5. Produced' = Produced
    BY <1>1 DEF Produced
  <1>6. Shape' /\ Bounds'
    BY <1>1, <1>4, <1>5 DEF Shape, Bounds
  <1>7. Ahead' /\ HandledInOrder'
    BY <1>1 DEF Ahead, HandledInOrder
  <1>8. Settled => Settled'
    BY <1>1, <1>4, <1>5 DEF Settled, Rests, WasHandled, RecordAt
  <1> QED
    BY <1>6, <1>7, <1>8

\* The end of a process: its batch is gone, and nothing was handled by the next one.
Ends == Close \/ CloseNil \/ Crash

LEMMA EndInv ==
  ASSUME OrderInv, Ends
  PROVE  OrderInv' /\ (Settled => Settled')
  <1> USE DEF OrderInv
  <1>1. /\ log' = log /\ start' = start /\ position' = position /\ settled' = settled
        /\ batch' = {} /\ handled' = handled /\ passed' = passed /\ restarts' = restarts + 1
        /\ pc' = "down"
    BY DEF Ends, Close, CloseNil, Crash, Down, client
  <1>2. /\ committed' \in [Partitions -> Nat]
        /\ \A p \in Partitions : committed'[p] <= Len(log[p]) + 1
        /\ Settled => \A r \in Produced : r[2] < committed'[r[1]] => Rests(r)
    <2>1. CASE Close
      <3>1. pc = "stopped" /\ CommitUpTo(position) /\ batch = {} /\ pc \in Live
        BY <2>1 DEF Close, Bounds, Live
      <3>2. Settled => \A r \in Produced : r[2] < position[r[1]] => Rests(r)
        BY <3>1 DEF Settled
      <3>3. position \in [Partitions -> Nat] /\ \A p \in Partitions : position[p] <= Len(log[p]) + 1
        BY DEF Shape, Bounds
      <3> QED
        BY <3>1, <3>2, <3>3, CommitStep
    <2>2. CASE CloseNil \/ Crash
      BY <2>2 DEF CloseNil, Crash, Shape, Bounds, Settled
    <2> QED
      BY <2>1, <2>2 DEF Ends
  <1>3. Produced' = Produced
    BY <1>1 DEF Produced
  <1>4. Shape' /\ Bounds'
    BY <1>1, <1>2, <1>3 DEF Shape, Bounds
  <1>5. Ahead'
    <2> SUFFICES ASSUME NEW i \in DOMAIN handled
                 PROVE  handled[i].life <= restarts' /\ handled[i].life # restarts'
      BY <1>1 DEF Ahead
    <2>1. handled[i] \in HandledRecords
      BY DEF Shape
    <2>2. handled[i].life \in Nat /\ restarts \in Nat /\ handled[i].life <= restarts
      BY <2>1 DEF Shape, HandledRecords, Ahead
    <2> QED
      BY <1>1, <2>2
  <1>6. HandledInOrder'
    BY <1>1 DEF HandledInOrder
  <1>7. \A r : Rests(r) => Rests(r)'
    <2>1. cut \subseteq cut'
      BY DEF Ends, Close, CloseNil, Crash
    <2> QED
      BY <1>1, <2>1 DEF Rests, WasHandled, RecordAt
  <1>8. ASSUME Settled, NEW r \in Produced, committed'[r[1]] = 0, r[2] < position[r[1]]
        PROVE  Rests(r)'
    <2>1. CASE Close
      <3>1. batch = {} /\ pc \in Live
        BY <2>1 DEF Close, Bounds, Live
      <3> QED
        BY <1>7, <1>8, <3>1 DEF Settled
    <2>2. CASE CloseNil
      <3>1. batch = {} /\ committed' = committed
        BY <2>2 DEF CloseNil, Bounds
      <3> QED
        BY <1>7, <1>8, <3>1 DEF Settled
    <2>3. CASE Crash
      <3>1. committed' = committed /\ cut' = cut \cup {q \in batch : committed[q[1]] = 0}
        BY <2>3 DEF Crash
      <3>2. Rests(r) \/ r \in batch
        BY <1>8, <3>1 DEF Settled
      <3>3. r \in batch => r \in cut'
        BY <1>8, <3>1
      <3> QED
        BY <1>7, <3>2, <3>3 DEF Rests
    <2> QED
      BY <2>1, <2>2, <2>3 DEF Ends
  <1>9. Settled => Settled'
    <2>1. pc' \notin Live
      BY <1>1 DEF Live
    <2> QED
      BY <1>1, <1>2, <1>3, <1>7, <1>8, <2>1 DEF Settled
  <1> QED
    BY <1>4, <1>5, <1>6, <1>9

\* A process starts at the group's offset, before which everything rests, or at the
\* end of the partition, and passes over what no process was handed.
LEMMA OpenInv ==
  ASSUME OrderInv, Open
  PROVE  OrderInv' /\ (Settled => Settled')
  <1> USE DEF OrderInv
  <1> DEFINE from == [p \in Partitions |-> IF committed[p] = 0 THEN Len(log[p]) + 1 ELSE committed[p]]
             old  == {r \in Produced : committed[r[1]] = 0 /\ r[2] >= position[r[1]]}
  <1>1. /\ pc = "down" /\ log' = log /\ committed' = committed
        /\ start' = from /\ position' = from /\ settled' = from
        /\ batch' = batch /\ handled' = handled /\ passed' = passed \cup old
        /\ cut' = cut /\ restarts' = restarts /\ pc' = "poll"
    BY DEF Open
  <1>2. batch = {}
    BY <1>1 DEF Bounds
  <1>3. \A p \in Partitions : Len(log[p]) \in Nat /\ committed[p] \in Nat
    BY DEF Shape
  <1>4. from \in [Partitions -> Nat]
    BY <1>3
  <1>5. \A p \in Partitions : 1 <= from[p] /\ from[p] <= Len(log[p]) + 1
    BY <1>3 DEF Bounds
  <1>6. Produced' = Produced
    BY <1>1 DEF Produced
  <1>7. Shape'
    BY <1>1, <1>4 DEF Shape
  <1>8. Bounds'
    <2>1. \A p \in Partitions :
            /\ committed'[p] <= Len(log'[p]) + 1
            /\ 1 <= settled'[p] /\ settled'[p] <= position'[p] /\ position'[p] <= Len(log'[p]) + 1
      BY <1>1, <1>3, <1>4, <1>5 DEF Bounds
    <2> QED
      BY <1>1, <1>2, <2>1 DEF Bounds
  <1>9. Ahead'
    <2>1. \A i \in DOMAIN handled : handled[i].life <= restarts /\ handled[i].life # restarts
      BY <1>1 DEF Ahead, Live
    <2> QED
      BY <1>1, <2>1 DEF Ahead
  <1>10. HandledInOrder'
    BY <1>1 DEF HandledInOrder
  <1>11. ASSUME Settled PROVE Settled'
    <2>1. \A r \in Produced : Rests(r) => Rests(r)'
      BY <1>1 DEF Rests, WasHandled, RecordAt
    <2>2. ASSUME NEW r \in Produced, r[2] < from[r[1]] PROVE Rests(r)'
      <3>1. r[1] \in Partitions
        BY InProduced
      <3>2. CASE committed[r[1]] = 0
        <4>1. CASE r[2] < position[r[1]]
          BY <1>2, <1>11, <2>1, <3>2, <4>1 DEF Settled
        <4>2. CASE ~(r[2] < position[r[1]])
          <5>1. r[2] \in Nat /\ position[r[1]] \in Nat
            <6>1. r[2] \in DOMAIN log[r[1]] /\ DOMAIN log[r[1]] = 1..Len(log[r[1]])
              BY <3>1, InProduced DEF Shape
            <6> QED
              BY <1>3, <3>1, <6>1 DEF Shape
          <5>2. r \in old
            BY <3>2, <4>2, <5>1
          <5> QED
            BY <1>1, <5>2 DEF Rests
        <4> QED
          BY <4>1, <4>2
      <3>3. CASE committed[r[1]] # 0
        <4>1. r[2] < committed[r[1]]
          BY <2>2, <3>1, <3>3
        <4> QED
          BY <1>11, <2>1, <4>1 DEF Settled
      <3> QED
        BY <3>2, <3>3
    <2>3. \A r \in Produced : r[2] < committed[r[1]] => Rests(r)'
      BY <1>11, <2>1 DEF Settled
    <2> HIDE DEF from, old
    <2> QED
      BY <1>1, <1>6, <2>2, <2>3 DEF Settled
  <1> QED
    BY <1>7, <1>8, <1>9, <1>10, <1>11

-----------------------------------------------------------------------------
(* The fetches                                                             *)

\* What a fetch hands out is produced, and not before the position.
LEMMA FetchStep ==
  ASSUME OrderInv, NEW next, Fetch(next)
  PROVE  /\ next \in [Partitions -> Nat]
         /\ \A p \in Partitions : position[p] <= next[p] /\ next[p] <= Len(log[p]) + 1
         /\ \A r \in Between(position, next) :
              r \in Produced /\ position[r[1]] <= r[2] /\ r[2] < next[r[1]]
         /\ \A r \in Produced : r[2] < next[r[1]] => r[2] < position[r[1]] \/ r \in Between(position, next)
  <1> USE DEF OrderInv
  <1>1. next \in [Partitions -> Offsets] /\ \A p \in Partitions : next[p] \in position[p]..(Len(log[p]) + 1)
    BY DEF Fetch
  <1>2. \A p \in Partitions :
          /\ position[p] \in Nat /\ Len(log[p]) \in Nat /\ DOMAIN log[p] = 1..Len(log[p])
          /\ 1 <= position[p]
    BY DEF Shape, Bounds
  <1>3. \A p \in Partitions : next[p] \in Nat /\ position[p] <= next[p] /\ next[p] <= Len(log[p]) + 1
    BY <1>1, <1>2
  <1>4. next \in [Partitions -> Nat]
    BY <1>1, <1>3
  <1>5. ASSUME NEW r \in Between(position, next)
        PROVE  r \in Produced /\ position[r[1]] <= r[2] /\ r[2] < next[r[1]]
    <2>1. r = <<r[1], r[2]>> /\ r[1] \in Partitions /\ r[2] \in position[r[1]]..(next[r[1]] - 1)
      BY <1>5, InBetween
    <2>2. r[2] \in Nat /\ position[r[1]] <= r[2] /\ r[2] < next[r[1]]
      BY <1>2, <1>3, <2>1
    <2>3. r[2] \in DOMAIN log[r[1]]
      BY <1>2, <1>3, <2>1, <2>2
    <2> QED
      BY <2>1, <2>2, <2>3, InProduced
  <1>6. ASSUME NEW r \in Produced, r[2] < next[r[1]]
        PROVE  r[2] < position[r[1]] \/ r \in Between(position, next)
    <2>1. r = <<r[1], r[2]>> /\ r[1] \in Partitions /\ r[2] \in DOMAIN log[r[1]]
      BY InProduced
    <2>2. r[2] < position[r[1]] \/ r[2] \in position[r[1]]..(next[r[1]] - 1)
      BY <1>2, <1>3, <1>6, <2>1
    <2> QED
      BY <2>1, <2>2, InBetween
  <1> QED
    BY <1>3, <1>4, <1>5, <1>6

\* Records go into the batch, or are passed over, and the offsets move on.
LEMMA FetchInv ==
  ASSUME OrderInv, NEW next, Fetch(next), pc = "poll",
         \/ batch' = Between(position, next) /\ pc' = "handle" /\ passed' = passed
         \/ /\ UNCHANGED batch /\ pc' \in {"stopped", "backoff"}
            /\ passed' = passed \cup Between(position, next)
  PROVE  OrderInv' /\ (Settled => Settled')
  <1> USE DEF OrderInv
  <1> DEFINE got == Between(position, next)
  <1>1. /\ log' = log /\ committed' = committed /\ start' = start /\ position' = next
        /\ settled' = position /\ handled' = handled /\ cut' = cut /\ restarts' = restarts /\ pc' \in Live
    BY DEF Fetch, Live
  <1>2. batch = {} /\ batch' \subseteq got /\ (pc' # "handle" => batch' = {})
    BY DEF Bounds
  <1>3. /\ next \in [Partitions -> Nat]
        /\ \A p \in Partitions : position[p] <= next[p] /\ next[p] <= Len(log[p]) + 1
        /\ \A r \in got : r \in Produced /\ position[r[1]] <= r[2] /\ r[2] < next[r[1]]
        /\ \A r \in Produced : r[2] < next[r[1]] => r[2] < position[r[1]] \/ r \in got
    BY FetchStep
  <1> HIDE DEF got
  <1>4. Produced' = Produced
    BY <1>1 DEF Produced
  <1>5. Shape'
    BY <1>1, <1>3 DEF Shape
  <1>6. Bounds'
    <2>1. \A p \in Partitions : 1 <= position[p] /\ committed[p] <= Len(log[p]) + 1
      <3>1. \A p \in Partitions : settled[p] \in Nat /\ position[p] \in Nat
        BY DEF Shape
      <3> QED
        BY <3>1 DEF Bounds
    <2>2. \A r \in batch' : r \in Produced' /\ r[2] < position'[r[1]]
      BY <1>1, <1>2, <1>3, <1>4
    <2> QED
      BY <1>1, <1>2, <1>3, <2>1, <2>2 DEF Bounds
  <1>7. Ahead'
    <2> SUFFICES ASSUME NEW i \in DOMAIN handled
                 PROVE  /\ handled[i].life <= restarts
                        /\ handled[i].life = restarts =>
                             /\ handled[i].at[2] < next[handled[i].at[1]]
                             /\ \A r \in batch' : r[1] = handled[i].at[1] => handled[i].at[2] < r[2]
      BY <1>1 DEF Ahead
    <2>1. handled[i] \in HandledRecords
      BY DEF Shape
    <2>2. handled[i].at[1] \in Partitions /\ handled[i].at[2] \in Nat
      BY <2>1 DEF HandledRecords
    <2>3. position[handled[i].at[1]] \in Nat /\ next[handled[i].at[1]] \in Nat
      BY <1>3, <2>2 DEF Shape
    <2>4. /\ handled[i].life <= restarts
          /\ handled[i].life = restarts => handled[i].at[2] < position[handled[i].at[1]]
      BY DEF Ahead
    <2>5. \A r \in batch' : r[2] \in Nat /\ position[r[1]] <= r[2]
      <3> TAKE r \in batch'
      <3>1. r \in Produced /\ position[r[1]] <= r[2]
        BY <1>2, <1>3
      <3>2. r[1] \in Partitions /\ r[2] \in DOMAIN log[r[1]]
        BY <3>1, InProduced
      <3>3. DOMAIN log[r[1]] = 1..Len(log[r[1]]) /\ Len(log[r[1]]) \in Nat
        BY <3>2 DEF Shape
      <3> QED
        BY <3>1, <3>2, <3>3
    <2> QED
      BY <1>3, <2>2, <2>3, <2>4, <2>5
  <1>8. HandledInOrder'
    BY <1>1 DEF HandledInOrder
  <1>9. ASSUME Settled PROVE Settled'
    <2>1. \A r \in Produced : Rests(r) => Rests(r)'
      BY <1>1 DEF Rests, WasHandled, RecordAt
    <2>2. \A r \in Produced : r[2] < position[r[1]] => Rests(r)
      BY <1>2, <1>9 DEF Settled, Live
    <2>3. \A r \in got : Rests(r)' \/ r \in batch'
      BY DEF got, Rests
    <2>4. \A r \in Produced : r[2] < committed[r[1]] => Rests(r)
      BY <1>9 DEF Settled
    <2> QED
      BY <1>1, <1>3, <1>4, <2>1, <2>2, <2>3, <2>4 DEF Settled
  <1> QED
    BY <1>5, <1>6, <1>7, <1>8, <1>9

-----------------------------------------------------------------------------
(* The handler                                                             *)

\* One record of the batch comes to rest; the handler gets it if its frame is stripped.
LEMMA HandleStep ==
  ASSUME OrderInv, Handle
  PROVE  \E r \in Upcoming :
           /\ batch' = batch \ {r} /\ pc = "handle" /\ pc' \in {"poll", "handle"}
           /\ pc' # "handle" => batch' = {}
           /\ UNCHANGED <<log, committed, start, position, settled, passed, cut, restarts>>
           /\ \/ \E h \in HandledRecords :
                   /\ h.life = restarts /\ h.at = r /\ handled' = Append(handled, h)
                   /\ h.payload = StripFrame(RecordAt(r).bytes).payload
              \/ ~StripFrame(RecordAt(r).bytes).ok /\ handled' = handled
  <1> USE DEF OrderInv
  <1>1. PICK r \in Upcoming : Advance(r, batch \ {r})
    BY DEF Handle
  <1>2. /\ batch' = batch \ {r} /\ pc = "handle" /\ pc' \in {"poll", "handle"}
        /\ pc' # "handle" => batch' = {}
        /\ UNCHANGED <<log, committed, start, position, settled, passed, cut, restarts>>
    BY <1>1 DEF Advance, client
  <1>3. CASE StripFrame(RecordAt(r).bytes).ok
    <2> DEFINE h == [life |-> restarts, at |-> r, payload |-> StripFrame(RecordAt(r).bytes).payload]
    <2>1. handled' = Append(handled, h)
      BY <1>1, <1>3 DEF Advance
    <2>2. r \in Produced
      BY DEF Upcoming, Bounds
    <2>3. r = <<r[1], r[2]>> /\ r[1] \in Partitions /\ r[2] \in DOMAIN log[r[1]]
      BY <2>2, InProduced
    <2>4. log[r[1]] \in Seq(Framed \cup Strange)
      BY <2>3 DEF Shape
    <2>5. RecordAt(r) \in Framed \cup Strange /\ r[2] \in Nat
      BY <2>3, <2>4 DEF RecordAt
    <2>6. StripFrame(RecordAt(r).bytes).payload \in Contents
      BY <2>5 DEF Contents
    <2>7. r \in Partitions \X Nat
      BY <2>3, <2>5
    <2>8. h \in HandledRecords
      BY <2>6, <2>7 DEF HandledRecords, Shape
    <2>9. h.life = restarts /\ h.at = r /\ h.payload = StripFrame(RecordAt(r).bytes).payload
      OBVIOUS
    <2> HIDE DEF h
    <2> QED
      BY <1>2, <2>1, <2>8, <2>9
  <1>4. CASE ~StripFrame(RecordAt(r).bytes).ok
    <2>1. handled' = handled
      BY <1>1, <1>4 DEF Advance
    <2> QED
      BY <1>2, <1>4, <2>1
  <1> QED
    BY <1>3, <1>4

LEMMA HandleOrder ==
  ASSUME OrderInv, Handle
  PROVE  OrderInv'
  <1> USE DEF OrderInv
  <1>1. PICK r \in Upcoming :
           /\ batch' = batch \ {r} /\ pc = "handle" /\ pc' \in {"poll", "handle"}
           /\ pc' # "handle" => batch' = {}
           /\ UNCHANGED <<log, committed, start, position, settled, passed, cut, restarts>>
           /\ \/ \E h \in HandledRecords :
                   h.life = restarts /\ h.at = r /\ handled' = Append(handled, h)
              \/ ~StripFrame(RecordAt(r).bytes).ok /\ handled' = handled
    BY HandleStep
  <1>2. /\ r \in batch /\ r \in Produced /\ r[2] < position[r[1]] /\ pc' \in Live
        /\ \A q \in batch' : q \in batch /\ q # r /\ (q[1] = r[1] => r[2] <= q[2])
    BY <1>1 DEF Upcoming, Bounds, Live
  <1>3. \A q \in batch : q = <<q[1], q[2]>> /\ q[2] \in Nat
    <2> TAKE q \in batch
    <2>1. q = <<q[1], q[2]>> /\ q[1] \in Partitions /\ q[2] \in DOMAIN log[q[1]]
      BY InProduced DEF Bounds
    <2>2. DOMAIN log[q[1]] = 1..Len(log[q[1]])
      BY <2>1 DEF Shape
    <2> QED
      BY <2>1, <2>2
  <1>4. \A q \in batch' : q[1] = r[1] => r[2] < q[2]
    <2> SUFFICES ASSUME NEW q \in batch', q[1] = r[1] PROVE r[2] < q[2]
      OBVIOUS
    <2>1. r[2] <= q[2] /\ q # r /\ q \in batch
      BY <1>2
    <2>2. r[2] # q[2] /\ r[2] \in Nat /\ q[2] \in Nat
      BY <1>2, <1>3, <2>1
    <2> QED
      BY <2>1, <2>2
  <1>5. Produced' = Produced
    BY <1>1 DEF Produced
  <1>6. Bounds'
    BY <1>1, <1>2, <1>5 DEF Bounds
  <1>7. CASE handled' = handled
    <2>1. Shape'
      BY <1>1, <1>7 DEF Shape
    <2>2. Ahead'
      BY <1>1, <1>2, <1>7 DEF Ahead
    <2>3. HandledInOrder'
      BY <1>7 DEF HandledInOrder
    <2> QED
      BY <1>6, <2>1, <2>2, <2>3
  <1>8. CASE \E h \in HandledRecords : h.life = restarts /\ h.at = r /\ handled' = Append(handled, h)
    <2>1. PICK h \in HandledRecords : h.life = restarts /\ h.at = r /\ handled' = Append(handled, h)
      BY <1>8
    <2>2. handled \in Seq(HandledRecords)
      BY DEF Shape
    <2>3. /\ handled' \in Seq(HandledRecords) /\ Len(handled) \in Nat
          /\ DOMAIN handled' = 1..(Len(handled) + 1) /\ DOMAIN handled = 1..Len(handled)
          /\ handled'[Len(handled) + 1] = h /\ \A i \in DOMAIN handled : handled'[i] = handled[i]
      BY <2>1, <2>2, AppendOne
    <2>4. \A i \in DOMAIN handled' : i \in DOMAIN handled \/ (i = Len(handled) + 1 /\ handled'[i] = h)
      BY <2>3
    <2>5. Shape'
      BY <1>1, <2>3 DEF Shape
    <2>6. Ahead'
      <3> SUFFICES ASSUME NEW i \in DOMAIN handled'
                   PROVE  /\ handled'[i].life <= restarts
                          /\ handled'[i].life = restarts =>
                               /\ handled'[i].at[2] < position[handled'[i].at[1]]
                               /\ \A q \in batch' : q[1] = handled'[i].at[1] => handled'[i].at[2] < q[2]
        BY <1>1, <1>2 DEF Ahead
      <3>1. CASE i \in DOMAIN handled
        <4>1. handled'[i] = handled[i]
          BY <2>3, <3>1
        <4> QED
          BY <1>2, <3>1, <4>1 DEF Ahead
      <3>2. CASE handled'[i] = h
        <4>1. restarts <= restarts
          BY DEF Shape
        <4> QED
          BY <1>2, <1>4, <2>1, <3>2, <4>1
      <3> QED
        BY <2>4, <3>1, <3>2
    <2>7. HandledInOrder'
      <3> SUFFICES ASSUME NEW i \in DOMAIN handled', NEW j \in DOMAIN handled',
                          i < j, handled'[i].life = handled'[j].life,
                          handled'[i].at[1] = handled'[j].at[1]
                   PROVE  handled'[i].at[2] < handled'[j].at[2]
        BY DEF HandledInOrder
      <3>1. i \in DOMAIN handled /\ handled'[i] = handled[i]
        BY <2>3
      <3>2. CASE j \in DOMAIN handled
        <4>1. handled'[j] = handled[j]
          BY <2>3, <3>2
        <4> QED
          BY <3>1, <3>2, <4>1 DEF HandledInOrder
      <3>3. CASE handled'[j] = h
        <4>1. handled[i].life = restarts /\ r[1] = handled[i].at[1]
          BY <2>1, <3>1, <3>3
        <4>2. handled[i].at[2] < r[2]
          BY <1>2, <3>1, <4>1 DEF Ahead
        <4> QED
          BY <2>1, <3>1, <3>3, <4>2
      <3> QED
        BY <2>4, <3>2, <3>3
    <2> QED
      BY <1>6, <2>5, <2>6, <2>7
  <1> QED
    BY <1>1, <1>7, <1>8

\* A Publisher's record is stripped to its payload; what is not stripped is garbage.
LEMMA RecordStripped ==
  ASSUME NEW rec \in Framed \cup Strange, rec.sent
  PROVE  StripFrame(rec.bytes) = Payload(rec.payload)
  <1>1. rec \in Framed
    BY DEF Strange
  <1>2. PICK m \in Messages :
          rec = [sent |-> TRUE, bytes |-> Encode(m.id, m.idx, m.payload), payload |-> m.payload]
    BY <1>1 DEF Framed
  <1>3. m.id \in Nat /\ m.idx \in Nat /\ m.payload \in Seq(Bytes)
    BY ConsumerAssumption
  <1>4. StripFrame(Encode(m.id, m.idx, m.payload)) = Payload(m.payload)
    BY <1>3, FrameStripped
  <1> QED
    BY <1>2, <1>4

\* What leaves the batch has been handled.
LEMMA HandleSettled ==
  ASSUME OrderInv, Settled, Handle
  PROVE  Settled'
  <1> USE DEF OrderInv
  <1>1. PICK r \in Upcoming :
           /\ batch' = batch \ {r} /\ pc = "handle" /\ pc' \in {"poll", "handle"}
           /\ pc' # "handle" => batch' = {}
           /\ UNCHANGED <<log, committed, start, position, settled, passed, cut, restarts>>
           /\ \/ \E h \in HandledRecords :
                   h.life = restarts /\ h.at = r /\ handled' = Append(handled, h)
              \/ ~StripFrame(RecordAt(r).bytes).ok /\ handled' = handled
    BY HandleStep
  <1>2. r \in Produced /\ pc \in Live
    BY <1>1 DEF Upcoming, Bounds, Live
  <1>3. Produced' = Produced
    BY <1>1 DEF Produced
  <1>4. \A q : WasHandled(q) => WasHandled(q)'
    <2>1. CASE handled' = handled
      BY <2>1 DEF WasHandled
    <2>2. CASE \E h \in HandledRecords : handled' = Append(handled, h)
      <3>1. PICK h \in HandledRecords : handled' = Append(handled, h)
        BY <2>2
      <3>2. handled \in Seq(HandledRecords)
        BY DEF Shape
      <3>3. \A i \in DOMAIN handled : i \in DOMAIN handled' /\ handled'[i] = handled[i]
        BY <3>1, <3>2, AppendOne
      <3> QED
        BY <3>3 DEF WasHandled
    <2> QED
      BY <1>1, <2>1, <2>2
  <1>5. \A q \in Produced : Rests(q) => Rests(q)'
    BY <1>1, <1>4 DEF Rests, RecordAt
  <1>6. Rests(r)'
    <2>1. CASE \E h \in HandledRecords : h.at = r /\ handled' = Append(handled, h)
      <3>1. PICK h \in HandledRecords : h.at = r /\ handled' = Append(handled, h)
        BY <2>1
      <3>2. handled \in Seq(HandledRecords)
        BY DEF Shape
      <3>3. Len(handled) + 1 \in DOMAIN handled' /\ handled'[Len(handled) + 1] = h
        BY <3>1, <3>2, AppendOne
      <3> QED
        BY <3>1, <3>3 DEF Rests, WasHandled
    <2>2. CASE ~StripFrame(RecordAt(r).bytes).ok
      <3>1. r[1] \in Partitions /\ r[2] \in DOMAIN log[r[1]]
        BY <1>2, InProduced
      <3>2. log[r[1]] \in Seq(Framed \cup Strange)
        BY <3>1 DEF Shape
      <3>3. RecordAt(r) \in Framed \cup Strange
        BY <3>1, <3>2 DEF RecordAt
      <3>5. ~RecordAt(r).sent
        <4> SUFFICES ASSUME RecordAt(r).sent PROVE FALSE
          OBVIOUS
        <4>1. StripFrame(RecordAt(r).bytes) = Payload(RecordAt(r).payload)
          BY <3>3, RecordStripped
        <4>2. StripFrame(RecordAt(r).bytes).ok
          BY <4>1 DEF Payload
        <4> QED
          BY <2>2, <4>2
      <3>6. RecordAt(r)' = RecordAt(r)
        BY <1>1 DEF RecordAt
      <3> QED
        BY <3>5, <3>6 DEF Rests
    <2> QED
      BY <1>1, <2>1, <2>2
  <1>7. \A q \in Produced :
          /\ q[2] < committed[q[1]] => Rests(q)
          /\ q[2] < settled[q[1]] => Rests(q)
          /\ q[2] < position[q[1]] => Rests(q) \/ q \in batch
    BY <1>2 DEF Settled
  <1> QED
    BY <1>1, <1>3, <1>5, <1>6, <1>7 DEF Settled

-----------------------------------------------------------------------------
(* The theorems                                                            *)

\* Every step but the handler's keeps both invariants, whatever StripFrame does.
LEMMA OtherStep ==
  ASSUME OrderInv, [Next]_vars, ~Handle
  PROVE  OrderInv' /\ (Settled => Settled')
  <1>1. CASE Turns
    BY <1>1, TurnInv
  <1>2. CASE Ends
    BY <1>2, EndInv
  <1>3. CASE Open
    BY <1>3, OpenInv
  <1>4. CASE Commit
    BY <1>4, CommitInv
  <1>5. ASSUME NEW p \in Partitions, Produce(p) PROVE OrderInv' /\ (Settled => Settled')
    BY <1>5, ProduceInv
  <1>6. CASE Poll
    <2>1. pc = "poll" /\ pc' = "handle" /\ passed' = passed
      BY <1>6 DEF Poll
    <2>2. PICK next \in [Partitions -> Offsets] : Fetch(next) /\ batch' = Between(position, next)
      BY <1>6 DEF Poll
    <2> QED
      BY <2>1, <2>2, FetchInv
  <1>7. CASE PollFails
    <2>1. pc = "poll" /\ UNCHANGED batch /\ pc' \in {"stopped", "backoff"}
      BY <1>7 DEF PollFails
    <2>2. PICK next \in [Partitions -> Offsets] : Fetch(next) /\ passed' = passed \cup Between(position, next)
      BY <1>7 DEF PollFails
    <2> QED
      BY <2>1, <2>2, FetchInv
  <1> QED
    BY <1>1, <1>2, <1>3, <1>4, <1>5, <1>6, <1>7 DEF Next, Run, Turns, Ends

LEMMA OrderStep == OrderInv /\ [Next]_vars => OrderInv'
  BY OtherStep, HandleOrder

\* The inductive invariant of the loop: its offsets lie within the log, the batch
\* lies below the position, and ahead of all that this process has handled.
THEOREM LoopInvariant == Spec => []OrderInv
  <1>1. Init => OrderInv
    BY InitOrder
  <1> QED
    BY <1>1, OrderStep, PTL DEF Spec

\* One process gives the records of a partition to its handler in their order, and
\* each of them once: EachRecord over what PollFetches handed out, whatever fails.
THEOREM InOrder == Spec => []HandledInOrder
  <1>1. OrderInv => HandledInOrder
    BY DEF OrderInv
  <1> QED
    BY <1>1, LoopInvariant, PTL

\* The group's offset passes over no message that no handler has seen, but for those
\* that came with a failed fetch, those that no process was handed before one started
\* behind them, and those that a crash before the first offset of their partition cut
\* off: the commits, which follow the last poll but one, and the one at Close, never
\* run ahead of the handler, and StripFrame drops no frame that a Publisher writes.
THEOREM NothingLost == Spec => []NothingSkipped
  <1>1. Init => OrderInv /\ Settled
    BY InitOrder
  <1>2. OrderInv /\ Settled /\ [Next]_vars => (OrderInv /\ Settled)'
    BY OtherStep, HandleOrder, HandleSettled
  <1>3. Settled => NothingSkipped
    BY DEF Settled, NothingSkipped, Rests
  <1> QED
    BY <1>1, <1>2, <1>3, PTL DEF Spec

-----------------------------------------------------------------------------
(* The payloads                                                            *)

\* Every call of the handler was for a record of the topic, with what StripFrame makes
\* of its bytes.
Stripped ==
  \A i \in DOMAIN handled :
    /\ handled[i].at \in Produced
    /\ handled[i].payload = StripFrame(RecordAt(handled[i].at).bytes).payload

LEMMA StrippedStep ==
  ASSUME OrderInv, Stripped, [Next]_vars
  PROVE  Stripped'
  <1>1. CASE UNCHANGED <<log, handled>>
    BY <1>1 DEF Stripped, Produced, RecordAt
  <1>2. ASSUME NEW p \in Partitions, Produce(p) PROVE Stripped'
    <2>1. handled' = handled
      BY <1>2 DEF Produce
    <2>2. \A r \in Produced : r \in Produced' /\ RecordAt(r)' = RecordAt(r)
      BY <1>2, ProduceKeeps
    <2>3. \A i \in DOMAIN handled :
            /\ handled[i].at \in Produced
            /\ handled[i].payload = StripFrame(RecordAt(handled[i].at).bytes).payload
      BY DEF Stripped
    <2>4. \A i \in DOMAIN handled' :
            /\ handled'[i].at \in Produced'
            /\ handled'[i].payload = StripFrame(log'[handled'[i].at[1]][handled'[i].at[2]].bytes).payload
      BY <2>1, <2>2, <2>3 DEF RecordAt
    <2> QED
      BY <2>4 DEF Stripped, RecordAt
  <1>3. CASE Handle
    <2>1. PICK r \in Upcoming :
            /\ log' = log
            /\ \/ \E h \in HandledRecords :
                    /\ h.at = r /\ handled' = Append(handled, h)
                    /\ h.payload = StripFrame(RecordAt(r).bytes).payload
               \/ handled' = handled
      BY <1>3, HandleStep
    <2>2. CASE handled' = handled
      BY <1>1, <2>1, <2>2
    <2>3. CASE handled' # handled
      <3>1. PICK h \in HandledRecords :
              /\ h.at = r /\ handled' = Append(handled, h)
              /\ h.payload = StripFrame(RecordAt(r).bytes).payload
        BY <2>1, <2>3
      <3>2. handled \in Seq(HandledRecords)
        BY DEF OrderInv, Shape
      <3>3. /\ DOMAIN handled' = 1..(Len(handled) + 1) /\ DOMAIN handled = 1..Len(handled) /\ Len(handled) \in Nat
            /\ handled'[Len(handled) + 1] = h /\ \A i \in DOMAIN handled : handled'[i] = handled[i]
        BY <3>1, <3>2, AppendOne
      <3>4. r \in Produced
        BY DEF OrderInv, Bounds, Upcoming
      <3>5. Produced' = Produced /\ \A q : RecordAt(q)' = RecordAt(q)
        BY <2>1 DEF Produced, RecordAt
      <3>6. \A i \in DOMAIN handled' : i \in DOMAIN handled \/ i = Len(handled) + 1
        BY <3>3
      <3> QED
        BY <3>1, <3>3, <3>4, <3>5, <3>6 DEF Stripped
    <2> QED
      BY <2>2, <2>3
  <1>4. ASSUME [Next]_vars, ~Handle, ~\E p \in Partitions : Produce(p)
        PROVE  UNCHANGED <<log, handled>>
    BY <1>4 DEF Next, Run, Poll, PollFails, Fetch, Backoff, Return, Close, CloseNil, Crash, Down,
                Open, OpenFails, Commit, Cancel, vars, client
  <1> QED
    BY <1>1, <1>2, <1>3, <1>4

\* What the handler gets of a Publisher's message is the message: every record keeps
\* its place and its bytes, and StripFrame gives back the payload that was framed.
THEOREM PayloadsIntact == Spec => []PayloadIntact
  <1>1. Init => OrderInv /\ Stripped
    <2>1. Init => Stripped
      BY DEF Init, Stripped
    <2> QED
      BY <2>1, InitOrder
  <1>2. OrderInv /\ Stripped /\ [Next]_vars => (OrderInv /\ Stripped)'
    BY OrderStep, StrippedStep
  <1>3. OrderInv /\ Stripped => PayloadIntact
    <2> SUFFICES ASSUME OrderInv, Stripped, NEW i \in DOMAIN handled, RecordAt(handled[i].at).sent
                 PROVE  handled[i].payload = RecordAt(handled[i].at).payload
      BY DEF PayloadIntact
    <2> DEFINE r == handled[i].at
    <2>1. r \in Produced /\ handled[i].payload = StripFrame(RecordAt(r).bytes).payload
      BY DEF Stripped
    <2>2. r[1] \in Partitions /\ r[2] \in DOMAIN log[r[1]]
      BY <2>1, InProduced
    <2>3. log[r[1]] \in Seq(Framed \cup Strange)
      BY <2>2 DEF OrderInv, Shape
    <2>4. RecordAt(r) \in Framed \cup Strange
      BY <2>2, <2>3 DEF RecordAt
    <2>5. StripFrame(RecordAt(r).bytes) = Payload(RecordAt(r).payload)
      BY <2>4, RecordStripped
    <2> QED
      BY <2>1, <2>5 DEF Payload
  <1> QED
    BY <1>1, <1>2, <1>3, PTL DEF Spec

-----------------------------------------------------------------------------
(* Types                                                                   *)

\* What StripFrame makes of any bytes: a payload, or the malformed one.
LEMMA StripFrameTyped ==
  ASSUME NEW frame \in Seq(Bytes)
  PROVE  StripFrame(frame).payload \in Seq(Bytes)
  <1> DEFINE R == [ok : BOOLEAN, payload : Seq(Bytes)]
             U == {n \in Nat : \A s \in Seq(Bytes) : Len(s) <= n => Unsigned[s] \in Nat}
             K == {k \in Nat : \A s \in Seq(Bytes) : SkipIndices[k][s] \in R}
  <1>1. /\ Malformed \in R /\ \A s \in Seq(Bytes) : Payload(s) \in R
        /\ \A r \in R : r.payload \in Seq(Bytes)
    BY DEF Malformed, Payload
  <1>2. \A s \in Seq(Bytes), i \in Nat \ {0} : From(s, i) \in Seq(Bytes)
    <2> TAKE s \in Seq(Bytes), i \in Nat \ {0}
    <2>1. Len(s) \in Int /\ \A j \in i..Len(s) : j \in 1..Len(s)
      BY LenProperties
    <2>2. \A j \in i..Len(s) : s[j] \in Bytes
      BY <2>1, ElementOfSeq
    <2> QED
      BY <2>1, <2>2, SubSeqProperties DEF From
  <1>3. \A s \in Seq(Bytes) : VarintLen(s) \in 0..Len(s) /\ Len(s) \in Nat
    BY VarintLenFinds, LenProperties
  <1>4. \A s \in Seq(Bytes) : Unsigned[s] \in Nat
    <2>1. 0 \in U
      <3>1. \A s \in Seq(Bytes) : Len(s) <= 0 => s = <<>>
        BY EmptySeq
      <3> QED
        BY <3>1, UnsignedStep
    <2>2. ASSUME NEW n \in Nat, n \in U PROVE n + 1 \in U
      <3> SUFFICES ASSUME NEW s \in Seq(Bytes), Len(s) <= n + 1, s # <<>> PROVE Unsigned[s] \in Nat
        BY UnsignedStep
      <3>1. /\ Head(s) \in Bytes /\ Tail(s) \in Seq(Bytes) /\ Len(Tail(s)) = Len(s) - 1
            /\ Len(s) \in Nat
        BY HeadTailProperties, LenProperties
      <3>2. Unsigned[Tail(s)] \in Nat
        <4>1. Len(Tail(s)) <= n /\ Tail(s) \in Seq(Bytes)
          BY <3>1
        <4> QED
          BY <2>2, <4>1
      <3>3. Unsigned[s] = (Head(s) % 128) + (128 * Unsigned[Tail(s)])
        BY UnsignedStep
      <3>4. Head(s) % 128 \in Nat
        <4>1. Bytes \subseteq Nat
          BY DEF Bytes
        <4>2. Head(s) \in Nat
          BY <3>1, <4>1
        <4> HIDE DEF U
        <4> QED
          BY <4>2
      <3> QED
        BY <3>2, <3>3, <3>4
    <2> HIDE DEF U
    <2>3. \A n \in Nat : n \in U
      BY <2>1, <2>2, UpTo
    <2> TAKE s \in Seq(Bytes)
    <2>4. Len(s) \in U /\ Len(s) <= Len(s)
      BY <1>3, <2>3
    <2> QED
      BY <2>4 DEF U
  <1>5. ASSUME NEW s \in Seq(Bytes) PROVE VarintValue(s) \in Int
    <2>1. \A i \in 1..VarintLen(s) : s[i] \in Bytes
      BY <1>3, ElementOfSeq
    <2>2. SubSeq(s, 1, VarintLen(s)) \in Seq(Bytes)
      BY <1>3, <2>1, SubSeqProperties
    <2>3. Unsigned[SubSeq(s, 1, VarintLen(s))] \in Nat
      BY <1>4, <2>2
    <2>4. \A u \in Nat : (IF u % 2 = 0 THEN u \div 2 ELSE -1 - (u \div 2)) \in Int
      OBVIOUS
    <2> QED
      BY <2>3, <2>4 DEF VarintValue
  <1>6. \A k \in Nat, s \in Seq(Bytes) : SkipIndices[k][s] \in R
    <2> HIDE DEF R
    <2>1. 0 \in K
      BY <1>1, SkipIndicesStep
    <2>2. ASSUME NEW n \in Nat, n \in K PROVE n + 1 \in K
      <3> SUFFICES ASSUME NEW s \in Seq(Bytes) PROVE SkipIndices[n + 1][s] \in R
        OBVIOUS
      <3>1. SkipIndices[n + 1][s] = IF n + 1 = 0 THEN Payload(s)
                                    ELSE IF VarintLen(s) = 0 THEN Malformed
                                    ELSE SkipIndices[(n + 1) - 1][From(s, VarintLen(s) + 1)]
        BY SkipIndicesStep
      <3>2. (n + 1) - 1 = n /\ n + 1 # 0 /\ From(s, VarintLen(s) + 1) \in Seq(Bytes)
        <4>1. VarintLen(s) + 1 \in Nat \ {0}
          BY <1>3
        <4> QED
          BY <1>2, <4>1
      <3>3. SkipIndices[n][From(s, VarintLen(s) + 1)] \in R
        BY <2>2, <3>2
      <3> QED
        BY <1>1, <3>1, <3>2, <3>3
    <2> HIDE DEF K
    <2>3. \A k \in Nat : k \in K
      BY <2>1, <2>2, UpTo
    <2> QED
      BY <2>3 DEF K
  <1> HIDE DEF R
  <1>7. StripFrame(frame) \in R
    <2> DEFINE rest == From(frame, 6)
    <2>1. rest \in Seq(Bytes)
      BY <1>2
    <2> HIDE DEF rest
    <2>2. /\ VarintLen(rest) + 1 \in Nat \ {0} /\ From(rest, VarintLen(rest) + 1) \in Seq(Bytes)
          /\ (IF VarintValue(rest) > 0 THEN VarintValue(rest) ELSE 0) \in Nat
      <3>1. VarintLen(rest) + 1 \in Nat \ {0}
        BY <1>3, <2>1
      <3>2. VarintValue(rest) \in Int
        BY <1>5, <2>1
      <3> QED
        BY <1>2, <2>1, <3>1, <3>2
    <2>3. ASSUME ~(Len(frame) < 6) PROVE Tail(rest) \in Seq(Bytes)
      <3>1. rest # <<>>
        <4>1. 6 \in 1..Len(frame) /\ Len(frame) \in Int /\ \A j \in 6..Len(frame) : j \in 1..Len(frame)
          BY <1>3, <2>3
        <4>2. Len(rest) = Len(frame) - 6 + 1
          <5>1. \A j \in 6..Len(frame) : frame[j] \in Bytes
            BY <4>1, ElementOfSeq
          <5> QED
            BY <4>1, <5>1, SubSeqProperties DEF rest, From
        <4> QED
          BY <4>1, <4>2, EmptySeq
      <3> QED
        BY <2>1, <3>1, HeadTailProperties
    <2>4. StripFrame(frame) =
            IF Len(frame) < 6 \/ frame[1] # 0 THEN Malformed
            ELSE IF rest[1] = 0 THEN Payload(Tail(rest))
            ELSE IF VarintLen(rest) = 0 THEN Malformed
            ELSE SkipIndices[IF VarintValue(rest) > 0 THEN VarintValue(rest) ELSE 0][From(rest, VarintLen(rest) + 1)]
      BY DEF StripFrame, rest
    <2>5. SkipIndices[IF VarintValue(rest) > 0 THEN VarintValue(rest) ELSE 0][From(rest, VarintLen(rest) + 1)] \in R
      BY <1>6, <2>2
    <2> QED
      BY <1>1, <2>3, <2>4, <2>5
  <1> QED
    BY <1>1, <1>7

\* A partition has no more records than the topic.
LEMMA PartitionFits ==
  ASSUME OrderInv, NEW p \in Partitions, Cardinality(Produced) < MaxRecords
  PROVE  Len(log[p]) < MaxRecords
  <1> DEFINE part(q) == {q} \X DOMAIN log[q]
             parts == {part(q) : q \in Partitions}
  <1>1. \A q \in Partitions : Len(log[q]) \in Nat /\ DOMAIN log[q] = 1..Len(log[q])
    BY DEF OrderInv, Shape
  <1>2. \A q \in Partitions : IsFiniteSet(part(q)) /\ Cardinality(part(q)) = Len(log[q])
    <2> TAKE q \in Partitions
    <2>1. IsFiniteSet({q}) /\ Cardinality({q}) = 1
      BY FS_Singleton
    <2>2. IsFiniteSet(DOMAIN log[q]) /\ Cardinality(DOMAIN log[q]) = Len(log[q])
      <3>1. /\ IsFiniteSet(1..Len(log[q]))
            /\ Cardinality(1..Len(log[q])) = IF 1 > Len(log[q]) THEN 0 ELSE Len(log[q]) - 1 + 1
        BY <1>1, FS_Interval
      <3> QED
        BY <1>1, <3>1
    <2>3. /\ IsFiniteSet({q} \X DOMAIN log[q])
          /\ Cardinality({q} \X DOMAIN log[q]) = Cardinality({q}) * Cardinality(DOMAIN log[q])
      BY <2>1, <2>2, FS_Product
    <2> QED
      BY <1>1, <2>1, <2>2, <2>3
  <1> HIDE DEF part
  <1>3. IsFiniteSet(parts)
    <2> DEFINE f == [q \in Partitions |-> part(q)]
    <2>1. f \in Surjection(Partitions, parts)
      BY DEF Surjection
    <2>2. IsFiniteSet(Partitions)
      BY ConsumerAssumption
    <2> HIDE DEF f, parts
    <2> QED
      BY <2>1, <2>2, FS_Surjection
  <1>4. IsFiniteSet(UNION parts)
    <2>1. \A t \in parts : IsFiniteSet(t)
      BY <1>2
    <2> HIDE DEF parts
    <2> QED
      BY <1>3, <2>1, FS_UNION
  <1>5. Produced = UNION parts
    BY DEF Produced, part
  <1>6. part(p) \in SUBSET Produced
    BY <1>5
  <1>7. Cardinality(part(p)) <= Cardinality(Produced) /\ Cardinality(Produced) \in Nat
    <2>1. IsFiniteSet(Produced)
      BY <1>4, <1>5
    <2> QED
      BY <1>6, <2>1, FS_Subset, FS_CardinalityType
  <1>8. MaxRecords \in Nat
    BY ConsumerAssumption
  <1> QED
    BY <1>1, <1>2, <1>7, <1>8

\* The bounds that hold of the variables: a process that is told to stop is one that
\* will be started again.
Bounded ==
  /\ \A p \in Partitions : Len(log[p]) <= MaxRecords
  /\ start \in [Partitions -> Offsets]
  /\ passed \subseteq Produced /\ cut \subseteq Produced
  /\ pc \in PCs /\ stopping \in BOOLEAN /\ (pc = "stopped" => stopping)
  /\ stopping => restarts < MaxRestarts
  /\ restarts <= MaxRestarts /\ errors \in 0..MaxErrors

\* What the others rest on makes the types.
LEMMA BoundedTyped == OrderInv /\ Stripped /\ Bounded => TypeOK
  <1> SUFFICES ASSUME OrderInv, Stripped, Bounded PROVE TypeOK
    OBVIOUS
  <1> USE DEF OrderInv
  <1>1. MaxRecords \in Nat /\ MaxErrors \in Nat /\ MaxRestarts \in Nat
    BY ConsumerAssumption
  <1>2. \A p \in Partitions :
          /\ Len(log[p]) \in 0..MaxRecords /\ DOMAIN log[p] = 1..Len(log[p])
          /\ committed[p] \in Nat /\ settled[p] \in Nat /\ position[p] \in Nat
    BY <1>1 DEF Shape, Bounded
  <1>3. Produced \subseteq Records
    <2> SUFFICES ASSUME NEW r \in Produced PROVE r \in Records
      OBVIOUS
    <2>1. r = <<r[1], r[2]>> /\ r[1] \in Partitions /\ r[2] \in DOMAIN log[r[1]]
      BY InProduced
    <2>2. r[2] \in 1..MaxRecords
      BY <1>1, <1>2, <2>1
    <2> QED
      BY <2>1, <2>2 DEF Records
  <1>4. \A p \in Partitions :
          /\ committed[p] \in Offsets \cup {0} /\ settled[p] \in Offsets /\ position[p] \in Offsets
    BY <1>1, <1>2 DEF Bounds, Offsets
  <1>5. committed \in [Partitions -> Offsets \cup {0}] /\ settled \in [Partitions -> Offsets]
        /\ position \in [Partitions -> Offsets]
    BY <1>4 DEF Shape
  <1>6. handled \in Seq(Handled)
    <2>1. handled \in Seq(HandledRecords) /\ Len(handled) \in Nat /\ DOMAIN handled = 1..Len(handled)
      BY LenProperties DEF Shape
    <2>2. \A i \in 1..Len(handled) : handled[i] \in Handled
      <3> TAKE i \in 1..Len(handled)
      <3>1. handled[i] \in HandledRecords
        BY <2>1, ElementOfSeq
      <3>2. handled[i].at \in Produced /\ handled[i].payload = StripFrame(RecordAt(handled[i].at).bytes).payload
        BY <2>1 DEF Stripped
      <3>3. handled[i].at \in Records
        BY <1>3, <3>2
      <3>4. RecordAt(handled[i].at) \in Framed \cup Strange
        <4>1. handled[i].at[1] \in Partitions /\ handled[i].at[2] \in DOMAIN log[handled[i].at[1]]
          BY <3>2, InProduced
        <4>2. log[handled[i].at[1]] \in Seq(Framed \cup Strange)
          BY <4>1 DEF Shape
        <4> QED
          BY <4>1, <4>2 DEF RecordAt
      <3>5. handled[i].payload \in Seq(Bytes)
        <4> DEFINE rec == RecordAt(handled[i].at)
        <4>1. CASE rec \in Framed
          <5>1. rec.sent /\ rec.payload \in Seq(Bytes)
            <6>1. PICK m \in Messages :
                    rec = [sent |-> TRUE, bytes |-> Encode(m.id, m.idx, m.payload), payload |-> m.payload]
              BY <4>1 DEF Framed
            <6>2. m \in [id : Nat, idx : Nat, payload : Seq(Bytes)]
              BY ConsumerAssumption
            <6> HIDE DEF rec
            <6>3. rec.sent /\ rec.payload = m.payload
              BY <6>1
            <6> QED
              BY <6>2, <6>3
          <5>2. StripFrame(rec.bytes) = Payload(rec.payload)
            BY <3>4, <5>1, RecordStripped
          <5> QED
            BY <3>2, <5>1, <5>2 DEF Payload
        <4>2. CASE rec \in Strange
          <5>1. rec.bytes \in Seq(Bytes)
            <6>1. PICK g \in Garbage : rec = [sent |-> FALSE, bytes |-> g, payload |-> <<>>]
              BY <4>2 DEF Strange
            <6>2. g \in Seq(Bytes)
              BY ConsumerAssumption
            <6> HIDE DEF rec
            <6> QED
              BY <6>1, <6>2
          <5> QED
            BY <3>2, <5>1, StripFrameTyped
        <4> QED
          BY <3>4, <4>1, <4>2
      <3> QED
        BY <3>1, <3>3, <3>5 DEF HandledRecords, Handled
    <2> QED
      BY <2>1, <2>2
  <1>7. batch \subseteq Records /\ passed \subseteq Records /\ cut \subseteq Records
    BY <1>3 DEF Bounds, Bounded
  <1>8. restarts \in 0..MaxRestarts
    BY <1>1 DEF Shape, Bounded
  <1> QED
    BY <1>5, <1>6, <1>7, <1>8 DEF TypeOK, Bounded, Shape

LEMMA BoundedStarts == Init => Bounded
  <1> SUFFICES ASSUME Init PROVE Bounded
    OBVIOUS
  <1>1. MaxRecords \in Nat /\ MaxErrors \in Nat /\ MaxRestarts \in Nat
    BY ConsumerAssumption
  <1>2. \A p \in Partitions : Len(log[p]) = 0
    BY DEF Init
  <1>3. start \in [Partitions -> Offsets]
    BY <1>1 DEF Init, Offsets
  <1>4. /\ passed = {} /\ cut = {} /\ pc \in PCs /\ stopping = FALSE /\ pc # "stopped"
        /\ restarts = 0 /\ errors = 0
    BY DEF Init, PCs
  <1>5. \A p \in Partitions : Len(log[p]) <= MaxRecords
    BY <1>1, <1>2
  <1>6. restarts <= MaxRestarts /\ errors \in 0..MaxErrors
    BY <1>1, <1>4
  <1>7. passed \subseteq Produced /\ cut \subseteq Produced /\ stopping \in BOOLEAN /\ (pc = "stopped" => stopping) /\ ~stopping
    BY <1>4
  <1> QED
    BY <1>3, <1>4, <1>5, <1>6, <1>7 DEF Bounded

LEMMA BoundedStep ==
  ASSUME OrderInv, Bounded, [Next]_vars
  PROVE  Bounded'
  <1> USE DEF OrderInv
  <1>0. MaxRecords \in Nat /\ MaxErrors \in Nat /\ MaxRestarts \in Nat /\ restarts \in Nat
    BY ConsumerAssumption DEF Shape
  <1>1. ASSUME NEW p \in Partitions, Produce(p) PROVE Bounded'
    <2>1. UNCHANGED <<start, passed, cut, pc, stopping, restarts, errors>>
      BY <1>1 DEF Produce, client
    <2>2. PICK rec \in Framed \cup Strange : log' = [log EXCEPT ![p] = Append(@, rec)]
      BY <1>1 DEF Produce
    <2>3. \A r \in Produced : r \in Produced'
      BY <1>1, ProduceKeeps
    <2>4. Len(log[p]) < MaxRecords
      BY <1>1, PartitionFits DEF Produce
    <2>5. \A q \in Partitions : Len(log'[q]) <= MaxRecords
      <3> TAKE q \in Partitions
      <3>1. log[q] \in Seq(Framed \cup Strange) /\ Len(log[q]) \in Nat
        BY DEF Shape
      <3>2. CASE q = p
        <4>1. log'[q] = Append(log[p], rec)
          BY <2>2, <3>2 DEF Shape
        <4>2. Len(log'[q]) = Len(log[p]) + 1
          BY <3>1, <3>2, <4>1, AppendOne
        <4> QED
          BY <1>0, <2>4, <3>1, <3>2, <4>2
      <3>3. CASE q # p
        <4>1. log'[q] = log[q]
          BY <2>2, <3>3 DEF Shape
        <4> QED
          BY <4>1 DEF Bounded
      <3> QED
        BY <3>2, <3>3
    <2> QED
      BY <2>1, <2>3, <2>5 DEF Bounded
  <1>2. ASSUME log' = log, start' = start, passed' = passed, cut' \subseteq cut \cup batch,
               /\ pc' \in PCs /\ stopping' \in BOOLEAN /\ (pc' = "stopped" => stopping')
               /\ stopping' => restarts' < MaxRestarts
               /\ restarts' <= MaxRestarts /\ errors' \in 0..MaxErrors
        PROVE  Bounded'
    <2>1. Produced' = Produced /\ batch \subseteq Produced
      BY <1>2 DEF Produced, Bounds
    <2> QED
      BY <1>2, <2>1 DEF Bounded
  <1>3. CASE Commit \/ Cancel \/ OpenFails \/ Backoff \/ Return \/ Poll \/ UNCHANGED vars
    <2>1. UNCHANGED <<log, start, passed, cut, restarts, errors>>
      BY <1>3 DEF Commit, Cancel, OpenFails, Backoff, Return, Poll, Fetch, client, vars
    <2>2. /\ pc' \in PCs /\ stopping' \in BOOLEAN /\ (pc' = "stopped" => stopping')
          /\ stopping' => restarts < MaxRestarts
      <3>1. CASE Commit \/ UNCHANGED vars
        BY <3>1 DEF Commit, vars, Bounded
      <3>2. CASE Cancel
        BY <3>2 DEF Cancel, Bounded
      <3>3. CASE OpenFails \/ Backoff \/ Return \/ Poll
        BY <3>3 DEF OpenFails, Backoff, Return, Poll, Bounded, PCs
      <3> QED
        BY <1>3, <3>1, <3>2, <3>3
    <2> QED
      BY <1>2, <2>1, <2>2 DEF Bounded
  <1>4. CASE Handle
    <2>1. PICK r \in Upcoming : Advance(r, batch \ {r})
      BY <1>4 DEF Handle
    <2>2. /\ UNCHANGED <<log, start, passed, cut, stopping, errors, restarts>> /\ pc' \in {"poll", "handle"}
      BY <2>1 DEF Advance, client
    <2> QED
      BY <1>2, <2>2 DEF Bounded, PCs
  <1>5. CASE Close \/ CloseNil \/ Crash
    <2>1. /\ UNCHANGED <<log, start, passed, errors>> /\ pc' = "down" /\ stopping' = FALSE
          /\ restarts' = restarts + 1 /\ cut' \subseteq cut \cup batch
      BY <1>5 DEF Close, CloseNil, Crash, Down, client
    <2>2. restarts < MaxRestarts
      BY <1>5 DEF Close, CloseNil, Crash, Bounded
    <2>3. restarts' <= MaxRestarts
      BY <1>0, <2>1, <2>2
    <2>4. pc' \in PCs /\ pc' # "stopped"
      BY <2>1 DEF PCs
    <2> QED
      BY <1>2, <2>1, <2>3, <2>4 DEF Bounded
  <1>6. CASE PollFails
    <2>1. PICK next \in [Partitions -> Offsets] : Fetch(next) /\ passed' = passed \cup Between(position, next)
      BY <1>6 DEF PollFails
    <2>2. /\ UNCHANGED <<log, start, cut, stopping, restarts>> /\ errors < MaxErrors /\ errors' = errors + 1
          /\ pc' = IF stopping THEN "stopped" ELSE "backoff"
      BY <1>6, <2>1 DEF PollFails, Fetch
    <2>3. Between(position, next) \subseteq Produced
      BY <2>1, FetchStep
    <2>4. Produced' = Produced
      BY <2>2 DEF Produced
    <2>5. errors' \in 0..MaxErrors
      BY <1>0, <2>2 DEF Bounded
    <2> QED
      BY <2>1, <2>2, <2>3, <2>4, <2>5 DEF Bounded, PCs
  <1>7. CASE Open
    <2> DEFINE from == [p \in Partitions |-> IF committed[p] = 0 THEN Len(log[p]) + 1 ELSE committed[p]]
               old  == {r \in Produced : committed[r[1]] = 0 /\ r[2] >= position[r[1]]}
    <2>1. /\ log' = log /\ start' = from /\ passed' = passed \cup old /\ pc' = "poll"
          /\ UNCHANGED <<cut, stopping, restarts, errors>>
      BY <1>7 DEF Open
    <2>2. \A p \in Partitions : from[p] \in Offsets
      <3> TAKE p \in Partitions
      <3>1. /\ Len(log[p]) \in Nat /\ committed[p] \in Nat /\ Len(log[p]) <= MaxRecords
            /\ committed[p] <= Len(log[p]) + 1
        BY DEF Shape, Bounds, Bounded
      <3> QED
        BY <1>0, <3>1 DEF Offsets
    <2>3. from \in [Partitions -> Offsets]
      BY <2>2
    <2>4. Produced' = Produced
      BY <2>1 DEF Produced
    <2> QED
      BY <2>1, <2>3, <2>4 DEF Bounded, PCs
  <1> QED
    BY <1>1, <1>3, <1>4, <1>5, <1>6, <1>7 DEF Next, Run

\* The consumer's variables keep their types, in particular every offset lies within
\* the topic, and every payload that a handler gets is a byte string.
THEOREM TypeCorrect == Spec => []TypeOK
  <1>1. Init => OrderInv /\ Stripped /\ Bounded
    <2>1. Init => Stripped
      BY DEF Init, Stripped
    <2> QED
      BY <2>1, InitOrder, BoundedStarts
  <1>2. OrderInv /\ Stripped /\ Bounded /\ [Next]_vars => (OrderInv /\ Stripped /\ Bounded)'
    BY OrderStep, StrippedStep, BoundedStep
  <1> QED
    BY <1>1, <1>2, BoundedTyped, PTL DEF Spec

=============================================================================
