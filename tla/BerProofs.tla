------------------------------- MODULE BerProofs -------------------------------
(***************************************************************************)
(* Theorems about Ber, for every value of a type whose members are up to   *)
(* seven levels deep: that the encoder takes it and makes octets, and that *)
(* the decoder puts together again, from the octets, what was encoded.     *)
(* They rest on lemmas about each half of an element, its tag and its      *)
(* length, and on induction over the elements of one.  Octets are those of *)
(* CdrFile.                                                                *)
(***************************************************************************)
EXTENDS Ber, CdrFile, NaturalsInduction, SequenceTheorems, WellFoundedInduction, TLAPS

\* A set of numbers has a least one.
LEMMA LeastOf ==
    ASSUME NEW T \in SUBSET Nat, T # {}
    PROVE  \E x \in T : \A y \in T : x <= y
<1> DEFINE Less == OpToRel(<, Nat)
<1>1. Less = {p \in Nat \X Nat : p[1] < p[2]}
    BY DEF OpToRel
<1>2. IsWellFoundedOn(Less, Nat)
    BY NatLessThanWellFounded
<1> HIDE DEF Less
<1>3. PICK x \in T : \A y \in T : ~(<<y, x>> \in Less)
    BY <1>2, WFMin
<1>4. \A y \in T : <<y, x>> \in Less <=> y < x
    BY <1>1
<1>5. \A y \in T : x <= y
    <2> TAKE y \in T
    <2>1. x \in Nat /\ y \in Nat /\ ~(y < x)
        BY <1>3, <1>4
    <2> QED
        BY <2>1
<1> QED
    BY <1>5

\* Induction, for a set of numbers.
LEMMA NatSet ==
    ASSUME NEW T, 0 \in T, \A n \in Nat : n \in T => n + 1 \in T
    PROVE  \A n \in Nat : n \in T
<1> DEFINE Out == {n \in Nat : n \notin T}
<1>1. SUFFICES ASSUME Out # {} PROVE FALSE
    OBVIOUS
<1>2. PICK m \in Out : \A k \in Out : m <= k
    <2> Out \in SUBSET Nat
        OBVIOUS
    <2> HIDE DEF Out
    <2> QED
        BY <1>1, LeastOf
<1>3. m \in Nat /\ m # 0
    OBVIOUS
<1>4. m - 1 \in Nat /\ ~(m <= m - 1)
    BY <1>3
<1>5. m - 1 \in T
    BY <1>2, <1>4
<1>6. (m - 1) + 1 \in T /\ (m - 1) + 1 = m
    BY <1>4, <1>5, <1>3
<1> QED
    BY <1>6

\* A recursion of one call: every x has the value Base gives it, or the one
\* that Step makes of that of Down[x], of which Size is less.
Solves(D, Base, Down, Step, f) ==
    \A x \in D : f[x] = IF x \in DOMAIN Base THEN Base[x] ELSE Step[<<f[Down[x]], x>>]

Recursion(D, S, Base, Down, Step, f) == f \in [D -> S] /\ Solves(D, Base, Down, Step, f)

Recursive(D, S, Size, Base, Down, Step) ==
    /\ Size \in [D -> Nat]
    /\ DOMAIN Base \in SUBSET D
    /\ \A x \in DOMAIN Base : Base[x] \in S
    /\ \A x \in D \ DOMAIN Base : Down[x] \in D /\ Size[Down[x]] < Size[x]
    /\ \A x \in D \ DOMAIN Base, v \in S : Step[<<v, x>>] \in S

Below(D, Size, n) == {x \in D : Size[x] <= n}

\* Two solutions of such a recursion are the same, on what is closed under Down.
LEMMA RecursionsAgree ==
    ASSUME NEW D, NEW S, NEW Size, NEW Base, NEW Down, NEW Step,
           Recursive(D, S, Size, Base, Down, Step),
           NEW A \in SUBSET D, \A x \in A \ DOMAIN Base : Down[x] \in A,
           NEW f, Solves(A, Base, Down, Step, f),
           NEW g, Solves(A, Base, Down, Step, g)
    PROVE  \A x \in A : f[x] = g[x]
<1> DEFINE Differ == {x \in A : f[x] # g[x]}
           Sizes == {Size[x] : x \in Differ}
<1>1. SUFFICES ASSUME Differ # {} PROVE FALSE
    OBVIOUS
<1>2. Sizes \in SUBSET Nat /\ Sizes # {}
    BY <1>1 DEF Recursive
<1>3. PICK s \in Sizes : \A t \in Sizes : s <= t
    <2> HIDE DEF Sizes
    <2> QED
        BY <1>2, LeastOf
<1>4. PICK x \in Differ : Size[x] = s
    OBVIOUS
<1>5. x \notin DOMAIN Base
    BY DEF Solves
<1>6. Down[x] \in A /\ f[Down[x]] # g[Down[x]]
    BY <1>5 DEF Solves
<1>7. s <= Size[Down[x]]
    BY <1>3, <1>6
<1>8. Size[Down[x]] < Size[x] /\ Size[Down[x]] \in Nat /\ Size[x] \in Nat
    BY <1>5, <1>6 DEF Recursive
<1> QED
    BY <1>4, <1>7, <1>8

\* Such a recursion has a solution on what is of a bounded size.
LEMMA RecursionBelow ==
    ASSUME NEW D, NEW S, NEW Size, NEW Base, NEW Down, NEW Step,
           Recursive(D, S, Size, Base, Down, Step)
    PROVE  \A n \in Nat : \E f : Recursion(Below(D, Size, n), S,
                                           [x \in DOMAIN Base \cap Below(D, Size, n) |-> Base[x]],
                                           Down, Step, f)
<1> DEFINE Here(n) == Below(D, Size, n)
           Base_(n) == [x \in DOMAIN Base \cap Here(n) |-> Base[x]]
           T == {n \in Nat : \E f : Recursion(Here(n), S, Base_(n), Down, Step, f)}
<1>1. 0 \in T
    <2>1. \A x \in Here(0) : x \in DOMAIN Base
        <3> SUFFICES ASSUME NEW x \in Here(0), x \notin DOMAIN Base PROVE FALSE
            OBVIOUS
        <3>1. Size[x] \in Nat /\ Size[x] <= 0 /\ Size[Down[x]] \in Nat /\ Size[Down[x]] < Size[x]
            BY DEF Below, Recursive
        <3> QED
            BY <3>1
    <2>2. Here(0) \in SUBSET D /\ \A x \in Here(0) : Base[x] \in S
        BY <2>1 DEF Recursive, Below
    <2> DEFINE f == [x \in Here(0) |-> Base[x]]
    <2> HIDE DEF Here
    <2>3. Recursion(Here(0), S, Base_(0), Down, Step, f)
        BY <2>1, <2>2 DEF Recursion, Solves
    <2> QED
        BY <2>3
<1>2. ASSUME NEW n \in Nat, n \in T PROVE n + 1 \in T
    <2>1. PICK f : Recursion(Here(n), S, Base_(n), Down, Step, f)
        BY <1>2
    <2> DEFINE g == [x \in Here(n + 1) |-> IF x \in DOMAIN Base THEN Base[x] ELSE Step[<<f[Down[x]], x>>]]
    <2>2. \A x \in Here(n + 1) \ DOMAIN Base : Down[x] \in Here(n)
        <3> SUFFICES ASSUME NEW x \in Here(n + 1), x \notin DOMAIN Base PROVE Down[x] \in Here(n)
            OBVIOUS
        <3>1. Size[x] \in Nat /\ Size[x] <= n + 1 /\ Down[x] \in D /\ Size[Down[x]] \in Nat
              /\ Size[Down[x]] < Size[x]
            BY DEF Below, Recursive
        <3>2. Size[Down[x]] <= n
            BY <3>1
        <3> QED
            BY <3>1, <3>2 DEF Below
    <2>3. Here(n) \in SUBSET Here(n + 1) /\ Here(n + 1) \in SUBSET D
        <3>1. \A x \in D : Size[x] \in Nat /\ (Size[x] <= n => Size[x] <= n + 1)
            BY DEF Recursive
        <3> QED
            BY <3>1 DEF Below
    <2> HIDE DEF Here
    <2>4. f \in [Here(n) -> S] /\ DOMAIN Base_(n) = DOMAIN Base \cap Here(n)
        BY <2>1 DEF Recursion, Solves
    <2>5. \A x \in Here(n) : f[x] = IF x \in DOMAIN Base THEN Base[x] ELSE Step[<<f[Down[x]], x>>]
        BY <2>1 DEF Recursion, Solves
    <2>6. \A x \in Here(n) : g[x] = f[x]
        BY <2>3, <2>5
    <2>7. g \in [Here(n + 1) -> S]
        BY <2>2, <2>3, <2>4 DEF Recursive
    <2>8. \A x \in Here(n + 1) : g[x] = IF x \in DOMAIN Base_(n + 1) THEN Base_(n + 1)[x]
                                        ELSE Step[<<g[Down[x]], x>>]
        BY <2>2, <2>6
    <2>9. Recursion(Here(n + 1), S, Base_(n + 1), Down, Step, g)
        <3> HIDE DEF g, Base_
        <3> QED
            BY <2>7, <2>8 DEF Recursion, Solves
    <2> QED
        BY <2>9
<1>3. \A n \in Nat : n \in T
    <2> HIDE DEF T
    <2> QED
        BY <1>1, <1>2, NatSet
<1> QED
    BY <1>3

\* Such a recursion defines a function.
LEMMA RecursionExists ==
    ASSUME NEW D, NEW S, NEW Size, NEW Base, NEW Down, NEW Step,
           Recursive(D, S, Size, Base, Down, Step)
    PROVE  \E f : Recursion(D, S, Base, Down, Step, f)
<1> DEFINE Here(n) == Below(D, Size, n)
           Base_(n) == [x \in DOMAIN Base \cap Here(n) |-> Base[x]]
           F == [n \in Nat |-> CHOOSE f : Recursion(Here(n), S, Base_(n), Down, Step, f)]
           f == [x \in D |-> F[Size[x]][x]]
<1>1. \A n \in Nat : Recursion(Here(n), S, Base_(n), Down, Step, F[n])
    BY RecursionBelow
<1>2. \A n \in Nat : F[n] \in [Here(n) -> S]
    <2> HIDE DEF F, Here
    <2> QED
        BY <1>1 DEF Recursion, Solves
<1>3. \A n \in Nat : \A x \in Here(n) :
            F[n][x] = IF x \in DOMAIN Base THEN Base[x] ELSE Step[<<F[n][Down[x]], x>>]
    <2> HIDE DEF F, Here
    <2> QED
        BY <1>1 DEF Recursion, Solves
<1>4. \A x \in D : Size[x] \in Nat /\ x \in Here(Size[x])
    BY DEF Below, Recursive
<1> HIDE DEF F
<1>5. \A x \in D \ DOMAIN Base : Down[x] \in D /\ F[Size[x]][Down[x]] = F[Size[Down[x]]][Down[x]]
    <2> TAKE x \in D \ DOMAIN Base
    <2> DEFINE k == Size[Down[x]]
               n == Size[x]
    <2>1. Down[x] \in D /\ k \in Nat /\ n \in Nat /\ k < n
        BY DEF Recursive
    <2>2. \A y \in Here(k) \ DOMAIN Base : Down[y] \in Here(k)
        <3> SUFFICES ASSUME NEW y \in Here(k), y \notin DOMAIN Base PROVE Down[y] \in Here(k)
            OBVIOUS
        <3>1. Size[y] \in Nat /\ Size[y] <= k /\ Down[y] \in D /\ Size[Down[y]] \in Nat
              /\ Size[Down[y]] < Size[y]
            BY DEF Below, Recursive
        <3>2. Size[Down[y]] <= k
            BY <3>1, <2>1
        <3> QED
            BY <3>1, <3>2 DEF Below
    <2>3. Here(k) \in SUBSET Here(n) /\ Here(k) \in SUBSET D
        <3>1. \A y \in D : Size[y] \in Nat /\ (Size[y] <= k => Size[y] <= n)
            BY <2>1 DEF Recursive
        <3> QED
            BY <3>1 DEF Below
    <2>4. Down[x] \in Here(k)
        BY <1>4, <2>1
    <2> HIDE DEF Here, k, n
    <2>5. \A y \in Here(k) : F[n][y] = F[k][y]
        <3>1. \A y \in Here(k) : F[n][y] = IF y \in DOMAIN Base THEN Base[y] ELSE Step[<<F[n][Down[y]], y>>]
            BY <1>3, <2>1, <2>3
        <3>2. \A y \in Here(k) : F[k][y] = IF y \in DOMAIN Base THEN Base[y] ELSE Step[<<F[k][Down[y]], y>>]
            BY <1>3, <2>1
        <3> DEFINE A == Here(k)
                   u == F[n]
                   v == F[k]
        <3>3. /\ A \in SUBSET D
              /\ \A y \in A \ DOMAIN Base : Down[y] \in A
              /\ Solves(A, Base, Down, Step, u)
              /\ Solves(A, Base, Down, Step, v)
            BY <2>2, <2>3, <3>1, <3>2 DEF Solves
        <3> HIDE DEF A, u, v
        <3>4. \A y \in A : u[y] = v[y]
            BY <3>3, RecursionsAgree
        <3> QED
            BY <3>4 DEF A, u, v
    <2> QED
        BY <2>1, <2>4, <2>5 DEF k, n
<1>6. f \in [D -> S]
    BY <1>2, <1>4
<1>7. \A x \in D : f[x] = IF x \in DOMAIN Base THEN Base[x] ELSE Step[<<f[Down[x]], x>>]
    <2> SUFFICES ASSUME NEW x \in D
                 PROVE  f[x] = IF x \in DOMAIN Base THEN Base[x] ELSE Step[<<f[Down[x]], x>>]
        OBVIOUS
    <2>1. F[Size[x]][x] = IF x \in DOMAIN Base THEN Base[x] ELSE Step[<<F[Size[x]][Down[x]], x>>]
        BY <1>3, <1>4
    <2> HIDE DEF Here
    <2>2. CASE x \in DOMAIN Base
        BY <2>1, <2>2
    <2>3. CASE x \notin DOMAIN Base
        <3>1. Down[x] \in D /\ F[Size[x]][Down[x]] = F[Size[Down[x]]][Down[x]]
            BY <1>5, <2>3
        <3>2. f[x] = F[Size[x]][x] /\ f[Down[x]] = F[Size[Down[x]]][Down[x]]
            BY <3>1
        <3> QED
            BY <2>1, <2>3, <3>1, <3>2
    <2> QED
        BY <2>2, <2>3
<1>8. Recursion(D, S, Base, Down, Step, f)
    <2> HIDE DEF f
    <2> QED
        BY <1>6, <1>7 DEF Recursion, Solves
<1> QED
    BY <1>8

-----------------------------------------------------------------------------
(* Sequences put together. *)

\* The elements of two sequences, one after the other.
LEMMA Concatenation ==
    ASSUME NEW S, NEW s \in Seq(S), NEW t \in Seq(S)
    PROVE  /\ s \o t \in Seq(S)
           /\ Len(s \o t) = Len(s) + Len(t)
           /\ Len(s) \in Nat /\ Len(t) \in Nat
           /\ \A i \in 1 .. Len(s) : (s \o t)[i] = s[i]
           /\ \A i \in 1 .. Len(t) : (s \o t)[Len(s) + i] = t[i]
    OBVIOUS

\* FlattenSeq puts its sequences together one after the other.
Flattening(S, seqs, f) ==
    /\ f \in [0 .. Len(seqs) -> Seq(S)]
    /\ f[0] = <<>>
    /\ \A k \in 1 .. Len(seqs) : f[k] = f[k - 1] \o seqs[k]

\* FlattenSeq appends the sequences one at a time.
LEMMA Flattens ==
    ASSUME NEW S, NEW seqs \in Seq(Seq(S))
    PROVE  \E f : Flattening(S, seqs, f) /\ FlattenSeq(seqs) = f[Len(seqs)]
<1> DEFINE n == Len(seqs)
           flatten == CHOOSE flatten :
               flatten = [i \in 1 .. n |-> IF i = 1 THEN seqs[i] ELSE flatten[i - 1] \o seqs[i]]
<1>1. n \in Nat /\ \A i \in 1 .. n : seqs[i] \in Seq(S)
    OBVIOUS
<1>2. CASE n = 0
    <2>1. seqs = <<>> /\ FlattenSeq(seqs) = <<>>
        BY <1>2 DEF FlattenSeq
    <2> DEFINE f == [k \in {0} |-> <<>>]
    <2>2. Flattening(S, seqs, f) /\ FlattenSeq(seqs) = f[Len(seqs)]
        BY <2>1, <1>2 DEF Flattening
    <2> QED
        BY <2>2
<1>3. CASE n # 0
    <2>1. FlattenSeq(seqs) = flatten[n]
        BY <1>3 DEF FlattenSeq
    <2> HIDE DEF n, flatten
    <2> DEFINE D == 1 .. n
               Size == [i \in D |-> i]
               Base == [i \in {1} |-> seqs[1]]
               Down == [i \in D |-> i - 1]
               Step == [p \in Seq(S) \X D |-> p[1] \o seqs[p[2]]]
    <2>2. Recursive(D, Seq(S), Size, Base, Down, Step)
        <3>1. \A x \in D \ {1} : Down[x] \in D /\ Size[Down[x]] < Size[x]
            BY <1>1
        <3>2. \A x \in D, v \in Seq(S) : Step[<<v, x>>] \in Seq(S)
            BY <1>1
        <3>3. DOMAIN Base = {1} /\ 1 \in D /\ Base[1] \in Seq(S) /\ Size \in [D -> Nat]
            BY <1>1, <1>3
        <3> HIDE DEF D, Size, Base, Down, Step
        <3> QED
            BY <3>1, <3>2, <3>3 DEF Recursive
    <2>3. PICK g : Recursion(D, Seq(S), Base, Down, Step, g)
        <3> HIDE DEF D, Size, Base, Down, Step
        <3> QED
            BY <2>2, RecursionExists
    <2>4. g \in [D -> Seq(S)] /\ \A i \in D : g[i] = IF i = 1 THEN seqs[i] ELSE g[i - 1] \o seqs[i]
        <3>1. g \in [D -> Seq(S)]
            BY <2>3 DEF Recursion
        <3>2. \A i \in D : g[i] = IF i \in DOMAIN Base THEN Base[i] ELSE Step[<<g[Down[i]], i>>]
            BY <2>3 DEF Recursion, Solves
        <3>3. \A i \in D \ {1} : i - 1 \in D
            BY <1>1
        <3> QED
            BY <3>1, <3>2, <3>3
    <2>5. g = [i \in 1 .. n |-> IF i = 1 THEN seqs[i] ELSE g[i - 1] \o seqs[i]]
        BY <2>4
    <2>6. flatten = [i \in 1 .. n |-> IF i = 1 THEN seqs[i] ELSE flatten[i - 1] \o seqs[i]]
        BY <2>5 DEF flatten
    <2>7. \A i \in D : flatten[i] = IF i = 1 THEN seqs[i] ELSE flatten[i - 1] \o seqs[i]
        BY <2>6
    <2>8. \A i \in D : flatten[i] = g[i]
        <3> DEFINE T == {i \in Nat : \A j \in D : j = i => flatten[j] = g[j]}
        <3>1. 0 \in T
            BY <1>1
        <3>2. ASSUME NEW i \in Nat, i \in T PROVE i + 1 \in T
            <4>1. SUFFICES ASSUME NEW j \in D, j = i + 1 PROVE flatten[j] = g[j]
                OBVIOUS
            <4>2. CASE j = 1
                BY <2>4, <2>7, <4>2
            <4>3. CASE j # 1
                <5>1. j - 1 \in D /\ j - 1 = i
                    BY <4>1, <4>3, <1>1
                <5>2. flatten[j - 1] = g[j - 1]
                    BY <5>1, <3>2
                <5> HIDE DEF D
                <5> QED
                    BY <2>4, <2>7, <4>3, <5>2
            <4> QED
                BY <4>2, <4>3
        <3>3. \A i \in Nat : i \in T
            <4> HIDE DEF T
            <4> QED
                BY <3>1, <3>2, NatSet
        <3>4. \A i \in D : i \in Nat
            OBVIOUS
        <3> QED
            BY <3>3, <3>4
    <2> DEFINE f == [k \in 0 .. n |-> IF k = 0 THEN <<>> ELSE g[k]]
    <2>9. Flattening(S, seqs, f)
        <3>1. f \in [0 .. n -> Seq(S)] /\ f[0] = <<>>
            BY <1>1, <2>4
        <3>2. ASSUME NEW k \in 1 .. n PROVE f[k] = f[k - 1] \o seqs[k]
            <4>1. CASE k = 1
                <5>1. k \in 0 .. n /\ k - 1 = 0 /\ 0 \in 0 .. n /\ k # 0 /\ 1 \in D
                    BY <4>1, <1>1
                <5>2. f[k] = g[1] /\ f[k - 1] = <<>>
                    BY <5>1, <4>1
                <5>3. g[1] = seqs[1] /\ seqs[1] \in Seq(S)
                    BY <2>4, <5>1, <1>1
                <5>4. <<>> \o seqs[1] = seqs[1]
                    BY <5>3
                <5> HIDE DEF f
                <5> QED
                    BY <5>2, <5>3, <5>4, <4>1
            <4>2. CASE k # 1
                <5>1. k - 1 \in 1 .. n /\ k - 1 \in 0 .. n /\ k \in 0 .. n /\ k - 1 # 0 /\ k # 0
                    BY <4>2, <1>1
                <5>2. f[k] = g[k] /\ f[k - 1] = g[k - 1]
                    BY <5>1
                <5>3. g[k] = g[k - 1] \o seqs[k]
                    BY <2>4, <4>2
                <5> QED
                    BY <5>2, <5>3
            <4> QED
                BY <4>1, <4>2
        <3> HIDE DEF f
        <3> QED
            BY <3>1, <3>2 DEF Flattening, n
    <2>10. f[n] = g[n] /\ n \in D
        BY <1>1, <1>3
    <2>11. f[n] = FlattenSeq(seqs)
        BY <2>1, <2>8, <2>10
    <2> HIDE DEF f, D
    <2> QED
        BY <2>9, <2>11 DEF n
<1> QED
    BY <1>2, <1>3

\* At octet i of data there are these octets, from 0 as the code counts.
Holds(data, i, octets) == \A k \in 1 .. Len(octets) : data[i + k] = octets[k]

\* What holds two sequences one after the other holds each in its place.
LEMMA HoldsParts ==
    ASSUME NEW S, NEW s \in Seq(S), NEW t \in Seq(S), NEW data, NEW i \in Nat, Holds(data, i, s \o t)
    PROVE  Holds(data, i, s) /\ Holds(data, i + Len(s), t)
<1>1. /\ Len(s \o t) = Len(s) + Len(t) /\ Len(s) \in Nat /\ Len(t) \in Nat
      /\ \A k \in 1 .. Len(s) : (s \o t)[k] = s[k]
      /\ \A k \in 1 .. Len(t) : (s \o t)[Len(s) + k] = t[k]
    BY Concatenation
<1>2. ASSUME NEW k \in 1 .. Len(s) PROVE data[i + k] = s[k]
    <2>1. k \in 1 .. Len(s \o t)
        BY <1>1
    <2> QED
        BY <1>1, <2>1 DEF Holds
<1>3. ASSUME NEW k \in 1 .. Len(t) PROVE data[(i + Len(s)) + k] = t[k]
    <2>1. Len(s) + k \in 1 .. Len(s \o t) /\ (i + Len(s)) + k = i + (Len(s) + k)
        BY <1>1
    <2>2. data[i + (Len(s) + k)] = (s \o t)[Len(s) + k]
        BY <2>1 DEF Holds
    <2> QED
        BY <1>1, <2>1, <2>2
<1> QED
    BY <1>2, <1>3 DEF Holds

\* A sequence holds itself.
LEMMA HoldsItself ==
    ASSUME NEW S, NEW s \in Seq(S)
    PROVE  Holds(s, 0, s)
<1>1. \A k \in 1 .. Len(s) : 0 + k = k
    OBVIOUS
<1> QED
    BY <1>1 DEF Holds

\* The parts of a sequence, and their lengths.
Parts(S, s, m, t, n) == s \in Seq(S) /\ Len(s) = m /\ t \in Seq(S) /\ Len(t) = n

\* Two parts together are as long as the two.
LEMMA PartsTogether ==
    ASSUME NEW S, NEW s, NEW m, NEW t, NEW n, Parts(S, s, m, t, n)
    PROVE  s \o t \in Seq(S) /\ Len(s \o t) = m + n
    BY Concatenation DEF Parts

\* HoldsParts, for parts.
LEMMA HoldsBoth ==
    ASSUME NEW S, NEW s, NEW m, NEW t, NEW n, Parts(S, s, m, t, n), NEW data, NEW i \in Nat, Holds(data, i, s \o t)
    PROVE  Holds(data, i, s) /\ Holds(data, i + m, t)
    BY HoldsParts DEF Parts

\* Octets of a certain number.
LEMMA OneOctet ==
    ASSUME NEW b \in Byte
    PROVE  <<b>> \in Seq(Byte) /\ Len(<<b>>) = 1
    OBVIOUS

\* What follows one another in the octets, as a sequence.
LEMMA OctetsReadBack ==
    ASSUME NEW data, NEW i \in Nat, NEW s \in Seq(Byte), Holds(data, i, s)
    PROVE  Octets(data, i, i + Len(s)) = s
<1> DEFINE n == Len(s)
<1>1. n \in Nat /\ DOMAIN s = 1 .. n /\ s = [k \in 1 .. n |-> s[k]]
    OBVIOUS
<1>2. Octets(data, i, i + n) = [k \in 1 .. ((i + n) - (i + 1) + 1) |-> data[(i + 1) + k - 1]]
    BY DEF Octets
<1> HIDE DEF n
<1>3. (i + n) - (i + 1) + 1 = n
    BY <1>1
<1>4. \A k \in 1 .. n : data[(i + 1) + k - 1] = s[k]
    <2>1. \A k \in 1 .. n : (i + 1) + k - 1 = i + k
        BY <1>1
    <2> QED
        BY <2>1 DEF Holds, n
<1> QED
    BY <1>1, <1>2, <1>3, <1>4 DEF n

-----------------------------------------------------------------------------
(* Numbers in BER. *)

\* The digits of a number are below their base.
LEMMA DigitsOctets ==
    ASSUME NEW base \in Nat, base > 1
    PROVE  /\ \A n \in Nat : Digits(n, base) \in Seq(Under(base))
           /\ \A n \in Nat : Digits(n, base) = IF n < base THEN <<n>>
                                              ELSE Append(Digits(n \div base, base), n % base)
<1> DEFINE Solution(D) == D = [i \in Nat |-> IF i < base THEN <<i>> ELSE Append(D[i \div base], i % base)]
           D == CHOOSE D : Solution(D)
           Size == [i \in Nat |-> i]
           Base == [i \in Under(base) |-> <<i>>]
           Down == [i \in Nat |-> i \div base]
           S == Seq(Under(base))
           Step == [p \in S \X Nat |-> Append(p[1], p[2] % base)]
<1>1. \A i \in Nat : i \div base \in Nat /\ i % base \in Under(base)
    BY DEF Under
<1>2. \A i \in Nat \ Under(base) : i \div base < i
    BY DEF Under
<1>3. Recursive(Nat, S, Size, Base, Down, Step)
    <2>1. Size \in [Nat -> Nat] /\ DOMAIN Base \in SUBSET Nat
        BY DEF Under
    <2>2. \A i \in DOMAIN Base : Base[i] \in S
        OBVIOUS
    <2>3. \A i \in Nat \ DOMAIN Base : Down[i] \in Nat /\ Size[Down[i]] < Size[i]
        BY <1>1, <1>2
    <2>4. \A i \in Nat, v \in S : Step[<<v, i>>] \in S
        <3> TAKE i \in Nat, v \in S
        <3>1. Append(v, i % base) \in S
            BY <1>1, AppendProperties
        <3>2. Step[<<v, i>>] = Append(v, i % base)
            OBVIOUS
        <3> QED
            BY <3>1, <3>2
    <2> HIDE DEF Size, Base, Down, S, Step
    <2> QED
        BY <2>1, <2>2, <2>3, <2>4 DEF Recursive
<1>4. PICK g : Recursion(Nat, S, Base, Down, Step, g)
    <2> HIDE DEF Size, Base, Down, S, Step
    <2> QED
        BY <1>3, RecursionExists
<1>5. g \in [Nat -> S]
    BY <1>4 DEF Recursion
<1>6. \A i \in Nat : g[i] = IF i < base THEN <<i>> ELSE Append(g[i \div base], i % base)
    <2>1. \A i \in Nat : g[i] = IF i \in DOMAIN Base THEN Base[i] ELSE Step[<<g[Down[i]], i>>]
        BY <1>4 DEF Recursion, Solves
    <2> SUFFICES ASSUME NEW i \in Nat PROVE g[i] = IF i < base THEN <<i>> ELSE Append(g[i \div base], i % base)
        OBVIOUS
    <2>2. CASE i < base
        BY <2>1, <2>2 DEF Under
    <2>3. CASE ~(i < base)
        <3>1. i \notin DOMAIN Base
            BY <2>3 DEF Under
        <3>2. Down[i] = i \div base /\ g[i \div base] \in S
            BY <1>1, <1>5
        <3>3. g[i] = Step[<<g[i \div base], i>>]
            BY <2>1, <3>1, <3>2
        <3>4. Step[<<g[i \div base], i>>] = Append(g[i \div base], i % base)
            BY <3>2
        <3> QED
            BY <2>3, <3>3, <3>4
    <2> QED
        BY <2>2, <2>3
<1>7. Solution(g)
    BY <1>5, <1>6
<1>8. Solution(D)
    <2> HIDE DEF Solution
    <2> QED
        BY <1>7
<1>9. \A i \in Nat : D[i] = IF i < base THEN <<i>> ELSE Append(D[i \div base], i % base)
    <2> HIDE DEF D
    <2> QED
        BY <1>8
<1>10. \A i \in Nat : D[i] = g[i]
    <2> DEFINE Differ == {i \in Nat : D[i] # g[i]}
    <2> HIDE DEF D
    <2>1. SUFFICES ASSUME Differ # {} PROVE FALSE
        OBVIOUS
    <2>2. PICK i \in Differ : \A j \in Differ : i <= j
        <3> Differ \in SUBSET Nat
            OBVIOUS
        <3> HIDE DEF Differ
        <3> QED
            BY <2>1, LeastOf
    <2>3. ~(i < base)
        BY <1>6, <1>9
    <2>4. i \div base \in Nat /\ i \div base < i
        BY <1>1, <1>2, <2>3 DEF Under
    <2>5. i \div base \in Differ
        BY <1>6, <1>9, <2>3, <2>4
    <2> QED
        BY <2>2, <2>4, <2>5
<1>11. \A i \in Nat : Digits(i, base) = D[i]
    BY DEF Digits
<1> HIDE DEF D
<1>12. \A i \in Nat : Digits(i, base) \in Seq(Under(base))
    BY <1>5, <1>10, <1>11
<1>13. \A i \in Nat : Digits(i, base) = IF i < base THEN <<i>>
                                      ELSE Append(Digits(i \div base, base), i % base)
    BY <1>1, <1>9, <1>11
<1> QED
    BY <1>12, <1>13

\* Those to base 256.
LEMMA OctetDigits ==
    ASSUME NEW n \in Nat, ~(n < 256)
    PROVE  Digits(n, 256) = Append(Digits(n \div 256, 256), n % 256)
<1> DEFINE base == 256
<1>1. base \in Nat /\ base > 1 /\ ~(n < base)
    OBVIOUS
<1> HIDE DEF base
<1>2. Digits(n, base) = Append(Digits(n \div base, base), n % base)
    BY <1>1, DigitsOctets
<1> QED
    BY <1>2 DEF base

\* An integer is encoded in octets (int64Encoder).
LEMMA Int64Octets ==
    /\ \A n \in Int : Int64(n) \in Seq(Byte)
    /\ \A n \in Int : Int64(n) = IF -128 <= n /\ n <= 127 THEN <<n % 256>>
                               ELSE Append(Int64(n \div 256), n % 256)
<1> DEFINE Solution(D) == D = [i \in Int |-> IF i \in -128 .. 127 THEN <<i % 256>>
                                            ELSE Append(D[i \div 256], i % 256)]
           D == CHOOSE D : Solution(D)
           Short == {i \in Int : -128 <= i /\ i <= 127}
           Size == [i \in Int |-> IF i >= 0 THEN i ELSE -i]
           Base == [i \in Short |-> <<i % 256>>]
           Down == [i \in Int |-> i \div 256]
           S == Seq(Byte)
           Step == [p \in S \X Int |-> Append(p[1], p[2] % 256)]
           Unfold(f, i) == IF i \in Short THEN <<i % 256>> ELSE Append(f[i \div 256], i % 256)
<1>0. \A i \in Int : i \in -128 .. 127 <=> i \in Short
    OBVIOUS
<1>1. \A i \in Int : i \div 256 \in Int /\ i % 256 \in Byte
    BY DEF Byte, Under
<1>2. \A i \in Int \ Short : Size[i \div 256] < Size[i]
    <2> SUFFICES ASSUME NEW i \in Int, i \notin Short PROVE Size[i \div 256] < Size[i]
        OBVIOUS
    <2>1. CASE i > 127
        <3>1. i \div 256 >= 0 /\ i \div 256 < i /\ i \div 256 \in Int
            BY <2>1
        <3> QED
            BY <2>1, <3>1
    <2>2. CASE i < -128
        <3>1. i \div 256 < 0 /\ i < i \div 256 /\ i \div 256 \in Int
            BY <2>2
        <3> QED
            BY <2>2, <3>1
    <2> QED
        BY <2>1, <2>2
<1>3. Recursive(Int, S, Size, Base, Down, Step)
    <2>1. Size \in [Int -> Nat] /\ DOMAIN Base \in SUBSET Int
        OBVIOUS
    <2>2. \A i \in DOMAIN Base : Base[i] \in S
        BY <1>1
    <2>3. \A i \in Int \ DOMAIN Base : Down[i] \in Int /\ Size[Down[i]] < Size[i]
        BY <1>1, <1>2
    <2>4. \A i \in Int, v \in S : Step[<<v, i>>] \in S
        <3> TAKE i \in Int, v \in S
        <3>1. Append(v, i % 256) \in S
            BY <1>1, AppendProperties, ZenonT(60)
        <3>2. Step[<<v, i>>] = Append(v, i % 256)
            OBVIOUS
        <3> QED
            BY <3>1, <3>2
    <2> HIDE DEF Size, Base, Down, S, Step
    <2> QED
        BY <2>1, <2>2, <2>3, <2>4 DEF Recursive
<1>4. PICK g : Recursion(Int, S, Base, Down, Step, g)
    <2> HIDE DEF Size, Base, Down, S, Step
    <2> QED
        BY <1>3, RecursionExists
<1>5. g \in [Int -> S]
    BY <1>4 DEF Recursion
<1>6. \A i \in Int : g[i] = IF i \in Short THEN <<i % 256>> ELSE Append(g[i \div 256], i % 256)
    <2>1. \A i \in Int : g[i] = IF i \in DOMAIN Base THEN Base[i] ELSE Step[<<g[Down[i]], i>>]
        BY <1>4 DEF Recursion, Solves
    <2> SUFFICES ASSUME NEW i \in Int
                 PROVE  g[i] = IF i \in Short THEN <<i % 256>> ELSE Append(g[i \div 256], i % 256)
        OBVIOUS
    <2>2. CASE i \in Short
        <3>1. Base[i] = <<i % 256>> /\ i \in DOMAIN Base
            BY <2>2
        <3> QED
            BY <2>1, <2>2, <3>1
    <2>3. CASE i \notin Short
        <3>1. i \notin DOMAIN Base 
            BY <2>3
        <3>2. Down[i] = i \div 256 /\ g[i \div 256] \in S
            BY <1>1, <1>5
        <3>3. g[i] = Step[<<g[i \div 256], i>>]
            BY <2>1, <3>1, <3>2, ZenonT(60)
        <3>4. Step[<<g[i \div 256], i>>] = Append(g[i \div 256], i % 256)
            BY <3>2
        <3> QED
            BY <2>3, <3>3, <3>4
    <2> QED
        BY <2>2, <2>3
<1>7. Solution(g)
    <2>1. g = [i \in Int |-> IF i \in Short THEN <<i % 256>> ELSE Append(g[i \div 256], i % 256)]
        <3> HIDE DEF Short, S
        <3> QED
            BY <1>5, <1>6
    <2> HIDE DEF Short
    <2> QED
        BY <1>0, <2>1, ZenonT(60)
<1>8. Solution(D)
    <2> HIDE DEF Solution
    <2> QED
        BY <1>7
<1>9. \A i \in Int : D[i] = IF i \in Short THEN <<i % 256>> ELSE Append(D[i \div 256], i % 256)
    <2>1. D = [i \in Int |-> IF i \in -128 .. 127 THEN <<i % 256>> ELSE Append(D[i \div 256], i % 256)]
        <3> HIDE DEF D
        <3> QED
            BY <1>8
    <2> HIDE DEF D, Short
    <2> QED
        BY <1>0, <2>1, ZenonT(60)
<1>a. \A i \in Int : g[i] = Unfold(g, i)
    BY <1>6
<1>b. \A i \in Int : D[i] = Unfold(D, i)
    BY <1>9
<1>c. ASSUME NEW f, NEW e, NEW i \in Int, i \in Short PROVE Unfold(f, i) = Unfold(e, i)
    <2> HIDE DEF Short
    <2> QED
        BY <1>c
<1>d. ASSUME NEW f, NEW e, NEW i \in Int, f[i \div 256] = e[i \div 256] PROVE Unfold(f, i) = Unfold(e, i)
    <2> HIDE DEF Short
    <2> QED
        BY <1>d
<1>10. \A i \in Int : D[i] = g[i]
    <2> HIDE DEF Unfold
    <2> DEFINE Sizes == {Size[i] : i \in {j \in Int : D[j] # g[j]}}
    <2> HIDE DEF D
    <2>1. SUFFICES ASSUME Sizes # {} PROVE FALSE
        OBVIOUS
    <2>3. Sizes \in SUBSET Nat
        OBVIOUS
    <2>4. PICK s \in Sizes : \A u \in Sizes : s <= u
        <3> HIDE DEF Sizes
        <3> QED
            BY <2>1, <2>3, LeastOf
    <2>5. PICK i \in Int : D[i] # g[i] /\ Size[i] = s
        OBVIOUS
    <2>6. i \notin Short
        BY <1>a, <1>b, <1>c, <2>5
    <2>7. D[i \div 256] # g[i \div 256] /\ i \div 256 \in Int
        <3> HIDE DEF Short
        <3> QED
            BY <1>1, <1>a, <1>b, <1>d, <2>5
    <2>8. Size[i \div 256] \in Sizes /\ Size[i \div 256] \in Nat
        BY <2>7
    <2>9. Size[i \div 256] < Size[i] /\ s <= Size[i \div 256] /\ s \in Nat
        BY <1>2, <2>3, <2>4, <2>6, <2>8
    <2> HIDE DEF Size
    <2> QED
        BY <2>5, <2>8, <2>9
<1>11. \A i \in Int : Int64(i) = D[i]
    BY DEF Int64
<1> HIDE DEF D
<1>12. \A i \in Int : Int64(i) \in Seq(Byte)
    BY <1>5, <1>10, <1>11
<1>13. \A i \in Int : Int64(i) = IF i \in Short THEN <<i % 256>>
                                ELSE Append(Int64(i \div 256), i % 256)
    <2> SUFFICES ASSUME NEW i \in Int
                 PROVE  Int64(i) = IF i \in Short THEN <<i % 256>> ELSE Append(Int64(i \div 256), i % 256)
        OBVIOUS
    <2>1. Int64(i) = D[i] /\ Int64(i \div 256) = D[i \div 256]
        BY <1>1, <1>11
    <2>2. D[i] = IF i \in Short THEN <<i % 256>> ELSE Append(D[i \div 256], i % 256)
        BY <1>9
    <2> HIDE DEF Short
    <2> QED
        BY <2>1, <2>2
<1> QED
    BY <1>12, <1>13

\* What is written is octets, as long as it is not too long: a length of 2^1016
\* and more would not have its number of octets in one octet.
Encoded == {m \in Seq(Nat) : Len(m) < 65536 => m \in Seq(Byte)}

\* Octets are numbers, and are encoded.
LEMMA BytesAreNumbers == Byte \in SUBSET Nat /\ \A m \in Seq(Byte) : m \in Seq(Nat) /\ m \in Encoded
<1>1. Byte \in SUBSET Nat
    BY DEF Byte, Under
<1>2. \A m \in Seq(Byte) : m \in Seq(Nat)
    BY <1>1, SeqMonotonic
<1> QED
    BY <1>1, <1>2 DEF Encoded

\* What is encoded, followed by what is encoded, is encoded.
LEMMA EncodedTogether ==
    ASSUME NEW a \in Encoded, NEW b \in Encoded
    PROVE  a \o b \in Encoded
<1>1. a \in Seq(Nat) /\ b \in Seq(Nat)
    BY DEF Encoded
<1>2. a \o b \in Seq(Nat) /\ Len(a \o b) = Len(a) + Len(b) /\ Len(a) \in Nat /\ Len(b) \in Nat
    BY <1>1, Concatenation
<1>3. ASSUME Len(a \o b) < 65536 PROVE a \o b \in Seq(Byte)
    <2>1. Len(a) < 65536 /\ Len(b) < 65536
        BY <1>2, <1>3
    <2>2. a \in Seq(Byte) /\ b \in Seq(Byte)
        BY <2>1 DEF Encoded
    <2> QED
        BY <2>2, Concatenation
<1> QED
    BY <1>2, <1>3 DEF Encoded

\* So is a sequence of what is encoded.
LEMMA EncodedOneAfterAnother ==
    ASSUME NEW parts \in Seq(Encoded)
    PROVE  FlattenSeq(parts) \in Encoded
<1> DEFINE n == Len(parts)
<1>1. n \in Nat /\ \A k \in 1 .. n : parts[k] \in Encoded
    OBVIOUS
<1>2. parts \in Seq(Seq(Nat))
    <2>1. Encoded \in SUBSET Seq(Nat)
        BY DEF Encoded
    <2> QED
        BY <2>1, SeqMonotonic
<1>3. PICK f : Flattening(Nat, parts, f) /\ FlattenSeq(parts) = f[n]
    BY <1>2, Flattens
<1>4. f[0] = <<>> /\ \A k \in 1 .. n : f[k] = f[k - 1] \o parts[k]
    BY <1>3 DEF Flattening
<1> HIDE DEF n
<1> DEFINE T == {j \in Nat : j <= n => f[j] \in Encoded}
<1>5. 0 \in T
    <2>1. <<>> \in Seq(Byte)
        BY EmptySeq
    <2>2. <<>> \in Encoded
        BY <2>1, BytesAreNumbers
    <2> QED
        BY <1>4, <2>2
<1>6. ASSUME NEW j \in Nat, j \in T PROVE j + 1 \in T
    <2>1. SUFFICES ASSUME j + 1 <= n PROVE f[j + 1] \in Encoded
        OBVIOUS
    <2> DEFINE k == j + 1
    <2>2. k \in 1 .. n /\ k - 1 = j /\ j <= n
        BY <1>1, <2>1
    <2>3. f[j] \in Encoded
        BY <1>6, <2>2
    <2> HIDE DEF k
    <2>4. f[k] = f[j] \o parts[k] /\ parts[k] \in Encoded
        BY <1>1, <1>4, <2>2
    <2>5. f[k] \in Encoded
        BY <2>3, <2>4, EncodedTogether
    <2> QED
        BY <2>5 DEF k
<1>7. \A j \in Nat : j \in T
    <2> HIDE DEF T
    <2> QED
        BY <1>5, <1>6, NatSet
<1> QED
    BY <1>1, <1>3, <1>7

\* The identifier of a field is octets, whatever its number.
LEMMA IdentifierOctets ==
    ASSUME NEW class \in {0, 2}, NEW constructed \in BOOLEAN, NEW number \in Nat
    PROVE  Identifier(class, constructed, number) \in Seq(Byte)
<1> DEFINE first == 64 * class + IF constructed THEN 32 ELSE 0
           digits == Digits(number, 128)
           d == [i \in DOMAIN digits |-> IF i < Len(digits) THEN digits[i] + 128 ELSE digits[i]]
<1>1. first \in {0, 32, 128, 160}
    OBVIOUS
<1>2. digits \in Seq(Under(128))
    BY DigitsOctets
<1> HIDE DEF first, digits
<1>3. CASE number <= 30
    <2>1. first + number \in Byte
        BY <1>1, <1>3 DEF Byte, Under
    <2>2. Identifier(class, constructed, number) = <<first + number>>
        BY <1>3 DEF Identifier, first
    <2> QED
        BY <2>1, <2>2
<1>4. CASE ~(number <= 30)
    <2>1. first + 31 \in Byte
        BY <1>1 DEF Byte, Under
    <2>2. DOMAIN digits = 1 .. Len(digits) /\ Len(digits) \in Nat
        BY <1>2
    <2>3. \A i \in 1 .. Len(digits) : (IF i < Len(digits) THEN digits[i] + 128 ELSE digits[i]) \in Byte
        <3> TAKE i \in 1 .. Len(digits)
        <3>1. digits[i] \in Under(128)
            BY <1>2
        <3>2. digits[i] + 128 \in Byte /\ digits[i] \in Byte
            BY <3>1 DEF Byte, Under
        <3> QED
            BY <3>2
    <2>4. d \in Seq(Byte)
        <3>1. d \in [1 .. Len(digits) -> Byte]
            BY <2>2, <2>3
        <3> HIDE DEF d
        <3> QED
            BY <2>2, <3>1, SeqDef
    <2>5. Identifier(class, constructed, number) = <<first + 31>> \o d
        BY <1>4 DEF Identifier, first, digits
    <2> HIDE DEF d
    <2>6. <<first + 31>> \in Seq(Byte)
        BY <2>1, OneOctet
    <2> QED
        BY <2>4, <2>5, <2>6, Concatenation
<1> QED
    BY <1>3, <1>4

\* The length of contents of less than 65536 octets is octets.
LEMMA LengthOctetsOctets ==
    /\ \A n \in Nat : LengthOctets(n) \in Seq(Nat)
    /\ \A n \in Nat : n < 65536 => LengthOctets(n) \in Seq(Byte)
<1> SUFFICES ASSUME NEW n \in Nat
             PROVE  /\ LengthOctets(n) \in Seq(Nat)
                    /\ n < 65536 => LengthOctets(n) \in Seq(Byte)
    OBVIOUS
<1>1. CASE n <= 127
    <2>1. n \in Byte
        BY <1>1 DEF Byte, Under
    <2>2. LengthOctets(n) = <<n>>
        BY <1>1 DEF LengthOctets
    <2> QED
        BY <2>1, <2>2
<1>2. CASE ~(n <= 127)
    <2> DEFINE digits == Digits(n, 256)
    <2>1. LengthOctets(n) = <<128 + Len(digits)>> \o digits
        BY <1>2 DEF LengthOctets
    <2>2. digits \in Seq(Byte)
        BY DigitsOctets DEF Byte
    <2> HIDE DEF digits
    <2>3. digits \in Seq(Nat) /\ Len(digits) \in Nat
        BY <2>2, BytesAreNumbers
    <2>4. <<128 + Len(digits)>> \in Seq(Nat)
        BY <2>3
    <2>5. LengthOctets(n) \in Seq(Nat)
        BY <2>1, <2>3, <2>4, Concatenation
    <2>6. ASSUME n < 65536 PROVE LengthOctets(n) \in Seq(Byte)
        <3>1. n \div 256 \in Nat /\ n \div 256 < 256 /\ n % 256 \in Nat
            BY <2>6
        <3>2. CASE n < 256
            <4>1. digits = <<n>>
                BY <3>2, DigitsOctets DEF digits
            <4>2. 128 + Len(digits) \in Byte
                BY <4>1 DEF Byte, Under
            <4> QED
                BY <2>1, <2>2, <4>2, OneOctet, Concatenation
        <3>3. CASE ~(n < 256)
            <4>1. Digits(n \div 256, 256) = <<n \div 256>>
                BY <3>1, DigitsOctets
            <4>6. Digits(n, 256) = Append(Digits(n \div 256, 256), n % 256)
                BY <3>3, OctetDigits
            <4>2. digits = Append(<<n \div 256>>, n % 256)
                BY <3>3, <4>1, <4>6 DEF digits
            <4>3. Len(digits) = 2
                BY <4>2
            <4>4. 128 + Len(digits) \in Byte
                BY <4>3 DEF Byte, Under
            <4> QED
                BY <2>1, <2>2, <4>4, OneOctet, Concatenation
        <3> QED
            BY <3>2, <3>3
    <2> QED
        BY <2>5, <2>6
<1> QED
    BY <1>1, <1>2

\* Contents with their tag and length are encoded (appendTagAndLen).
LEMMA TagLenValueEncoded ==
    ASSUME NEW class \in {0, 2}, NEW constructed \in BOOLEAN, NEW number \in Nat,
           NEW contents \in Encoded
    PROVE  TagLenValue(class, constructed, number, contents) \in Encoded
<1> DEFINE a == Identifier(class, constructed, number)
           b == LengthOctets(Len(contents))
           n == Len(contents)
<1>1. a \in Seq(Byte) /\ a \in Seq(Nat)
    BY IdentifierOctets, BytesAreNumbers
<1>2. contents \in Seq(Nat) /\ n \in Nat
    BY DEF Encoded
<1>3. b \in Seq(Nat) /\ (n < 65536 => b \in Seq(Byte))
    BY <1>2, LengthOctetsOctets
<1> HIDE DEF a, b, n
<1>4. a \o b \in Seq(Nat) /\ Len(a \o b) \in Nat
    BY <1>1, <1>3, Concatenation
<1>5. /\ (a \o b) \o contents \in Seq(Nat) /\ Len((a \o b) \o contents) = Len(a \o b) + n
    BY <1>2, <1>4, Concatenation DEF n
<1>6. ASSUME Len((a \o b) \o contents) < 65536 PROVE (a \o b) \o contents \in Seq(Byte)
    <2>1. n < 65536
        BY <1>2, <1>4, <1>5, <1>6
    <2>2. contents \in Seq(Byte) /\ b \in Seq(Byte)
        BY <2>1, <1>3 DEF Encoded, n
    <2>3. a \o b \in Seq(Byte)
        BY <1>1, <2>2, Concatenation
    <2> QED
        BY <2>2, <2>3, Concatenation
<1>7. (a \o b) \o contents \in Encoded
    BY <1>5, <1>6 DEF Encoded
<1> QED
    BY <1>7 DEF TagLenValue, a, b

-----------------------------------------------------------------------------
(* What the encoder takes. *)

IsSequence(s) == \E S : s \in Seq(S)

\* Where the elements of a sequence are.
LEMMA SequenceDomain ==
    ASSUME NEW s, IsSequence(s)
    PROVE  Len(s) \in Nat /\ DOMAIN s = 1 .. Len(s)
    BY DEF IsSequence

Params == [tagNumber : Nat \cup {NoTag}, set : BOOLEAN, stringType : Nat]

IsFields(fields) ==
    \E m \in Nat : DOMAIN fields = 1 .. m /\ \A i \in 1 .. m : fields[i].params \in Params

Simple(value, type) ==
    \/ type.kind \in {"int", "enum"} /\ value \in Int
    \/ type.kind \in {"octets", "string"} /\ value \in Seq(Byte)
    \/ type.kind = "bool" /\ value \in BOOLEAN
    \/ type.kind = "null"
    \/ type.kind = "bits" /\ value \in [Bytes : Seq(Byte), BitLength : Nat]

\* A structure has one of its fields at least, and a CHOICE has chosen one.
HasType(Inner(_, _), value, type) ==
    \/ Simple(value, type)
    \/ /\ type.kind = "struct"
       /\ IsFields(type.fields)
       /\ DOMAIN value = DOMAIN type.fields
       /\ \E i \in DOMAIN value : value[i] # <<>>
       /\ \A i \in DOMAIN value : value[i] # <<>> => Inner(value[i][1], type.fields[i].type)
    \/ /\ type.kind = "slice"
       /\ IsSequence(value)
       /\ \A i \in DOMAIN value : Inner(value[i], type.type)
    \/ /\ type.kind = "choice"
       /\ IsFields(type.fields)
       /\ value.Present \in DOMAIN type.fields
       /\ Inner(value.Value, type.fields[value.Present].type)

\* The values of types of so many levels.
Value1(value, type) == HasType(LAMBDA v, t : FALSE, value, type)

Value2(value, type) == HasType(Value1, value, type)

Value3(value, type) == HasType(Value2, value, type)

Value4(value, type) == HasType(Value3, value, type)

Value5(value, type) == HasType(Value4, value, type)

Value6(value, type) == HasType(Value5, value, type)

Value(value, type) == HasType(Value6, value, type)

\* The contents of a field with the tag it has, if any, are encoded.
LEMMA TaggedEncoded ==
    ASSUME NEW type, NEW params \in Params, NEW contents \in Encoded
    PROVE  Tagged(type, params, contents) \in Encoded
<1>1. Constructed(type) \in BOOLEAN
    BY DEF Constructed
<1>2. params.stringType \in Nat /\ params.tagNumber \in Nat \cup {NoTag}
    BY DEF Params
<1>3. UniversalTag(type, params) \in Nat
    BY <1>2 DEF UniversalTag, TagBoolean, TagInteger, TagEnumerated, TagBitString, TagOctetString,
                TagNull, TagSet, TagSequence
<1>4. ClassContextSpecific \in {0, 2} /\ ClassUniversal \in {0, 2}
    BY DEF ClassContextSpecific, ClassUniversal
<1>5. CASE params.tagNumber # NoTag
    BY <1>1, <1>2, <1>4, <1>5, TagLenValueEncoded DEF Tagged
<1>6. CASE params.tagNumber = NoTag
    BY <1>1, <1>3, <1>4, <1>6, TagLenValueEncoded DEF Tagged
<1> QED
    BY <1>5, <1>6

\* What is made of parts, however deep they go.
Composite(value, type) ==
    \/ /\ type.kind = "struct"
       /\ IsFields(type.fields)
       /\ DOMAIN value = DOMAIN type.fields
       /\ \E i \in DOMAIN value : value[i] # <<>>
    \/ type.kind = "slice" /\ IsSequence(value)
    \/ /\ type.kind = "choice"
       /\ IsFields(type.fields)
       /\ value.Present \in DOMAIN type.fields

\* What a simple value is encoded as.
LEMMA SimpleEncoded ==
    ASSUME NEW value, NEW type, Simple(value, type), NEW params \in Params,
           NEW outcomes, DOMAIN outcomes = {}, NEW parts, parts = <<>>
    PROVE  /\ Members(value, type, params) = <<>>
           /\ OutcomeOfMembers(value, type, params, outcomes) = "ok"
           /\ Contents(value, type, parts) \in Encoded
<1>1. Members(value, type, params) = <<>>
    BY DEF Members, Simple
<1>2. OutcomeOfMembers(value, type, params, outcomes) = "ok"
    BY DEF OutcomeOfMembers, Simple
<1>3. CASE type.kind \in {"int", "enum"} /\ value \in Int
    <2>1. Int64(value) \in Seq(Byte)
        BY <1>3, Int64Octets
    <2> QED
        BY <1>1, <1>2, <1>3, <2>1, BytesAreNumbers DEF Contents
<1>4. CASE type.kind \in {"octets", "string"} /\ value \in Seq(Byte)
    BY <1>1, <1>2, <1>4, BytesAreNumbers DEF Contents
<1>5. CASE type.kind = "bool" /\ value \in BOOLEAN
    <2>1. <<255>> \in Seq(Byte) /\ <<0>> \in Seq(Byte)
        BY DEF Byte, Under
    <2> QED
        BY <1>1, <1>2, <1>5, <2>1, BytesAreNumbers DEF Contents
<1>6. CASE type.kind = "null"
    <2>1. FlattenSeq(parts) \in Encoded
        BY EmptySeq, EncodedOneAfterAnother
    <2> QED
        BY <1>1, <1>2, <1>6, <2>1 DEF Contents
<1>7. CASE type.kind = "bits" /\ value \in [Bytes : Seq(Byte), BitLength : Nat]
    <2>1. value.Bytes \in Seq(Byte) /\ value.BitLength \in Nat
        BY <1>7
    <2>2. 8 - (value.BitLength % 8) \in Byte
        BY <2>1 DEF Byte, Under
    <2>3. BitString(value) \in Seq(Byte)
        BY <2>1, <2>2, OneOctet, Concatenation DEF BitString
    <2> QED
        BY <1>1, <1>2, <1>7, <2>3, BytesAreNumbers DEF Contents
<1> QED
    BY <1>3, <1>4, <1>5, <1>6, <1>7 DEF Simple

\* What is left out is encoded as nothing.
LEMMA EncodedNothing == <<>> \in Encoded
<1>1. <<>> \in Seq(Byte)
    BY EmptySeq
<1> QED
    BY <1>1, BytesAreNumbers

\* EncodedOneAfterAnother, for parts given as a function.
LEMMA EncodedParts ==
    ASSUME NEW D, \E m \in Nat : D = 1 .. m, NEW parts \in [D -> Encoded]
    PROVE  FlattenSeq(parts) \in Encoded
<1>1. parts \in Seq(Encoded)
    BY SeqDef
<1> QED
    BY <1>1, EncodedOneAfterAnother

\* A value of one level is encoded without an error and without a panic.
\* The members of what is made of parts stand one after the other, each with
\* parameters of its own.
LEMMA CompositeMembers ==
    ASSUME NEW value, NEW type, Composite(value, type), NEW params \in Params
    PROVE  /\ \E m \in Nat : DOMAIN Members(value, type, params) = 1 .. m
           /\ \A i \in DOMAIN Members(value, type, params) :
                 Members(value, type, params)[i] # <<>> =>
                     Members(value, type, params)[i][1].params \in Params
<1> DEFINE members == Members(value, type, params)
<1>1. CASE type.kind = "struct" /\ IsFields(type.fields)
    <2>1. members = [i \in DOMAIN type.fields |->
                       IF value[i] = <<>> THEN <<>>
                       ELSE Member(value[i][1], type.fields[i].type, type.fields[i].params)]
        BY <1>1 DEF Members
    <2> HIDE DEF members
    <2>2. DOMAIN members = DOMAIN type.fields
        BY <2>1
    <2>3. \A i \in DOMAIN members : members[i] # <<>> => members[i][1].params = type.fields[i].params
        BY <2>1 DEF Member
    <2>4. \E m \in Nat : DOMAIN members = 1 .. m
        BY <1>1, <2>2 DEF IsFields
    <2>5. \A i \in DOMAIN members : members[i] # <<>> => members[i][1].params \in Params
        BY <1>1, <2>2, <2>3 DEF IsFields
    <2> QED
        BY <2>4, <2>5 DEF members
<1>2. CASE type.kind = "slice" /\ IsSequence(value)
    <2>1. members = [i \in DOMAIN value |-> Member(value[i], type.type, ElementParams(params))]
        BY <1>2 DEF Members
    <2>2. ElementParams(params) \in Params
        BY DEF ElementParams, Params
    <2> HIDE DEF members
    <2> QED
        BY <1>2, <2>1, <2>2, SequenceDomain DEF Member, members
<1>3. CASE type.kind = "choice" /\ IsFields(type.fields) /\ value.Present \in DOMAIN type.fields
    <2>1. members = <<Member(value.Value, type.fields[value.Present].type,
                             type.fields[value.Present].params)>>
        BY <1>3 DEF Members
    <2>2. type.fields[value.Present].params \in Params
        BY <1>3 DEF IsFields
    <2> HIDE DEF members
    <2> QED
        BY <2>1, <2>2 DEF Member, members
<1> QED
    BY <1>1, <1>2, <1>3 DEF Composite

\* It is encoded if all of them are.
LEMMA CompositeEncoded ==
    ASSUME NEW value, NEW type, Composite(value, type), NEW params \in Params, NEW outcomes,
           \A i \in DOMAIN outcomes : outcomes[i] = "ok"
    PROVE  /\ OutcomeOfMembers(value, type, params, outcomes) = "ok"
           /\ \A parts : Contents(value, type, parts) = FlattenSeq(parts)
<1>1. CASE type.kind = "struct" /\ \E i \in DOMAIN value : value[i] # <<>>
    BY <1>1 DEF OutcomeOfMembers, Contents
<1>2. CASE type.kind = "slice"
    BY <1>2 DEF OutcomeOfMembers, Contents
<1>3. CASE type.kind = "choice" /\ IsFields(type.fields) /\ value.Present \in DOMAIN type.fields
    <2>1. value.Present # 0
        BY <1>3 DEF IsFields
    <2> QED
        BY <1>3, <2>1 DEF OutcomeOfMembers, Contents
<1> QED
    BY <1>1, <1>2, <1>3 DEF Composite

\* Every value of a type of so many levels can be encoded, and is in octets
\* while it is shorter than 65536 of them.
LEMMA Encoded1 ==
    ASSUME NEW value, NEW type, NEW params \in Params, Value1(value, type)
    PROVE  Outcome1(value, type, params) = "ok" /\ Marshal1(value, type, params) \in Encoded
<1> DEFINE members == Members(value, type, params)
           outcomes == [i \in DOMAIN members |-> IF members[i] = <<>> THEN "ok"
                          ELSE "ok"]
           parts == [i \in DOMAIN members |-> IF members[i] = <<>> THEN <<>>
                       ELSE <<>>]
<1>1. Outcome1(value, type, params) = OutcomeOfMembers(value, type, params, outcomes)
    BY DEF Outcome1, OutcomeOf
<1>2. Marshal1(value, type, params) = Tagged(type, params, Contents(value, type, parts))
    BY DEF Marshal1, MakeField
<1>3. CASE Simple(value, type)
    <2>1. members = <<>>
        BY <1>3, SimpleEncoded
    <2>2. DOMAIN outcomes = {} /\ parts = <<>>
        BY <2>1
    <2> HIDE DEF members, outcomes, parts
    <2>3. /\ OutcomeOfMembers(value, type, params, outcomes) = "ok"
          /\ Contents(value, type, parts) \in Encoded
        BY <1>3, <2>2, SimpleEncoded
    <2> QED
        BY <1>1, <1>2, <2>3, TaggedEncoded
<1>4. CASE /\ Composite(value, type)
           /\ \A i \in DOMAIN members : members[i] = <<>>
    <2>1. outcomes = [i \in DOMAIN members |-> "ok"]
        BY <1>4
    <2>2. parts \in [DOMAIN members -> Encoded]
        BY <1>4, EncodedNothing
    <2>3. \A i \in DOMAIN outcomes : outcomes[i] = "ok"
        BY <2>1
    <2>4. \E m \in Nat : DOMAIN members = 1 .. m
        BY <1>4, CompositeMembers
    <2> HIDE DEF members, outcomes, parts
    <2>5. FlattenSeq(parts) \in Encoded
        BY <2>2, <2>4, EncodedParts
    <2>6. /\ OutcomeOfMembers(value, type, params, outcomes) = "ok"
          /\ Contents(value, type, parts) = FlattenSeq(parts)
        BY <1>4, <2>3, CompositeEncoded
    <2> QED
        BY <1>1, <1>2, <2>5, <2>6, TaggedEncoded
<1>5. CASE /\ type.kind = "struct"
           /\ IsFields(type.fields)
           /\ DOMAIN value = DOMAIN type.fields
           /\ \E i \in DOMAIN value : value[i] # <<>>
           /\ \A i \in DOMAIN value : value[i] # <<>> => FALSE
    <2>1. Composite(value, type)
        BY <1>5 DEF Composite
    <2>2. members = [i \in DOMAIN type.fields |->
                       IF value[i] = <<>> THEN <<>>
                       ELSE Member(value[i][1], type.fields[i].type, type.fields[i].params)]
        BY <1>5 DEF Members
    <2> HIDE DEF members
    <2>3. \A i \in DOMAIN members :
             members[i] = <<>>
        BY <1>5, <2>2 DEF Member
    <2> QED
        BY <1>4, <2>1, <2>3 DEF members
<1>6. CASE /\ type.kind = "slice"
           /\ IsSequence(value)
           /\ \A i \in DOMAIN value : FALSE
    <2>1. Composite(value, type)
        BY <1>6 DEF Composite
    <2>2. members = [i \in DOMAIN value |-> Member(value[i], type.type, ElementParams(params))]
        BY <1>6 DEF Members
    <2> HIDE DEF members
    <2>3. \A i \in DOMAIN members :
             members[i] = <<>>
        BY <1>6, <2>2 DEF Member
    <2> QED
        BY <1>4, <2>1, <2>3 DEF members
<1>7. CASE /\ type.kind = "choice"
           /\ IsFields(type.fields)
           /\ value.Present \in DOMAIN type.fields
           /\ FALSE
    <2>1. Composite(value, type)
        BY <1>7 DEF Composite
    <2>2. members = <<Member(value.Value, type.fields[value.Present].type,
                             type.fields[value.Present].params)>>
        BY <1>7 DEF Members
    <2> HIDE DEF members
    <2>3. \A i \in DOMAIN members :
             members[i] = <<>>
        BY <1>7, <2>2 DEF Member
    <2> QED
        BY <1>4, <2>1, <2>3 DEF members
<1> QED
    BY <1>3, <1>5, <1>6, <1>7 DEF Value1, HasType

\* Values of types 2 levels deep are encoded.
LEMMA Encoded2 ==
    ASSUME NEW value, NEW type, NEW params \in Params, Value2(value, type)
    PROVE  Outcome2(value, type, params) = "ok" /\ Marshal2(value, type, params) \in Encoded
<1> DEFINE members == Members(value, type, params)
           outcomes == [i \in DOMAIN members |-> IF members[i] = <<>> THEN "ok"
                          ELSE Outcome1(members[i][1].value, members[i][1].type, members[i][1].params)]
           parts == [i \in DOMAIN members |-> IF members[i] = <<>> THEN <<>>
                       ELSE Marshal1(members[i][1].value, members[i][1].type, members[i][1].params)]
<1>1. Outcome2(value, type, params) = OutcomeOfMembers(value, type, params, outcomes)
    BY DEF Outcome2, OutcomeOf
<1>2. Marshal2(value, type, params) = Tagged(type, params, Contents(value, type, parts))
    BY DEF Marshal2, MakeField
<1>3. CASE Simple(value, type)
    <2>1. members = <<>>
        BY <1>3, SimpleEncoded
    <2>2. DOMAIN outcomes = {} /\ parts = <<>>
        BY <2>1
    <2> HIDE DEF members, outcomes, parts
    <2>3. /\ OutcomeOfMembers(value, type, params, outcomes) = "ok"
          /\ Contents(value, type, parts) \in Encoded
        BY <1>3, <2>2, SimpleEncoded
    <2> QED
        BY <1>1, <1>2, <2>3, TaggedEncoded
<1>4. CASE /\ Composite(value, type)
           /\ \A i \in DOMAIN members :
                 members[i] # <<>> => Value1(members[i][1].value, members[i][1].type)
    <2>1. ASSUME NEW i \in DOMAIN members, members[i] # <<>>
          PROVE  Outcome1(members[i][1].value, members[i][1].type, members[i][1].params) = "ok" /\ Marshal1(members[i][1].value, members[i][1].type, members[i][1].params) \in Encoded
        <3>1. members[i][1].params \in Params
            BY <1>4, <2>1, CompositeMembers
        <3> QED
            BY <1>4, <2>1, <3>1, Encoded1
    <2>2. parts \in [DOMAIN members -> Encoded]
        BY <2>1, EncodedNothing
    <2>3. \A i \in DOMAIN outcomes : outcomes[i] = "ok"
        BY <2>1
    <2>4. \E m \in Nat : DOMAIN members = 1 .. m
        BY <1>4, CompositeMembers
    <2> HIDE DEF members, outcomes, parts
    <2>5. FlattenSeq(parts) \in Encoded
        BY <2>2, <2>4, EncodedParts
    <2>6. /\ OutcomeOfMembers(value, type, params, outcomes) = "ok"
          /\ Contents(value, type, parts) = FlattenSeq(parts)
        BY <1>4, <2>3, CompositeEncoded
    <2> QED
        BY <1>1, <1>2, <2>5, <2>6, TaggedEncoded
<1>5. CASE /\ type.kind = "struct"
           /\ IsFields(type.fields)
           /\ DOMAIN value = DOMAIN type.fields
           /\ \E i \in DOMAIN value : value[i] # <<>>
           /\ \A i \in DOMAIN value : value[i] # <<>> => Value1(value[i][1], type.fields[i].type)
    <2>1. Composite(value, type)
        BY <1>5 DEF Composite
    <2>2. members = [i \in DOMAIN type.fields |->
                       IF value[i] = <<>> THEN <<>>
                       ELSE Member(value[i][1], type.fields[i].type, type.fields[i].params)]
        BY <1>5 DEF Members
    <2> HIDE DEF members
    <2>3. \A i \in DOMAIN members :
             members[i] # <<>> => Value1(members[i][1].value, members[i][1].type)
        BY <1>5, <2>2 DEF Member
    <2> QED
        BY <1>4, <2>1, <2>3 DEF members
<1>6. CASE /\ type.kind = "slice"
           /\ IsSequence(value)
           /\ \A i \in DOMAIN value : Value1(value[i], type.type)
    <2>1. Composite(value, type)
        BY <1>6 DEF Composite
    <2>2. members = [i \in DOMAIN value |-> Member(value[i], type.type, ElementParams(params))]
        BY <1>6 DEF Members
    <2> HIDE DEF members
    <2>3. \A i \in DOMAIN members :
             members[i] # <<>> => Value1(members[i][1].value, members[i][1].type)
        BY <1>6, <2>2 DEF Member
    <2> QED
        BY <1>4, <2>1, <2>3 DEF members
<1>7. CASE /\ type.kind = "choice"
           /\ IsFields(type.fields)
           /\ value.Present \in DOMAIN type.fields
           /\ Value1(value.Value, type.fields[value.Present].type)
    <2>1. Composite(value, type)
        BY <1>7 DEF Composite
    <2>2. members = <<Member(value.Value, type.fields[value.Present].type,
                             type.fields[value.Present].params)>>
        BY <1>7 DEF Members
    <2> HIDE DEF members
    <2>3. \A i \in DOMAIN members :
             members[i] # <<>> => Value1(members[i][1].value, members[i][1].type)
        BY <1>7, <2>2 DEF Member
    <2> QED
        BY <1>4, <2>1, <2>3 DEF members
<1> QED
    BY <1>3, <1>5, <1>6, <1>7 DEF Value2, HasType

\* Values of types 3 levels deep are encoded.
LEMMA Encoded3 ==
    ASSUME NEW value, NEW type, NEW params \in Params, Value3(value, type)
    PROVE  Outcome3(value, type, params) = "ok" /\ Marshal3(value, type, params) \in Encoded
<1> DEFINE members == Members(value, type, params)
           outcomes == [i \in DOMAIN members |-> IF members[i] = <<>> THEN "ok"
                          ELSE Outcome2(members[i][1].value, members[i][1].type, members[i][1].params)]
           parts == [i \in DOMAIN members |-> IF members[i] = <<>> THEN <<>>
                       ELSE Marshal2(members[i][1].value, members[i][1].type, members[i][1].params)]
<1>1. Outcome3(value, type, params) = OutcomeOfMembers(value, type, params, outcomes)
    BY DEF Outcome3, OutcomeOf
<1>2. Marshal3(value, type, params) = Tagged(type, params, Contents(value, type, parts))
    BY DEF Marshal3, MakeField
<1>3. CASE Simple(value, type)
    <2>1. members = <<>>
        BY <1>3, SimpleEncoded
    <2>2. DOMAIN outcomes = {} /\ parts = <<>>
        BY <2>1
    <2> HIDE DEF members, outcomes, parts
    <2>3. /\ OutcomeOfMembers(value, type, params, outcomes) = "ok"
          /\ Contents(value, type, parts) \in Encoded
        BY <1>3, <2>2, SimpleEncoded
    <2> QED
        BY <1>1, <1>2, <2>3, TaggedEncoded
<1>4. CASE /\ Composite(value, type)
           /\ \A i \in DOMAIN members :
                 members[i] # <<>> => Value2(members[i][1].value, members[i][1].type)
    <2>1. ASSUME NEW i \in DOMAIN members, members[i] # <<>>
          PROVE  Outcome2(members[i][1].value, members[i][1].type, members[i][1].params) = "ok" /\ Marshal2(members[i][1].value, members[i][1].type, members[i][1].params) \in Encoded
        <3>1. members[i][1].params \in Params
            BY <1>4, <2>1, CompositeMembers
        <3> QED
            BY <1>4, <2>1, <3>1, Encoded2
    <2>2. parts \in [DOMAIN members -> Encoded]
        BY <2>1, EncodedNothing
    <2>3. \A i \in DOMAIN outcomes : outcomes[i] = "ok"
        BY <2>1
    <2>4. \E m \in Nat : DOMAIN members = 1 .. m
        BY <1>4, CompositeMembers
    <2> HIDE DEF members, outcomes, parts
    <2>5. FlattenSeq(parts) \in Encoded
        BY <2>2, <2>4, EncodedParts
    <2>6. /\ OutcomeOfMembers(value, type, params, outcomes) = "ok"
          /\ Contents(value, type, parts) = FlattenSeq(parts)
        BY <1>4, <2>3, CompositeEncoded
    <2> QED
        BY <1>1, <1>2, <2>5, <2>6, TaggedEncoded
<1>5. CASE /\ type.kind = "struct"
           /\ IsFields(type.fields)
           /\ DOMAIN value = DOMAIN type.fields
           /\ \E i \in DOMAIN value : value[i] # <<>>
           /\ \A i \in DOMAIN value : value[i] # <<>> => Value2(value[i][1], type.fields[i].type)
    <2>1. Composite(value, type)
        BY <1>5 DEF Composite
    <2>2. members = [i \in DOMAIN type.fields |->
                       IF value[i] = <<>> THEN <<>>
                       ELSE Member(value[i][1], type.fields[i].type, type.fields[i].params)]
        BY <1>5 DEF Members
    <2> HIDE DEF members
    <2>3. \A i \in DOMAIN members :
             members[i] # <<>> => Value2(members[i][1].value, members[i][1].type)
        BY <1>5, <2>2 DEF Member
    <2> QED
        BY <1>4, <2>1, <2>3 DEF members
<1>6. CASE /\ type.kind = "slice"
           /\ IsSequence(value)
           /\ \A i \in DOMAIN value : Value2(value[i], type.type)
    <2>1. Composite(value, type)
        BY <1>6 DEF Composite
    <2>2. members = [i \in DOMAIN value |-> Member(value[i], type.type, ElementParams(params))]
        BY <1>6 DEF Members
    <2> HIDE DEF members
    <2>3. \A i \in DOMAIN members :
             members[i] # <<>> => Value2(members[i][1].value, members[i][1].type)
        BY <1>6, <2>2 DEF Member
    <2> QED
        BY <1>4, <2>1, <2>3 DEF members
<1>7. CASE /\ type.kind = "choice"
           /\ IsFields(type.fields)
           /\ value.Present \in DOMAIN type.fields
           /\ Value2(value.Value, type.fields[value.Present].type)
    <2>1. Composite(value, type)
        BY <1>7 DEF Composite
    <2>2. members = <<Member(value.Value, type.fields[value.Present].type,
                             type.fields[value.Present].params)>>
        BY <1>7 DEF Members
    <2> HIDE DEF members
    <2>3. \A i \in DOMAIN members :
             members[i] # <<>> => Value2(members[i][1].value, members[i][1].type)
        BY <1>7, <2>2 DEF Member
    <2> QED
        BY <1>4, <2>1, <2>3 DEF members
<1> QED
    BY <1>3, <1>5, <1>6, <1>7 DEF Value3, HasType

\* Values of types 4 levels deep are encoded.
LEMMA Encoded4 ==
    ASSUME NEW value, NEW type, NEW params \in Params, Value4(value, type)
    PROVE  Outcome4(value, type, params) = "ok" /\ Marshal4(value, type, params) \in Encoded
<1> DEFINE members == Members(value, type, params)
           outcomes == [i \in DOMAIN members |-> IF members[i] = <<>> THEN "ok"
                          ELSE Outcome3(members[i][1].value, members[i][1].type, members[i][1].params)]
           parts == [i \in DOMAIN members |-> IF members[i] = <<>> THEN <<>>
                       ELSE Marshal3(members[i][1].value, members[i][1].type, members[i][1].params)]
<1>1. Outcome4(value, type, params) = OutcomeOfMembers(value, type, params, outcomes)
    BY DEF Outcome4, OutcomeOf
<1>2. Marshal4(value, type, params) = Tagged(type, params, Contents(value, type, parts))
    BY DEF Marshal4, MakeField
<1>3. CASE Simple(value, type)
    <2>1. members = <<>>
        BY <1>3, SimpleEncoded
    <2>2. DOMAIN outcomes = {} /\ parts = <<>>
        BY <2>1
    <2> HIDE DEF members, outcomes, parts
    <2>3. /\ OutcomeOfMembers(value, type, params, outcomes) = "ok"
          /\ Contents(value, type, parts) \in Encoded
        BY <1>3, <2>2, SimpleEncoded
    <2> QED
        BY <1>1, <1>2, <2>3, TaggedEncoded
<1>4. CASE /\ Composite(value, type)
           /\ \A i \in DOMAIN members :
                 members[i] # <<>> => Value3(members[i][1].value, members[i][1].type)
    <2>1. ASSUME NEW i \in DOMAIN members, members[i] # <<>>
          PROVE  Outcome3(members[i][1].value, members[i][1].type, members[i][1].params) = "ok" /\ Marshal3(members[i][1].value, members[i][1].type, members[i][1].params) \in Encoded
        <3>1. members[i][1].params \in Params
            BY <1>4, <2>1, CompositeMembers
        <3> QED
            BY <1>4, <2>1, <3>1, Encoded3
    <2>2. parts \in [DOMAIN members -> Encoded]
        BY <2>1, EncodedNothing
    <2>3. \A i \in DOMAIN outcomes : outcomes[i] = "ok"
        BY <2>1
    <2>4. \E m \in Nat : DOMAIN members = 1 .. m
        BY <1>4, CompositeMembers
    <2> HIDE DEF members, outcomes, parts
    <2>5. FlattenSeq(parts) \in Encoded
        BY <2>2, <2>4, EncodedParts
    <2>6. /\ OutcomeOfMembers(value, type, params, outcomes) = "ok"
          /\ Contents(value, type, parts) = FlattenSeq(parts)
        BY <1>4, <2>3, CompositeEncoded
    <2> QED
        BY <1>1, <1>2, <2>5, <2>6, TaggedEncoded
<1>5. CASE /\ type.kind = "struct"
           /\ IsFields(type.fields)
           /\ DOMAIN value = DOMAIN type.fields
           /\ \E i \in DOMAIN value : value[i] # <<>>
           /\ \A i \in DOMAIN value : value[i] # <<>> => Value3(value[i][1], type.fields[i].type)
    <2>1. Composite(value, type)
        BY <1>5 DEF Composite
    <2>2. members = [i \in DOMAIN type.fields |->
                       IF value[i] = <<>> THEN <<>>
                       ELSE Member(value[i][1], type.fields[i].type, type.fields[i].params)]
        BY <1>5 DEF Members
    <2> HIDE DEF members
    <2>3. \A i \in DOMAIN members :
             members[i] # <<>> => Value3(members[i][1].value, members[i][1].type)
        BY <1>5, <2>2 DEF Member
    <2> QED
        BY <1>4, <2>1, <2>3 DEF members
<1>6. CASE /\ type.kind = "slice"
           /\ IsSequence(value)
           /\ \A i \in DOMAIN value : Value3(value[i], type.type)
    <2>1. Composite(value, type)
        BY <1>6 DEF Composite
    <2>2. members = [i \in DOMAIN value |-> Member(value[i], type.type, ElementParams(params))]
        BY <1>6 DEF Members
    <2> HIDE DEF members
    <2>3. \A i \in DOMAIN members :
             members[i] # <<>> => Value3(members[i][1].value, members[i][1].type)
        BY <1>6, <2>2 DEF Member
    <2> QED
        BY <1>4, <2>1, <2>3 DEF members
<1>7. CASE /\ type.kind = "choice"
           /\ IsFields(type.fields)
           /\ value.Present \in DOMAIN type.fields
           /\ Value3(value.Value, type.fields[value.Present].type)
    <2>1. Composite(value, type)
        BY <1>7 DEF Composite
    <2>2. members = <<Member(value.Value, type.fields[value.Present].type,
                             type.fields[value.Present].params)>>
        BY <1>7 DEF Members
    <2> HIDE DEF members
    <2>3. \A i \in DOMAIN members :
             members[i] # <<>> => Value3(members[i][1].value, members[i][1].type)
        BY <1>7, <2>2 DEF Member
    <2> QED
        BY <1>4, <2>1, <2>3 DEF members
<1> QED
    BY <1>3, <1>5, <1>6, <1>7 DEF Value4, HasType

\* Values of types 5 levels deep are encoded.
LEMMA Encoded5 ==
    ASSUME NEW value, NEW type, NEW params \in Params, Value5(value, type)
    PROVE  Outcome5(value, type, params) = "ok" /\ Marshal5(value, type, params) \in Encoded
<1> DEFINE members == Members(value, type, params)
           outcomes == [i \in DOMAIN members |-> IF members[i] = <<>> THEN "ok"
                          ELSE Outcome4(members[i][1].value, members[i][1].type, members[i][1].params)]
           parts == [i \in DOMAIN members |-> IF members[i] = <<>> THEN <<>>
                       ELSE Marshal4(members[i][1].value, members[i][1].type, members[i][1].params)]
<1>1. Outcome5(value, type, params) = OutcomeOfMembers(value, type, params, outcomes)
    BY DEF Outcome5, OutcomeOf
<1>2. Marshal5(value, type, params) = Tagged(type, params, Contents(value, type, parts))
    BY DEF Marshal5, MakeField
<1>3. CASE Simple(value, type)
    <2>1. members = <<>>
        BY <1>3, SimpleEncoded
    <2>2. DOMAIN outcomes = {} /\ parts = <<>>
        BY <2>1
    <2> HIDE DEF members, outcomes, parts
    <2>3. /\ OutcomeOfMembers(value, type, params, outcomes) = "ok"
          /\ Contents(value, type, parts) \in Encoded
        BY <1>3, <2>2, SimpleEncoded
    <2> QED
        BY <1>1, <1>2, <2>3, TaggedEncoded
<1>4. CASE /\ Composite(value, type)
           /\ \A i \in DOMAIN members :
                 members[i] # <<>> => Value4(members[i][1].value, members[i][1].type)
    <2>1. ASSUME NEW i \in DOMAIN members, members[i] # <<>>
          PROVE  Outcome4(members[i][1].value, members[i][1].type, members[i][1].params) = "ok" /\ Marshal4(members[i][1].value, members[i][1].type, members[i][1].params) \in Encoded
        <3>1. members[i][1].params \in Params
            BY <1>4, <2>1, CompositeMembers
        <3> QED
            BY <1>4, <2>1, <3>1, Encoded4
    <2>2. parts \in [DOMAIN members -> Encoded]
        BY <2>1, EncodedNothing
    <2>3. \A i \in DOMAIN outcomes : outcomes[i] = "ok"
        BY <2>1
    <2>4. \E m \in Nat : DOMAIN members = 1 .. m
        BY <1>4, CompositeMembers
    <2> HIDE DEF members, outcomes, parts
    <2>5. FlattenSeq(parts) \in Encoded
        BY <2>2, <2>4, EncodedParts
    <2>6. /\ OutcomeOfMembers(value, type, params, outcomes) = "ok"
          /\ Contents(value, type, parts) = FlattenSeq(parts)
        BY <1>4, <2>3, CompositeEncoded
    <2> QED
        BY <1>1, <1>2, <2>5, <2>6, TaggedEncoded
<1>5. CASE /\ type.kind = "struct"
           /\ IsFields(type.fields)
           /\ DOMAIN value = DOMAIN type.fields
           /\ \E i \in DOMAIN value : value[i] # <<>>
           /\ \A i \in DOMAIN value : value[i] # <<>> => Value4(value[i][1], type.fields[i].type)
    <2>1. Composite(value, type)
        BY <1>5 DEF Composite
    <2>2. members = [i \in DOMAIN type.fields |->
                       IF value[i] = <<>> THEN <<>>
                       ELSE Member(value[i][1], type.fields[i].type, type.fields[i].params)]
        BY <1>5 DEF Members
    <2> HIDE DEF members
    <2>3. \A i \in DOMAIN members :
             members[i] # <<>> => Value4(members[i][1].value, members[i][1].type)
        BY <1>5, <2>2 DEF Member
    <2> QED
        BY <1>4, <2>1, <2>3 DEF members
<1>6. CASE /\ type.kind = "slice"
           /\ IsSequence(value)
           /\ \A i \in DOMAIN value : Value4(value[i], type.type)
    <2>1. Composite(value, type)
        BY <1>6 DEF Composite
    <2>2. members = [i \in DOMAIN value |-> Member(value[i], type.type, ElementParams(params))]
        BY <1>6 DEF Members
    <2> HIDE DEF members
    <2>3. \A i \in DOMAIN members :
             members[i] # <<>> => Value4(members[i][1].value, members[i][1].type)
        BY <1>6, <2>2 DEF Member
    <2> QED
        BY <1>4, <2>1, <2>3 DEF members
<1>7. CASE /\ type.kind = "choice"
           /\ IsFields(type.fields)
           /\ value.Present \in DOMAIN type.fields
           /\ Value4(value.Value, type.fields[value.Present].type)
    <2>1. Composite(value, type)
        BY <1>7 DEF Composite
    <2>2. members = <<Member(value.Value, type.fields[value.Present].type,
                             type.fields[value.Present].params)>>
        BY <1>7 DEF Members
    <2> HIDE DEF members
    <2>3. \A i \in DOMAIN members :
             members[i] # <<>> => Value4(members[i][1].value, members[i][1].type)
        BY <1>7, <2>2 DEF Member
    <2> QED
        BY <1>4, <2>1, <2>3 DEF members
<1> QED
    BY <1>3, <1>5, <1>6, <1>7 DEF Value5, HasType

\* Values of types 6 levels deep are encoded.
LEMMA Encoded6 ==
    ASSUME NEW value, NEW type, NEW params \in Params, Value6(value, type)
    PROVE  Outcome6(value, type, params) = "ok" /\ Marshal6(value, type, params) \in Encoded
<1> DEFINE members == Members(value, type, params)
           outcomes == [i \in DOMAIN members |-> IF members[i] = <<>> THEN "ok"
                          ELSE Outcome5(members[i][1].value, members[i][1].type, members[i][1].params)]
           parts == [i \in DOMAIN members |-> IF members[i] = <<>> THEN <<>>
                       ELSE Marshal5(members[i][1].value, members[i][1].type, members[i][1].params)]
<1>1. Outcome6(value, type, params) = OutcomeOfMembers(value, type, params, outcomes)
    BY DEF Outcome6, OutcomeOf
<1>2. Marshal6(value, type, params) = Tagged(type, params, Contents(value, type, parts))
    BY DEF Marshal6, MakeField
<1>3. CASE Simple(value, type)
    <2>1. members = <<>>
        BY <1>3, SimpleEncoded
    <2>2. DOMAIN outcomes = {} /\ parts = <<>>
        BY <2>1
    <2> HIDE DEF members, outcomes, parts
    <2>3. /\ OutcomeOfMembers(value, type, params, outcomes) = "ok"
          /\ Contents(value, type, parts) \in Encoded
        BY <1>3, <2>2, SimpleEncoded
    <2> QED
        BY <1>1, <1>2, <2>3, TaggedEncoded
<1>4. CASE /\ Composite(value, type)
           /\ \A i \in DOMAIN members :
                 members[i] # <<>> => Value5(members[i][1].value, members[i][1].type)
    <2>1. ASSUME NEW i \in DOMAIN members, members[i] # <<>>
          PROVE  Outcome5(members[i][1].value, members[i][1].type, members[i][1].params) = "ok" /\ Marshal5(members[i][1].value, members[i][1].type, members[i][1].params) \in Encoded
        <3>1. members[i][1].params \in Params
            BY <1>4, <2>1, CompositeMembers
        <3> QED
            BY <1>4, <2>1, <3>1, Encoded5
    <2>2. parts \in [DOMAIN members -> Encoded]
        BY <2>1, EncodedNothing
    <2>3. \A i \in DOMAIN outcomes : outcomes[i] = "ok"
        BY <2>1
    <2>4. \E m \in Nat : DOMAIN members = 1 .. m
        BY <1>4, CompositeMembers
    <2> HIDE DEF members, outcomes, parts
    <2>5. FlattenSeq(parts) \in Encoded
        BY <2>2, <2>4, EncodedParts
    <2>6. /\ OutcomeOfMembers(value, type, params, outcomes) = "ok"
          /\ Contents(value, type, parts) = FlattenSeq(parts)
        BY <1>4, <2>3, CompositeEncoded
    <2> QED
        BY <1>1, <1>2, <2>5, <2>6, TaggedEncoded
<1>5. CASE /\ type.kind = "struct"
           /\ IsFields(type.fields)
           /\ DOMAIN value = DOMAIN type.fields
           /\ \E i \in DOMAIN value : value[i] # <<>>
           /\ \A i \in DOMAIN value : value[i] # <<>> => Value5(value[i][1], type.fields[i].type)
    <2>1. Composite(value, type)
        BY <1>5 DEF Composite
    <2>2. members = [i \in DOMAIN type.fields |->
                       IF value[i] = <<>> THEN <<>>
                       ELSE Member(value[i][1], type.fields[i].type, type.fields[i].params)]
        BY <1>5 DEF Members
    <2> HIDE DEF members
    <2>3. \A i \in DOMAIN members :
             members[i] # <<>> => Value5(members[i][1].value, members[i][1].type)
        BY <1>5, <2>2 DEF Member
    <2> QED
        BY <1>4, <2>1, <2>3 DEF members
<1>6. CASE /\ type.kind = "slice"
           /\ IsSequence(value)
           /\ \A i \in DOMAIN value : Value5(value[i], type.type)
    <2>1. Composite(value, type)
        BY <1>6 DEF Composite
    <2>2. members = [i \in DOMAIN value |-> Member(value[i], type.type, ElementParams(params))]
        BY <1>6 DEF Members
    <2> HIDE DEF members
    <2>3. \A i \in DOMAIN members :
             members[i] # <<>> => Value5(members[i][1].value, members[i][1].type)
        BY <1>6, <2>2 DEF Member
    <2> QED
        BY <1>4, <2>1, <2>3 DEF members
<1>7. CASE /\ type.kind = "choice"
           /\ IsFields(type.fields)
           /\ value.Present \in DOMAIN type.fields
           /\ Value5(value.Value, type.fields[value.Present].type)
    <2>1. Composite(value, type)
        BY <1>7 DEF Composite
    <2>2. members = <<Member(value.Value, type.fields[value.Present].type,
                             type.fields[value.Present].params)>>
        BY <1>7 DEF Members
    <2> HIDE DEF members
    <2>3. \A i \in DOMAIN members :
             members[i] # <<>> => Value5(members[i][1].value, members[i][1].type)
        BY <1>7, <2>2 DEF Member
    <2> QED
        BY <1>4, <2>1, <2>3 DEF members
<1> QED
    BY <1>3, <1>5, <1>6, <1>7 DEF Value6, HasType

\* The encoder takes every value of its type, of any of the seven levels, and makes octets.
LEMMA EncodedAll ==
    ASSUME NEW value, NEW type, NEW params \in Params, Value(value, type)
    PROVE  Outcome(value, type, params) = "ok" /\ Marshal(value, type, params) \in Encoded
<1> DEFINE members == Members(value, type, params)
           outcomes == [i \in DOMAIN members |-> IF members[i] = <<>> THEN "ok"
                          ELSE Outcome6(members[i][1].value, members[i][1].type, members[i][1].params)]
           parts == [i \in DOMAIN members |-> IF members[i] = <<>> THEN <<>>
                       ELSE Marshal6(members[i][1].value, members[i][1].type, members[i][1].params)]
<1>1. Outcome(value, type, params) = OutcomeOfMembers(value, type, params, outcomes)
    BY DEF Outcome, OutcomeOf
<1>2. Marshal(value, type, params) = Tagged(type, params, Contents(value, type, parts))
    BY DEF Marshal, MakeField
<1>3. CASE Simple(value, type)
    <2>1. members = <<>>
        BY <1>3, SimpleEncoded
    <2>2. DOMAIN outcomes = {} /\ parts = <<>>
        BY <2>1
    <2> HIDE DEF members, outcomes, parts
    <2>3. /\ OutcomeOfMembers(value, type, params, outcomes) = "ok"
          /\ Contents(value, type, parts) \in Encoded
        BY <1>3, <2>2, SimpleEncoded
    <2> QED
        BY <1>1, <1>2, <2>3, TaggedEncoded
<1>4. CASE /\ Composite(value, type)
           /\ \A i \in DOMAIN members :
                 members[i] # <<>> => Value6(members[i][1].value, members[i][1].type)
    <2>1. ASSUME NEW i \in DOMAIN members, members[i] # <<>>
          PROVE  Outcome6(members[i][1].value, members[i][1].type, members[i][1].params) = "ok" /\ Marshal6(members[i][1].value, members[i][1].type, members[i][1].params) \in Encoded
        <3>1. members[i][1].params \in Params
            BY <1>4, <2>1, CompositeMembers
        <3> QED
            BY <1>4, <2>1, <3>1, Encoded6
    <2>2. parts \in [DOMAIN members -> Encoded]
        BY <2>1, EncodedNothing
    <2>3. \A i \in DOMAIN outcomes : outcomes[i] = "ok"
        BY <2>1
    <2>4. \E m \in Nat : DOMAIN members = 1 .. m
        BY <1>4, CompositeMembers
    <2> HIDE DEF members, outcomes, parts
    <2>5. FlattenSeq(parts) \in Encoded
        BY <2>2, <2>4, EncodedParts
    <2>6. /\ OutcomeOfMembers(value, type, params, outcomes) = "ok"
          /\ Contents(value, type, parts) = FlattenSeq(parts)
        BY <1>4, <2>3, CompositeEncoded
    <2> QED
        BY <1>1, <1>2, <2>5, <2>6, TaggedEncoded
<1>5. CASE /\ type.kind = "struct"
           /\ IsFields(type.fields)
           /\ DOMAIN value = DOMAIN type.fields
           /\ \E i \in DOMAIN value : value[i] # <<>>
           /\ \A i \in DOMAIN value : value[i] # <<>> => Value6(value[i][1], type.fields[i].type)
    <2>1. Composite(value, type)
        BY <1>5 DEF Composite
    <2>2. members = [i \in DOMAIN type.fields |->
                       IF value[i] = <<>> THEN <<>>
                       ELSE Member(value[i][1], type.fields[i].type, type.fields[i].params)]
        BY <1>5 DEF Members
    <2> HIDE DEF members
    <2>3. \A i \in DOMAIN members :
             members[i] # <<>> => Value6(members[i][1].value, members[i][1].type)
        BY <1>5, <2>2 DEF Member
    <2> QED
        BY <1>4, <2>1, <2>3 DEF members
<1>6. CASE /\ type.kind = "slice"
           /\ IsSequence(value)
           /\ \A i \in DOMAIN value : Value6(value[i], type.type)
    <2>1. Composite(value, type)
        BY <1>6 DEF Composite
    <2>2. members = [i \in DOMAIN value |-> Member(value[i], type.type, ElementParams(params))]
        BY <1>6 DEF Members
    <2> HIDE DEF members
    <2>3. \A i \in DOMAIN members :
             members[i] # <<>> => Value6(members[i][1].value, members[i][1].type)
        BY <1>6, <2>2 DEF Member
    <2> QED
        BY <1>4, <2>1, <2>3 DEF members
<1>7. CASE /\ type.kind = "choice"
           /\ IsFields(type.fields)
           /\ value.Present \in DOMAIN type.fields
           /\ Value6(value.Value, type.fields[value.Present].type)
    <2>1. Composite(value, type)
        BY <1>7 DEF Composite
    <2>2. members = <<Member(value.Value, type.fields[value.Present].type,
                             type.fields[value.Present].params)>>
        BY <1>7 DEF Members
    <2> HIDE DEF members
    <2>3. \A i \in DOMAIN members :
             members[i] # <<>> => Value6(members[i][1].value, members[i][1].type)
        BY <1>7, <2>2 DEF Member
    <2> QED
        BY <1>4, <2>1, <2>3 DEF members
<1> QED
    BY <1>3, <1>5, <1>6, <1>7 DEF Value, HasType

\* A number of digits to a base is counted up digit by digit.
Counted(base, n, d, N) == N[0] = 0 /\ \A k \in 1 .. n : N[k] = base * N[k - 1] + d[k]

Counting(base, n, d, N) == N \in [0 .. n -> Nat] /\ Counted(base, n, d, N)

Alike(n, d, e) == \A k \in 1 .. n : d[k] = e[k]

-----------------------------------------------------------------------------
(* Numbers read from octets. *)

\* It can be counted, and in one way only.
LEMMA CountingExists ==
    ASSUME NEW base \in Nat, NEW n \in Nat, NEW d, \A k \in 1 .. n : d[k] \in Nat
    PROVE  \E N : Counting(base, n, d, N)
<1> DEFINE D == 0 .. n
           Size == [i \in D |-> i]
           Base == [i \in {0} |-> 0]
           Down == [i \in D |-> i - 1]
           Step == [p \in Nat \X D |-> base * p[1] + d[p[2]]]
<1>1. Recursive(D, Nat, Size, Base, Down, Step)
    <2>1. \A x \in D \ {0} : Down[x] \in D /\ Size[Down[x]] < Size[x]
        OBVIOUS
    <2>2. \A x \in D \ {0}, v \in Nat : Step[<<v, x>>] \in Nat
        <3> TAKE x \in D \ {0}, v \in Nat
        <3>1. Step[<<v, x>>] = base * v + d[x]
            OBVIOUS
        <3>2. base * v \in Nat
            OBVIOUS
        <3>3. d[x] \in Nat
            OBVIOUS
        <3> HIDE DEF Step
        <3> QED
            BY <3>1, <3>2, <3>3
    <2>3. DOMAIN Base = {0} /\ 0 \in D /\ Base[0] \in Nat /\ Size \in [D -> Nat]
        OBVIOUS
    <2> HIDE DEF D, Size, Base, Down, Step
    <2> QED
        BY <2>1, <2>2, <2>3 DEF Recursive
<1>2. PICK N : Recursion(D, Nat, Base, Down, Step, N)
    <2> HIDE DEF D, Size, Base, Down, Step
    <2> QED
        BY <1>1, RecursionExists
<1>3. N \in [D -> Nat] /\ \A i \in D : N[i] = IF i \in DOMAIN Base THEN Base[i] ELSE Step[<<N[Down[i]], i>>]
    BY <1>2 DEF Recursion, Solves
<1>4. N[0] = 0
    <2>1. 0 \in D /\ 0 \in DOMAIN Base /\ Base[0] = 0
        OBVIOUS
    <2>2. N[0] = Base[0]
        BY <1>3, <2>1
    <2> QED
        BY <2>1, <2>2
<1>5. ASSUME NEW k \in 1 .. n PROVE N[k] = base * N[k - 1] + d[k]
    <2>1. k \in D /\ k - 1 \in D /\ k \notin DOMAIN Base /\ Down[k] = k - 1
        OBVIOUS
    <2>2. N[k] = Step[<<N[k - 1], k>>] /\ N[k - 1] \in Nat
        BY <1>3, <2>1
    <2>3. Step[<<N[k - 1], k>>] = base * N[k - 1] + d[k]
        BY <2>1, <2>2
    <2> QED
        BY <2>2, <2>3
<1> QED
    BY <1>3, <1>4, <1>5 DEF Counting, Counted

\* Digits that are alike count up to the same numbers, as far as there are both.
LEMMA CountingsAgree ==
    ASSUME NEW base, NEW n \in Nat, NEW d, NEW m \in Nat, NEW e, NEW N, NEW M,
           n <= m, Alike(n, d, e), Counted(base, n, d, N), Counted(base, m, e, M)
    PROVE  \A k \in 0 .. n : N[k] = M[k]
<1> DEFINE T == {j \in Nat : j <= n => N[j] = M[j]}
<1>1. 0 \in T
    BY DEF Counted
<1>2. ASSUME NEW j \in Nat, j \in T PROVE j + 1 \in T
    <2>1. SUFFICES ASSUME j + 1 <= n PROVE N[j + 1] = M[j + 1]
        OBVIOUS
    <2> DEFINE k == j + 1
    <2>2. k \in 1 .. n /\ k \in 1 .. m /\ k - 1 = j /\ j <= n
        BY <2>1
    <2>3. N[j] = M[j]
        BY <1>2, <2>2
    <2> HIDE DEF k
    <2>4. N[k] = base * N[j] + d[k] /\ M[k] = base * M[j] + e[k] /\ d[k] = e[k]
        BY <2>2 DEF Counted, Alike
    <2>5. N[k] = M[k]
        BY <2>3, <2>4
    <2> QED
        BY <2>5 DEF k
<1>3. \A j \in Nat : j \in T
    <2> HIDE DEF T
    <2> QED
        BY <1>1, <1>2, NatSet
<1> QED
    BY <1>3

\* parseInt64 counts the octets to base 256, and parseTagAndLength the seven
\* bits of each to base 128.
LEMMA ParseInt64Counts ==
    ASSUME NEW bytes \in Seq(Byte)
    PROVE  \E N : Counting(256, Len(bytes), bytes, N) /\ ParseInt64(bytes) = N[Len(bytes)]
<1> DEFINE n == Len(bytes)
           Solution(N) == N = [k \in 0 .. n |-> IF k = 0 THEN 0 ELSE 256 * N[k - 1] + bytes[k]]
           N == CHOOSE N : Solution(N)
<1>1. n \in Nat /\ \A k \in 1 .. n : bytes[k] \in Nat
    BY BytesAreNumbers
<1>2. PICK M : Counting(256, n, bytes, M)
    <2> HIDE DEF n
    <2> QED
        BY <1>1, CountingExists
<1>3. M \in [0 .. n -> Nat] /\ M[0] = 0 /\ \A k \in 1 .. n : M[k] = 256 * M[k - 1] + bytes[k]
    BY <1>2 DEF Counting, Counted
<1> HIDE DEF n
<1>4. Solution(M)
    BY <1>1, <1>3
<1>5. Solution(N)
    <2> HIDE DEF Solution
    <2> QED
        BY <1>4
<1>6. N[0] = 0 /\ \A k \in 1 .. n : N[k] = 256 * N[k - 1] + bytes[k]
    <2> HIDE DEF N
    <2> QED
        BY <1>1, <1>5
<1>7. N[n] = M[n]
    <2> HIDE DEF N, Solution
    <2>2. n <= n /\ Alike(n, bytes, bytes)
        BY <1>1 DEF Alike
    <2>3. Counted(256, n, bytes, N) /\ Counted(256, n, bytes, M)
        BY <1>3, <1>6 DEF Counted
    <2>1. \A k \in 0 .. n : N[k] = M[k]
        BY <1>1, <2>2, <2>3, CountingsAgree
    <2> QED
        BY <1>1, <2>1
<1>8. ParseInt64(bytes) = N[n]
    BY DEF ParseInt64, n
<1> QED
    BY <1>2, <1>7, <1>8 DEF n

\* Base128 counts septets up to a number.
LEMMA Base128Counts ==
    ASSUME NEW bytes \in Seq(Byte)
    PROVE  \E N : /\ Counting(128, Len(bytes), [k \in 1 .. Len(bytes) |-> bytes[k] % 128], N)
                  /\ Base128(bytes) = N[Len(bytes)]
<1> DEFINE n == Len(bytes)
           d == [k \in 1 .. n |-> bytes[k] % 128]
           Solution(N) == N = [k \in 0 .. n |-> IF k = 0 THEN 0 ELSE 128 * N[k - 1] + (bytes[k] % 128)]
           N == CHOOSE N : Solution(N)
<1>1. n \in Nat /\ \A k \in 1 .. n : bytes[k] \in Nat /\ d[k] \in Nat /\ d[k] = bytes[k] % 128
    BY BytesAreNumbers
<1> HIDE DEF d
<1>2. PICK M : Counting(128, n, d, M)
    <2> HIDE DEF n
    <2> QED
        BY <1>1, CountingExists
<1>3. M \in [0 .. n -> Nat] /\ M[0] = 0 /\ \A k \in 1 .. n : M[k] = 128 * M[k - 1] + d[k]
    BY <1>2 DEF Counting, Counted
<1> HIDE DEF n
<1>4. Solution(M)
    BY <1>1, <1>3
<1>5. Solution(N)
    <2> HIDE DEF Solution
    <2> QED
        BY <1>4
<1>6. N[0] = 0 /\ \A k \in 1 .. n : N[k] = 128 * N[k - 1] + d[k]
    <2>1. N[0] = 0 /\ \A k \in 1 .. n : N[k] = 128 * N[k - 1] + (bytes[k] % 128)
        <3> HIDE DEF N
        <3> QED
            BY <1>1, <1>5
    <2> HIDE DEF N
    <2> QED
        BY <1>1, <2>1
<1>7. N[n] = M[n]
    <2> HIDE DEF N, Solution
    <2>2. n <= n /\ Alike(n, d, d)
        BY <1>1 DEF Alike
    <2>3. Counted(128, n, d, N) /\ Counted(128, n, d, M)
        BY <1>3, <1>6 DEF Counted
    <2>1. \A k \in 0 .. n : N[k] = M[k]
        BY <1>1, <2>2, <2>3, CountingsAgree
    <2> QED
        BY <1>1, <2>1
<1>8. Base128(bytes) = N[n]
    BY DEF Base128, n
<1> QED
    BY <1>2, <1>7, <1>8 DEF n, d

\* The numbers that a few octets are, and that one octet more makes.
LEMMA ShortNumbers ==
    /\ ParseInt64(<<>>) = 0
    /\ \A a \in Byte : ParseInt64(<<a>>) = a /\ Base128(<<a>>) = a % 128
    /\ \A a \in Byte, b \in Byte : /\ ParseInt64(<<a, b>>) = 256 * a + b
                                  /\ Base128(<<a, b>>) = 128 * (a % 128) + (b % 128)
    /\ \A s \in Seq(Byte) : ParseInt64(s) \in Nat
<1>0. Byte \in SUBSET Nat
    BY BytesAreNumbers
<1>1. ParseInt64(<<>>) = 0
    <2>1. <<>> \in Seq(Byte) /\ Len(<<>>) = 0
        BY EmptySeq
    <2> QED
        BY <2>1, ParseInt64Counts DEF Counting, Counted
<1>2. ASSUME NEW a \in Byte PROVE ParseInt64(<<a>>) = a /\ Base128(<<a>>) = a % 128
    <2> DEFINE s == <<a>>
    <2>1. s \in Seq(Byte) /\ Len(s) = 1 /\ s[1] = a /\ a \in Nat
        BY <1>0
    <2> HIDE DEF s
    <2>2. PICK N : Counting(256, 1, s, N) /\ ParseInt64(s) = N[1]
        BY <2>1, ParseInt64Counts
    <2>3. N[0] = 0 /\ N[1] = 256 * N[1 - 1] + s[1]
        BY <2>2 DEF Counting, Counted
    <2>4. PICK M : Counting(128, 1, [k \in 1 .. 1 |-> s[k] % 128], M) /\ Base128(s) = M[1]
        BY <2>1, Base128Counts
    <2>5. M[0] = 0 /\ M[1] = 128 * M[1 - 1] + (s[1] % 128)
        BY <2>4 DEF Counting, Counted
    <2>6. N[1] = a
        BY <2>1, <2>3
    <2>7. M[1] = a % 128
        BY <2>1, <2>5
    <2> QED
        BY <2>2, <2>4, <2>6, <2>7 DEF s
<1>3. ASSUME NEW a \in Byte, NEW b \in Byte
      PROVE  ParseInt64(<<a, b>>) = 256 * a + b /\ Base128(<<a, b>>) = 128 * (a % 128) + (b % 128)
    <2> DEFINE s == <<a, b>>
    <2>1. s \in Seq(Byte) /\ Len(s) = 2 /\ s[1] = a /\ s[2] = b /\ a \in Nat /\ b \in Nat
        BY <1>0
    <2> HIDE DEF s
    <2>2. PICK N : Counting(256, 2, s, N) /\ ParseInt64(s) = N[2]
        BY <2>1, ParseInt64Counts
    <2>3. N[0] = 0 /\ N[1] = 256 * N[1 - 1] + s[1] /\ N[2] = 256 * N[2 - 1] + s[2]
        BY <2>2 DEF Counting, Counted
    <2>4. PICK M : Counting(128, 2, [k \in 1 .. 2 |-> s[k] % 128], M) /\ Base128(s) = M[2]
        BY <2>1, Base128Counts
    <2>5. M[0] = 0 /\ M[1] = 128 * M[1 - 1] + (s[1] % 128) /\ M[2] = 128 * M[2 - 1] + (s[2] % 128)
        BY <2>4 DEF Counting, Counted
    <2>6. N[2] = 256 * a + b
        BY <2>1, <2>3
    <2>7. M[2] = 128 * (a % 128) + (b % 128)
        BY <2>1, <2>5
    <2> QED
        BY <2>2, <2>4, <2>6, <2>7 DEF s
<1>4. ASSUME NEW s \in Seq(Byte) PROVE ParseInt64(s) \in Nat
    <2>1. PICK N : Counting(256, Len(s), s, N) /\ ParseInt64(s) = N[Len(s)]
        BY ParseInt64Counts
    <2>2. Len(s) \in 0 .. Len(s)
        OBVIOUS
    <2> QED
        BY <2>1, <2>2 DEF Counting, Counted
<1> QED
    BY <1>1, <1>2, <1>3, <1>4

\* A further octet is a further digit of base 256 (parseInt64).
LEMMA OneOctetMore ==
    ASSUME NEW s \in Seq(Byte), NEW b \in Byte
    PROVE  ParseInt64(Append(s, b)) = 256 * ParseInt64(s) + b
<1> DEFINE t == Append(s, b)
           n == Len(s)
<1>1. t \in Seq(Byte) /\ Len(t) = n + 1 /\ n \in Nat /\ t[n + 1] = b /\ \A k \in 1 .. n : s[k] = t[k]
    OBVIOUS
<1> HIDE DEF t, n
<1>2. PICK N : Counting(256, n, s, N) /\ ParseInt64(s) = N[n]
    BY ParseInt64Counts DEF n
<1>3. PICK M : Counting(256, n + 1, t, M) /\ ParseInt64(t) = M[n + 1]
    BY <1>1, ParseInt64Counts
<1> DEFINE m == n + 1
<1>4. m \in Nat /\ n <= m /\ n \in 0 .. n /\ m \in 1 .. m /\ m - 1 = n
    BY <1>1
<1>5. Counted(256, n, s, N) /\ Counted(256, m, t, M) /\ Alike(n, s, t)
    BY <1>1, <1>2, <1>3 DEF Counting, Alike
<1> HIDE DEF m
<1>6. N[n] = M[n]
    <2>1. \A k \in 0 .. n : N[k] = M[k]
        BY <1>1, <1>4, <1>5, CountingsAgree
    <2> QED
        BY <1>4, <2>1
<1>7. M[m] = 256 * M[n] + t[m] /\ t[m] = b
    BY <1>1, <1>4, <1>5 DEF m, Counted
<1> QED
    BY <1>2, <1>3, <1>6, <1>7 DEF m, t

\* A number that is not negative is read as it was written.
LEMMA Int64ReadBack ==
    \A n \in Nat : ParseInt64(Int64(n)) = n
<1> DEFINE Wrong == {n \in Nat : ParseInt64(Int64(n)) # n}
<1>1. SUFFICES ASSUME Wrong # {} PROVE FALSE
    OBVIOUS
<1>2. PICK n \in Wrong : \A m \in Wrong : n <= m
    <2> Wrong \in SUBSET Nat
        OBVIOUS
    <2> HIDE DEF Wrong
    <2> QED
        BY <1>1, LeastOf
<1>3. n \in Nat /\ n \in Int /\ n % 256 \in Byte
    BY DEF Byte, Under
<1>4. CASE n <= 127
    <2>1. Int64(n) = <<n % 256>> /\ n % 256 = n
        BY <1>3, <1>4, Int64Octets
    <2> QED
        BY <1>2, <1>3, <2>1, ShortNumbers
<1>5. CASE ~(n <= 127)
    <2> DEFINE m == n \div 256
    <2>1. m \in Nat /\ m < n /\ 256 * m + (n % 256) = n
        BY <1>3, <1>5
    <2>2. Int64(n) = Append(Int64(m), n % 256)
        BY <1>3, <1>5, Int64Octets
    <2> HIDE DEF m
    <2>3. ParseInt64(Int64(m)) = m
        <3>1. m \notin Wrong
            BY <1>2, <2>1
        <3> QED
            BY <2>1, <3>1
    <2>4. Int64(m) \in Seq(Byte)
        BY <2>1, Int64Octets
    <2>5. ParseInt64(Int64(n)) = 256 * m + (n % 256)
        BY <1>3, <2>2, <2>3, <2>4, OneOctetMore
    <2> QED
        BY <1>2, <2>1, <2>5
<1> QED
    BY <1>4, <1>5

-----------------------------------------------------------------------------
(* Tags and lengths read from octets. *)

TagNumber == Under(16384)

TagLength == Under(65536)

\* Short sequences, element by element.
LEMMA Tuples ==
    ASSUME NEW S, NEW s \in Seq(S)
    PROVE  /\ Len(s) = 1 => s = <<s[1]>>
           /\ Len(s) = 2 => s = <<s[1], s[2]>>
           /\ Len(s) = 3 => s = <<s[1], s[2], s[3]>>
    OBVIOUS

\* Numbers one after the other.
LEMMA NumbersTogether ==
    /\ \A a \in Nat, b \in Nat : Append(<<a>>, b) = <<a, b>> /\ <<a>> \o <<b>> = <<a, b>>
    /\ \A a \in Nat, b \in Nat, c \in Nat : <<a>> \o <<b, c>> = <<a, b, c>>
<1>1. ASSUME NEW a \in Nat, NEW b \in Nat PROVE Append(<<a>>, b) = <<a, b>> /\ <<a>> \o <<b>> = <<a, b>>
    <2> DEFINE s == Append(<<a>>, b)
               t == <<a>> \o <<b>>
    <2>1. s \in Seq(Nat) /\ Len(s) = 2 /\ s[1] = a /\ s[2] = b
        OBVIOUS
    <2>2. t \in Seq(Nat) /\ Len(t) = 2 /\ t[1] = a /\ t[2] = b
        OBVIOUS
    <2> HIDE DEF s, t
    <2>3. s = <<a, b>> /\ t = <<a, b>>
        BY <2>1, <2>2, Tuples
    <2> QED
        BY <2>3 DEF s, t
<1>2. ASSUME NEW a \in Nat, NEW b \in Nat, NEW c \in Nat PROVE <<a>> \o <<b, c>> = <<a, b, c>>
    <2> DEFINE s == <<a>> \o <<b, c>>
    <2>1. s \in Seq(Nat) /\ Len(s) = 3 /\ s[1] = a /\ s[2] = b /\ s[3] = c
        OBVIOUS
    <2> HIDE DEF s
    <2>2. s = <<a, b, c>>
        BY <2>1, Tuples
    <2> QED
        BY <2>2 DEF s
<1> QED
    BY <1>1, <1>2

\* Slices of one and of two.
LEMMA Slices ==
    ASSUME NEW S, NEW s \in Seq(S), NEW i \in 1 .. Len(s)
    PROVE  /\ SubSeq(s, i, i) = <<s[i]>>
           /\ \A j \in 1 .. Len(s) : j = i + 1 => SubSeq(s, i, j) = <<s[i], s[j]>>
<1>1. SubSeq(s, i, i) = <<s[i]>>
    <2> DEFINE t == SubSeq(s, i, i)
    <2>1. t \in Seq(S) /\ Len(t) = 1 /\ t[1] = s[i]
        OBVIOUS
    <2> HIDE DEF t
    <2>2. t = <<s[i]>>
        BY <2>1, Tuples
    <2> QED
        BY <2>2 DEF t
<1>2. ASSUME NEW j \in 1 .. Len(s), j = i + 1 PROVE SubSeq(s, i, j) = <<s[i], s[j]>>
    <2> DEFINE t == SubSeq(s, i, j)
    <2>1. t \in Seq(S) /\ Len(t) = 2 /\ t[1] = s[i] /\ t[2] = s[j]
        BY <1>2
    <2> HIDE DEF t
    <2>2. t = <<s[i], s[j]>>
        BY <2>1, Tuples
    <2> QED
        BY <2>2 DEF t
<1> QED
    BY <1>1, <1>2

\* Those to base 128.
LEMMA SeptetDigits ==
    ASSUME NEW n \in Nat
    PROVE  /\ n < 128 => Digits(n, 128) = <<n>>
           /\ ~(n < 128) => Digits(n, 128) = Append(Digits(n \div 128, 128), n % 128)
<1> DEFINE base == 128
<1>1. base \in Nat /\ base > 1
    OBVIOUS
<1> HIDE DEF base
<1>2. Digits(n, base) = IF n < base THEN <<n>> ELSE Append(Digits(n \div base, base), n % base)
    BY <1>1, DigitsOctets
<1>3. /\ n < base => Digits(n, base) = <<n>>
      /\ ~(n < base) => Digits(n, base) = Append(Digits(n \div base, base), n % base)
    BY <1>2
<1> QED
    BY <1>3 DEF base

\* The first octet of an identifier, without the number.
FirstOctet(class, constructed) == 64 * class + IF constructed THEN 32 ELSE 0

\* An identifier has one octet, two or three, as its number has digits.
LEMMA IdentifierForms ==
    ASSUME NEW class \in {0, 2}, NEW constructed \in BOOLEAN, NEW number \in TagNumber
    PROVE  /\ FirstOctet(class, constructed) \in {0, 32, 128, 160}
           /\ number <= 30 => Identifier(class, constructed, number)
                                = <<FirstOctet(class, constructed) + number>>
           /\ number > 30 /\ number < 128 =>
                Identifier(class, constructed, number) = <<FirstOctet(class, constructed) + 31, number>>
           /\ number >= 128 => Identifier(class, constructed, number)
                = <<FirstOctet(class, constructed) + 31, (number \div 128) + 128, number % 128>>
<1> DEFINE first == FirstOctet(class, constructed)
           digits == Digits(number, 128)
           d == [i \in DOMAIN digits |-> IF i < Len(digits) THEN digits[i] + 128 ELSE digits[i]]
           f == first + 31
<1>1. first \in {0, 32, 128, 160}
    BY DEF FirstOctet
<1>2. number \in Nat /\ number < 16384
    BY DEF TagNumber, Under
<1>3. Identifier(class, constructed, number) = IF number <= 30 THEN <<first + number>> ELSE <<f>> \o d
    BY DEF Identifier, FirstOctet
<1> HIDE DEF first, f
<1>4. ASSUME number > 30, number < 128 PROVE Identifier(class, constructed, number) = <<f, number>>
    <2>1. digits = <<number>>
        BY <1>2, <1>4, SeptetDigits
    <2> HIDE DEF digits
    <2>2. d = <<number>>
        BY <2>1
    <2>3. ~(number <= 30) /\ f \in Nat
        BY <1>1, <1>2, <1>4 DEF f
    <2> HIDE DEF d
    <2>4. <<f>> \o <<number>> = <<f, number>>
        BY <1>2, <2>3, NumbersTogether
    <2> QED
        BY <1>3, <2>2, <2>3, <2>4
<1>5. ASSUME number >= 128
      PROVE  Identifier(class, constructed, number) = <<f, (number \div 128) + 128, number % 128>>
    <2> DEFINE high == number \div 128
               low == number % 128
    <2>1. high \in Nat /\ high < 128 /\ low \in Nat /\ ~(number < 128) /\ ~(number <= 30)
        BY <1>2, <1>5
    <2>2. Digits(high, 128) = <<high>>
        <3> HIDE DEF digits, d, high, low
        <3> QED
            BY <2>1, SeptetDigits
    <2>3. digits = Append(Digits(high, 128), low)
        <3> HIDE DEF d
        <3> QED
            BY <1>2, <2>1, SeptetDigits
    <2> HIDE DEF digits, high, low
    <2>4. digits = <<high, low>>
        BY <2>1, <2>2, <2>3, NumbersTogether
    <2>5. d = <<high + 128, low>>
        BY <2>1, <2>4
    <2> HIDE DEF d
    <2>6. <<f>> \o d = <<f, high + 128, low>>
        <3>1. high + 128 \in Nat /\ f \in Nat
            BY <1>1, <2>1 DEF f
        <3> QED
            BY <2>1, <2>5, <3>1, NumbersTogether
    <2> QED
        BY <1>3, <2>1, <2>6 DEF high, low
<1>6. number <= 30 => Identifier(class, constructed, number) = <<first + number>>
    BY <1>3
<1> QED
    BY <1>1, <1>4, <1>5, <1>6 DEF first, f

\* A length is in one octet, or in one or two after it.
LEMMA LengthForms ==
    ASSUME NEW n \in TagLength
    PROVE  /\ n <= 127 => LengthOctets(n) = <<n>>
           /\ n > 127 /\ n < 256 => LengthOctets(n) = <<129, n>>
           /\ n >= 256 => LengthOctets(n) = <<130, n \div 256, n % 256>>
<1> DEFINE digits == Digits(n, 256)
           high == n \div 256
           low == n % 256
<1>1. n \in Nat /\ n < 65536 /\ high \in Nat /\ high < 256 /\ low \in Nat
    BY DEF TagLength, Under
<1>2. LengthOctets(n) = IF n <= 127 THEN <<n>> ELSE <<128 + Len(digits)>> \o digits
    BY DEF LengthOctets
<1>3. \A k \in Nat : k < 256 => Digits(k, 256) = <<k>>
    BY DigitsOctets
<1>4. ASSUME n > 127, n < 256 PROVE LengthOctets(n) = <<129, n>>
    <2>1. digits = <<n>>
        BY <1>1, <1>3, <1>4
    <2> HIDE DEF digits
    <2>2. Len(digits) = 1
        BY <2>1
    <2>3. ~(n <= 127) /\ 128 + 1 = 129
        BY <1>1, <1>4
    <2>4. <<129>> \o digits = <<129, n>>
        BY <1>1, <2>1, NumbersTogether
    <2> QED
        BY <1>2, <2>2, <2>3, <2>4
<1>5. ASSUME n >= 256 PROVE LengthOctets(n) = <<130, high, low>>
    <2>1. digits = Append(Digits(high, 256), low)
        BY <1>1, <1>5, OctetDigits
    <2>2. Digits(high, 256) = <<high>>
        BY <1>1, <1>3
    <2>7. high \in Nat /\ low \in Nat
        BY <1>1
    <2> HIDE DEF digits, high, low
    <2>3. digits = <<high, low>>
        <3>1. Append(<<high>>, low) = <<high, low>>
            BY <2>7, NumbersTogether
        <3> QED
            BY <2>1, <2>2, <3>1
    <2>4. Len(digits) = 2
        BY <2>3
    <2>5. ~(n <= 127) /\ 128 + 2 = 130
        BY <1>1, <1>5
    <2>6. <<130>> \o digits = <<130, high, low>>
        BY <1>1, <2>3, NumbersTogether
    <2> QED
        BY <1>2, <2>4, <2>5, <2>6
<1> QED
    BY <1>1, <1>2, <1>4, <1>5

\* Where an identifier ends, and its number.
LEMMA IdentifierRead ==
    ASSUME NEW class \in {0, 2}, NEW constructed \in BOOLEAN, NEW number \in TagNumber,
           NEW bytes \in Seq(Byte), Holds(bytes, 0, Identifier(class, constructed, number)),
           Len(Identifier(class, constructed, number)) < Len(bytes)
    PROVE  /\ Len(Identifier(class, constructed, number)) \in 1 .. 3
           /\ TagEnd(bytes) = Len(Identifier(class, constructed, number))
           /\ TagNumberUpTo(bytes, TagEnd(bytes)) = number
<1> DEFINE s == Identifier(class, constructed, number)
           first == FirstOctet(class, constructed)
           n == Len(bytes)
           ends == {i \in 2 .. n : bytes[i] < 128 \/ i = n}
           Least == CHOOSE i \in ends : \A j \in ends : i <= j
<1>1. number \in Nat /\ number < 16384 /\ first \in {0, 32, 128, 160}
    BY IdentifierForms DEF TagNumber, Under
<1>2. n \in Nat /\ \A i \in 1 .. n : bytes[i] \in Nat /\ bytes[i] < 256
    BY DEF Byte, Under
<1>3. \A k \in 1 .. Len(s) : bytes[0 + k] = s[k]
    BY DEF Holds
<1>4. TagEnd(bytes) = IF bytes[1] % 32 = 31 /\ ends # {} THEN Least ELSE 1
    BY DEF TagEnd
<1>5. CASE number <= 30
    <2>1. s = <<first + number>>
        BY <1>5, IdentifierForms
    <2> HIDE DEF s, first
    <2>2. Len(s) = 1 /\ bytes[1] = first + number
        BY <1>3, <2>1
    <2>3. bytes[1] % 32 = number
        BY <1>1, <1>5, <2>2
    <2>4. TagEnd(bytes) = 1
        <3> HIDE DEF ends, Least
        <3> QED
            BY <1>1, <1>4, <1>5, <2>3
    <2> QED
        BY <2>2, <2>3, <2>4 DEF TagNumberUpTo, s
<1>6. ASSUME NEW end \in {2, 3}, end < n, bytes[1] % 32 = 31, bytes[end] < 128, end = 3 => ~(bytes[2] < 128)
      PROVE  TagEnd(bytes) = end
    <2>1. end \in ends /\ \A j \in ends : end <= j
        BY <1>2, <1>6
    <2>2. \A i \in ends : i \in Int
        BY <1>2
    <2> HIDE DEF ends
    <2>3. Least = end
        <3>1. Least \in ends /\ \A j \in ends : Least <= j
            BY <2>1
        <3>2. Least \in Int /\ end \in Int /\ Least <= end /\ end <= Least
            BY <2>1, <2>2, <3>1
        <3> HIDE DEF Least
        <3> QED
            BY <3>2
    <2> HIDE DEF Least
    <2> QED
        BY <1>4, <1>6, <2>1, <2>3
<1>7. CASE number > 30 /\ number < 128
    <2>1. s = <<first + 31, number>>
        BY <1>7, IdentifierForms
    <2> HIDE DEF s, first
    <2>2. Len(s) = 2 /\ bytes[1] = first + 31 /\ bytes[2] = number
        BY <1>3, <2>1
    <2>3. bytes[1] % 32 = 31
        BY <1>1, <2>2
    <2>4. 2 < n
        BY <2>2 DEF s
    <2>5. TagEnd(bytes) = 2
        <3> HIDE DEF ends, Least, n
        <3> QED
            BY <1>6, <1>7, <2>2, <2>3, <2>4
    <2>6. SubSeq(bytes, 2, 2) = <<number>>
        <3>1. 2 \in 1 .. n
            BY <1>2, <2>4
        <3> QED
            BY <2>2, <3>1, Slices
    <2>7. number \in Byte /\ number % 128 = number
        BY <1>1, <1>7 DEF Byte, Under
    <2>8. Base128(<<number>>) = number % 128
        BY <2>7, ShortNumbers
    <2>9. TagNumberUpTo(bytes, 2) = number
        <3>1. TagNumberUpTo(bytes, 2) = Base128(SubSeq(bytes, 2, 2))
            BY DEF TagNumberUpTo
        <3> QED
            BY <2>6, <2>7, <2>8, <3>1
    <2> QED
        BY <2>2, <2>5, <2>9 DEF s
<1>8. CASE number >= 128
    <2> DEFINE high == (number \div 128) + 128
               low == number % 128
    <2>1. s = <<first + 31, high, low>>
        BY <1>8, IdentifierForms
    <2>9. /\ high \in Byte /\ low \in Byte /\ 128 * (high % 128) + (low % 128) = number
          /\ low < 128 /\ ~(high < 128)
        BY <1>1, <1>8 DEF Byte, Under
    <2> HIDE DEF s, first, high, low
    <2>2. Len(s) = 3 /\ bytes[1] = first + 31 /\ bytes[2] = high /\ bytes[3] = low
        BY <1>3, <2>1
    <2>3. bytes[1] % 32 = 31
        BY <1>1, <2>2
    <2>4. 3 < n
        BY <2>2 DEF s
    <2>5. TagEnd(bytes) = 3
        <3> HIDE DEF ends, Least, n
        <3> QED
            BY <1>6, <2>2, <2>3, <2>4, <2>9
    <2>6. SubSeq(bytes, 2, 3) = <<high, low>>
        <3>1. 2 \in 1 .. n /\ 3 \in 1 .. n /\ 3 = 2 + 1
            BY <1>2, <2>4
        <3> QED
            BY <2>2, <3>1, Slices
    <2>8. Base128(<<high, low>>) = 128 * (high % 128) + (low % 128)
        BY <2>9, ShortNumbers
    <2>7. TagNumberUpTo(bytes, 3) = number
        <3>1. TagNumberUpTo(bytes, 3) = Base128(SubSeq(bytes, 2, 3))
            BY DEF TagNumberUpTo
        <3> QED
            BY <2>6, <2>8, <2>9, <3>1
    <2> QED
        BY <2>2, <2>5, <2>7 DEF s
<1> QED
    BY <1>1, <1>5, <1>7, <1>8

\* The length after it.
LEMMA LengthRead ==
    ASSUME NEW n \in TagLength, NEW bytes \in Seq(Byte), NEW end \in 1 .. 3,
           Holds(bytes, end, LengthOctets(n)), end + Len(LengthOctets(n)) <= Len(bytes)
    PROVE  /\ Len(LengthOctets(n)) \in 1 .. 3
           /\ TagAndLengthFrom(bytes, end) =
                <<[tagNumber |-> TagNumberUpTo(bytes, end), len |-> n,
                   off |-> end + Len(LengthOctets(n))]>>
<1> DEFINE s == LengthOctets(n)
           number == TagNumberUpTo(bytes, end)
           size == Len(bytes)
<1>1. n \in Nat /\ n < 65536 /\ size \in Nat /\ end \in Nat /\ end <= 3
    BY DEF TagLength, Under
<1>2. \A k \in 1 .. Len(s) : bytes[end + k] = s[k]
    BY DEF Holds
<1> HIDE DEF number
<1>3. CASE n <= 127
    <2>1. s = <<n>>
        BY <1>3, LengthForms
    <2> HIDE DEF s
    <2>2. Len(s) = 1 /\ bytes[end + 1] = n
        BY <1>2, <2>1
    <2>3. end + 1 <= size
        BY <2>2 DEF s
    <2>4. LengthAfter(bytes, end, n) = <<[tagNumber |-> number, len |-> n, off |-> end + 1]>>
        <3>1. ~(0 > 3 \/ end + 1 + 0 > size) /\ end + 1 + 0 = end + 1
            BY <1>1, <2>3
        <3> QED
            BY <1>3, <3>1 DEF LengthAfter, number
    <2>5. TagAndLengthFrom(bytes, end) = LengthAfter(bytes, end, n)
        BY <1>1, <2>2, <2>3 DEF TagAndLengthFrom
    <2> QED
        BY <2>2, <2>4, <2>5 DEF number, s
<1>4. CASE n > 127 /\ n < 256
    <2>1. s = <<129, n>>
        BY <1>4, LengthForms
    <2> HIDE DEF s
    <2>2. Len(s) = 2 /\ bytes[end + 1] = 129 /\ bytes[end + 2] = n
        BY <1>2, <2>1
    <2>3. end + 2 <= size
        BY <2>2 DEF s
    <2>4. SubSeq(bytes, end + 2, end + 1 + 1) = <<n>>
        <3>1. end + 2 \in 1 .. size /\ end + 1 + 1 = end + 2
            BY <1>1, <2>3
        <3> QED
            BY <2>2, <3>1, Slices
    <2>5. n \in Byte
        BY <1>1, <1>4 DEF Byte, Under
    <2>6. ParseInt64(SubSeq(bytes, end + 2, end + 1 + 1)) = n
        <3>1. ParseInt64(<<n>>) = n
            BY <2>5, ShortNumbers
        <3> QED
            BY <2>4, <3>1, Zenon
    <2>7. LengthAfter(bytes, end, 129) = <<[tagNumber |-> number, len |-> n, off |-> end + 2]>>
        <3>1. 129 % 128 = 1 /\ ~(1 > 3 \/ end + 1 + 1 > size) /\ end + 1 + 1 = end + 2
            BY <1>1, <2>3
        <3> QED
            BY <2>6, <3>1 DEF LengthAfter, number
    <2>8. TagAndLengthFrom(bytes, end) = LengthAfter(bytes, end, 129)
        BY <1>1, <2>2, <2>3 DEF TagAndLengthFrom
    <2> QED
        BY <2>2, <2>7, <2>8 DEF number, s
<1>5. CASE n >= 256
    <2> DEFINE high == n \div 256
               low == n % 256
    <2>1. s = <<130, high, low>>
        BY <1>5, LengthForms
    <2>5. high \in Byte /\ low \in Byte /\ 256 * high + low = n
        BY <1>1 DEF Byte, Under
    <2> HIDE DEF s, high, low
    <2>2. Len(s) = 3 /\ bytes[end + 1] = 130 /\ bytes[end + 2] = high /\ bytes[end + 3] = low
        BY <1>2, <2>1
    <2>3. end + 3 <= size
        BY <2>2 DEF s
    <2>4. SubSeq(bytes, end + 2, end + 1 + 2) = <<high, low>>
        <3>1. /\ end + 2 \in 1 .. size /\ end + 3 \in 1 .. size
              /\ end + 1 + 2 = end + 3 /\ end + 3 = (end + 2) + 1
            BY <1>1, <2>3
        <3> QED
            BY <2>2, <3>1, Slices
    <2>6. ParseInt64(SubSeq(bytes, end + 2, end + 1 + 2)) = n
        <3>1. ParseInt64(<<high, low>>) = 256 * high + low
            BY <2>5, ShortNumbers
        <3>2. ParseInt64(<<high, low>>) = n
            BY <2>5, <3>1, Zenon
        <3> QED
            BY <2>4, <3>2, Zenon
    <2>7. LengthAfter(bytes, end, 130) = <<[tagNumber |-> number, len |-> n, off |-> end + 3]>>
        <3>1. 130 % 128 = 2 /\ ~(2 > 3 \/ end + 1 + 2 > size) /\ end + 1 + 2 = end + 3
            BY <1>1, <2>3
        <3> QED
            BY <2>6, <3>1 DEF LengthAfter, number
    <2>8. TagAndLengthFrom(bytes, end) = LengthAfter(bytes, end, 130)
        BY <1>1, <2>2, <2>3 DEF TagAndLengthFrom
    <2> QED
        BY <2>2, <2>7, <2>8 DEF number, s
<1> QED
    BY <1>1, <1>3, <1>4, <1>5

\* The tag and the length of an element are octets.
LEMMA HeaderOctets ==
    /\ \A class \in {0, 2}, constructed \in BOOLEAN, number \in TagNumber :
          Identifier(class, constructed, number) \in Seq(Byte)
    /\ \A n \in TagLength : LengthOctets(n) \in Seq(Byte) /\ Len(LengthOctets(n)) > 0
<1>1. ASSUME NEW class \in {0, 2}, NEW constructed \in BOOLEAN, NEW number \in TagNumber
      PROVE  Identifier(class, constructed, number) \in Seq(Byte)
    <2>1. number \in Nat
        BY DEF TagNumber, Under
    <2> QED
        BY <2>1, IdentifierOctets
<1>2. ASSUME NEW n \in TagLength PROVE LengthOctets(n) \in Seq(Byte)
    <2>1. n \in Nat /\ n < 65536
        BY DEF TagLength, Under
    <2> QED
        BY <2>1, LengthOctetsOctets
<1>3. ASSUME NEW n \in TagLength PROVE Len(LengthOctets(n)) > 0
    <2> DEFINE s == LengthOctets(n)
    <2>1. n \in Nat /\ (n <= 127 \/ (n > 127 /\ n < 256) \/ n >= 256)
        BY DEF TagLength, Under
    <2>2. s = <<n>> \/ s = <<129, n>> \/ s = <<130, n \div 256, n % 256>>
        BY <2>1, LengthForms
    <2> HIDE DEF s
    <2>3. s = <<n>> => Len(s) > 0
        OBVIOUS
    <2>4. s = <<129, n>> => Len(s) > 0
        OBVIOUS
    <2>5. s = <<130, n \div 256, n % 256>> => Len(s) > 0
        OBVIOUS
    <2>6. Len(s) > 0
        BY <2>2, <2>3, <2>4, <2>5
    <2> QED
        BY <2>6 DEF s
<1> QED
    BY <1>1, <1>2, <1>3

\* Octets that are read as an element with this tag number and these contents,
\* whatever comes after them.
Stands(e, number, contents) ==
    /\ e \in Seq(Byte) /\ contents \in Seq(Byte) /\ Len(contents) < Len(e)
    /\ Holds(e, Len(e) - Len(contents), contents)
    /\ \A bytes \in Seq(Byte) : Holds(bytes, 0, e) /\ Len(e) <= Len(bytes) =>
          ParseTagAndLength(bytes) = <<[tagNumber |-> number, len |-> Len(contents),
                                        off |-> Len(e) - Len(contents)]>>

\* What appendTagAndLen writes before some contents is read as their tag and length.
LEMMA ElementStands ==
    ASSUME NEW class \in {0, 2}, NEW constructed \in BOOLEAN, NEW number \in TagNumber,
           NEW contents \in Seq(Byte), Len(contents) < 65536
    PROVE  /\ Stands(TagLenValue(class, constructed, number, contents), number, contents)
           /\ Len(TagLenValue(class, constructed, number, contents))
                = Len(Identifier(class, constructed, number)) + Len(LengthOctets(Len(contents)))
                  + Len(contents)
<1> DEFINE a == Identifier(class, constructed, number)
           n == Len(contents)
           b == LengthOctets(n)
           c == a \o b
           e == c \o contents
<1>1. n \in TagLength /\ n \in Nat /\ number \in Nat
    BY DEF TagLength, TagNumber, Under
<1>2. a \in Seq(Byte) /\ b \in Seq(Byte)
    BY <1>1, HeaderOctets
<1>3. TagLenValue(class, constructed, number, contents) = e
    BY DEF TagLenValue
<1> DEFINE p == Len(a)
           q == Len(b)
<1>4. Parts(Byte, a, p, b, q) /\ p \in Nat /\ q \in Nat
    BY <1>2 DEF Parts
<1> HIDE DEF a, b, n, p, q
<1>5. c \in Seq(Byte) /\ Len(c) = p + q
    BY <1>4, PartsTogether
<1> HIDE DEF c
<1>6. Parts(Byte, c, p + q, contents, n)
    BY <1>5 DEF Parts, n
<1>7. e \in Seq(Byte) /\ Len(e) = p + q + n
    BY <1>6, PartsTogether
<1> HIDE DEF e
<1>8. ASSUME NEW bytes \in Seq(Byte), Holds(bytes, 0, e), Len(e) <= Len(bytes)
      PROVE  /\ ParseTagAndLength(bytes) = <<[tagNumber |-> number, len |-> n, off |-> p + q]>>
             /\ q > 0 /\ Holds(bytes, p + q, contents)
    <2>1. Holds(bytes, 0, c) /\ Holds(bytes, 0 + (p + q), contents)
        BY <1>6, <1>8, HoldsBoth DEF e
    <2>2. Holds(bytes, 0, a) /\ Holds(bytes, 0 + p, b)
        BY <1>4, <2>1, HoldsBoth DEF c
    <2>3. 0 + p = p /\ 0 + (p + q) = p + q /\ Len(bytes) \in Nat
        BY <1>4
    <2>4. p + q <= Len(bytes)
        BY <1>1, <1>4, <1>7, <1>8, <2>3
    <2>5. q > 0
        BY <1>1, HeaderOctets DEF b, q
    <2>6. p < Len(bytes)
        BY <1>4, <2>3, <2>4, <2>5
    <2>7. p \in 1 .. 3 /\ TagEnd(bytes) = p /\ TagNumberUpTo(bytes, p) = number
        BY <2>2, <2>6, IdentifierRead DEF a, p
    <2>8. TagAndLengthFrom(bytes, p) = <<[tagNumber |-> number, len |-> n, off |-> p + q]>>
        <3>1. Holds(bytes, p, LengthOctets(n)) /\ p + Len(LengthOctets(n)) <= Len(bytes)
            BY <2>2, <2>3, <2>4 DEF b, q
        <3> QED
            BY <1>1, <2>7, <3>1, LengthRead DEF b, q
    <2>9. bytes # <<>>
        BY <2>3, <2>6, <1>4
    <2> QED
        BY <2>1, <2>3, <2>5, <2>7, <2>8, <2>9 DEF ParseTagAndLength
<1>9. Holds(e, 0, e) /\ Len(e) <= Len(e)
    <2>1. Holds(e, 0, e)
        BY <1>7, HoldsItself
    <2>2. Len(e) \in Nat
        BY <1>7
    <2> QED
        BY <2>1, <2>2
<1>10. q > 0 /\ Holds(e, p + q, contents)
    BY <1>7, <1>8, <1>9
<1>11. Len(e) - n = p + q /\ n < Len(e)
    BY <1>1, <1>4, <1>7, <1>10
<1>12. Stands(e, number, contents)
    BY <1>7, <1>8, <1>10, <1>11 DEF Stands, n
<1> QED
    BY <1>3, <1>7, <1>12 DEF a, b, n, p, q

\* An element is told apart from what comes after it, and its contents from what
\* comes before them.
LEMMA ElementRead ==
    ASSUME NEW e, NEW number, NEW contents, Stands(e, number, contents)
    PROVE  /\ e \in Seq(Byte) /\ contents \in Seq(Byte) /\ e # <<>> /\ Len(e) > 0
           /\ Len(e) \in Nat /\ Len(contents) \in Nat /\ Len(contents) < Len(e)
           /\ ParseTagAndLength(e) = <<[tagNumber |-> number, len |-> Len(contents),
                                        off |-> Len(e) - Len(contents)]>>
           /\ From(e, Len(e) - Len(contents) + 1) = contents
           /\ \A bytes \in Seq(Byte) : Holds(bytes, 0, e) /\ Len(e) <= Len(bytes) =>
                 FirstElement(bytes) = <<[tagNumber |-> number, bytes |-> e]>>
<1> DEFINE n == Len(e)
           k == Len(contents)
           i == n - k
           tal == [tagNumber |-> number, len |-> k, off |-> i]
<1>1. /\ e \in Seq(Byte) /\ contents \in Seq(Byte) /\ k < n /\ Holds(e, i, contents)
      /\ \A bytes \in Seq(Byte) : Holds(bytes, 0, e) /\ n <= Len(bytes) =>
            ParseTagAndLength(bytes) = <<tal>>
    BY DEF Stands
<1>2. n \in Nat /\ k \in Nat
    BY <1>1
<1>3. Holds(e, 0, e)
    BY <1>1, HoldsItself
<1>7. i \in Nat /\ i + k = n /\ n > 0
    <2> HIDE DEF n, k
    <2> QED
        BY <1>1, <1>2
<1>4. ParseTagAndLength(e) = <<tal>>
    <2>1. n <= Len(e)
        BY <1>2
    <2> HIDE DEF n, tal
    <2> QED
        BY <1>1, <1>3, <2>1
<1>5. From(e, i + 1) = contents
    <2>1. Octets(e, i, i + Len(contents)) = contents
        <3> HIDE DEF i
        <3> QED
            BY <1>1, <1>7, OctetsReadBack
    <2> QED
        BY <2>1, <1>7 DEF Octets, From
<1>6. ASSUME NEW bytes \in Seq(Byte), Holds(bytes, 0, e), n <= Len(bytes)
      PROVE  FirstElement(bytes) = <<[tagNumber |-> number, bytes |-> e]>>
    <2>1. ParseTagAndLength(bytes) = <<tal>>
        BY <1>1, <1>6
    <2>2. tal.off + tal.len = n /\ tal.tagNumber = number
        BY <1>7
    <2>3. SubSeq(bytes, 1, n) = e
        <3>1. Octets(bytes, 0, 0 + Len(e)) = e
            BY <1>1, <1>6, OctetsReadBack
        <3>2. 0 + 1 = 1 /\ 0 + Len(e) = n
            BY <1>2
        <3> QED
            BY <3>1, <3>2 DEF Octets
    <2> HIDE DEF tal, n
    <2>4. Fits(tal, bytes)
        BY <1>6, <2>2 DEF Fits
    <2>5. Element(bytes, tal) = [tagNumber |-> number, bytes |-> e]
        BY <2>2, <2>3 DEF Element
    <2>6. NextElement(bytes, <<tal>>) = <<Element(bytes, tal)>>
        BY <2>4 DEF NextElement
    <2> QED
        BY <2>1, <2>5, <2>6 DEF FirstElement
<1>8. e # <<>>
    BY <1>7
<1> QED
    BY <1>1, <1>2, <1>4, <1>5, <1>6, <1>7, <1>8

-----------------------------------------------------------------------------
(* Elements one after another, and those a decoder looks for. *)

\* A tag and a length, wherever they are read, take octets that are there.
LEMMA TagAndLengthBounds ==
    ASSUME NEW bytes \in Seq(Byte), ParseTagAndLength(bytes) # <<>>
    PROVE  LET tal == ParseTagAndLength(bytes)[1]
           IN tal.off \in Nat /\ tal.off > 0 /\ tal.len \in Nat
<1> DEFINE n == Len(bytes)
           ends == {i \in 2 .. n : bytes[i] < 128 \/ i = n}
           end == TagEnd(bytes)
           octet == bytes[end + 1]
           more == IF octet <= 127 THEN 0 ELSE octet % 128
           len == IF octet <= 127 THEN octet ELSE ParseInt64(SubSeq(bytes, end + 2, end + 1 + more))
           tal == [tagNumber |-> TagNumberUpTo(bytes, end), len |-> len, off |-> end + 1 + more]
<1>1. n \in Nat /\ \A i \in 1 .. n : bytes[i] \in Nat
    BY BytesAreNumbers
<1>2. end \in Nat /\ end > 0
    <2>1. end = IF bytes[1] % 32 = 31 /\ ends # {} THEN CHOOSE i \in ends : \A j \in ends : i <= j ELSE 1
        BY DEF TagEnd
    <2>2. ends # {} => (CHOOSE i \in ends : \A j \in ends : i <= j) \in ends
        <3>1. ends \in SUBSET Nat
            BY <1>1
        <3> HIDE DEF ends
        <3> SUFFICES ASSUME ends # {} PROVE (CHOOSE i \in ends : \A j \in ends : i <= j) \in ends
            OBVIOUS
        <3>2. PICK x \in ends : \A y \in ends : x <= y
            BY <3>1, LeastOf
        <3> QED
            BY <3>2
    <2>3. \A i \in ends : i \in Nat /\ i > 0
        BY <1>1
    <2> HIDE DEF ends, end
    <2> QED
        BY <2>1, <2>2, <2>3
<1>3. ParseTagAndLength(bytes) = TagAndLengthFrom(bytes, end)
    BY DEF ParseTagAndLength
<1> HIDE DEF end, n
<1>4. TagAndLengthFrom(bytes, end) = LengthAfter(bytes, end, octet) /\ end < n
    BY <1>1, <1>2, <1>3 DEF TagAndLengthFrom, n
<1>5. octet \in Nat
    <2>1. end + 1 \in 1 .. n
        BY <1>1, <1>2, <1>4
    <2> QED
        BY <1>1, <2>1
<1> HIDE DEF octet
<1>6. more \in Nat
    BY <1>5
<1>7. LengthAfter(bytes, end, octet) = <<tal>> /\ end + 1 + more <= n
    <2>1. LengthAfter(bytes, end, octet) = IF more > 3 \/ end + 1 + more > n THEN <<>> ELSE <<tal>>
        BY DEF LengthAfter, n
    <2> HIDE DEF tal, more
    <2>2. ~(more > 3 \/ end + 1 + more > n)
        BY <1>3, <1>4, <2>1
    <2> QED
        BY <1>1, <1>2, <1>6, <2>1, <2>2
<1> HIDE DEF more
<1>8. len \in Nat
    <2>1. CASE octet <= 127
        BY <1>5, <2>1
    <2>2. CASE ~(octet <= 127)
        <3> DEFINE digits == SubSeq(bytes, end + 2, end + 1 + more)
        <3>1. digits \in Seq(Byte)
            <4>1. end + 2 \in Nat /\ end + 1 + more \in Nat /\ end + 2 > 0
                BY <1>2, <1>6
            <4>2. \A i \in (end + 2) .. (end + 1 + more) : bytes[i] \in Byte
                BY <1>1, <1>2, <1>6, <1>7 DEF n
            <4> DEFINE from == end + 2
                       to == end + 1 + more
            <4> HIDE DEF from, to
            <4> QED
                BY <4>1, <4>2, SubSeqProperties DEF from, to
        <3> HIDE DEF digits
        <3>2. ParseInt64(digits) \in Nat
            BY <3>1, ShortNumbers
        <3> QED
            BY <2>2, <3>2 DEF digits
    <2> QED
        BY <2>1, <2>2
<1>9. end + 1 + more \in Nat /\ end + 1 + more > 0
    BY <1>2, <1>6
<1> HIDE DEF len
<1> QED
    BY <1>3, <1>4, <1>7, <1>8, <1>9

\* An element takes one octet at least, and none that is not there.
LEMMA FirstElementBounds ==
    ASSUME NEW bytes \in Seq(Byte), FirstElement(bytes) # <<>>
    PROVE  LET n == Len(FirstElement(bytes)[1].bytes)
           IN n \in Nat /\ 0 < n /\ n <= Len(bytes)
<1> DEFINE parsed == ParseTagAndLength(bytes)
           tal == parsed[1]
           n == tal.off + tal.len
<1>1. FirstElement(bytes) = NextElement(bytes, parsed)
    BY DEF FirstElement
<1> HIDE DEF parsed
<1>2. parsed # <<>> /\ Fits(tal, bytes) /\ FirstElement(bytes) = <<Element(bytes, tal)>>
    BY <1>1 DEF NextElement
<1>3. tal.off \in Nat /\ tal.off > 0 /\ tal.len \in Nat
    BY <1>2, TagAndLengthBounds DEF parsed
<1>4. n \in Nat /\ 0 < n /\ n <= Len(bytes)
    <2>1. n <= Len(bytes)
        BY <1>2 DEF Fits
    <2> HIDE DEF tal
    <2> QED
        BY <1>3, <2>1
<1>5. FirstElement(bytes)[1].bytes = SubSeq(bytes, 1, n)
    BY <1>2 DEF Element
<1> HIDE DEF n
<1>6. Len(SubSeq(bytes, 1, n)) = n
    BY <1>4
<1> QED
    BY <1>4, <1>5, <1>6

\* What Elements finds from each place on.
ElementsFrom(bytes, f) ==
    /\ f[Len(bytes) + 1] = << <<>> >>
    /\ \A i \in 1 .. Len(bytes) :
          LET element == FirstElement(From(bytes, i))
          IN f[i] = IF element = <<>> THEN <<>>
                    ELSE Before(element[1], f[i + Len(element[1].bytes)])

\* Elements finds the first element, and then those after it.
LEMMA ElementsFound ==
    ASSUME NEW bytes \in Seq(Byte)
    PROVE  \E f : ElementsFrom(bytes, f) /\ Elements(bytes) = f[1]
<1> DEFINE n == Len(bytes)
           element == [i \in 1 .. n |-> FirstElement(From(bytes, i))]
           Solution(F) == F = [i \in 1 .. n + 1 |->
               IF i = n + 1 THEN << <<>> >>
               ELSE IF element[i] = <<>> THEN <<>>
               ELSE Before(element[i][1], F[i + Len(element[i][1].bytes)])]
           F == CHOOSE F : Solution(F)
           D == 1 .. n + 1
           E == {element[i][1] : i \in 1 .. n}
           S == {<<>>} \cup {<<s>> : s \in Seq(E)}
           Size == [i \in D |-> n + 1 - i]
           Ends == {n + 1} \cup {i \in 1 .. n : element[i] = <<>>}
           Base == [i \in Ends |-> IF i = n + 1 THEN << <<>> >> ELSE <<>>]
           Down == [i \in D |-> IF i \in Ends THEN i ELSE i + Len(element[i][1].bytes)]
           Step == [p \in S \X D |-> Before(element[p[2]][1], p[1])]
<1>1. Elements(bytes) = F[1]
    BY DEF Elements
<1>2. n \in Nat /\ \A i \in 1 .. n : From(bytes, i) \in Seq(Byte) /\ Len(From(bytes, i)) = n + 1 - i
    BY DEF From
<1>3. \A i \in 1 .. n : element[i] # <<>> =>
         /\ Len(element[i][1].bytes) \in Nat /\ 0 < Len(element[i][1].bytes)
         /\ Len(element[i][1].bytes) <= n + 1 - i
    <2> TAKE i \in 1 .. n
    <2> HAVE element[i] # <<>>
    <2> DEFINE b == From(bytes, i)
    <2>1. b \in Seq(Byte) /\ Len(b) = n + 1 - i /\ element[i] = FirstElement(b)
        BY <1>2
    <2> HIDE DEF b, n, element
    <2> QED
        BY <2>1, FirstElementBounds
<1>4. DOMAIN element = 1 .. n
    OBVIOUS
<1>11. \A i \in 1 .. n : element[i] = FirstElement(From(bytes, i))
    OBVIOUS
<1> HIDE DEF n, element
<1>5. \A x \in D \ Ends : /\ x \in 1 .. n /\ element[x] # <<>>
                          /\ Down[x] = x + Len(element[x][1].bytes)
    BY <1>2
<1>6. Recursive(D, S, Size, Base, Down, Step)
    <2>1. Size \in [D -> Nat]
        BY <1>2
    <2>2. DOMAIN Base = Ends /\ Ends \in SUBSET D
        BY <1>2
    <2>3. <<>> \in Seq(E)
        BY EmptySeq
    <2>4. \A x \in Ends : Base[x] \in S
        BY <2>3
    <2>5. \A x \in D \ Ends : Down[x] \in D /\ Size[Down[x]] < Size[x]
        <3> TAKE x \in D \ Ends
        <3> DEFINE m == Len(element[x][1].bytes)
        <3>1. x \in 1 .. n /\ Down[x] = x + m /\ m \in Nat /\ 0 < m /\ m <= n + 1 - x
            BY <1>3, <1>5
        <3> HIDE DEF m, Down
        <3> QED
            BY <1>2, <3>1
    <2>6. \A x \in D \ Ends, v \in S : Step[<<v, x>>] \in S
        <3> TAKE x \in D \ Ends, v \in S
        <3> DEFINE e == element[x][1]
        <3>1. x \in 1 .. n
            BY <1>5
        <3>2. e \in E
            BY <3>1
        <3>3. Step[<<v, x>>] = Before(e, v)
            OBVIOUS
        <3> HIDE DEF e, E, Step
        <3>4. CASE v = <<>>
            BY <3>3, <3>4 DEF Before
        <3>5. CASE v # <<>>
            <4>1. PICK s \in Seq(E) : v = <<s>>
                BY <3>5
            <4>2. <<e>> \o s \in Seq(E)
                BY <3>2
            <4>3. Before(e, v) = << <<e>> \o s >>
                BY <4>1, <3>5 DEF Before
            <4> QED
                BY <3>3, <4>2, <4>3
        <3> QED
            BY <3>4, <3>5
    <2> HIDE DEF D, S, Size, Ends, Base, Down, Step
    <2> QED
        BY <2>1, <2>2, <2>4, <2>5, <2>6 DEF Recursive
<1>7. PICK g : Recursion(D, S, Base, Down, Step, g)
    <2> HIDE DEF D, S, Size, Base, Down, Step
    <2> QED
        BY <1>6, RecursionExists
<1>8. Solution(g)
    <2>1. g \in [D -> S] /\ \A i \in D : g[i] = IF i \in Ends THEN Base[i] ELSE Step[<<g[Down[i]], i>>]
        BY <1>7 DEF Recursion, Solves
    <2>2. \A i \in D \ Ends : Down[i] \in D
        BY <1>6 DEF Recursive
    <2>3. ASSUME NEW i \in D
          PROVE  g[i] = IF i = n + 1 THEN << <<>> >>
                        ELSE IF element[i] = <<>> THEN <<>>
                        ELSE Before(element[i][1], g[i + Len(element[i][1].bytes)])
        <3>1. CASE i \in Ends
            <4>1. g[i] = IF i = n + 1 THEN << <<>> >> ELSE <<>>
                BY <2>1, <3>1
            <4>2. i # n + 1 => element[i] = <<>>
                BY <3>1
            <4> QED
                BY <4>1, <4>2
        <3>2. CASE i \notin Ends
            <4> DEFINE m == i + Len(element[i][1].bytes)
            <4>1. i # n + 1 /\ element[i] # <<>> /\ Down[i] = m
                BY <1>5, <3>2
            <4>2. m \in D
                BY <2>2, <3>2, <4>1
            <4>3. g[m] \in S
                BY <2>1, <4>2
            <4>4. g[i] = Step[<<g[m], i>>]
                BY <2>1, <3>2, <4>1
            <4> HIDE DEF m, D, S
            <4>5. g[i] = Before(element[i][1], g[m])
                BY <4>3, <4>4
            <4> QED
                BY <4>1, <4>5 DEF m
        <3> QED
            BY <3>1, <3>2
    <2> HIDE DEF S, Ends, Base, Down, Step
    <2> QED
        BY <2>1, <2>3
<1>9. Solution(F)
    <2> HIDE DEF Solution
    <2> QED
        BY <1>8
<1>10. ElementsFrom(bytes, F)
    <2> HIDE DEF F
    <2>1. n + 1 \in 1 .. n + 1 /\ \A i \in 1 .. n : i \in 1 .. n + 1 /\ i # n + 1
        BY <1>2
    <2>2. F[n + 1] = << <<>> >>
        BY <1>9, <2>1
    <2>3. \A i \in 1 .. n : F[i] = IF element[i] = <<>> THEN <<>>
                                   ELSE Before(element[i][1], F[i + Len(element[i][1].bytes)])
        BY <1>9, <2>1
    <2> QED
        BY <1>11, <2>2, <2>3 DEF ElementsFrom, n
<1> QED
    BY <1>1, <1>10

IsElement(e, number) == \E contents : Stands(e, number, contents)

\* The places, from k on, of the parts that are there.
InOrder(parts, k, idx) ==
    /\ idx \in Seq(Nat)
    /\ \A j \in 1 .. Len(idx) : idx[j] \in k .. Len(parts) /\ parts[idx[j]] # <<>>
    /\ \A i \in 1 .. Len(idx), j \in 1 .. Len(idx) : i < j => idx[i] < idx[j]
    /\ \A i \in k .. Len(parts) : parts[i] # <<>> => \E j \in 1 .. Len(idx) : idx[j] = i
    /\ (\A i \in k .. Len(parts) : parts[i] # <<>>) =>
          /\ Len(idx) = Len(parts) - k + 1
          /\ \A j \in 1 .. Len(idx) : idx[j] = k + j - 1

\* An element before others.
LEMMA Prepended ==
    ASSUME NEW S, NEW a \in S, NEW s \in Seq(S)
    PROVE  /\ <<a>> \o s \in Seq(S) /\ Len(<<a>> \o s) = Len(s) + 1 /\ Len(s) \in Nat
           /\ (<<a>> \o s)[1] = a
           /\ \A j \in 1 .. Len(s) + 1 : j # 1 => j - 1 \in 1 .. Len(s) /\ (<<a>> \o s)[j] = s[j - 1]
           /\ \A j \in 1 .. Len(s) : j + 1 \in 1 .. Len(s) + 1 /\ (<<a>> \o s)[j + 1] = s[j]
    OBVIOUS

\* One more place before those in order.
LEMMA InOrderBefore ==
    ASSUME NEW parts, Len(parts) \in Nat, NEW k \in 1 .. Len(parts), NEW idx,
           InOrder(parts, k + 1, idx)
    PROVE  /\ parts[k] = <<>> => InOrder(parts, k, idx)
           /\ parts[k] # <<>> => InOrder(parts, k, <<k>> \o idx)
<1> DEFINE n == Len(parts)
           m == Len(idx)
           more == <<k>> \o idx
<1>1. /\ idx \in Seq(Nat) /\ n \in Nat /\ k \in Nat /\ k <= n
      /\ \A j \in 1 .. m : idx[j] \in (k + 1) .. n /\ parts[idx[j]] # <<>>
      /\ \A i \in 1 .. m, j \in 1 .. m : i < j => idx[i] < idx[j]
      /\ \A i \in (k + 1) .. n : parts[i] # <<>> => \E j \in 1 .. m : idx[j] = i
      /\ (\A i \in (k + 1) .. n : parts[i] # <<>>) =>
            m = n - (k + 1) + 1 /\ \A j \in 1 .. m : idx[j] = (k + 1) + j - 1
    BY DEF InOrder
<1>2. /\ more \in Seq(Nat) /\ Len(more) = m + 1 /\ m \in Nat /\ more[1] = k
      /\ \A j \in 1 .. m + 1 : j # 1 => j - 1 \in 1 .. m /\ more[j] = idx[j - 1]
      /\ \A j \in 1 .. m : j + 1 \in 1 .. m + 1 /\ more[j + 1] = idx[j]
    BY <1>1, Prepended
<1>3. \A i \in k .. n : i = k \/ i \in (k + 1) .. n
    BY <1>1
<1>4. \A i \in (k + 1) .. n : i \in k .. n /\ k < i
    BY <1>1
<1>5. k \in k .. n
    BY <1>1
<1> HIDE DEF n, m, more
<1>6. ASSUME parts[k] = <<>> PROVE InOrder(parts, k, idx)
    BY <1>1, <1>3, <1>4, <1>5, <1>6 DEF InOrder, n, m
<1>7. ASSUME parts[k] # <<>> PROVE InOrder(parts, k, more)
    <2>1. \A j \in 1 .. m + 1 : more[j] \in k .. n /\ parts[more[j]] # <<>>
        <3> TAKE j \in 1 .. m + 1
        <3>1. CASE j = 1
            BY <1>2, <1>5, <1>7, <3>1
        <3>2. CASE j # 1
            <4>1. j - 1 \in 1 .. m /\ more[j] = idx[j - 1]
                BY <1>2, <3>2
            <4>2. idx[j - 1] \in (k + 1) .. n /\ parts[idx[j - 1]] # <<>>
                BY <1>1, <4>1
            <4> QED
                BY <1>4, <4>1, <4>2
        <3> QED
            BY <3>1, <3>2
    <2>2. ASSUME NEW i \in 1 .. m + 1, NEW j \in 1 .. m + 1, i < j PROVE more[i] < more[j]
        <3>1. j # 1 /\ j - 1 \in 1 .. m /\ more[j] = idx[j - 1]
            BY <1>2, <2>2
        <3>2. CASE i = 1
            <4>1. idx[j - 1] \in (k + 1) .. n
                BY <1>1, <3>1
            <4> QED
                BY <1>2, <1>4, <3>1, <3>2, <4>1
        <3>3. CASE i # 1
            <4>1. i - 1 \in 1 .. m /\ more[i] = idx[i - 1] /\ i - 1 < j - 1
                BY <1>2, <2>2, <3>3
            <4> QED
                BY <1>1, <3>1, <4>1
        <3> QED
            BY <3>2, <3>3
    <2>3. ASSUME NEW i \in k .. n, parts[i] # <<>> PROVE \E j \in 1 .. m + 1 : more[j] = i
        <3>1. CASE i = k
            <4>1. 1 \in 1 .. m + 1
                BY <1>2
            <4> QED
                BY <1>2, <3>1, <4>1
        <3>2. CASE i # k
            <4>1. PICK j \in 1 .. m : idx[j] = i
                BY <1>1, <1>3, <2>3, <3>2
            <4> QED
                BY <1>2, <4>1
        <3> QED
            BY <3>1, <3>2
    <2>4. ASSUME \A i \in k .. n : parts[i] # <<>>
          PROVE  m + 1 = n - k + 1 /\ \A j \in 1 .. m + 1 : more[j] = k + j - 1
        <3>1. m = n - (k + 1) + 1 /\ \A j \in 1 .. m : idx[j] = (k + 1) + j - 1
            BY <1>1, <1>4, <2>4
        <3>2. m + 1 = n - k + 1
            BY <1>1, <1>2, <3>1
        <3>3. \A j \in 1 .. m + 1 : more[j] = k + j - 1
            <4> TAKE j \in 1 .. m + 1
            <4>1. CASE j = 1
                BY <1>1, <1>2, <4>1
            <4>2. CASE j # 1
                <5>1. j - 1 \in 1 .. m /\ more[j] = idx[j - 1]
                    BY <1>2, <4>2
                <5>2. idx[j - 1] = (k + 1) + (j - 1) - 1
                    BY <3>1, <5>1
                <5> QED
                    BY <1>1, <5>1, <5>2
            <4> QED
                BY <4>1, <4>2
        <3> QED
            BY <3>2, <3>3
    <2> QED
        BY <1>2, <2>1, <2>2, <2>3, <2>4 DEF InOrder, n
<1> QED
    BY <1>6, <1>7 DEF more

\* No place after the last.
LEMMA InOrderNone ==
    ASSUME NEW parts, Len(parts) \in Nat
    PROVE  InOrder(parts, Len(parts) + 1, <<>>)
<1> DEFINE n == Len(parts)
<1>1. <<>> \in Seq(Nat) /\ Len(<<>>) = 0
    BY EmptySeq
<1>2. \A i \in (n + 1) .. n : FALSE
    OBVIOUS
<1>3. \A j \in 1 .. Len(<<>>) : FALSE
    BY <1>1
<1>4. n - (n + 1) + 1 = 0
    OBVIOUS
<1> QED
    BY <1>1, <1>2, <1>3, <1>4 DEF InOrder

\* The elements at these places.
Chosen(parts, tags, idx) ==
    [j \in 1 .. Len(idx) |-> [tagNumber |-> tags[idx[j]], bytes |-> parts[idx[j]]]]

\* An element before those chosen is one more chosen.
LEMMA ChosenBefore ==
    ASSUME NEW parts, NEW tags, NEW k \in Nat, NEW idx \in Seq(Nat)
    PROVE  <<[tagNumber |-> tags[k], bytes |-> parts[k]]>> \o Chosen(parts, tags, idx)
             = Chosen(parts, tags, <<k>> \o idx)
<1> DEFINE e == [tagNumber |-> tags[k], bytes |-> parts[k]]
           m == Len(idx)
           s == Chosen(parts, tags, idx)
           more == <<k>> \o idx
           S == {e} \cup {s[j] : j \in 1 .. m}
           t == <<e>> \o s
<1>1. /\ more \in Seq(Nat) /\ Len(more) = m + 1 /\ m \in Nat /\ more[1] = k
      /\ \A j \in 1 .. m + 1 : j # 1 => j - 1 \in 1 .. m /\ more[j] = idx[j - 1]
    BY Prepended
<1>2. s = [j \in 1 .. m |-> [tagNumber |-> tags[idx[j]], bytes |-> parts[idx[j]]]]
    BY DEF Chosen
<1>3. s \in Seq(S) /\ Len(s) = m /\ e \in S
    <2> HIDE DEF e, m
    <2>1. s = [j \in 1 .. m |-> s[j]]
        BY <1>2
    <2> HIDE DEF s
    <2>2. s \in [1 .. m -> S]
        BY <2>1
    <2> HIDE DEF S
    <2>3. s \in Seq(S)
        BY <1>1, <2>2, SeqDef
    <2> QED
        BY <1>1, <2>2, <2>3 DEF S
<1> HIDE DEF S, s
<1>4. /\ t \in Seq(S) /\ Len(t) = m + 1 /\ t[1] = e
      /\ \A j \in 1 .. m + 1 : j # 1 => j - 1 \in 1 .. m /\ t[j] = s[j - 1]
    BY <1>3, Prepended
<1>5. t = [j \in 1 .. m + 1 |-> t[j]]
    BY <1>4
<1> HIDE DEF t, more, m
<1>6. \A j \in 1 .. m + 1 : t[j] = [tagNumber |-> tags[more[j]], bytes |-> parts[more[j]]]
    <2> TAKE j \in 1 .. m + 1
    <2>1. CASE j = 1
        BY <1>1, <1>4, <2>1
    <2>2. CASE j # 1
        BY <1>1, <1>2, <1>4, <2>2
    <2> QED
        BY <2>1, <2>2
<1>7. t = Chosen(parts, tags, more)
    BY <1>1, <1>5, <1>6 DEF Chosen
<1> QED
    BY <1>7 DEF t, more, s, e

\* No element is chosen from no place.
LEMMA ChosenNone ==
    ASSUME NEW parts, NEW tags
    PROVE  Chosen(parts, tags, <<>>) = <<>>
    BY DEF Chosen

\* What is read from inside octets is what stands there.
LEMMA HoldsFrom ==
    ASSUME NEW bytes \in Seq(Byte), NEW i \in Nat, NEW s \in Seq(Byte), Holds(bytes, i, s),
           i + Len(s) <= Len(bytes)
    PROVE  /\ From(bytes, i + 1) \in Seq(Byte)
           /\ Holds(From(bytes, i + 1), 0, s) /\ Len(s) <= Len(From(bytes, i + 1))
<1> DEFINE n == Len(bytes)
           m == Len(s)
           b == From(bytes, i + 1)
<1>1. n \in Nat /\ m \in Nat /\ i + m <= n
    OBVIOUS
<1>2. b \in Seq(Byte) /\ \A k \in 1 .. n - i : b[k] = bytes[i + k]
    BY <1>1 DEF From
<1>3. Len(b) = n - i
    BY <1>1 DEF From
<1> HIDE DEF n, m, b
<1>4. \A k \in 1 .. m : k \in 1 .. n - i /\ 0 + k = k
    BY <1>1
<1>5. Holds(b, 0, s)
    BY <1>2, <1>4 DEF Holds, m
<1>6. m <= n - i
    BY <1>1
<1> QED
    BY <1>2, <1>3, <1>5, <1>6 DEF m, b

AreElements(parts, tags) ==
    /\ parts \in Seq(Seq(Byte))
    /\ \A i \in 1 .. Len(parts) : parts[i] # <<>> => IsElement(parts[i], tags[i])

\* Where each part stands in the parts one after the other.
LEMMA PartsStand ==
    ASSUME NEW S, NEW parts \in Seq(Seq(S)), NEW f, Flattening(S, parts, f)
    PROVE  /\ \A k \in 0 .. Len(parts) : f[k] \in Seq(S) /\ Len(f[k]) \in Nat
           /\ Len(f[0]) = 0
           /\ \A k \in 1 .. Len(parts) :
                /\ Len(f[k]) = Len(f[k - 1]) + Len(parts[k])
                /\ Len(f[k]) <= Len(f[Len(parts)])
                /\ Holds(f[Len(parts)], Len(f[k - 1]), parts[k])
<1> DEFINE n == Len(parts)
<1>1. n \in Nat /\ \A k \in 1 .. n : parts[k] \in Seq(S)
    OBVIOUS
<1>2. /\ f \in [0 .. n -> Seq(S)] /\ f[0] = <<>>
      /\ \A k \in 1 .. n : f[k] = f[k - 1] \o parts[k]
    BY DEF Flattening
<1> HIDE DEF n
<1>3. Len(f[0]) = 0 /\ \A k \in 0 .. n : f[k] \in Seq(S) /\ Len(f[k]) \in Nat
    BY <1>2, EmptySeq
<1>4. ASSUME NEW k \in 1 .. n
      PROVE  /\ f[k - 1] \in Seq(S) /\ parts[k] \in Seq(S) /\ f[k] = f[k - 1] \o parts[k]
             /\ Len(f[k]) = Len(f[k - 1]) + Len(parts[k]) /\ Len(parts[k]) \in Nat
    <2>1. k - 1 \in 0 .. n
        BY <1>1
    <2> DEFINE a == f[k - 1]
               b == parts[k]
    <2>2. a \in Seq(S) /\ b \in Seq(S) /\ f[k] = a \o b
        BY <1>1, <1>2, <1>3, <2>1
    <2> HIDE DEF a, b
    <2>3. Len(a \o b) = Len(a) + Len(b) /\ Len(b) \in Nat
        BY <2>2, Concatenation
    <2> QED
        BY <2>2, <2>3 DEF a, b
<1> DEFINE T == {j \in Nat : j <= n =>
                    Holds(f[n], 0, f[n - j]) /\ Len(f[n - j]) <= Len(f[n])}
<1>5. 0 \in T
    <2>1. n - 0 = n /\ n \in 0 .. n
        BY <1>1
    <2>2. Holds(f[n], 0, f[n]) /\ Len(f[n]) <= Len(f[n])
        BY <1>3, <2>1, HoldsItself
    <2> QED
        BY <2>1, <2>2
<1>6. ASSUME NEW j \in Nat, j \in T PROVE j + 1 \in T
    <2>1. SUFFICES ASSUME j + 1 <= n
                   PROVE  Holds(f[n], 0, f[n - (j + 1)]) /\ Len(f[n - (j + 1)]) <= Len(f[n])
        OBVIOUS
    <2> DEFINE k == n - j
    <2>2. k \in 1 .. n /\ n - (j + 1) = k - 1 /\ j <= n /\ n \in 0 .. n /\ k - 1 \in 0 .. n
        BY <1>1, <2>1
    <2>3. Holds(f[n], 0, f[k]) /\ Len(f[k]) <= Len(f[n])
        BY <1>6, <2>2
    <2> HIDE DEF k, T
    <2>4. Holds(f[n], 0, f[k - 1])
        <3> DEFINE a == f[k - 1]
                   b == parts[k]
        <3>1. a \in Seq(S) /\ b \in Seq(S) /\ Holds(f[n], 0, a \o b)
            BY <1>4, <2>2, <2>3
        <3> HIDE DEF a, b
        <3>2. Holds(f[n], 0, a)
            BY <3>1, HoldsParts
        <3> QED
            BY <3>2 DEF a
    <2>5. Len(f[k - 1]) <= Len(f[n])
        <3> DEFINE p == Len(f[k - 1])
                   q == Len(parts[k])
                   r == Len(f[k])
                   l == Len(f[n])
        <3>1. p \in Nat /\ q \in Nat /\ l \in Nat /\ r = p + q /\ r <= l
            BY <1>3, <1>4, <2>2, <2>3
        <3> HIDE DEF p, q, r, l
        <3>2. p <= l
            BY <3>1
        <3> QED
            BY <3>2 DEF p, l
    <2> QED
        BY <2>2, <2>4, <2>5
<1>7. \A j \in Nat : j \in T
    <2> HIDE DEF T
    <2> QED
        BY <1>5, <1>6, NatSet
<1>8. ASSUME NEW k \in 1 .. n
      PROVE  Len(f[k]) <= Len(f[n]) /\ Holds(f[n], Len(f[k - 1]), parts[k])
    <2>1. n - k \in Nat /\ n - k <= n /\ n - (n - k) = k
        BY <1>1
    <2>2. Holds(f[n], 0, f[k]) /\ Len(f[k]) <= Len(f[n])
        BY <1>7, <2>1
    <2> DEFINE a == f[k - 1]
               b == parts[k]
    <2>3. a \in Seq(S) /\ b \in Seq(S) /\ Holds(f[n], 0, a \o b)
        BY <1>4, <2>2
    <2> HIDE DEF a, b
    <2>4. Holds(f[n], 0 + Len(a), b) /\ 0 + Len(a) = Len(a)
        BY <2>3, HoldsParts
    <2> QED
        BY <2>2, <2>4 DEF a, b
<1> QED
    BY <1>3, <1>4, <1>8 DEF n

\* Elements one after the other are read as those that are there, in their order.
LEMMA ElementsReadBack ==
    ASSUME NEW parts, NEW tags, AreElements(parts, tags)
    PROVE  \E idx : /\ InOrder(parts, 1, idx)
                    /\ Elements(FlattenSeq(parts)) = <<Chosen(parts, tags, idx)>>
<1> DEFINE n == Len(parts)
<1>1. /\ n \in Nat /\ parts \in Seq(Seq(Byte))
      /\ \A i \in 1 .. n : parts[i] \in Seq(Byte)
      /\ \A i \in 1 .. n : parts[i] # <<>> => IsElement(parts[i], tags[i])
    BY DEF AreElements
<1>2. PICK f : Flattening(Byte, parts, f) /\ FlattenSeq(parts) = f[n]
    BY <1>1, Flattens
<1>3. /\ \A k \in 0 .. n : f[k] \in Seq(Byte) /\ Len(f[k]) \in Nat
      /\ Len(f[0]) = 0
      /\ \A k \in 1 .. n : /\ Len(f[k]) = Len(f[k - 1]) + Len(parts[k])
                           /\ Len(f[k]) <= Len(f[n])
                           /\ Holds(f[n], Len(f[k - 1]), parts[k])
    BY <1>1, <1>2, PartsStand
<1> DEFINE bytes == f[n]
           L == Len(bytes)
<1>4. bytes \in Seq(Byte) /\ L \in Nat
    <2>1. n \in 0 .. n
        BY <1>1
    <2> QED
        BY <1>3, <2>1
<1> HIDE DEF bytes, n
<1>5. PICK g : ElementsFrom(bytes, g) /\ Elements(bytes) = g[1]
    BY <1>4, ElementsFound
<1> DEFINE Found(k) == \E idx : InOrder(parts, k, idx) /\ g[Len(f[k - 1]) + 1] = <<Chosen(parts, tags, idx)>>
           T == {j \in Nat : j <= n => Found(n + 1 - j)}
<1>6. 0 \in T
    <2>1. n + 1 - 0 = n + 1 /\ (n + 1) - 1 = n
        BY <1>1
    <2>2. InOrder(parts, n + 1, <<>>)
        BY <1>1, InOrderNone DEF n
    <2>3. g[L + 1] = << <<>> >>
        BY <1>5 DEF ElementsFrom
    <2>4. g[Len(f[(n + 1) - 1]) + 1] = <<Chosen(parts, tags, <<>>)>>
        BY <2>1, <2>3, ChosenNone DEF bytes
    <2>5. Found(n + 1)
        BY <2>2, <2>4
    <2> HIDE DEF Found
    <2> QED
        BY <2>1, <2>5
<1>7. ASSUME NEW j \in Nat, j \in T PROVE j + 1 \in T
    <2>1. SUFFICES ASSUME j + 1 <= n PROVE Found(n + 1 - (j + 1))
        OBVIOUS
    <2> DEFINE k == n - j
               p == Len(f[k - 1])
               e == parts[k]
    <2>2. /\ k \in 1 .. n /\ n + 1 - (j + 1) = k /\ n + 1 - j = k + 1 /\ (k + 1) - 1 = k
          /\ j <= n /\ k - 1 \in 0 .. n /\ k \in 0 .. n /\ k \in Nat
        BY <1>1, <2>1
    <2>3. Found(k + 1)
        BY <1>7, <2>2
    <2> HIDE DEF k, T
    <2>4. PICK idx : InOrder(parts, k + 1, idx) /\ g[Len(f[k]) + 1] = <<Chosen(parts, tags, idx)>>
        BY <2>2, <2>3
    <2>5. /\ e \in Seq(Byte) /\ p \in Nat /\ Len(e) \in Nat /\ Len(f[k]) = p + Len(e)
          /\ p + Len(e) <= L /\ Holds(bytes, p, e)
          /\ e # <<>> => IsElement(e, tags[k])
        <3>1. e \in Seq(Byte) /\ p \in Nat /\ (e # <<>> => IsElement(e, tags[k]))
            BY <1>1, <1>3, <2>2
        <3>2. Len(f[k]) = p + Len(e) /\ Len(f[k]) <= L /\ Holds(bytes, p, e)
            BY <1>3, <2>2 DEF bytes
        <3> HIDE DEF e, p, L
        <3> QED
            BY <3>1, <3>2
    <2>6. /\ e = <<>> => InOrder(parts, k, idx)
          /\ e # <<>> => InOrder(parts, k, <<k>> \o idx)
        BY <1>1, <2>2, <2>4, InOrderBefore DEF n
    <2> HIDE DEF L
    <2>7. CASE e = <<>>
        <3>1. Len(f[k]) = p
            BY <2>5, <2>7, EmptySeq
        <3>2. g[p + 1] = <<Chosen(parts, tags, idx)>>
            BY <2>4, <3>1
        <3> QED
            BY <2>2, <2>6, <2>7, <3>2
    <2>8. CASE e # <<>>
        <3> DEFINE element == [tagNumber |-> tags[k], bytes |-> e]
                   rest == From(bytes, p + 1)
                   len == Len(e)
        <3>1. PICK contents : Stands(e, tags[k], contents)
            BY <2>5, <2>8 DEF IsElement
        <3>2. rest \in Seq(Byte) /\ Holds(rest, 0, e) /\ len <= Len(rest)
            BY <1>4, <2>5, HoldsFrom DEF L
        <3>3. FirstElement(rest) = <<element>> /\ len > 0
            <4> HIDE DEF e, rest
            <4> QED
                BY <3>1, <3>2, ElementRead
        <3>4. element.bytes = e
            OBVIOUS
        <3> HIDE DEF element, e, p
        <3>5. p + 1 \in 1 .. L
            <4>1. p \in Nat /\ len \in Nat /\ len > 0 /\ p + len <= L /\ L \in Nat
                BY <1>4, <2>5, <3>3 DEF L
            <4> HIDE DEF len
            <4> QED
                BY <4>1
        <3>6. g[p + 1] = Before(element, g[(p + 1) + len])
            <4>1. FirstElement(rest) # <<>> /\ FirstElement(rest)[1] = element
                BY <3>3
            <4> HIDE DEF rest
            <4>2. g[p + 1] = IF FirstElement(rest) = <<>> THEN <<>>
                             ELSE Before(FirstElement(rest)[1],
                                         g[(p + 1) + Len(FirstElement(rest)[1].bytes)])
                BY <1>5, <3>5 DEF ElementsFrom, rest, L
            <4> QED
                BY <3>4, <4>1, <4>2
        <3>7. (p + 1) + len = Len(f[k]) + 1
            <4> HIDE DEF len
            <4>1. len \in Nat /\ Len(f[k]) = p + len
                BY <2>5 DEF len
            <4> QED
                BY <2>5, <4>1
        <3>8. g[p + 1] = Before(element, <<Chosen(parts, tags, idx)>>)
            BY <2>4, <3>6, <3>7
        <3>9. Before(element, <<Chosen(parts, tags, idx)>>) = << <<element>> \o Chosen(parts, tags, idx) >>
            BY DEF Before
        <3>10. idx \in Seq(Nat)
            BY <2>4 DEF InOrder
        <3>11. <<element>> \o Chosen(parts, tags, idx) = Chosen(parts, tags, <<k>> \o idx)
            BY <2>2, <3>10, ChosenBefore, ZenonT(60) DEF element, e
        <3>12. g[p + 1] = <<Chosen(parts, tags, <<k>> \o idx)>>
            BY <3>8, <3>9, <3>11
        <3> QED
            BY <2>2, <2>6, <2>8, <3>12 DEF p
    <2> QED
        BY <2>7, <2>8
<1>8. \A j \in Nat : j \in T
    <2> HIDE DEF T
    <2> QED
        BY <1>6, <1>7, NatSet
<1>9. Found(1)
    <2>1. n + 1 - n = 1 /\ n <= n
        BY <1>1
    <2>2. n <= n => Found(n + 1 - n)
        BY <1>1, <1>8
    <2> HIDE DEF Found
    <2> QED
        BY <2>1, <2>2
<1>10. PICK idx : InOrder(parts, 1, idx) /\ g[1] = <<Chosen(parts, tags, idx)>>
    <2>1. Len(f[1 - 1]) + 1 = 1
        BY <1>3
    <2> QED
        BY <1>9, <2>1
<1> QED
    BY <1>2, <1>5, <1>10 DEF bytes

-----------------------------------------------------------------------------
(* The places of a structure, a slice and a choice. *)

\* The fields of a type have tags of their own.
OwnTags(fields) ==
    /\ \E m \in Nat : DOMAIN fields = 1 .. m
    /\ \A i \in DOMAIN fields : fields[i].params.tagNumber \in TagNumber
    /\ \A i \in DOMAIN fields, j \in DOMAIN fields :
          fields[i].params.tagNumber = fields[j].params.tagNumber => i = j

Tags(fields) == [i \in DOMAIN fields |-> fields[i].params.tagNumber]

\* A field is found by its tag.
LEMMA FieldFound ==
    ASSUME NEW fields, OwnTags(fields), NEW i \in DOMAIN fields, NEW place \in Nat, place < i
    PROVE  FieldAfter(place, fields, fields[i].params.tagNumber) = i
<1> DEFINE number == fields[i].params.tagNumber
           fit == {j \in DOMAIN fields : j > place /\ fields[j].params.tagNumber = number}
<1>1. i \in Nat
    BY DEF OwnTags
<1>2. fit = {i}
    BY <1>1 DEF OwnTags
<1>3. FieldAfter(place, fields, number) = IF fit = {} THEN 0 ELSE CHOOSE j \in fit : \A k \in fit : j <= k
    BY DEF FieldAfter
<1> HIDE DEF fit, number
<1>4. fit # {} /\ (CHOOSE j \in fit : \A k \in fit : j <= k) = i
    BY <1>1, <1>2
<1> QED
    BY <1>3, <1>4 DEF number

\* A sequence is made of its elements.
LEMMA Tabulated ==
    ASSUME NEW S, NEW s \in Seq(S)
    PROVE  s = [j \in 1 .. Len(s) |-> s[j]]
OBVIOUS

\* The elements that are there are found to be those of their fields.
LEMMA PlacesFound ==
    ASSUME NEW fields, OwnTags(fields), NEW parts, Len(parts) \in Nat,
           DOMAIN fields = 1 .. Len(parts), NEW idx, InOrder(parts, 1, idx), NEW set
    PROVE  Places(Chosen(parts, Tags(fields), idx), fields, set) = idx
<1> DEFINE m == Len(idx)
           elements == Chosen(parts, Tags(fields), idx)
           Place(before, e) ==
               FieldAfter(IF set \/ before = <<>> THEN 0 ELSE Last(before), fields, e.tagNumber)
           Solution(F) == F = [n \in 0 .. m |->
               IF n = 0 THEN <<>> ELSE Append(F[n - 1], Place(F[n - 1], elements[n]))]
           F == CHOOSE F : Solution(F)
           g == [n \in 0 .. m |-> [j \in 1 .. n |-> idx[j]]]
<1>1. /\ idx \in Seq(Nat) /\ m \in Nat
      /\ \A j \in 1 .. m : idx[j] \in DOMAIN fields /\ idx[j] \in Nat /\ 0 < idx[j]
      /\ \A i \in 1 .. m, j \in 1 .. m : i < j => idx[i] < idx[j]
    BY DEF InOrder
<1>2. Len(elements) = m
    BY <1>1 DEF Chosen
<1>3. \A n \in 1 .. m : elements[n].tagNumber = fields[idx[n]].params.tagNumber
    BY <1>1 DEF Chosen, Tags
<1>4. Places(elements, fields, set) = F[m]
    <2> HIDE DEF elements
    <2>1. Places(elements, fields, set) = (CHOOSE H : H = [n \in 0 .. Len(elements) |->
               IF n = 0 THEN <<>> ELSE Append(H[n - 1], Place(H[n - 1], elements[n]))])[Len(elements)]
        BY DEF Places
    <2> QED
        BY <1>2, <2>1
<1> HIDE DEF elements, m
<1>5. ASSUME NEW n \in 1 .. m
      PROVE  g[n] = Append(g[n - 1], Place(g[n - 1], elements[n]))
    <2> DEFINE before == g[n - 1]
    <2>1. before = [j \in 1 .. n - 1 |-> idx[j]] /\ n - 1 \in Nat
        BY <1>1
    <2>2. before \in Seq(Nat) /\ Len(before) = n - 1
        <3> HIDE DEF g
        <3>1. \A j \in 1 .. n - 1 : idx[j] \in Nat
            BY <1>1
        <3> QED
            BY <2>1, <3>1, SeqDef
    <2> DEFINE place == IF set \/ before = <<>> THEN 0 ELSE Last(before)
    <2>3. place \in Nat /\ place < idx[n]
        <3>1. CASE before = <<>>
            BY <1>1, <3>1
        <3>2. CASE before # <<>>
            <4>1. n - 1 \in 1 .. m /\ n - 1 \in 1 .. n - 1
                BY <1>1, <2>2, <3>2
            <4>2. Last(before) = idx[n - 1]
                BY <2>1, <2>2, <4>1 DEF Last
            <4>3. idx[n - 1] < idx[n] /\ idx[n - 1] \in Nat
                BY <1>1, <4>1
            <4> HIDE DEF before
            <4> QED
                BY <1>1, <4>2, <4>3
        <3> QED
            BY <3>1, <3>2
    <2> HIDE DEF place
    <2>4. FieldAfter(place, fields, fields[idx[n]].params.tagNumber) = idx[n]
        <3>1. idx[n] \in DOMAIN fields
            BY <1>1
        <3> QED
            BY <2>3, <3>1, FieldFound
    <2>5. Place(before, elements[n]) = idx[n]
        BY <1>3, <2>4 DEF place
    <2>6. g[n] = Append(before, idx[n])
        <3>1. g[n] = [j \in 1 .. n |-> idx[j]]
            BY <1>1
        <3> DEFINE s == Append(before, idx[n])
        <3> HIDE DEF g, before
        <3>2. s \in Seq(Nat) /\ Len(s) = n /\ s[n] = idx[n] /\ \A j \in 1 .. n - 1 : s[j] = before[j]
            BY <1>1, <2>2
        <3>3. \A j \in 1 .. n : s[j] = idx[j]
            <4> TAKE j \in 1 .. n
            <4>1. CASE j = n
                BY <3>2, <4>1
            <4>2. CASE j # n
                <5>1. j \in 1 .. n - 1
                    BY <4>2
                <5> QED
                    BY <2>1, <3>2, <5>1
            <4> QED
                BY <4>1, <4>2
        <3>4. s = [j \in 1 .. n |-> s[j]]
            BY <3>2
        <3> HIDE DEF s
        <3> QED
            BY <3>1, <3>3, <3>4 DEF s
    <2> QED
        BY <2>5, <2>6
<1>6. g[0] = <<>> /\ DOMAIN g = 0 .. m
    BY <1>1
<1>7. Solution(g)
    <2>1. g = [n \in 0 .. m |-> g[n]]
        OBVIOUS
    <2> HIDE DEF g
    <2>2. \A n \in 0 .. m : g[n] = IF n = 0 THEN <<>> ELSE Append(g[n - 1], Place(g[n - 1], elements[n]))
        <3> HIDE DEF Place
        <3> QED
            BY <1>1, <1>5, <1>6
    <2> HIDE DEF Place
    <2> QED
        BY <2>1, <2>2
<1>8. Solution(F)
    <2> HIDE DEF Solution
    <2> QED
        BY <1>7
<1> HIDE DEF F
<1> DEFINE T == {n \in Nat : n <= m => F[n] = g[n]}
<1>9. 0 \in T
    <2>1. 0 \in 0 .. m
        BY <1>1
    <2> HIDE DEF g, Place
    <2>2. F[0] = <<>>
        BY <1>8, <2>1
    <2> QED
        BY <1>6, <2>2
<1>10. ASSUME NEW n \in Nat, n \in T PROVE n + 1 \in T
    <2>1. SUFFICES ASSUME n + 1 <= m PROVE F[n + 1] = g[n + 1]
        OBVIOUS
    <2> DEFINE k == n + 1
    <2>2. k \in 1 .. m /\ k \in 0 .. m /\ k # 0 /\ k - 1 = n /\ n <= m
        BY <1>1, <2>1
    <2>3. F[n] = g[n]
        BY <1>10, <2>2
    <2> HIDE DEF g, Place, k, T
    <2>4. F[k] = Append(F[k - 1], Place(F[k - 1], elements[k]))
        BY <1>8, <2>2
    <2>5. F[k] = Append(g[k - 1], Place(g[k - 1], elements[k]))
        BY <2>2, <2>3, <2>4
    <2> QED
        BY <1>5, <2>2, <2>5 DEF k
<1>11. F[m] = g[m]
    <2>1. \A n \in Nat : n \in T
        <3> HIDE DEF T
        <3> QED
            BY <1>9, <1>10, NatSet
    <2>2. m \in T /\ m <= m
        <3> HIDE DEF T
        <3> QED
            BY <1>1, <2>1
    <2> HIDE DEF g
    <2> QED
        BY <2>2
<1>12. g[m] = idx
    <2>1. g[m] = [j \in 1 .. m |-> idx[j]]
        <3>1. m \in 0 .. m
            BY <1>1
        <3> QED
            BY <3>1
    <2> HIDE DEF g, Place
    <2>2. idx = [j \in 1 .. Len(idx) |-> idx[j]]
        <3>1. idx \in Seq(Nat)
            BY <1>1
        <3> QED
            BY <3>1, Tabulated
    <2> QED
        BY <2>1, <2>2 DEF m
<1> QED
    BY <1>4, <1>11, <1>12 DEF elements

\* The pieces that the octets of a structure's members are found to be in.
StructPlaces(type, parts, idx) ==
    [n \in 1 .. Len(idx) |->
        Piece(idx[n], type.fields[idx[n]].type, parts[idx[n]], type.fields[idx[n]].params)]

\* The members of a structure are found in its contents, each at its field.
LEMMA StructFound ==
    ASSUME NEW type, OwnTags(type.fields), NEW parts, AreElements(parts, Tags(type.fields)),
           DOMAIN type.fields = 1 .. Len(parts), NEW params
    PROVE  \E idx : /\ InOrder(parts, 1, idx)
                    /\ StructPieces(type, Elements(FlattenSeq(parts)), params)
                         = <<StructPlaces(type, parts, idx)>>
<1> DEFINE fields == type.fields
           tags == Tags(fields)
<1>1. Len(parts) \in Nat
    BY DEF AreElements
<1>2. AreElements(parts, tags)
    OBVIOUS
<1> HIDE DEF tags
<1>3. PICK idx : /\ InOrder(parts, 1, idx)
                 /\ Elements(FlattenSeq(parts)) = <<Chosen(parts, tags, idx)>>
    BY <1>2, ElementsReadBack
<1> DEFINE chosen == Chosen(parts, tags, idx)
           elements == Elements(FlattenSeq(parts))
<1>4. Places(chosen, fields, params.set) = idx
    BY <1>1, <1>3, PlacesFound DEF tags
<1>5. /\ Len(idx) \in Nat /\ DOMAIN idx = 1 .. Len(idx)
      /\ \A n \in 1 .. Len(idx) : idx[n] \in 1 .. Len(parts)
    BY <1>3 DEF InOrder
<1>6. \A n \in 1 .. Len(idx) : chosen[n].bytes = parts[idx[n]]
    BY <1>5 DEF Chosen
<1>7. ~(0 \in ToSet(idx))
    BY <1>1, <1>5 DEF ToSet
<1> HIDE DEF chosen
<1>8. PlacedPieces(fields, chosen, idx)
        = <<[n \in 1 .. Len(idx) |-> Piece(idx[n], fields[idx[n]].type, parts[idx[n]],
                                           fields[idx[n]].params)]>>
    BY <1>5, <1>6, <1>7 DEF PlacedPieces
<1>9. elements # <<>> /\ elements[1] = chosen
    BY <1>3 DEF chosen
<1> HIDE DEF elements
<1>10. StructPieces(type, elements, params) = PlacedPieces(fields, chosen, idx)
    BY <1>4, <1>9 DEF StructPieces
<1>11. StructPieces(type, elements, params) = <<StructPlaces(type, parts, idx)>>
    BY <1>8, <1>10 DEF StructPlaces
<1> QED
    BY <1>3, <1>11 DEF elements

\* A function of this domain.
IsOver(D, value) == value = [i \in D |-> value[i]]

\* A structure is put together again from what its members are parsed to.
LEMMA StructComposed ==
    ASSUME NEW type, type.kind = "struct", NEW parts, Len(parts) \in Nat,
           DOMAIN type.fields = 1 .. Len(parts), NEW idx, InOrder(parts, 1, idx),
           NEW value, IsOver(DOMAIN type.fields, value),
           \A i \in DOMAIN type.fields : value[i] = <<>> <=> parts[i] = <<>>,
           NEW parsed, DOMAIN parsed = 1 .. Len(idx),
           \A n \in 1 .. Len(idx) : parsed[n] = value[idx[n]], NEW body
    PROVE  Composed(type, body, StructPlaces(type, parts, idx), parsed) = <<value>>
<1> DEFINE pieces == StructPlaces(type, parts, idx)
           Of(i) == {n \in DOMAIN pieces : pieces[n].place = i}
           ParsedAt(i) == IF Of(i) = {} THEN <<>> ELSE parsed[CHOOSE n \in Of(i) : \A k \in Of(i) : k <= n]
<1>1. /\ Len(idx) \in Nat
      /\ \A n \in 1 .. Len(idx) : idx[n] \in 1 .. Len(parts) /\ parts[idx[n]] # <<>>
      /\ \A i \in 1 .. Len(idx), j \in 1 .. Len(idx) : i < j => idx[i] < idx[j]
      /\ \A i \in 1 .. Len(parts) : parts[i] # <<>> => \E j \in 1 .. Len(idx) : idx[j] = i
    BY SMTT(30) DEF InOrder
<1>2. DOMAIN pieces = 1 .. Len(idx) /\ \A n \in 1 .. Len(idx) : pieces[n].place = idx[n]
    BY DEF StructPlaces, Piece
<1> HIDE DEF pieces
<1>3. ~(<<>> \in ToSet(parsed))
    <2>1. \A n \in 1 .. Len(idx) : parsed[n] # <<>>
        BY <1>1, SMTT(30)
    <2> QED
        BY <2>1 DEF ToSet
<1>4. Composed(type, body, pieces, parsed) = <<[i \in DOMAIN type.fields |-> ParsedAt(i)]>>
    BY <1>3 DEF Composed
<1>5. ASSUME NEW i \in DOMAIN type.fields PROVE ParsedAt(i) = value[i]
    <2>1. CASE parts[i] = <<>>
        <3>1. Of(i) = {}
            BY <1>1, <1>2, <2>1
        <3> QED
            BY <2>1, <3>1
    <2>2. CASE parts[i] # <<>>
        <3>1. PICK j \in 1 .. Len(idx) : idx[j] = i
            BY <1>1, <2>2
        <3>2. Of(i) = {j}
            <4>1. \A n \in 1 .. Len(idx) : idx[n] = i => n = j
                <5> TAKE n \in 1 .. Len(idx)
                <5>1. idx[n] \in 1 .. Len(parts) /\ n \in Nat /\ j \in Nat
                    BY <1>1
                <5>2. n < j => idx[n] < idx[j]
                    BY <1>1
                <5>3. j < n => idx[j] < idx[n]
                    BY <1>1
                <5> QED
                    BY <3>1, <5>1, <5>2, <5>3
            <4> QED
                BY <1>2, <3>1, <4>1
        <3> DEFINE of == Of(i)
        <3>3. of = {j}
            BY <3>2
        <3> HIDE DEF of
        <3>4. of # {} /\ (CHOOSE n \in of : \A k \in of : k <= n) = j
            <4>1. j \in Nat /\ j <= j
                BY <1>1
            <4> QED
                BY <3>3, <4>1
        <3>5. ParsedAt(i) = parsed[j]
            BY <3>4 DEF of
        <3> QED
            BY <3>1, <3>5
    <2> QED
        BY <2>1, <2>2
<1> HIDE DEF At
<1>6. [i \in DOMAIN type.fields |-> ParsedAt(i)] = [i \in DOMAIN type.fields |-> value[i]]
    BY <1>5
<1>7. Composed(type, body, pieces, parsed) = <<value>>
    BY <1>4, <1>6 DEF IsOver
<1> QED
    BY <1>7 DEF pieces

\* The pieces of a list, one for each element.
SlicePlaces(type, parts, params) ==
    [n \in 1 .. Len(parts) |-> Piece(n, type.type, parts[n], params)]

\* The elements of a list are found in its contents.
LEMMA SliceFound ==
    ASSUME NEW type, NEW parts, NEW tags, AreElements(parts, tags),
           \A n \in 1 .. Len(parts) : parts[n] # <<>>, NEW params
    PROVE  SlicePieces(type, Elements(FlattenSeq(parts)), params)
             = <<SlicePlaces(type, parts, params)>>
<1>1. PICK idx : /\ InOrder(parts, 1, idx)
                 /\ Elements(FlattenSeq(parts)) = <<Chosen(parts, tags, idx)>>
    BY ElementsReadBack
<1> DEFINE chosen == Chosen(parts, tags, idx)
           elements == Elements(FlattenSeq(parts))
<1>2. Len(parts) \in Nat
    BY DEF AreElements
<1>3. /\ Len(idx) = Len(parts) - 1 + 1
      /\ \A j \in 1 .. Len(idx) : idx[j] = 1 + j - 1
    BY <1>1, <1>2 DEF InOrder
<1>4. Len(idx) = Len(parts) /\ \A j \in 1 .. Len(parts) : idx[j] = j
    BY <1>2, <1>3
<1>5. DOMAIN chosen = 1 .. Len(parts) /\ \A n \in 1 .. Len(parts) : chosen[n].bytes = parts[n]
    BY <1>4 DEF Chosen
<1> HIDE DEF chosen
<1>6. elements # <<>> /\ elements[1] = chosen
    BY <1>1 DEF chosen
<1> HIDE DEF elements
<1>7. SlicePieces(type, elements, params)
        = <<[n \in DOMAIN chosen |-> Piece(n, type.type, chosen[n].bytes, params)]>>
    BY <1>6 DEF SlicePieces
<1>8. SlicePieces(type, elements, params) = <<SlicePlaces(type, parts, params)>>
    BY <1>5, <1>7 DEF SlicePlaces
<1> QED
    BY <1>8 DEF elements

\* A list is put together again.
LEMMA SliceComposed ==
    ASSUME NEW type, type.kind = "slice", NEW m, NEW value, value = [n \in 1 .. m |-> value[n]],
           NEW parsed, DOMAIN parsed = 1 .. m, \A n \in 1 .. m : parsed[n] = <<value[n]>>,
           NEW body, NEW pieces
    PROVE  Composed(type, body, pieces, parsed) = <<value>>
<1>1. ~(<<>> \in ToSet(parsed))
    BY DEF ToSet
<1>2. Composed(type, body, pieces, parsed) = <<[n \in DOMAIN parsed |-> parsed[n][1]]>>
    BY <1>1 DEF Composed
<1>3. [n \in DOMAIN parsed |-> parsed[n][1]] = [n \in 1 .. m |-> value[n]]
    OBVIOUS
<1> QED
    BY <1>2, <1>3

\* A choice is put together again.
LEMMA ChoiceComposed ==
    ASSUME NEW type, type.kind = "choice", NEW value,
           value = [Present |-> value.Present, Value |-> value.Value],
           NEW parsed, DOMAIN parsed = 1 .. 1, parsed[1] = <<value.Value>>, NEW body,
           NEW pieces, pieces[1].place = value.Present
    PROVE  Composed(type, body, pieces, parsed) = <<value>>
<1>1. ~(<<>> \in ToSet(parsed))
    BY DEF ToSet
<1>2. Composed(type, body, pieces, parsed)
        = <<[Present |-> pieces[1].place, Value |-> parsed[1][1]]>>
    BY <1>1 DEF Composed
<1> QED
    BY <1>2

\* The chosen value of a choice without a tag is all of its octets.
LEMMA ChosenFound ==
    ASSUME NEW type, OwnTags(type.fields), NEW place \in DOMAIN type.fields,
           NEW params, params.tagNumber = NoTag, NEW e \in Seq(Byte),
           NEW tal, tal.tagNumber = type.fields[place].params.tagNumber
    PROVE  ChoicePieces(type, e, params, tal)
             = << <<Piece(place, type.fields[place].type, e, type.fields[place].params)>> >>
<1>1. place \in Nat /\ 0 < place /\ 0 \in Nat
    BY DEF OwnTags
<1>2. FieldAfter(0, type.fields, tal.tagNumber) = place
    BY <1>1, FieldFound
<1>3. From(e, 0 + 1) = e
    <2>1. SubSeq(e, 1, Len(e)) = e
        OBVIOUS
    <2> QED
        BY <2>1 DEF From
<1>4. ChosenPiece(type.fields, e, 0, place)
        = << <<Piece(place, type.fields[place].type, e, type.fields[place].params)>> >>
    BY <1>1, <1>3 DEF ChosenPiece
<1> QED
    BY <1>2, <1>4 DEF ChoicePieces

\* The texts whose tag and length take as many octets as the tag and the length
\* of what they make in turn.
LikeOffsets(text) == ~(Len(text) \in {126, 127, 253, 254, 255})

\* An element of such a text has a length of as many octets as its contents.
LEMMA OffsetsAlike ==
    ASSUME NEW n \in TagLength, ~(n \in {126, 127, 253, 254, 255}), NEW m \in TagLength,
           m = 1 + Len(LengthOctets(n)) + n
    PROVE  Len(LengthOctets(m)) = Len(LengthOctets(n))
<1>1. n \in Nat /\ m \in Nat
    BY DEF TagLength, Under
<1>2. /\ n <= 127 => Len(LengthOctets(n)) = 1
      /\ n > 127 /\ n < 256 => Len(LengthOctets(n)) = 2
      /\ n >= 256 => Len(LengthOctets(n)) = 3
    BY LengthForms
<1>3. /\ m <= 127 => Len(LengthOctets(m)) = 1
      /\ m > 127 /\ m < 256 => Len(LengthOctets(m)) = 2
      /\ m >= 256 => Len(LengthOctets(m)) = 3
    BY LengthForms
<1> DEFINE p == Len(LengthOctets(n))
           q == Len(LengthOctets(m))
<1>4. m = 1 + p + n
    OBVIOUS
<1> HIDE DEF p, q
<1>5. CASE n <= 125
    <2>1. p = 1
        BY <1>1, <1>2, <1>5 DEF p
    <2> QED
        BY <1>1, <1>3, <1>4, <1>5, <2>1 DEF p, q
<1>6. CASE n > 127 /\ n <= 252
    <2>1. p = 2
        BY <1>1, <1>2, <1>6 DEF p
    <2> QED
        BY <1>1, <1>3, <1>4, <1>6, <2>1 DEF p, q
<1>7. CASE n >= 256
    <2>1. p = 3
        BY <1>1, <1>2, <1>7 DEF p
    <2> QED
        BY <1>1, <1>3, <1>4, <1>7, <2>1 DEF p, q
<1>8. n <= 125 \/ (n > 127 /\ n <= 252) \/ n >= 256
    BY <1>1
<1> QED
    BY <1>5, <1>6, <1>7, <1>8 DEF p, q

\* Contents are no longer than what is written of them.
LEMMA ContentsShorter ==
    ASSUME NEW class \in {0, 2}, NEW constructed \in BOOLEAN, NEW number \in Nat,
           NEW contents \in Seq(Nat)
    PROVE  /\ Len(contents) \in Nat /\ Len(TagLenValue(class, constructed, number, contents)) \in Nat
           /\ Len(contents) <= Len(TagLenValue(class, constructed, number, contents))
<1> DEFINE a == Identifier(class, constructed, number)
           b == LengthOctets(Len(contents))
<1>1. a \in Seq(Byte) /\ a \in Seq(Nat)
    BY IdentifierOctets, BytesAreNumbers
<1>2. b \in Seq(Nat)
    <2>1. Len(contents) \in Nat
        OBVIOUS
    <2> QED
        BY <2>1, LengthOctetsOctets
<1>3. TagLenValue(class, constructed, number, contents) = (a \o b) \o contents
    BY DEF TagLenValue
<1> HIDE DEF a, b
<1>4. a \o b \in Seq(Nat) /\ Len(a \o b) \in Nat
    BY <1>1, <1>2, Concatenation
<1>5. Len((a \o b) \o contents) = Len(a \o b) + Len(contents) /\ Len(contents) \in Nat
    BY <1>4, Concatenation
<1> QED
    BY <1>3, <1>4, <1>5

\* What the length of a CDR allows.
Short(e) == Len(e) < 65536

\* Its length is one that can be written.
LEMMA ShortLength ==
    ASSUME NEW S, NEW e \in Seq(S)
    PROVE  /\ Len(e) \in Nat
           /\ Short(e) <=> Len(e) \in TagLength
           /\ \A m \in TagLength : Len(e) <= m => Len(e) \in TagLength
<1> DEFINE n == Len(e)
<1>1. n \in Nat
    OBVIOUS
<1> HIDE DEF n
<1>2. (n < 65536) <=> (n \in TagLength)
    BY <1>1 DEF TagLength, Under
<1>3. \A m \in TagLength : n <= m => n \in TagLength
    BY <1>1 DEF TagLength, Under
<1> QED
    BY <1>1, <1>2, <1>3 DEF n, Short

\* Where the contents of an element are, for a tag of one octet.
LEMMA ContentsAfter ==
    ASSUME NEW constructed \in BOOLEAN, NEW number \in TagNumber, number <= 30,
           NEW contents \in Seq(Byte), Short(contents)
    PROVE  LET e == TagLenValue(ClassContextSpecific, constructed, number, contents)
           IN /\ Stands(e, number, contents)
              /\ Len(LengthOctets(Len(contents))) \in Nat
              /\ Len(e) = 1 + Len(LengthOctets(Len(contents))) + Len(contents)
<1> DEFINE e == TagLenValue(ClassContextSpecific, constructed, number, contents)
           n == Len(LengthOctets(Len(contents)))
<1>1. ClassContextSpecific \in {0, 2}
    BY DEF ClassContextSpecific
<1>2. /\ Stands(e, number, contents)
      /\ Len(e) = Len(Identifier(ClassContextSpecific, constructed, number)) + n + Len(contents)
    BY <1>1, ElementStands DEF Short
<1>3. Len(Identifier(ClassContextSpecific, constructed, number)) = 1
    <2>1. Identifier(ClassContextSpecific, constructed, number)
            = <<FirstOctet(ClassContextSpecific, constructed) + number>>
        BY <1>1, IdentifierForms
    <2> QED
        BY <2>1
<1>4. n \in Nat
    <2>1. Len(contents) \in Nat
        OBVIOUS
    <2>2. LengthOctets(Len(contents)) \in Seq(Nat)
        BY <2>1, LengthOctetsOctets
    <2> QED
        BY <2>2
<1> QED
    BY <1>2, <1>3, <1>4

\* The text chosen by a choice with a tag is found within it, where the two
\* tags and lengths take as many octets as each other: the decoder takes the
\* inner ones to be as long as the outer ones.
EmbeddedAt(off, chosen, number, text, inner, e) ==
    /\ ParseTagAndLength(e) = <<[tagNumber |-> number, len |-> Len(inner), off |-> off]>>
    /\ ParseTagAndLength(inner) = <<[tagNumber |-> chosen, len |-> Len(text), off |-> off]>>
    /\ From(e, off + 1) = inner
    /\ off + Len(text) <= Len(e)

\* A text in a choice that is in a choice stands where the decoder looks for it: at the
\* offset of the inner element, which it takes for that of the outer one.
LEMMA EmbeddedOffsets ==
    ASSUME NEW chosen \in TagNumber, chosen <= 30, NEW number \in TagNumber, number <= 30,
           NEW text \in Seq(Byte), LikeOffsets(text), NEW inner \in Seq(Byte), Short(inner),
           inner = TagLenValue(ClassContextSpecific, FALSE, chosen, text),
           NEW e, e = TagLenValue(ClassContextSpecific, TRUE, number, inner)
    PROVE  \E off \in Nat : EmbeddedAt(off, chosen, number, text, inner, e)
<1> DEFINE n == Len(text)
           m == Len(inner)
           p == Len(LengthOctets(n))
           q == Len(LengthOctets(m))
<1>1. /\ Short(text) /\ n \in Nat /\ m \in Nat
      /\ n \in TagLength /\ m \in TagLength
    <2>1. ClassContextSpecific \in {0, 2} /\ FALSE \in BOOLEAN /\ chosen \in Nat
        BY DEF ClassContextSpecific, TagNumber, Under
    <2>2. text \in Seq(Nat)
        BY BytesAreNumbers
    <2>3. n <= m
        BY <2>1, <2>2, ContentsShorter
    <2>4. n \in Nat /\ m \in Nat /\ m \in TagLength
        BY ShortLength
    <2>5. n \in TagLength
        BY <2>3, <2>4, ShortLength
    <2> QED
        BY <2>4, <2>5, ShortLength
<1>2. /\ Stands(inner, chosen, text)
      /\ p \in Nat
      /\ m = 1 + p + n
    BY <1>1, ContentsAfter
<1>3. /\ Stands(e, number, inner)
      /\ q \in Nat
      /\ Len(e) = 1 + q + m
    BY ContentsAfter
<1>4. q = p
    <2>1. ~(n \in {126, 127, 253, 254, 255})
        BY DEF LikeOffsets
    <2> HIDE DEF n, m
    <2> QED
        BY <1>1, <1>2, <2>1, OffsetsAlike DEF p, q
<1>5. /\ ParseTagAndLength(e) = <<[tagNumber |-> number, len |-> m, off |-> Len(e) - m]>>
      /\ From(e, Len(e) - m + 1) = inner
    BY <1>3, ElementRead
<1>6. ParseTagAndLength(inner) = <<[tagNumber |-> chosen, len |-> n, off |-> m - n]>>
    BY <1>2, ElementRead
<1> DEFINE off == m - n
<1> HIDE DEF n, m, p, q
<1>7. Len(e) - m = off /\ off \in Nat /\ off + n <= Len(e) /\ off + m = Len(e)
    <2> DEFINE w == Len(e)
    <2>1. w = 1 + q + m /\ m = 1 + p + n /\ q = p /\ n \in Nat /\ m \in Nat /\ p \in Nat
        BY <1>1, <1>2, <1>3, <1>4
    <2> HIDE DEF w
    <2>2. w - m = m - n /\ m - n \in Nat /\ (m - n) + n <= w /\ (m - n) + m = w
        BY <2>1
    <2> QED
        BY <2>2 DEF w
<1> HIDE DEF off
<1>8. /\ ParseTagAndLength(e) = <<[tagNumber |-> number, len |-> m, off |-> off]>>
      /\ ParseTagAndLength(inner) = <<[tagNumber |-> chosen, len |-> n, off |-> off]>>
      /\ From(e, off + 1) = inner
    <2>1. m - n = off
        BY DEF off
    <2> QED
        BY <1>5, <1>6, <1>7, <2>1
<1> QED
    BY <1>7, <1>8 DEF n, m, EmbeddedAt

\* Octets in which a field of a type is embedded.
EmbeddedIn(type, place, inner, e) ==
    /\ OwnTags(type.fields)
    /\ place \in DOMAIN type.fields
    /\ \E off \in Nat : \E number, text :
          EmbeddedAt(off, type.fields[place].params.tagNumber, number, text, inner, e)

\* The decoder then finds it.
LEMMA EmbeddedFound ==
    ASSUME NEW type, NEW place, NEW inner, NEW e, EmbeddedIn(type, place, inner, e),
           NEW params, params.tagNumber # NoTag
    PROVE  \A tal : ParseTagAndLength(e) = <<tal>> =>
              ChoicePieces(type, e, params, tal)
                = << <<Piece(place, type.fields[place].type, inner, type.fields[place].params)>> >>
<1> SUFFICES ASSUME NEW tal, ParseTagAndLength(e) = <<tal>>
             PROVE  ChoicePieces(type, e, params, tal)
                = << <<Piece(place, type.fields[place].type, inner, type.fields[place].params)>> >>
    OBVIOUS
<1>1. OwnTags(type.fields) /\ place \in DOMAIN type.fields
    BY DEF EmbeddedIn
<1>2. PICK off \in Nat : \E number, text :
          EmbeddedAt(off, type.fields[place].params.tagNumber, number, text, inner, e)
    BY DEF EmbeddedIn
<1>3. PICK number, text :
          /\ off \in Nat
          /\ EmbeddedAt(off, type.fields[place].params.tagNumber, number, text, inner, e)
    BY <1>2
<1> DEFINE chosen == type.fields[place].params.tagNumber
<1>4. place \in Nat /\ 0 < place /\ 0 \in Nat
    BY <1>1 DEF OwnTags
<1>5. /\ ParseTagAndLength(inner) = <<[tagNumber |-> chosen, len |-> Len(text), off |-> off]>>
      /\ From(e, off + 1) = inner /\ off + Len(text) <= Len(e) /\ tal.off = off
    BY <1>3 DEF EmbeddedAt
<1> DEFINE tagged == [tagNumber |-> chosen, len |-> Len(text), off |-> off]
<1>6. Fits(tagged, e)
    BY <1>5 DEF Fits
<1>7. FieldAfter(0, type.fields, chosen) = place
    BY <1>1, <1>4, FieldFound
<1>8. ChosenPiece(type.fields, e, off, place)
         = << <<Piece(place, type.fields[place].type, inner, type.fields[place].params)>> >>
    BY <1>4, <1>5 DEF ChosenPiece
<1>9. ParseTagAndLength(From(e, tal.off + 1)) = <<tagged>>
    BY <1>5
<1>10. tagged.off = off /\ tagged.tagNumber = chosen
    OBVIOUS
<1> HIDE DEF tagged
<1>11. EmbeddedPiece(type, e, <<tagged>>)
         = << <<Piece(place, type.fields[place].type, inner, type.fields[place].params)>> >>
    BY <1>6, <1>7, <1>8, <1>10 DEF EmbeddedPiece
<1> QED
    BY <1>9, <1>11 DEF ChoicePieces

-----------------------------------------------------------------------------
(* Values that can be read back, and what they are encoded as. *)

TagParams == [tagNumber : TagNumber \cup {NoTag}, set : BOOLEAN, stringType : TagNumber]

\* The tag number that a value is encoded with.
NumberOf(value, type, params) ==
    IF params.tagNumber # NoTag THEN params.tagNumber
    ELSE IF type.kind = "choice" THEN type.fields[value.Present].params.tagNumber
    ELSE UniversalTag(type, params)

\* Values that can be told from what they are encoded as: integers that are not
\* negative, structures of fields each nil or with one value, some with one,
\* lists of other types than choices, and choices that have chosen; one with
\* a tag of its own has chosen a text.
IsStruct(value, type) ==
    /\ type.kind = "struct"
    /\ OwnTags(type.fields)
    /\ \A i \in DOMAIN type.fields : type.fields[i].params \in TagParams
    /\ value = [i \in DOMAIN type.fields |-> value[i]]
    /\ \E i \in DOMAIN type.fields : value[i] # <<>>
    /\ \A i \in DOMAIN type.fields : value[i] # <<>> => value[i] = <<value[i][1]>>

IsSlice(value, type) ==
    /\ type.kind = "slice"
    /\ type.type.kind # "choice"
    /\ \E m \in Nat : value = [n \in 1 .. m |-> value[n]]

IsChoice(value, type) ==
    /\ type.kind = "choice"
    /\ OwnTags(type.fields)
    /\ \A i \in DOMAIN type.fields : type.fields[i].params \in TagParams
    /\ value = [Present |-> value.Present, Value |-> value.Value]
    /\ value.Present \in DOMAIN type.fields

ChoosesText(value, type, params) ==
    /\ params.tagNumber <= 30
    /\ type.fields[value.Present].params.tagNumber <= 30
    /\ type.fields[value.Present].type.kind = "string"
    /\ value.Value \in Seq(Byte)
    /\ LikeOffsets(value.Value)

Shape(value, type, params) ==
    /\ params \in TagParams
    /\ \/ type.kind \in {"int", "enum"} /\ value \in Nat
       \/ type.kind \in {"octets", "string"} /\ value \in Seq(Byte)
       \/ IsStruct(value, type)
       \/ IsSlice(value, type)
       \/ /\ IsChoice(value, type)
          /\ params.tagNumber # NoTag => ChoosesText(value, type, params)

\* What is encoded of a value, as those who read it need it.
Readable(e, value, type, params) ==
    /\ e \in Encoded
    /\ type.kind = "string" /\ params.tagNumber # NoTag =>
          e = TagLenValue(ClassContextSpecific, FALSE, params.tagNumber, value)
    /\ Short(e) => IsElement(e, NumberOf(value, type, params))

PartsReadable(members, parts) ==
    /\ parts = [i \in DOMAIN members |-> parts[i]]
    /\ \A i \in DOMAIN members :
          IF members[i] = <<>> THEN parts[i] = <<>>
          ELSE Readable(parts[i], members[i][1].value, members[i][1].type, members[i][1].params)

\* Tag numbers are numbers, none of them that of a field without a tag.
LEMMA TagNumbers ==
    /\ \A n \in TagNumber : n \in Nat /\ n # NoTag
    /\ \A params \in TagParams :
          /\ params \in Params
          /\ params.tagNumber # NoTag => params.tagNumber \in TagNumber
          /\ \A type : UniversalTag(type, params) \in TagNumber
<1>1. \A n \in TagNumber : n \in Nat /\ n # NoTag
    BY DEF TagNumber, Under, NoTag
<1>2. ASSUME NEW params \in TagParams
      PROVE  /\ params \in Params
             /\ params.tagNumber # NoTag => params.tagNumber \in TagNumber
             /\ params.stringType \in TagNumber
    BY <1>1 DEF TagParams, Params
<1>3. /\ TagBoolean \in TagNumber /\ TagInteger \in TagNumber /\ TagEnumerated \in TagNumber
      /\ TagBitString \in TagNumber /\ TagOctetString \in TagNumber /\ TagNull \in TagNumber
      /\ TagSet \in TagNumber /\ TagSequence \in TagNumber
    BY DEF TagNumber, Under, TagBoolean, TagInteger, TagEnumerated, TagBitString, TagOctetString,
           TagNull, TagSet, TagSequence
<1>4. \A params, type : params.stringType \in TagNumber => UniversalTag(type, params) \in TagNumber
    BY <1>3 DEF UniversalTag
<1> QED
    BY <1>1, <1>2, <1>4

\* An element stands for a value, under its tag and with its contents, except
\* for a choice without a tag, which is what it has chosen.
LEMMA TaggedStands ==
    ASSUME NEW value, NEW type, NEW params \in TagParams, NEW contents \in Encoded,
           type.kind = "choice" => params.tagNumber # NoTag
    PROVE  LET e == Tagged(type, params, contents)
           IN /\ e \in Encoded
              /\ Len(contents) \in Nat /\ Len(e) \in Nat /\ Len(contents) <= Len(e)
              /\ Short(e) => Stands(e, NumberOf(value, type, params), contents)
<1> DEFINE number == NumberOf(value, type, params)
           class == IF params.tagNumber # NoTag THEN ClassContextSpecific ELSE ClassUniversal
           e == Tagged(type, params, contents)
<1>1. class \in {0, 2} /\ Constructed(type) \in BOOLEAN
    BY DEF ClassContextSpecific, ClassUniversal, Constructed
<1>2. number \in TagNumber /\ number \in Nat
    BY TagNumbers DEF NumberOf
<1>3. e = TagLenValue(class, Constructed(type), number, contents)
    BY DEF Tagged, NumberOf
<1>4. params \in Params /\ contents \in Seq(Nat)
    BY TagNumbers DEF Encoded
<1>5. e \in Encoded
    BY <1>4, TaggedEncoded
<1> HIDE DEF class, number, e
<1>6. Len(contents) \in Nat /\ Len(e) \in Nat /\ Len(contents) <= Len(e)
    BY <1>1, <1>2, <1>3, <1>4, ContentsShorter
<1>7. ASSUME Short(e) PROVE Stands(e, number, contents)
    <2>1. Short(contents)
        <3>1. e \in Seq(Nat)
            BY <1>5 DEF Encoded
        <3>2. Len(e) \in TagLength
            BY <1>7, <3>1, ShortLength
        <3> QED
            BY <1>4, <1>6, <3>2, ShortLength
    <2>2. contents \in Seq(Byte)
        BY <2>1 DEF Encoded, Short
    <2>3. Len(contents) < 65536
        BY <2>1 DEF Short
    <2>4. Stands(TagLenValue(class, Constructed(type), number, contents), number, contents)
        BY <1>1, <1>2, <2>2, <2>3, ElementStands
    <2> QED
        BY <1>3, <2>4
<1> QED
    BY <1>5, <1>6, <1>7 DEF e, number

\* The parts are no longer than all of them are together.
LEMMA PartsShort ==
    ASSUME NEW parts \in Seq(Encoded), Short(FlattenSeq(parts))
    PROVE  /\ FlattenSeq(parts) \in Seq(Byte)
           /\ \A i \in DOMAIN parts : Short(parts[i]) /\ parts[i] \in Seq(Byte)
           /\ parts \in Seq(Seq(Byte))
<1>1. FlattenSeq(parts) \in Encoded
    BY EncodedOneAfterAnother
<1>2. FlattenSeq(parts) \in Seq(Byte)
    BY <1>1 DEF Encoded, Short
<1>3. parts \in Seq(Seq(Nat))
    <2>1. Encoded \in SUBSET Seq(Nat)
        BY DEF Encoded
    <2> QED
        BY <2>1, SeqMonotonic
<1>4. PICK f : Flattening(Nat, parts, f) /\ FlattenSeq(parts) = f[Len(parts)]
    BY <1>3, Flattens
<1>7. /\ \A k \in 0 .. Len(parts) : f[k] \in Seq(Nat) /\ Len(f[k]) \in Nat
      /\ Len(f[0]) = 0
      /\ \A k \in 1 .. Len(parts) :
           /\ Len(f[k]) = Len(f[k - 1]) + Len(parts[k])
           /\ Len(f[k]) <= Len(f[Len(parts)])
           /\ Holds(f[Len(parts)], Len(f[k - 1]), parts[k])
    <2>1. Flattening(Nat, parts, f)
        BY <1>4
    <2> QED
        BY <1>3, <2>1, PartsStand, Zenon
<1>5. ASSUME NEW i \in DOMAIN parts PROVE Short(parts[i]) /\ parts[i] \in Seq(Byte)
    <2>1. i \in 1 .. Len(parts) /\ Len(parts) \in Nat /\ parts[i] \in Encoded
        OBVIOUS
    <2>2. i \in 0 .. Len(parts) /\ i - 1 \in 0 .. Len(parts) /\ Len(parts) \in 0 .. Len(parts)
        BY <2>1
    <2>3. /\ Len(f[i]) = Len(f[i - 1]) + Len(parts[i])
          /\ Len(f[i]) <= Len(f[Len(parts)])
          /\ Len(f[i - 1]) \in Nat /\ Len(f[Len(parts)]) \in Nat
        BY <1>7, <2>1, <2>2
    <2>4. parts[i] \in Seq(Nat) /\ Len(parts[i]) \in Nat
        BY <2>1 DEF Encoded
    <2>5. Len(parts[i]) <= Len(FlattenSeq(parts))
        BY <1>4, <2>3, <2>4
    <2>6. Len(FlattenSeq(parts)) \in TagLength
        BY <1>2, ShortLength
    <2>7. Short(parts[i])
        BY <2>4, <2>5, <2>6, ShortLength
    <2> QED
        BY <2>1, <2>7 DEF Encoded, Short
<1>6. parts \in Seq(Seq(Byte))
    <2>1. parts \in [1 .. Len(parts) -> Seq(Byte)] /\ Len(parts) \in Nat
        BY <1>5
    <2> QED
        BY <2>1, SeqDef
<1> QED
    BY <1>2, <1>5, <1>6

-----------------------------------------------------------------------------
(* Values read back from what they are encoded as, if their members are. *)

\* Pieces are the parts of members, and what they are parsed to makes a value again.
RestoredFrom(value, type, params, parts, body, pieces, of) ==
    LET members == Members(value, type, params)
    IN /\ DOMAIN of = DOMAIN pieces
       /\ \A n \in DOMAIN pieces :
             /\ of[n] \in DOMAIN members /\ members[of[n]] # <<>>
             /\ pieces[n].type = members[of[n]][1].type
             /\ pieces[n].bytes = parts[of[n]]
             /\ pieces[n].type.kind = "choice" => pieces[n].params = members[of[n]][1].params
       /\ \A parsed :
             DOMAIN parsed = DOMAIN pieces
             /\ (\A n \in DOMAIN pieces : parsed[n] = <<members[of[n]][1].value>>)
             => Composed(type, body, pieces, parsed) = <<value>>

\* The octets of a value are found to be in such pieces.
Restorable(value, type, params, parts, e, dparams) ==
    \E tal, pieces, of :
        /\ ParseTagAndLength(e) = <<tal>>
        /\ Fits(tal, e)
        /\ Pieces(type, e, dparams, tal) = <<pieces>>
        /\ RestoredFrom(value, type, params, parts, From(e, tal.off + 1), pieces, of)

\* An element fits into itself, and its contents are found in it.
LEMMA OwnContents ==
    ASSUME NEW e, NEW number, NEW contents, Stands(e, number, contents)
    PROVE  \E tal : /\ ParseTagAndLength(e) = <<tal>> /\ Fits(tal, e)
                    /\ From(e, tal.off + 1) = contents /\ tal.tagNumber = number
<1> DEFINE tal == [tagNumber |-> number, len |-> Len(contents), off |-> Len(e) - Len(contents)]
<1>1. /\ ParseTagAndLength(e) = <<tal>> /\ From(e, Len(e) - Len(contents) + 1) = contents
      /\ Len(e) \in Nat /\ Len(contents) \in Nat
    BY ElementRead
<1>2. tal.off = Len(e) - Len(contents) /\ tal.len = Len(contents) /\ tal.tagNumber = number
    OBVIOUS
<1> HIDE DEF tal
<1>3. tal.off + tal.len <= Len(e)
    BY <1>1, <1>2
<1> QED
    BY <1>1, <1>2, <1>3 DEF Fits

\* Integers and texts have no members, and are read from their contents.
LEMMA SimpleRestored ==
    ASSUME NEW value, NEW type, NEW params, NEW parts,
           \/ type.kind \in {"int", "enum"} /\ value \in Nat
           \/ type.kind \in {"octets", "string"} /\ value \in Seq(Byte)
    PROVE  LET contents == Contents(value, type, parts)
           IN /\ contents \in Encoded
              /\ Members(value, type, params) = <<>>
              /\ \A e, tal, dparams : Pieces(type, e, dparams, tal) = << <<>> >>
              /\ RestoredFrom(value, type, params, parts, contents, <<>>, <<>>)
<1> DEFINE contents == Contents(value, type, parts)
<1>1. Members(value, type, params) = <<>>
    BY DEF Members
<1>2. \A e, tal, dparams : Pieces(type, e, dparams, tal) = << <<>> >>
    BY DEF Pieces
<1>3. ASSUME NEW parsed, DOMAIN parsed = {}
      PROVE  Composed(type, contents, <<>>, parsed) = <<value>> /\ contents \in Encoded
    <2>1. ~(<<>> \in ToSet(parsed))
        BY <1>3 DEF ToSet
    <2>2. CASE type.kind \in {"int", "enum"} /\ value \in Nat
        <3>1. contents = Int64(value)
            BY <2>2 DEF Contents
        <3>2. contents \in Encoded
            <4>1. Int64(value) \in Seq(Byte)
                BY <2>2, Int64Octets
            <4> QED
                BY <3>1, <4>1, BytesAreNumbers
        <3>3. ParseInt64(contents) = value
            BY <2>2, <3>1, Int64ReadBack
        <3> HIDE DEF contents
        <3>4. Composed(type, contents, <<>>, parsed) = <<ParseInt64(contents)>>
            BY <2>1, <2>2 DEF Composed
        <3> QED
            BY <3>2, <3>3, <3>4
    <2>3. CASE type.kind \in {"octets", "string"} /\ value \in Seq(Byte)
        <3>1. contents = value
            BY <2>3 DEF Contents
        <3>2. contents \in Encoded
            BY <2>3, <3>1, BytesAreNumbers
        <3> HIDE DEF contents
        <3>4. Composed(type, contents, <<>>, parsed) = <<contents>>
            BY <2>1, <2>3 DEF Composed
        <3> QED
            BY <3>1, <3>2, <3>4
    <2> QED
        BY <2>2, <2>3
<1>4. contents \in Encoded
    <2>1. DOMAIN <<>> = {}
        OBVIOUS
    <2> QED
        BY <1>3, <2>1
<1> HIDE DEF contents
<1>5. RestoredFrom(value, type, params, parts, contents, <<>>, <<>>)
    <2>1. DOMAIN <<>> = {}
        OBVIOUS
    <2> QED
        BY <1>3, <2>1 DEF RestoredFrom
<1> QED
    BY <1>1, <1>2, <1>4, <1>5 DEF contents

\* What can be read is there.
LEMMA ReadableThere ==
    ASSUME NEW e, NEW value, NEW type, NEW params, Readable(e, value, type, params)
    PROVE  e \in Encoded /\ e # <<>> /\ (Short(e) => e \in Seq(Byte))
<1>1. e \in Encoded /\ (Short(e) => IsElement(e, NumberOf(value, type, params)))
    BY DEF Readable
<1>2. ASSUME e = <<>> PROVE FALSE
    <2>1. <<>> \in Seq(Nat) /\ Len(<<>>) = 0
        OBVIOUS
    <2>2. Short(e)
        BY <1>2, <2>1 DEF Short
    <2>3. PICK contents : Stands(e, NumberOf(value, type, params), contents)
        BY <1>1, <2>2 DEF IsElement
    <2> QED
        BY <1>2, <2>3, ElementRead
<1> QED
    BY <1>1, <1>2 DEF Encoded, Short

\* The parts of a structure are elements, each with the tag of its field.
LEMMA StructParts ==
    ASSUME NEW value, NEW type, NEW params, IsStruct(value, type),
           NEW parts, PartsReadable(Members(value, type, params), parts)
    PROVE  /\ parts \in Seq(Encoded)
           /\ DOMAIN type.fields = 1 .. Len(parts) /\ Len(parts) \in Nat
           /\ Contents(value, type, parts) = FlattenSeq(parts)
           /\ \A i \in DOMAIN type.fields : value[i] = <<>> <=> parts[i] = <<>>
           /\ Short(FlattenSeq(parts)) => AreElements(parts, Tags(type.fields))
<1> DEFINE fields == type.fields
           members == Members(value, type, params)
<1>1. members = [i \in DOMAIN fields |->
              IF value[i] = <<>> THEN <<>> ELSE Member(value[i][1], fields[i].type, fields[i].params)]
    BY DEF Members, IsStruct
<1>2. PICK m \in Nat : DOMAIN fields = 1 .. m
    BY DEF IsStruct, OwnTags
<1>3. PartsReadable(members, parts)
    OBVIOUS
<1> HIDE DEF members
<1>4. DOMAIN parts = 1 .. m /\ DOMAIN members = 1 .. m
    BY <1>1, <1>2, <1>3 DEF PartsReadable
<1>5. ASSUME NEW i \in 1 .. m
      PROVE  IF value[i] = <<>> THEN parts[i] = <<>>
             ELSE Readable(parts[i], value[i][1], fields[i].type, fields[i].params)
    <2>1. CASE value[i] = <<>>
        <3>1. members[i] = <<>>
            BY <1>1, <1>2, <2>1
        <3> QED
            BY <1>3, <1>4, <2>1, <3>1 DEF PartsReadable
    <2>2. CASE value[i] # <<>>
        <3>1. members[i] # <<>> /\ members[i][1].value = value[i][1]
              /\ members[i][1].type = fields[i].type /\ members[i][1].params = fields[i].params
            BY <1>1, <1>2, <2>2 DEF Member
        <3>2. Readable(parts[i], members[i][1].value, members[i][1].type, members[i][1].params)
            BY <1>3, <1>4, <3>1 DEF PartsReadable
        <3> QED
            BY <2>2, <3>1, <3>2
    <2> QED
        BY <2>1, <2>2
<1>6. parts \in [1 .. m -> Encoded]
    <2>1. \A i \in 1 .. m : parts[i] \in Encoded
        BY <1>5, EncodedNothing DEF Readable
    <2>2. parts = [i \in 1 .. m |-> parts[i]]
        BY <1>3, <1>4 DEF PartsReadable
    <2> HIDE DEF fields
    <2> QED
        BY <2>1, <2>2
<1>7. parts \in Seq(Encoded) /\ Len(parts) = m
    BY <1>4, <1>6, SeqDef
<1>8. \A i \in 1 .. m : value[i] = <<>> <=> parts[i] = <<>>
    BY <1>5, ReadableThere
<1>9. Contents(value, type, parts) = FlattenSeq(parts)
    BY DEF Contents, IsStruct
<1>10. ASSUME Short(FlattenSeq(parts)) PROVE AreElements(parts, Tags(fields))
    <2>1. parts \in Seq(Seq(Byte)) /\ \A i \in DOMAIN parts : Short(parts[i])
        BY <1>7, <1>10, PartsShort
    <2>2. ASSUME NEW i \in 1 .. m, parts[i] # <<>> PROVE IsElement(parts[i], Tags(fields)[i])
        <3>1. Readable(parts[i], value[i][1], fields[i].type, fields[i].params)
            BY <1>5, <1>8, <2>2
        <3>2. fields[i].params.tagNumber \in TagNumber
            BY <1>2, <2>2 DEF IsStruct, OwnTags
        <3>3. NumberOf(value[i][1], fields[i].type, fields[i].params) = fields[i].params.tagNumber
            BY <3>2, TagNumbers DEF NumberOf
        <3>4. Tags(fields)[i] = fields[i].params.tagNumber
            BY <1>2, <2>2 DEF Tags
        <3>5. Short(parts[i])
            BY <1>4, <2>1, <2>2
        <3> QED
            BY <3>1, <3>3, <3>4, <3>5 DEF Readable
    <2> QED
        BY <1>7, <2>1, <2>2 DEF AreElements
<1> QED
    BY <1>2, <1>7, <1>8, <1>9, <1>10

\* An element that is short has short contents, which are found in it.
HasContents(e, number, contents) ==
    /\ e \in Encoded
    /\ Short(e) =>
         /\ Short(contents) /\ contents \in Seq(Byte)
         /\ IsElement(e, number)
         /\ \E tal : /\ ParseTagAndLength(e) = <<tal>> /\ Fits(tal, e)
                     /\ From(e, tal.off + 1) = contents

\* A tagged element has its contents, and they are found.
LEMMA ElementOf ==
    ASSUME NEW value, NEW type, NEW params \in TagParams, NEW contents \in Encoded,
           type.kind = "choice" => params.tagNumber # NoTag
    PROVE  HasContents(Tagged(type, params, contents), NumberOf(value, type, params), contents)
<1> DEFINE e == Tagged(type, params, contents)
<1>1. /\ e \in Encoded
      /\ Len(contents) \in Nat /\ Len(e) \in Nat /\ Len(contents) <= Len(e)
      /\ Short(e) => Stands(e, NumberOf(value, type, params), contents)
    BY TaggedStands
<1> HIDE DEF e
<1>2. ASSUME Short(e)
      PROVE  /\ Short(contents) /\ contents \in Seq(Byte)
             /\ IsElement(e, NumberOf(value, type, params))
             /\ \E tal : /\ ParseTagAndLength(e) = <<tal>> /\ Fits(tal, e)
                         /\ From(e, tal.off + 1) = contents
    <2>1. Stands(e, NumberOf(value, type, params), contents)
        BY <1>1, <1>2
    <2>2. contents \in Seq(Byte) /\ e \in Seq(Byte)
        BY <2>1, ElementRead
    <2>3. Len(e) \in TagLength
        BY <1>2, <2>2, ShortLength
    <2>4. Len(contents) \in TagLength
        BY <1>1, <2>2, <2>3, ShortLength
    <2>5. Short(contents)
        BY <2>2, <2>4, ShortLength
    <2>6. \E tal : /\ ParseTagAndLength(e) = <<tal>> /\ Fits(tal, e)
                   /\ From(e, tal.off + 1) = contents
        BY <2>1, OwnContents
    <2> QED
        BY <2>1, <2>2, <2>5, <2>6 DEF IsElement
<1>3. HasContents(e, NumberOf(value, type, params), contents)
    BY <1>1, <1>2 DEF HasContents
<1> QED
    BY <1>3 DEF e

\* A structure is restored from the pieces that its fields are found in.
LEMMA StructRestored ==
    ASSUME NEW value, NEW type, NEW params, IsStruct(value, type),
           NEW parts, PartsReadable(Members(value, type, params), parts),
           Short(FlattenSeq(parts)), NEW dparams, NEW body
    PROVE  \E pieces, of :
              /\ StructPieces(type, Elements(FlattenSeq(parts)), dparams) = <<pieces>>
              /\ RestoredFrom(value, type, params, parts, body, pieces, of)
<1> DEFINE fields == type.fields
           members == Members(value, type, params)
<1>1. /\ type.kind = "struct" /\ OwnTags(fields)
      /\ value = [i \in DOMAIN fields |-> value[i]]
      /\ \A i \in DOMAIN fields : value[i] # <<>> => value[i] = <<value[i][1]>>
    BY DEF IsStruct
<1>2. /\ DOMAIN fields = 1 .. Len(parts) /\ Len(parts) \in Nat
      /\ AreElements(parts, Tags(fields))
      /\ \A i \in DOMAIN fields : value[i] = <<>> <=> parts[i] = <<>>
    BY StructParts
<1>3. PICK idx : /\ InOrder(parts, 1, idx)
                 /\ StructPieces(type, Elements(FlattenSeq(parts)), dparams)
                      = <<StructPlaces(type, parts, idx)>>
    BY <1>1, <1>2, StructFound
<1> DEFINE pieces == StructPlaces(type, parts, idx)
<1>4. /\ Len(idx) \in Nat /\ DOMAIN idx = 1 .. Len(idx)
      /\ \A n \in 1 .. Len(idx) : idx[n] \in 1 .. Len(parts) /\ parts[idx[n]] # <<>>
    BY <1>3 DEF InOrder
<1>5. members = [i \in DOMAIN fields |->
              IF value[i] = <<>> THEN <<>> ELSE Member(value[i][1], fields[i].type, fields[i].params)]
    BY <1>1 DEF Members
<1>6. /\ DOMAIN pieces = 1 .. Len(idx)
      /\ \A n \in 1 .. Len(idx) :
            /\ pieces[n].type = fields[idx[n]].type /\ pieces[n].bytes = parts[idx[n]]
            /\ pieces[n].params = fields[idx[n]].params
    BY DEF StructPlaces, Piece
<1> HIDE DEF members
<1>7. ASSUME NEW n \in 1 .. Len(idx)
      PROVE  /\ idx[n] \in DOMAIN members /\ members[idx[n]] # <<>>
             /\ members[idx[n]][1].value = value[idx[n]][1]
             /\ members[idx[n]][1].type = fields[idx[n]].type
             /\ members[idx[n]][1].params = fields[idx[n]].params
             /\ value[idx[n]] = <<value[idx[n]][1]>>
    <2>1. idx[n] \in DOMAIN fields /\ parts[idx[n]] # <<>>
        BY <1>2, <1>4
    <2>2. value[idx[n]] # <<>>
        BY <1>2, <2>1
    <2> QED
        BY <1>1, <1>5, <2>1, <2>2 DEF Member
<1> HIDE DEF pieces
<1>8. ASSUME NEW parsed, DOMAIN parsed = DOMAIN pieces,
             \A n \in DOMAIN pieces : parsed[n] = <<members[idx[n]][1].value>>
      PROVE  Composed(type, body, pieces, parsed) = <<value>>
    <2>1. DOMAIN parsed = 1 .. Len(idx)
        BY <1>6, <1>8
    <2>2. ASSUME NEW n \in 1 .. Len(idx) PROVE parsed[n] = value[idx[n]]
        <3>1. parsed[n] = <<members[idx[n]][1].value>>
            BY <1>6, <1>8
        <3>2. members[idx[n]][1].value = value[idx[n]][1] /\ value[idx[n]] = <<value[idx[n]][1]>>
            BY <1>7
        <3> QED
            BY <3>1, <3>2
    <2>3. Composed(type, body, StructPlaces(type, parts, idx), parsed) = <<value>>
        <3>1. \A n \in 1 .. Len(idx) : parsed[n] = value[idx[n]]
            BY <2>2
        <3>2. /\ type.kind = "struct" /\ Len(parts) \in Nat
              /\ DOMAIN type.fields = 1 .. Len(parts)
              /\ IsOver(DOMAIN type.fields, value)
              /\ \A i \in DOMAIN type.fields : value[i] = <<>> <=> parts[i] = <<>>
              /\ InOrder(parts, 1, idx)
            BY <1>1, <1>2, <1>3 DEF IsOver
        <3> QED
            BY <2>1, <3>1, <3>2, StructComposed, SMTT(30)
    <2> QED
        BY <2>3 DEF pieces
<1>9. RestoredFrom(value, type, params, parts, body, pieces, idx)
    BY <1>4, <1>6, <1>7, <1>8 DEF RestoredFrom, members
<1> QED
    BY <1>3, <1>9 DEF pieces

\* A list is restored from its elements.
LEMMA SliceRestored ==
    ASSUME NEW value, NEW type, NEW params, IsSlice(value, type),
           NEW parts, PartsReadable(Members(value, type, params), parts), NEW dparams, NEW body
    PROVE  /\ parts \in Seq(Encoded)
           /\ Contents(value, type, parts) = FlattenSeq(parts)
           /\ Short(FlattenSeq(parts)) =>
                \E pieces, of :
                    /\ SlicePieces(type, Elements(FlattenSeq(parts)), dparams) = <<pieces>>
                    /\ RestoredFrom(value, type, params, parts, body, pieces, of)
<1> DEFINE members == Members(value, type, params)
           eparams == ElementParams(params)
           pieces == SlicePlaces(type, parts, dparams)
<1>1. type.kind = "slice" /\ type.type.kind # "choice"
    BY DEF IsSlice
<1>2. PICK m \in Nat : value = [n \in 1 .. m |-> value[n]]
    BY DEF IsSlice
<1>3. members = [i \in DOMAIN value |-> Member(value[i], type.type, eparams)]
    BY <1>1 DEF Members
<1>4. PartsReadable(members, parts)
    OBVIOUS
<1> HIDE DEF members, eparams
<1>5. DOMAIN members = 1 .. m /\ DOMAIN parts = 1 .. m
    BY <1>2, <1>3, <1>4 DEF PartsReadable
<1>6. \A n \in 1 .. m : /\ members[n] # <<>> /\ members[n][1].value = value[n]
                        /\ members[n][1].type = type.type
    BY <1>2, <1>3 DEF Member
<1>7. \A n \in 1 .. m : Readable(parts[n], value[n], type.type, members[n][1].params)
    BY <1>4, <1>5, <1>6 DEF PartsReadable
<1>8. parts \in Seq(Encoded) /\ Len(parts) = m
    <2>1. \A n \in 1 .. m : parts[n] \in Encoded
        BY <1>7 DEF Readable
    <2>2. parts = [n \in 1 .. m |-> parts[n]]
        BY <1>4, <1>5 DEF PartsReadable
    <2>3. parts \in [1 .. m -> Encoded]
        BY <2>1, <2>2
    <2> QED
        BY <1>5, <2>3, SeqDef
<1>9. Contents(value, type, parts) = FlattenSeq(parts)
    BY <1>1 DEF Contents
<1>10. ASSUME Short(FlattenSeq(parts))
       PROVE  SlicePieces(type, Elements(FlattenSeq(parts)), dparams) = <<pieces>>
    <2> DEFINE tags == [n \in 1 .. m |-> NumberOf(value[n], type.type, members[n][1].params)]
    <2>1. parts \in Seq(Seq(Byte)) /\ \A n \in 1 .. m : Short(parts[n])
        BY <1>5, <1>8, <1>10, PartsShort
    <2>2. \A n \in 1 .. m : parts[n] # <<>> /\ IsElement(parts[n], tags[n])
        BY <1>7, <2>1, ReadableThere DEF Readable
    <2> HIDE DEF tags
    <2>3. AreElements(parts, tags)
        BY <1>8, <2>1, <2>2 DEF AreElements
    <2> QED
        BY <1>8, <2>2, <2>3, SliceFound
<1>11. /\ DOMAIN pieces = 1 .. m
       /\ \A n \in 1 .. m : pieces[n].type = type.type /\ pieces[n].bytes = parts[n]
    BY <1>8 DEF SlicePlaces, Piece
<1> DEFINE of == [n \in 1 .. m |-> n]
<1> HIDE DEF pieces
<1>12. ASSUME NEW parsed, DOMAIN parsed = DOMAIN pieces,
              \A n \in DOMAIN pieces : parsed[n] = <<members[of[n]][1].value>>
       PROVE  Composed(type, body, pieces, parsed) = <<value>>
    <2>1. DOMAIN parsed = 1 .. m /\ \A n \in 1 .. m : parsed[n] = <<value[n]>>
        BY <1>6, <1>11, <1>12
    <2> QED
        BY <1>1, <1>2, <2>1, SliceComposed
<1>13. RestoredFrom(value, type, params, parts, body, pieces, of)
    <2>1. DOMAIN of = DOMAIN pieces
        BY <1>11
    <2>2. \A n \in DOMAIN pieces :
             /\ of[n] \in DOMAIN members /\ members[of[n]] # <<>>
             /\ pieces[n].type = members[of[n]][1].type
             /\ pieces[n].bytes = parts[of[n]]
             /\ pieces[n].type.kind = "choice" => pieces[n].params = members[of[n]][1].params
        BY <1>1, <1>5, <1>6, <1>11
    <2> HIDE DEF of
    <2> QED
        BY <1>12, <2>1, <2>2 DEF RestoredFrom, members
<1> QED
    BY <1>8, <1>9, <1>10, <1>13 DEF pieces

\* One part stands for itself.
LEMMA OnePart ==
    ASSUME NEW parts, DOMAIN parts = 1 .. 1, parts = [i \in 1 .. 1 |-> parts[i]],
           parts[1] \in Encoded
    PROVE  parts \in Seq(Encoded) /\ Len(parts) = 1 /\ FlattenSeq(parts) = parts[1]
<1>1. parts \in Seq(Encoded) /\ Len(parts) = 1
    <2>1. parts \in [1 .. 1 -> Encoded]
        OBVIOUS
    <2> QED
        BY <2>1, SeqDef
<1>2. parts \in Seq(Seq(Nat)) /\ parts[1] \in Seq(Nat)
    <2>1. Encoded \in SUBSET Seq(Nat)
        BY DEF Encoded
    <2> QED
        BY <1>1, <2>1, SeqMonotonic
<1>3. PICK f : Flattening(Nat, parts, f) /\ FlattenSeq(parts) = f[Len(parts)]
    BY <1>2, Flattens
<1>4. f[0] = <<>> /\ f[1] = f[0] \o parts[1]
    <2>1. 1 \in 1 .. Len(parts) /\ 1 - 1 = 0
        BY <1>1
    <2> QED
        BY <1>3, <2>1 DEF Flattening
<1>5. <<>> \o parts[1] = parts[1]
    BY <1>2
<1> QED
    BY <1>1, <1>3, <1>4, <1>5

\* What a choice has chosen, and the part it is in.
LEMMA ChoiceParts ==
    ASSUME NEW value, NEW type, NEW params, IsChoice(value, type),
           NEW parts, PartsReadable(Members(value, type, params), parts)
    PROVE  LET field == type.fields[value.Present]
           IN /\ Members(value, type, params) = <<Member(value.Value, field.type, field.params)>>
              /\ Readable(parts[1], value.Value, field.type, field.params)
              /\ field.params.tagNumber \in TagNumber
              /\ parts[1] \in Encoded
              /\ Contents(value, type, parts) = parts[1]
              /\ DOMAIN parts = 1 .. 1
<1> DEFINE field == type.fields[value.Present]
           members == Members(value, type, params)
<1>1. members = <<Member(value.Value, field.type, field.params)>>
    BY DEF Members, IsChoice
<1>2. field.params.tagNumber \in TagNumber
    BY DEF IsChoice, OwnTags
<1>3. PartsReadable(members, parts)
    OBVIOUS
<1> HIDE DEF members, field
<1>4. DOMAIN members = 1 .. 1 /\ 1 \in 1 .. 1
    BY <1>1
<1>5. members[1] # <<>> /\ members[1][1].value = value.Value /\ members[1][1].type = field.type
      /\ members[1][1].params = field.params
    BY <1>1 DEF Member
<1>6. /\ parts = [i \in 1 .. 1 |-> parts[i]]
      /\ Readable(parts[1], value.Value, field.type, field.params)
    BY <1>3, <1>4, <1>5 DEF PartsReadable
<1>7. parts[1] \in Encoded
    BY <1>6 DEF Readable
<1>8. DOMAIN parts = 1 .. 1
    BY <1>6
<1>9. FlattenSeq(parts) = parts[1]
    BY <1>6, <1>7, <1>8, OnePart
<1>10. Contents(value, type, parts) = FlattenSeq(parts)
    BY DEF Contents, IsChoice
<1> QED
    BY <1>1, <1>2, <1>6, <1>7, <1>8, <1>9, <1>10 DEF members, field

\* A choice is restored from the piece that is its part.
LEMMA ChoiceRestored ==
    ASSUME NEW value, NEW type, NEW params, IsChoice(value, type),
           NEW parts, PartsReadable(Members(value, type, params), parts), NEW body
    PROVE  LET field == type.fields[value.Present]
           IN RestoredFrom(value, type, params, parts, body,
                           <<Piece(value.Present, field.type, parts[1], field.params)>>, <<1>>)
<1> DEFINE field == type.fields[value.Present]
           members == Members(value, type, params)
           pieces == <<Piece(value.Present, field.type, parts[1], field.params)>>
<1>1. members = <<Member(value.Value, field.type, field.params)>>
    BY ChoiceParts
<1> HIDE DEF members, field
<1>2. /\ DOMAIN members = 1 .. 1 /\ 1 \in 1 .. 1 /\ members[1] # <<>>
      /\ members[1][1].value = value.Value /\ members[1][1].type = field.type
      /\ members[1][1].params = field.params
    BY <1>1 DEF Member
<1>3. /\ DOMAIN pieces = 1 .. 1 /\ DOMAIN <<1>> = 1 .. 1 /\ <<1>>[1] = 1
      /\ pieces[1].place = value.Present /\ pieces[1].type = field.type
      /\ pieces[1].bytes = parts[1] /\ pieces[1].params = field.params
    BY DEF Piece
<1>4. type.kind = "choice" /\ value = [Present |-> value.Present, Value |-> value.Value]
    BY DEF IsChoice
<1> DEFINE of == <<1>>
<1>5. DOMAIN of = 1 .. 1 /\ of[1] = 1
    BY <1>3
<1> HIDE DEF pieces, of
<1>6. ASSUME NEW parsed, DOMAIN parsed = DOMAIN pieces,
             \A n \in DOMAIN pieces : parsed[n] = <<members[of[n]][1].value>>
      PROVE  Composed(type, body, pieces, parsed) = <<value>>
    <2>1. DOMAIN parsed = 1 .. 1 /\ parsed[1] = <<value.Value>>
        BY <1>2, <1>3, <1>5, <1>6
    <2> QED
        BY <1>3, <1>4, <2>1, ChoiceComposed
<1>7. \A n \in DOMAIN pieces :
             /\ of[n] \in DOMAIN members /\ members[of[n]] # <<>>
             /\ pieces[n].type = members[of[n]][1].type
             /\ pieces[n].bytes = parts[of[n]]
             /\ pieces[n].type.kind = "choice" => pieces[n].params = members[of[n]][1].params
    <2> TAKE n \in DOMAIN pieces
    <2>1. n = 1
        BY <1>3
    <2> QED
        BY <1>2, <1>3, <1>5, <2>1
<1>8. RestoredFrom(value, type, params, parts, body, pieces, of)
    BY <1>3, <1>5, <1>6, <1>7 DEF RestoredFrom, members
<1> QED
    BY <1>8 DEF pieces, of, field

\* A choice without a tag is what it has chosen.
LEMMA UntaggedRead ==
    ASSUME NEW value, NEW type, NEW params, params.tagNumber = NoTag, IsChoice(value, type),
           NEW parts, PartsReadable(Members(value, type, params), parts),
           NEW e, e = Tagged(type, params, Contents(value, type, parts))
    PROVE  /\ e \in Encoded
           /\ Short(e) => /\ IsElement(e, NumberOf(value, type, params))
                          /\ Restorable(value, type, params, parts, e, params)
                          /\ Short(parts[1])
<1> DEFINE field == type.fields[value.Present]
           pieces == <<Piece(value.Present, field.type, parts[1], field.params)>>
<1>1. /\ Readable(parts[1], value.Value, field.type, field.params)
      /\ field.params.tagNumber \in TagNumber
      /\ parts[1] \in Encoded
      /\ Contents(value, type, parts) = parts[1]
    BY ChoiceParts
<1>2. type.kind = "choice" /\ OwnTags(type.fields) /\ value.Present \in DOMAIN type.fields
    BY DEF IsChoice
<1>3. e = parts[1]
    BY <1>1, <1>2, SMTT(30) DEF Tagged
<1>4. /\ NumberOf(value, type, params) = field.params.tagNumber
      /\ NumberOf(value.Value, field.type, field.params) = field.params.tagNumber
    BY <1>1, <1>2, TagNumbers DEF NumberOf
<1>5. ASSUME Short(e)
      PROVE  /\ IsElement(e, NumberOf(value, type, params))
             /\ Restorable(value, type, params, parts, e, params)
             /\ Short(parts[1])
    <2>1. IsElement(e, field.params.tagNumber)
        BY <1>1, <1>3, <1>4, <1>5 DEF Readable
    <2>2. PICK contents : Stands(e, field.params.tagNumber, contents)
        BY <2>1 DEF IsElement
    <2>3. e \in Seq(Byte)
        BY <2>2, ElementRead
    <2>4. PICK tal : /\ ParseTagAndLength(e) = <<tal>> /\ Fits(tal, e)
                     /\ tal.tagNumber = field.params.tagNumber
        BY <2>2, OwnContents
    <2>5. ChoicePieces(type, e, params, tal)
            = << <<Piece(value.Present, field.type, e, field.params)>> >>
        BY <1>2, <2>3, <2>4, ChosenFound
    <2>6. Pieces(type, e, params, tal) = <<pieces>>
        BY <1>2, <1>3, <2>5 DEF Pieces
    <2>7. RestoredFrom(value, type, params, parts, From(e, tal.off + 1), pieces, <<1>>)
        BY ChoiceRestored
    <2> HIDE DEF pieces
    <2>8. Restorable(value, type, params, parts, e, params)
        BY <2>4, <2>6, <2>7 DEF Restorable
    <2> QED
        BY <1>3, <1>4, <1>5, <2>1, <2>8
<1> QED
    BY <1>1, <1>3, <1>5

\* A choice with a tag has what it has chosen in it.
LEMMA EmbeddedRead ==
    ASSUME NEW value, NEW type, NEW params \in TagParams, params.tagNumber # NoTag,
           IsChoice(value, type), ChoosesText(value, type, params),
           NEW parts, PartsReadable(Members(value, type, params), parts),
           NEW e, e = Tagged(type, params, Contents(value, type, parts))
    PROVE  /\ e \in Encoded
           /\ Short(e) => /\ IsElement(e, NumberOf(value, type, params))
                          /\ Restorable(value, type, params, parts, e, params)
                          /\ Short(parts[1])
<1> DEFINE field == type.fields[value.Present]
           pieces == <<Piece(value.Present, field.type, parts[1], field.params)>>
           text == value.Value
           inner == parts[1]
           number == params.tagNumber
           chosen == field.params.tagNumber
<1>1. /\ Readable(inner, text, field.type, field.params)
      /\ chosen \in TagNumber
      /\ inner \in Encoded
      /\ Contents(value, type, parts) = inner
    BY ChoiceParts
<1>2. type.kind = "choice" /\ OwnTags(type.fields) /\ value.Present \in DOMAIN type.fields
    BY DEF IsChoice
<1>3. /\ number <= 30 /\ chosen <= 30 /\ field.type.kind = "string"
      /\ text \in Seq(Byte) /\ LikeOffsets(text)
    BY DEF ChoosesText
<1>4. number \in TagNumber /\ chosen # NoTag
    BY <1>1, TagNumbers
<1>5. e = TagLenValue(ClassContextSpecific, TRUE, number, inner)
    BY <1>1, <1>2 DEF Tagged, Constructed
<1>6. inner = TagLenValue(ClassContextSpecific, FALSE, chosen, text)
    BY <1>1, <1>3, <1>4 DEF Readable
<1>7. /\ e \in Encoded
      /\ Short(e) => /\ Short(inner) /\ inner \in Seq(Byte)
                     /\ IsElement(e, NumberOf(value, type, params))
                     /\ \E tal : ParseTagAndLength(e) = <<tal>> /\ Fits(tal, e)
    <2>1. e = Tagged(type, params, inner)
        BY <1>1
    <2> HIDE DEF inner
    <2>2. HasContents(e, NumberOf(value, type, params), inner)
        BY <1>1, <2>1, ElementOf
    <2> QED
        BY <2>2 DEF HasContents
<1>8. ASSUME Short(e)
      PROVE  Restorable(value, type, params, parts, e, params)
    <2>1. Short(inner) /\ inner \in Seq(Byte)
        BY <1>7, <1>8
    <2>2. PICK tal : ParseTagAndLength(e) = <<tal>> /\ Fits(tal, e)
        BY <1>7, <1>8
    <2>3. PICK off \in Nat : EmbeddedAt(off, chosen, number, text, inner, e)
        <3> HIDE DEF inner, text, number, chosen
        <3>1. chosen \in TagNumber /\ number \in TagNumber /\ chosen <= 30 /\ number <= 30
            BY <1>1, <1>3, <1>4
        <3>2. text \in Seq(Byte) /\ LikeOffsets(text) /\ inner \in Seq(Byte) /\ Short(inner)
            BY <1>3, <2>1
        <3> QED
            BY <1>5, <1>6, <3>1, <3>2, EmbeddedOffsets
    <2>5. ChoicePieces(type, e, params, tal)
            = << <<Piece(value.Present, field.type, inner, field.params)>> >>
        <3>1. EmbeddedIn(type, value.Present, inner, e)
            BY <1>2, <2>3 DEF EmbeddedIn
        <3> HIDE DEF inner
        <3> QED
            BY <2>2, <3>1, EmbeddedFound
    <2>6. Pieces(type, e, params, tal) = <<pieces>>
        BY <1>2, <2>5 DEF Pieces
    <2>7. RestoredFrom(value, type, params, parts, From(e, tal.off + 1), pieces, <<1>>)
        BY ChoiceRestored
    <2> HIDE DEF pieces
    <2> QED
        BY <2>2, <2>6, <2>7 DEF Restorable
<1> QED
    BY <1>7, <1>8

\* What is proved of the octets of a value.
Restored(e, value, type, params, parts) ==
    /\ Readable(e, value, type, params)
    /\ Short(e) =>
          /\ \A i \in DOMAIN parts : Short(parts[i])
          /\ \A dparams : (type.kind = "choice" => dparams = params) =>
                Restorable(value, type, params, parts, e, dparams)

\* An integer or a text is restored.
LEMMA SimpleRead ==
    ASSUME NEW value, NEW type, NEW params \in TagParams,
           \/ type.kind \in {"int", "enum"} /\ value \in Nat
           \/ type.kind \in {"octets", "string"} /\ value \in Seq(Byte),
           NEW parts, PartsReadable(Members(value, type, params), parts),
           NEW e, e = Tagged(type, params, Contents(value, type, parts))
    PROVE  Restored(e, value, type, params, parts)
<1> DEFINE contents == Contents(value, type, parts)
<1>1. /\ contents \in Encoded
      /\ Members(value, type, params) = <<>>
      /\ \A o, tal, dparams : Pieces(type, o, dparams, tal) = << <<>> >>
      /\ RestoredFrom(value, type, params, parts, contents, <<>>, <<>>)
    BY SimpleRestored
<1>2. type.kind # "choice"
    OBVIOUS
<1>3. e = Tagged(type, params, contents)
    OBVIOUS
<1>4. ASSUME type.kind = "string", params.tagNumber # NoTag
      PROVE  e = TagLenValue(ClassContextSpecific, FALSE, params.tagNumber, value)
    <2>1. contents = value
        BY <1>4 DEF Contents
    <2>2. Constructed(type) = FALSE
        BY <1>4 DEF Constructed
    <2>3. Tagged(type, params, contents)
            = TagLenValue(ClassContextSpecific, Constructed(type), params.tagNumber, contents)
        BY <1>4 DEF Tagged
    <2> QED
        BY <1>3, <2>1, <2>2, <2>3
<1>5. DOMAIN parts = {}
    <2>1. DOMAIN <<>> = {}
        OBVIOUS
    <2> QED
        BY <1>1, <2>1 DEF PartsReadable
<1> HIDE DEF contents
<1>9. HasContents(e, NumberOf(value, type, params), contents)
    BY <1>1, <1>2, <1>3, ElementOf
<1>6. /\ e \in Encoded
      /\ Short(e) =>
           /\ IsElement(e, NumberOf(value, type, params))
           /\ \E tal : /\ ParseTagAndLength(e) = <<tal>> /\ Fits(tal, e)
                       /\ From(e, tal.off + 1) = contents
    BY <1>9 DEF HasContents
<1>7. ASSUME Short(e), NEW dparams
      PROVE  Restorable(value, type, params, parts, e, dparams)
    <2>1. PICK tal : /\ ParseTagAndLength(e) = <<tal>> /\ Fits(tal, e)
                     /\ From(e, tal.off + 1) = contents
        BY <1>6, <1>7
    <2>2. Pieces(type, e, dparams, tal) = << <<>> >>
        BY <1>1
    <2>3. RestoredFrom(value, type, params, parts, From(e, tal.off + 1), <<>>, <<>>)
        BY <1>1, <2>1
    <2> QED
        BY <2>1, <2>2, <2>3 DEF Restorable
<1>8. Readable(e, value, type, params)
    BY <1>4, <1>6 DEF Readable
<1> QED
    BY <1>5, <1>7, <1>8 DEF Restored

\* A structure is restored.
LEMMA StructRead ==
    ASSUME NEW value, NEW type, NEW params \in TagParams, IsStruct(value, type),
           NEW parts, PartsReadable(Members(value, type, params), parts),
           NEW e, e = Tagged(type, params, Contents(value, type, parts))
    PROVE  Restored(e, value, type, params, parts)
<1> DEFINE contents == Contents(value, type, parts)
<1>1. type.kind = "struct"
    BY DEF IsStruct
<1>2. parts \in Seq(Encoded) /\ contents = FlattenSeq(parts)
    BY StructParts
<1>3. contents \in Encoded
    BY <1>2, EncodedOneAfterAnother
<1>4. e = Tagged(type, params, contents)
    OBVIOUS
<1> HIDE DEF contents
<1>9. HasContents(e, NumberOf(value, type, params), contents)
    BY <1>1, <1>3, <1>4, ElementOf
<1>5. /\ e \in Encoded
      /\ Short(e) =>
           /\ Short(contents)
           /\ IsElement(e, NumberOf(value, type, params))
           /\ \E tal : /\ ParseTagAndLength(e) = <<tal>> /\ Fits(tal, e)
                       /\ From(e, tal.off + 1) = contents
    BY <1>9 DEF HasContents
<1>6. ASSUME Short(e) PROVE \A i \in DOMAIN parts : Short(parts[i])
    BY <1>2, <1>5, <1>6, PartsShort
<1>7. ASSUME Short(e), NEW dparams
      PROVE  Restorable(value, type, params, parts, e, dparams)
    <2>1. PICK tal : /\ ParseTagAndLength(e) = <<tal>> /\ Fits(tal, e)
                     /\ From(e, tal.off + 1) = contents
        BY <1>5, <1>7
    <2> DEFINE body == From(e, tal.off + 1)
    <2>2. Short(FlattenSeq(parts))
        BY <1>2, <1>5, <1>7
    <2> HIDE DEF body
    <2>3. PICK pieces, of :
              /\ StructPieces(type, Elements(FlattenSeq(parts)), dparams) = <<pieces>>
              /\ RestoredFrom(value, type, params, parts, body, pieces, of)
        BY <2>2, StructRestored
    <2>4. Pieces(type, e, dparams, tal) = <<pieces>>
        <3>1. Pieces(type, e, dparams, tal)
                = StructPieces(type, Elements(From(e, tal.off + 1)), dparams)
            BY <1>1 DEF Pieces
        <3> QED
            BY <1>2, <2>1, <2>3, <3>1
    <2> QED
        BY <2>1, <2>3, <2>4 DEF Restorable, body
<1>8. Readable(e, value, type, params)
    BY <1>1, <1>5 DEF Readable
<1> QED
    BY <1>6, <1>7, <1>8 DEF Restored

\* A list is restored.
LEMMA SliceRead ==
    ASSUME NEW value, NEW type, NEW params \in TagParams, IsSlice(value, type),
           NEW parts, PartsReadable(Members(value, type, params), parts),
           NEW e, e = Tagged(type, params, Contents(value, type, parts))
    PROVE  Restored(e, value, type, params, parts)
<1> DEFINE contents == Contents(value, type, parts)
<1>1. type.kind = "slice"
    BY DEF IsSlice
<1>2. parts \in Seq(Encoded) /\ contents = FlattenSeq(parts)
    BY SliceRestored
<1>3. contents \in Encoded
    BY <1>2, EncodedOneAfterAnother
<1>4. e = Tagged(type, params, contents)
    OBVIOUS
<1> HIDE DEF contents
<1>9. HasContents(e, NumberOf(value, type, params), contents)
    BY <1>1, <1>3, <1>4, ElementOf
<1>5. /\ e \in Encoded
      /\ Short(e) =>
           /\ Short(contents)
           /\ IsElement(e, NumberOf(value, type, params))
           /\ \E tal : /\ ParseTagAndLength(e) = <<tal>> /\ Fits(tal, e)
                       /\ From(e, tal.off + 1) = contents
    BY <1>9 DEF HasContents
<1>6. ASSUME Short(e) PROVE \A i \in DOMAIN parts : Short(parts[i])
    BY <1>2, <1>5, <1>6, PartsShort
<1>7. ASSUME Short(e), NEW dparams
      PROVE  Restorable(value, type, params, parts, e, dparams)
    <2>1. PICK tal : /\ ParseTagAndLength(e) = <<tal>> /\ Fits(tal, e)
                     /\ From(e, tal.off + 1) = contents
        BY <1>5, <1>7
    <2> DEFINE body == From(e, tal.off + 1)
    <2>2. Short(FlattenSeq(parts))
        BY <1>2, <1>5, <1>7
    <2> HIDE DEF body
    <2>3. PICK pieces, of :
              /\ SlicePieces(type, Elements(FlattenSeq(parts)), dparams) = <<pieces>>
              /\ RestoredFrom(value, type, params, parts, body, pieces, of)
        BY <2>2, SliceRestored
    <2>4. Pieces(type, e, dparams, tal) = <<pieces>>
        <3>1. Pieces(type, e, dparams, tal)
                = SlicePieces(type, Elements(From(e, tal.off + 1)), dparams)
            BY <1>1 DEF Pieces
        <3> QED
            BY <1>2, <2>1, <2>3, <3>1
    <2> QED
        BY <2>1, <2>3, <2>4 DEF Restorable, body
<1>8. Readable(e, value, type, params)
    BY <1>1, <1>5 DEF Readable
<1> QED
    BY <1>6, <1>7, <1>8 DEF Restored

\* A choice is restored.
LEMMA ChoiceRead ==
    ASSUME NEW value, NEW type, NEW params \in TagParams, IsChoice(value, type),
           params.tagNumber # NoTag => ChoosesText(value, type, params),
           NEW parts, PartsReadable(Members(value, type, params), parts),
           NEW e, e = Tagged(type, params, Contents(value, type, parts))
    PROVE  Restored(e, value, type, params, parts)
<1>1. type.kind = "choice"
    BY DEF IsChoice
<1>2. DOMAIN parts = 1 .. 1
    BY ChoiceParts
<1>3. /\ e \in Encoded
      /\ Short(e) => /\ IsElement(e, NumberOf(value, type, params))
                     /\ Restorable(value, type, params, parts, e, params)
                     /\ Short(parts[1])
    <2>1. CASE params.tagNumber = NoTag
        BY <2>1, UntaggedRead
    <2>2. CASE params.tagNumber # NoTag
        BY <2>2, EmbeddedRead
    <2> QED
        BY <2>1, <2>2
<1>4. Short(e) => \A i \in DOMAIN parts : Short(parts[i])
    BY <1>2, <1>3
<1>5. Readable(e, value, type, params)
    BY <1>1, <1>3 DEF Readable
<1> QED
    BY <1>1, <1>3, <1>4, <1>5 DEF Restored

\* What is encoded of a value can be read, if what is encoded of its members can.
LEMMA ShapeRead ==
    ASSUME NEW value, NEW type, NEW params, Shape(value, type, params),
           NEW parts, PartsReadable(Members(value, type, params), parts)
    PROVE  Restored(Tagged(type, params, Contents(value, type, parts)), value, type, params, parts)
<1>1. params \in TagParams
    BY DEF Shape
<1>2. CASE \/ type.kind \in {"int", "enum"} /\ value \in Nat
           \/ type.kind \in {"octets", "string"} /\ value \in Seq(Byte)
    BY <1>1, <1>2, SimpleRead
<1>3. CASE IsStruct(value, type)
    BY <1>1, <1>3, StructRead
<1>4. CASE IsSlice(value, type)
    BY <1>1, <1>4, SliceRead
<1>5. CASE /\ IsChoice(value, type)
           /\ params.tagNumber # NoTag => ChoosesText(value, type, params)
    BY <1>1, <1>5, ChoiceRead
<1> QED
    BY <1>2, <1>3, <1>4, <1>5 DEF Shape

-----------------------------------------------------------------------------
(* The same for each level of types. *)

\* Values that come back as they were when what is encoded of them is decoded, for
\* types of so many levels.  Only a choice has to be decoded with the parameters
\* that it was encoded with.
ReadsBack1(value, type, params) ==
    LET e == Marshal1(value, type, params)
    IN /\ Readable(e, value, type, params)
       /\ Short(e) => \A dparams : (type.kind = "choice" => dparams = params) =>
             ParseField1(type, e, dparams) = <<value>>

ReadsBack2(value, type, params) ==
    LET e == Marshal2(value, type, params)
    IN /\ Readable(e, value, type, params)
       /\ Short(e) => \A dparams : (type.kind = "choice" => dparams = params) =>
             ParseField2(type, e, dparams) = <<value>>

ReadsBack3(value, type, params) ==
    LET e == Marshal3(value, type, params)
    IN /\ Readable(e, value, type, params)
       /\ Short(e) => \A dparams : (type.kind = "choice" => dparams = params) =>
             ParseField3(type, e, dparams) = <<value>>

ReadsBack4(value, type, params) ==
    LET e == Marshal4(value, type, params)
    IN /\ Readable(e, value, type, params)
       /\ Short(e) => \A dparams : (type.kind = "choice" => dparams = params) =>
             ParseField4(type, e, dparams) = <<value>>

ReadsBack5(value, type, params) ==
    LET e == Marshal5(value, type, params)
    IN /\ Readable(e, value, type, params)
       /\ Short(e) => \A dparams : (type.kind = "choice" => dparams = params) =>
             ParseField5(type, e, dparams) = <<value>>

ReadsBack6(value, type, params) ==
    LET e == Marshal6(value, type, params)
    IN /\ Readable(e, value, type, params)
       /\ Short(e) => \A dparams : (type.kind = "choice" => dparams = params) =>
             ParseField6(type, e, dparams) = <<value>>

ReadsBack(value, type, params) ==
    LET e == Marshal(value, type, params)
    IN /\ Readable(e, value, type, params)
       /\ Short(e) => \A dparams : (type.kind = "choice" => dparams = params) =>
             ParseField(type, e, dparams) = <<value>>

\* A value without members is read back as it was.
LEMMA Restored1 ==
    ASSUME NEW value, NEW type, NEW params, Shape(value, type, params),
           \A i \in DOMAIN Members(value, type, params) : Members(value, type, params)[i] = <<>>
    PROVE  ReadsBack1(value, type, params)
<1> DEFINE members == Members(value, type, params)
           parts == [i \in DOMAIN members |-> IF members[i] = <<>> THEN <<>>
                       ELSE <<>>]
           e == Marshal1(value, type, params)
<1>1. e = Tagged(type, params, Contents(value, type, parts))
    BY DEF Marshal1, MakeField
<1>2. \A i \in DOMAIN members : members[i] = <<>>
    OBVIOUS
<1> HIDE DEF members
<1>3. PartsReadable(members, parts)
    BY <1>2 DEF PartsReadable
<1> HIDE DEF e
<1>4. Restored(e, value, type, params, parts)
    <2> HIDE DEF parts
    <2> QED
        BY <1>1, <1>3, ShapeRead DEF members
<1>5. ASSUME Short(e), NEW dparams, type.kind = "choice" => dparams = params
      PROVE  ParseField1(type, e, dparams) = <<value>>
    <2>1. /\ \A i \in DOMAIN parts : Short(parts[i])
          /\ Restorable(value, type, params, parts, e, dparams)
        <3> HIDE DEF parts
        <3> QED
            BY <1>4, <1>5 DEF Restored
    <2>2. PICK tal, pieces, of :
            /\ ParseTagAndLength(e) = <<tal>>
            /\ Fits(tal, e)
            /\ Pieces(type, e, dparams, tal) = <<pieces>>
            /\ RestoredFrom(value, type, params, parts, From(e, tal.off + 1), pieces, of)
        <3> HIDE DEF parts
        <3> QED
            BY <2>1 DEF Restorable
    <2> DEFINE body == From(e, tal.off + 1)
               parsed == [n \in DOMAIN pieces |->
                            <<>>]
    <2>3. ParseField1(type, e, dparams) = Composed(type, body, pieces, parsed)
        <3> HIDE DEF parts
        <3> QED
            BY <2>2 DEF ParseField1, ParseFieldWith, ParseTagged, ParseMembers
    <2> HIDE DEF body
    <2>4. /\ \A n \in DOMAIN pieces :
                /\ of[n] \in DOMAIN members /\ members[of[n]] # <<>>
                /\ pieces[n].type = members[of[n]][1].type
                /\ pieces[n].bytes = parts[of[n]]
                /\ pieces[n].type.kind = "choice" => pieces[n].params = members[of[n]][1].params
          /\ \A p :
                DOMAIN p = DOMAIN pieces
                /\ (\A n \in DOMAIN pieces : p[n] = <<members[of[n]][1].value>>)
                => Composed(type, body, pieces, p) = <<value>>
        <3> HIDE DEF parts
        <3> QED
            BY <2>2 DEF RestoredFrom, members, body
    <2>5. \A n \in DOMAIN pieces : parsed[n] = <<members[of[n]][1].value>>
        BY <1>2, <2>4
    <2>6. DOMAIN parsed = DOMAIN pieces
        OBVIOUS
    <2> HIDE DEF parsed, parts
    <2>7. Composed(type, body, pieces, parsed) = <<value>>
        BY <2>4, <2>5, <2>6
    <2> QED
        BY <2>3, <2>7
<1>6. Readable(e, value, type, params)
    <2> HIDE DEF parts
    <2> QED
        BY <1>4 DEF Restored
<1> QED
    BY <1>5, <1>6 DEF ReadsBack1, e

\* A value is read back as it was if its members are.
LEMMA Restored2 ==
    ASSUME NEW value, NEW type, NEW params, Shape(value, type, params),
           \A i \in DOMAIN Members(value, type, params) :
              Members(value, type, params)[i] # <<>> =>
                  ReadsBack1(Members(value, type, params)[i][1].value,
                             Members(value, type, params)[i][1].type,
                             Members(value, type, params)[i][1].params)
    PROVE  ReadsBack2(value, type, params)
<1> DEFINE members == Members(value, type, params)
           parts == [i \in DOMAIN members |-> IF members[i] = <<>> THEN <<>>
                       ELSE Marshal1(members[i][1].value, members[i][1].type, members[i][1].params)]
           e == Marshal2(value, type, params)
<1>1. e = Tagged(type, params, Contents(value, type, parts))
    BY DEF Marshal2, MakeField
<1>2. \A i \in DOMAIN members : members[i] # <<>> =>
         ReadsBack1(members[i][1].value, members[i][1].type, members[i][1].params)
    OBVIOUS
<1> HIDE DEF members
<1>3. PartsReadable(members, parts)
    <2>1. \A i \in DOMAIN members :
             IF members[i] = <<>> THEN parts[i] = <<>>
             ELSE Readable(parts[i], members[i][1].value, members[i][1].type, members[i][1].params)
        BY <1>2 DEF ReadsBack1
    <2>2. parts = [i \in DOMAIN members |-> parts[i]]
        OBVIOUS
    <2> HIDE DEF parts
    <2> QED
        BY <2>1, <2>2 DEF PartsReadable
<1> HIDE DEF e
<1>4. Restored(e, value, type, params, parts)
    <2> HIDE DEF parts
    <2> QED
        BY <1>1, <1>3, ShapeRead DEF members
<1>5. ASSUME Short(e), NEW dparams, type.kind = "choice" => dparams = params
      PROVE  ParseField2(type, e, dparams) = <<value>>
    <2>1. /\ \A i \in DOMAIN parts : Short(parts[i])
          /\ Restorable(value, type, params, parts, e, dparams)
        <3> HIDE DEF parts
        <3> QED
            BY <1>4, <1>5 DEF Restored
    <2>2. PICK tal, pieces, of :
            /\ ParseTagAndLength(e) = <<tal>>
            /\ Fits(tal, e)
            /\ Pieces(type, e, dparams, tal) = <<pieces>>
            /\ RestoredFrom(value, type, params, parts, From(e, tal.off + 1), pieces, of)
        <3> HIDE DEF parts
        <3> QED
            BY <2>1 DEF Restorable
    <2> DEFINE body == From(e, tal.off + 1)
               parsed == [n \in DOMAIN pieces |->
                            ParseField1(pieces[n].type, pieces[n].bytes, pieces[n].params)]
    <2>3. ParseField2(type, e, dparams) = Composed(type, body, pieces, parsed)
        <3> HIDE DEF parts
        <3> QED
            BY <2>2 DEF ParseField2, ParseFieldWith, ParseTagged, ParseMembers
    <2> HIDE DEF body
    <2>4. /\ \A n \in DOMAIN pieces :
                /\ of[n] \in DOMAIN members /\ members[of[n]] # <<>>
                /\ pieces[n].type = members[of[n]][1].type
                /\ pieces[n].bytes = parts[of[n]]
                /\ pieces[n].type.kind = "choice" => pieces[n].params = members[of[n]][1].params
          /\ \A p :
                DOMAIN p = DOMAIN pieces
                /\ (\A n \in DOMAIN pieces : p[n] = <<members[of[n]][1].value>>)
                => Composed(type, body, pieces, p) = <<value>>
        <3> HIDE DEF parts
        <3> QED
            BY <2>2 DEF RestoredFrom, members, body
    <2>5. ASSUME NEW n \in DOMAIN pieces
          PROVE  parsed[n] = <<members[of[n]][1].value>>
        <3> DEFINE m == members[of[n]][1]
        <3>1. of[n] \in DOMAIN members /\ members[of[n]] # <<>>
            BY <2>4
        <3>2. parts[of[n]] = Marshal1(m.value, m.type, m.params) /\ of[n] \in DOMAIN parts
            BY <3>1
        <3>3. ReadsBack1(m.value, m.type, m.params)
            BY <1>2, <3>1
        <3>4. Short(parts[of[n]])
            BY <2>1, <3>2
        <3>5. /\ pieces[n].type = m.type /\ pieces[n].bytes = parts[of[n]]
              /\ m.type.kind = "choice" => pieces[n].params = m.params
            BY <2>4
        <3>6. parsed[n] = ParseField1(m.type, parts[of[n]], pieces[n].params)
            BY <3>5
        <3> HIDE DEF m, parts, parsed
        <3>7. ParseField1(m.type, parts[of[n]], pieces[n].params) = <<m.value>>
            BY <3>2, <3>3, <3>4, <3>5 DEF ReadsBack1
        <3> QED
            BY <3>6, <3>7 DEF m
    <2>6. DOMAIN parsed = DOMAIN pieces
        OBVIOUS
    <2> HIDE DEF parsed, parts
    <2>7. Composed(type, body, pieces, parsed) = <<value>>
        BY <2>4, <2>5, <2>6
    <2> QED
        BY <2>3, <2>7
<1>6. Readable(e, value, type, params)
    <2> HIDE DEF parts
    <2> QED
        BY <1>4 DEF Restored
<1> QED
    BY <1>5, <1>6 DEF ReadsBack2, e

\* The same for values of 3 levels.
LEMMA Restored3 ==
    ASSUME NEW value, NEW type, NEW params, Shape(value, type, params),
           \A i \in DOMAIN Members(value, type, params) :
              Members(value, type, params)[i] # <<>> =>
                  ReadsBack2(Members(value, type, params)[i][1].value,
                             Members(value, type, params)[i][1].type,
                             Members(value, type, params)[i][1].params)
    PROVE  ReadsBack3(value, type, params)
<1> DEFINE members == Members(value, type, params)
           parts == [i \in DOMAIN members |-> IF members[i] = <<>> THEN <<>>
                       ELSE Marshal2(members[i][1].value, members[i][1].type, members[i][1].params)]
           e == Marshal3(value, type, params)
<1>1. e = Tagged(type, params, Contents(value, type, parts))
    BY DEF Marshal3, MakeField
<1>2. \A i \in DOMAIN members : members[i] # <<>> =>
         ReadsBack2(members[i][1].value, members[i][1].type, members[i][1].params)
    OBVIOUS
<1> HIDE DEF members
<1>3. PartsReadable(members, parts)
    <2>1. \A i \in DOMAIN members :
             IF members[i] = <<>> THEN parts[i] = <<>>
             ELSE Readable(parts[i], members[i][1].value, members[i][1].type, members[i][1].params)
        BY <1>2 DEF ReadsBack2
    <2>2. parts = [i \in DOMAIN members |-> parts[i]]
        OBVIOUS
    <2> HIDE DEF parts
    <2> QED
        BY <2>1, <2>2 DEF PartsReadable
<1> HIDE DEF e
<1>4. Restored(e, value, type, params, parts)
    <2> HIDE DEF parts
    <2> QED
        BY <1>1, <1>3, ShapeRead DEF members
<1>5. ASSUME Short(e), NEW dparams, type.kind = "choice" => dparams = params
      PROVE  ParseField3(type, e, dparams) = <<value>>
    <2>1. /\ \A i \in DOMAIN parts : Short(parts[i])
          /\ Restorable(value, type, params, parts, e, dparams)
        <3> HIDE DEF parts
        <3> QED
            BY <1>4, <1>5 DEF Restored
    <2>2. PICK tal, pieces, of :
            /\ ParseTagAndLength(e) = <<tal>>
            /\ Fits(tal, e)
            /\ Pieces(type, e, dparams, tal) = <<pieces>>
            /\ RestoredFrom(value, type, params, parts, From(e, tal.off + 1), pieces, of)
        <3> HIDE DEF parts
        <3> QED
            BY <2>1 DEF Restorable
    <2> DEFINE body == From(e, tal.off + 1)
               parsed == [n \in DOMAIN pieces |->
                            ParseField2(pieces[n].type, pieces[n].bytes, pieces[n].params)]
    <2>3. ParseField3(type, e, dparams) = Composed(type, body, pieces, parsed)
        <3> HIDE DEF parts
        <3> QED
            BY <2>2 DEF ParseField3, ParseFieldWith, ParseTagged, ParseMembers
    <2> HIDE DEF body
    <2>4. /\ \A n \in DOMAIN pieces :
                /\ of[n] \in DOMAIN members /\ members[of[n]] # <<>>
                /\ pieces[n].type = members[of[n]][1].type
                /\ pieces[n].bytes = parts[of[n]]
                /\ pieces[n].type.kind = "choice" => pieces[n].params = members[of[n]][1].params
          /\ \A p :
                DOMAIN p = DOMAIN pieces
                /\ (\A n \in DOMAIN pieces : p[n] = <<members[of[n]][1].value>>)
                => Composed(type, body, pieces, p) = <<value>>
        <3> HIDE DEF parts
        <3> QED
            BY <2>2 DEF RestoredFrom, members, body
    <2>5. ASSUME NEW n \in DOMAIN pieces
          PROVE  parsed[n] = <<members[of[n]][1].value>>
        <3> DEFINE m == members[of[n]][1]
        <3>1. of[n] \in DOMAIN members /\ members[of[n]] # <<>>
            BY <2>4
        <3>2. parts[of[n]] = Marshal2(m.value, m.type, m.params) /\ of[n] \in DOMAIN parts
            BY <3>1
        <3>3. ReadsBack2(m.value, m.type, m.params)
            BY <1>2, <3>1
        <3>4. Short(parts[of[n]])
            BY <2>1, <3>2
        <3>5. /\ pieces[n].type = m.type /\ pieces[n].bytes = parts[of[n]]
              /\ m.type.kind = "choice" => pieces[n].params = m.params
            BY <2>4
        <3>6. parsed[n] = ParseField2(m.type, parts[of[n]], pieces[n].params)
            BY <3>5
        <3> HIDE DEF m, parts, parsed
        <3>7. ParseField2(m.type, parts[of[n]], pieces[n].params) = <<m.value>>
            BY <3>2, <3>3, <3>4, <3>5 DEF ReadsBack2
        <3> QED
            BY <3>6, <3>7 DEF m
    <2>6. DOMAIN parsed = DOMAIN pieces
        OBVIOUS
    <2> HIDE DEF parsed, parts
    <2>7. Composed(type, body, pieces, parsed) = <<value>>
        BY <2>4, <2>5, <2>6
    <2> QED
        BY <2>3, <2>7
<1>6. Readable(e, value, type, params)
    <2> HIDE DEF parts
    <2> QED
        BY <1>4 DEF Restored
<1> QED
    BY <1>5, <1>6 DEF ReadsBack3, e

\* The same for values of 4 levels.
LEMMA Restored4 ==
    ASSUME NEW value, NEW type, NEW params, Shape(value, type, params),
           \A i \in DOMAIN Members(value, type, params) :
              Members(value, type, params)[i] # <<>> =>
                  ReadsBack3(Members(value, type, params)[i][1].value,
                             Members(value, type, params)[i][1].type,
                             Members(value, type, params)[i][1].params)
    PROVE  ReadsBack4(value, type, params)
<1> DEFINE members == Members(value, type, params)
           parts == [i \in DOMAIN members |-> IF members[i] = <<>> THEN <<>>
                       ELSE Marshal3(members[i][1].value, members[i][1].type, members[i][1].params)]
           e == Marshal4(value, type, params)
<1>1. e = Tagged(type, params, Contents(value, type, parts))
    BY DEF Marshal4, MakeField
<1>2. \A i \in DOMAIN members : members[i] # <<>> =>
         ReadsBack3(members[i][1].value, members[i][1].type, members[i][1].params)
    OBVIOUS
<1> HIDE DEF members
<1>3. PartsReadable(members, parts)
    <2>1. \A i \in DOMAIN members :
             IF members[i] = <<>> THEN parts[i] = <<>>
             ELSE Readable(parts[i], members[i][1].value, members[i][1].type, members[i][1].params)
        BY <1>2 DEF ReadsBack3
    <2>2. parts = [i \in DOMAIN members |-> parts[i]]
        OBVIOUS
    <2> HIDE DEF parts
    <2> QED
        BY <2>1, <2>2 DEF PartsReadable
<1> HIDE DEF e
<1>4. Restored(e, value, type, params, parts)
    <2> HIDE DEF parts
    <2> QED
        BY <1>1, <1>3, ShapeRead DEF members
<1>5. ASSUME Short(e), NEW dparams, type.kind = "choice" => dparams = params
      PROVE  ParseField4(type, e, dparams) = <<value>>
    <2>1. /\ \A i \in DOMAIN parts : Short(parts[i])
          /\ Restorable(value, type, params, parts, e, dparams)
        <3> HIDE DEF parts
        <3> QED
            BY <1>4, <1>5 DEF Restored
    <2>2. PICK tal, pieces, of :
            /\ ParseTagAndLength(e) = <<tal>>
            /\ Fits(tal, e)
            /\ Pieces(type, e, dparams, tal) = <<pieces>>
            /\ RestoredFrom(value, type, params, parts, From(e, tal.off + 1), pieces, of)
        <3> HIDE DEF parts
        <3> QED
            BY <2>1 DEF Restorable
    <2> DEFINE body == From(e, tal.off + 1)
               parsed == [n \in DOMAIN pieces |->
                            ParseField3(pieces[n].type, pieces[n].bytes, pieces[n].params)]
    <2>3. ParseField4(type, e, dparams) = Composed(type, body, pieces, parsed)
        <3> HIDE DEF parts
        <3> QED
            BY <2>2 DEF ParseField4, ParseFieldWith, ParseTagged, ParseMembers
    <2> HIDE DEF body
    <2>4. /\ \A n \in DOMAIN pieces :
                /\ of[n] \in DOMAIN members /\ members[of[n]] # <<>>
                /\ pieces[n].type = members[of[n]][1].type
                /\ pieces[n].bytes = parts[of[n]]
                /\ pieces[n].type.kind = "choice" => pieces[n].params = members[of[n]][1].params
          /\ \A p :
                DOMAIN p = DOMAIN pieces
                /\ (\A n \in DOMAIN pieces : p[n] = <<members[of[n]][1].value>>)
                => Composed(type, body, pieces, p) = <<value>>
        <3> HIDE DEF parts
        <3> QED
            BY <2>2 DEF RestoredFrom, members, body
    <2>5. ASSUME NEW n \in DOMAIN pieces
          PROVE  parsed[n] = <<members[of[n]][1].value>>
        <3> DEFINE m == members[of[n]][1]
        <3>1. of[n] \in DOMAIN members /\ members[of[n]] # <<>>
            BY <2>4
        <3>2. parts[of[n]] = Marshal3(m.value, m.type, m.params) /\ of[n] \in DOMAIN parts
            BY <3>1
        <3>3. ReadsBack3(m.value, m.type, m.params)
            BY <1>2, <3>1
        <3>4. Short(parts[of[n]])
            BY <2>1, <3>2
        <3>5. /\ pieces[n].type = m.type /\ pieces[n].bytes = parts[of[n]]
              /\ m.type.kind = "choice" => pieces[n].params = m.params
            BY <2>4
        <3>6. parsed[n] = ParseField3(m.type, parts[of[n]], pieces[n].params)
            BY <3>5
        <3> HIDE DEF m, parts, parsed
        <3>7. ParseField3(m.type, parts[of[n]], pieces[n].params) = <<m.value>>
            BY <3>2, <3>3, <3>4, <3>5 DEF ReadsBack3
        <3> QED
            BY <3>6, <3>7 DEF m
    <2>6. DOMAIN parsed = DOMAIN pieces
        OBVIOUS
    <2> HIDE DEF parsed, parts
    <2>7. Composed(type, body, pieces, parsed) = <<value>>
        BY <2>4, <2>5, <2>6
    <2> QED
        BY <2>3, <2>7
<1>6. Readable(e, value, type, params)
    <2> HIDE DEF parts
    <2> QED
        BY <1>4 DEF Restored
<1> QED
    BY <1>5, <1>6 DEF ReadsBack4, e

\* The same for values of 5 levels.
LEMMA Restored5 ==
    ASSUME NEW value, NEW type, NEW params, Shape(value, type, params),
           \A i \in DOMAIN Members(value, type, params) :
              Members(value, type, params)[i] # <<>> =>
                  ReadsBack4(Members(value, type, params)[i][1].value,
                             Members(value, type, params)[i][1].type,
                             Members(value, type, params)[i][1].params)
    PROVE  ReadsBack5(value, type, params)
<1> DEFINE members == Members(value, type, params)
           parts == [i \in DOMAIN members |-> IF members[i] = <<>> THEN <<>>
                       ELSE Marshal4(members[i][1].value, members[i][1].type, members[i][1].params)]
           e == Marshal5(value, type, params)
<1>1. e = Tagged(type, params, Contents(value, type, parts))
    BY DEF Marshal5, MakeField
<1>2. \A i \in DOMAIN members : members[i] # <<>> =>
         ReadsBack4(members[i][1].value, members[i][1].type, members[i][1].params)
    OBVIOUS
<1> HIDE DEF members
<1>3. PartsReadable(members, parts)
    <2>1. \A i \in DOMAIN members :
             IF members[i] = <<>> THEN parts[i] = <<>>
             ELSE Readable(parts[i], members[i][1].value, members[i][1].type, members[i][1].params)
        BY <1>2 DEF ReadsBack4
    <2>2. parts = [i \in DOMAIN members |-> parts[i]]
        OBVIOUS
    <2> HIDE DEF parts
    <2> QED
        BY <2>1, <2>2 DEF PartsReadable
<1> HIDE DEF e
<1>4. Restored(e, value, type, params, parts)
    <2> HIDE DEF parts
    <2> QED
        BY <1>1, <1>3, ShapeRead DEF members
<1>5. ASSUME Short(e), NEW dparams, type.kind = "choice" => dparams = params
      PROVE  ParseField5(type, e, dparams) = <<value>>
    <2>1. /\ \A i \in DOMAIN parts : Short(parts[i])
          /\ Restorable(value, type, params, parts, e, dparams)
        <3> HIDE DEF parts
        <3> QED
            BY <1>4, <1>5 DEF Restored
    <2>2. PICK tal, pieces, of :
            /\ ParseTagAndLength(e) = <<tal>>
            /\ Fits(tal, e)
            /\ Pieces(type, e, dparams, tal) = <<pieces>>
            /\ RestoredFrom(value, type, params, parts, From(e, tal.off + 1), pieces, of)
        <3> HIDE DEF parts
        <3> QED
            BY <2>1 DEF Restorable
    <2> DEFINE body == From(e, tal.off + 1)
               parsed == [n \in DOMAIN pieces |->
                            ParseField4(pieces[n].type, pieces[n].bytes, pieces[n].params)]
    <2>3. ParseField5(type, e, dparams) = Composed(type, body, pieces, parsed)
        <3> HIDE DEF parts
        <3> QED
            BY <2>2 DEF ParseField5, ParseFieldWith, ParseTagged, ParseMembers
    <2> HIDE DEF body
    <2>4. /\ \A n \in DOMAIN pieces :
                /\ of[n] \in DOMAIN members /\ members[of[n]] # <<>>
                /\ pieces[n].type = members[of[n]][1].type
                /\ pieces[n].bytes = parts[of[n]]
                /\ pieces[n].type.kind = "choice" => pieces[n].params = members[of[n]][1].params
          /\ \A p :
                DOMAIN p = DOMAIN pieces
                /\ (\A n \in DOMAIN pieces : p[n] = <<members[of[n]][1].value>>)
                => Composed(type, body, pieces, p) = <<value>>
        <3> HIDE DEF parts
        <3> QED
            BY <2>2 DEF RestoredFrom, members, body
    <2>5. ASSUME NEW n \in DOMAIN pieces
          PROVE  parsed[n] = <<members[of[n]][1].value>>
        <3> DEFINE m == members[of[n]][1]
        <3>1. of[n] \in DOMAIN members /\ members[of[n]] # <<>>
            BY <2>4
        <3>2. parts[of[n]] = Marshal4(m.value, m.type, m.params) /\ of[n] \in DOMAIN parts
            BY <3>1
        <3>3. ReadsBack4(m.value, m.type, m.params)
            BY <1>2, <3>1
        <3>4. Short(parts[of[n]])
            BY <2>1, <3>2
        <3>5. /\ pieces[n].type = m.type /\ pieces[n].bytes = parts[of[n]]
              /\ m.type.kind = "choice" => pieces[n].params = m.params
            BY <2>4
        <3>6. parsed[n] = ParseField4(m.type, parts[of[n]], pieces[n].params)
            BY <3>5
        <3> HIDE DEF m, parts, parsed
        <3>7. ParseField4(m.type, parts[of[n]], pieces[n].params) = <<m.value>>
            BY <3>2, <3>3, <3>4, <3>5 DEF ReadsBack4
        <3> QED
            BY <3>6, <3>7 DEF m
    <2>6. DOMAIN parsed = DOMAIN pieces
        OBVIOUS
    <2> HIDE DEF parsed, parts
    <2>7. Composed(type, body, pieces, parsed) = <<value>>
        BY <2>4, <2>5, <2>6
    <2> QED
        BY <2>3, <2>7
<1>6. Readable(e, value, type, params)
    <2> HIDE DEF parts
    <2> QED
        BY <1>4 DEF Restored
<1> QED
    BY <1>5, <1>6 DEF ReadsBack5, e

\* The same for values of 6 levels.
LEMMA Restored6 ==
    ASSUME NEW value, NEW type, NEW params, Shape(value, type, params),
           \A i \in DOMAIN Members(value, type, params) :
              Members(value, type, params)[i] # <<>> =>
                  ReadsBack5(Members(value, type, params)[i][1].value,
                             Members(value, type, params)[i][1].type,
                             Members(value, type, params)[i][1].params)
    PROVE  ReadsBack6(value, type, params)
<1> DEFINE members == Members(value, type, params)
           parts == [i \in DOMAIN members |-> IF members[i] = <<>> THEN <<>>
                       ELSE Marshal5(members[i][1].value, members[i][1].type, members[i][1].params)]
           e == Marshal6(value, type, params)
<1>1. e = Tagged(type, params, Contents(value, type, parts))
    BY DEF Marshal6, MakeField
<1>2. \A i \in DOMAIN members : members[i] # <<>> =>
         ReadsBack5(members[i][1].value, members[i][1].type, members[i][1].params)
    OBVIOUS
<1> HIDE DEF members
<1>3. PartsReadable(members, parts)
    <2>1. \A i \in DOMAIN members :
             IF members[i] = <<>> THEN parts[i] = <<>>
             ELSE Readable(parts[i], members[i][1].value, members[i][1].type, members[i][1].params)
        BY <1>2 DEF ReadsBack5
    <2>2. parts = [i \in DOMAIN members |-> parts[i]]
        OBVIOUS
    <2> HIDE DEF parts
    <2> QED
        BY <2>1, <2>2 DEF PartsReadable
<1> HIDE DEF e
<1>4. Restored(e, value, type, params, parts)
    <2> HIDE DEF parts
    <2> QED
        BY <1>1, <1>3, ShapeRead DEF members
<1>5. ASSUME Short(e), NEW dparams, type.kind = "choice" => dparams = params
      PROVE  ParseField6(type, e, dparams) = <<value>>
    <2>1. /\ \A i \in DOMAIN parts : Short(parts[i])
          /\ Restorable(value, type, params, parts, e, dparams)
        <3> HIDE DEF parts
        <3> QED
            BY <1>4, <1>5 DEF Restored
    <2>2. PICK tal, pieces, of :
            /\ ParseTagAndLength(e) = <<tal>>
            /\ Fits(tal, e)
            /\ Pieces(type, e, dparams, tal) = <<pieces>>
            /\ RestoredFrom(value, type, params, parts, From(e, tal.off + 1), pieces, of)
        <3> HIDE DEF parts
        <3> QED
            BY <2>1 DEF Restorable
    <2> DEFINE body == From(e, tal.off + 1)
               parsed == [n \in DOMAIN pieces |->
                            ParseField5(pieces[n].type, pieces[n].bytes, pieces[n].params)]
    <2>3. ParseField6(type, e, dparams) = Composed(type, body, pieces, parsed)
        <3> HIDE DEF parts
        <3> QED
            BY <2>2 DEF ParseField6, ParseFieldWith, ParseTagged, ParseMembers
    <2> HIDE DEF body
    <2>4. /\ \A n \in DOMAIN pieces :
                /\ of[n] \in DOMAIN members /\ members[of[n]] # <<>>
                /\ pieces[n].type = members[of[n]][1].type
                /\ pieces[n].bytes = parts[of[n]]
                /\ pieces[n].type.kind = "choice" => pieces[n].params = members[of[n]][1].params
          /\ \A p :
                DOMAIN p = DOMAIN pieces
                /\ (\A n \in DOMAIN pieces : p[n] = <<members[of[n]][1].value>>)
                => Composed(type, body, pieces, p) = <<value>>
        <3> HIDE DEF parts
        <3> QED
            BY <2>2 DEF RestoredFrom, members, body
    <2>5. ASSUME NEW n \in DOMAIN pieces
          PROVE  parsed[n] = <<members[of[n]][1].value>>
        <3> DEFINE m == members[of[n]][1]
        <3>1. of[n] \in DOMAIN members /\ members[of[n]] # <<>>
            BY <2>4
        <3>2. parts[of[n]] = Marshal5(m.value, m.type, m.params) /\ of[n] \in DOMAIN parts
            BY <3>1
        <3>3. ReadsBack5(m.value, m.type, m.params)
            BY <1>2, <3>1
        <3>4. Short(parts[of[n]])
            BY <2>1, <3>2
        <3>5. /\ pieces[n].type = m.type /\ pieces[n].bytes = parts[of[n]]
              /\ m.type.kind = "choice" => pieces[n].params = m.params
            BY <2>4
        <3>6. parsed[n] = ParseField5(m.type, parts[of[n]], pieces[n].params)
            BY <3>5
        <3> HIDE DEF m, parts, parsed
        <3>7. ParseField5(m.type, parts[of[n]], pieces[n].params) = <<m.value>>
            BY <3>2, <3>3, <3>4, <3>5 DEF ReadsBack5
        <3> QED
            BY <3>6, <3>7 DEF m
    <2>6. DOMAIN parsed = DOMAIN pieces
        OBVIOUS
    <2> HIDE DEF parsed, parts
    <2>7. Composed(type, body, pieces, parsed) = <<value>>
        BY <2>4, <2>5, <2>6
    <2> QED
        BY <2>3, <2>7
<1>6. Readable(e, value, type, params)
    <2> HIDE DEF parts
    <2> QED
        BY <1>4 DEF Restored
<1> QED
    BY <1>5, <1>6 DEF ReadsBack6, e

\* The same for values of 7 levels.
LEMMA Restored7 ==
    ASSUME NEW value, NEW type, NEW params, Shape(value, type, params),
           \A i \in DOMAIN Members(value, type, params) :
              Members(value, type, params)[i] # <<>> =>
                  ReadsBack6(Members(value, type, params)[i][1].value,
                             Members(value, type, params)[i][1].type,
                             Members(value, type, params)[i][1].params)
    PROVE  ReadsBack(value, type, params)
<1> DEFINE members == Members(value, type, params)
           parts == [i \in DOMAIN members |-> IF members[i] = <<>> THEN <<>>
                       ELSE Marshal6(members[i][1].value, members[i][1].type, members[i][1].params)]
           e == Marshal(value, type, params)
<1>1. e = Tagged(type, params, Contents(value, type, parts))
    BY DEF Marshal, MakeField
<1>2. \A i \in DOMAIN members : members[i] # <<>> =>
         ReadsBack6(members[i][1].value, members[i][1].type, members[i][1].params)
    OBVIOUS
<1> HIDE DEF members
<1>3. PartsReadable(members, parts)
    <2>1. \A i \in DOMAIN members :
             IF members[i] = <<>> THEN parts[i] = <<>>
             ELSE Readable(parts[i], members[i][1].value, members[i][1].type, members[i][1].params)
        BY <1>2 DEF ReadsBack6
    <2>2. parts = [i \in DOMAIN members |-> parts[i]]
        OBVIOUS
    <2> HIDE DEF parts
    <2> QED
        BY <2>1, <2>2 DEF PartsReadable
<1> HIDE DEF e
<1>4. Restored(e, value, type, params, parts)
    <2> HIDE DEF parts
    <2> QED
        BY <1>1, <1>3, ShapeRead DEF members
<1>5. ASSUME Short(e), NEW dparams, type.kind = "choice" => dparams = params
      PROVE  ParseField(type, e, dparams) = <<value>>
    <2>1. /\ \A i \in DOMAIN parts : Short(parts[i])
          /\ Restorable(value, type, params, parts, e, dparams)
        <3> HIDE DEF parts
        <3> QED
            BY <1>4, <1>5 DEF Restored
    <2>2. PICK tal, pieces, of :
            /\ ParseTagAndLength(e) = <<tal>>
            /\ Fits(tal, e)
            /\ Pieces(type, e, dparams, tal) = <<pieces>>
            /\ RestoredFrom(value, type, params, parts, From(e, tal.off + 1), pieces, of)
        <3> HIDE DEF parts
        <3> QED
            BY <2>1 DEF Restorable
    <2> DEFINE body == From(e, tal.off + 1)
               parsed == [n \in DOMAIN pieces |->
                            ParseField6(pieces[n].type, pieces[n].bytes, pieces[n].params)]
    <2>3. ParseField(type, e, dparams) = Composed(type, body, pieces, parsed)
        <3> HIDE DEF parts
        <3> QED
            BY <2>2 DEF ParseField, ParseFieldWith, ParseTagged, ParseMembers
    <2> HIDE DEF body
    <2>4. /\ \A n \in DOMAIN pieces :
                /\ of[n] \in DOMAIN members /\ members[of[n]] # <<>>
                /\ pieces[n].type = members[of[n]][1].type
                /\ pieces[n].bytes = parts[of[n]]
                /\ pieces[n].type.kind = "choice" => pieces[n].params = members[of[n]][1].params
          /\ \A p :
                DOMAIN p = DOMAIN pieces
                /\ (\A n \in DOMAIN pieces : p[n] = <<members[of[n]][1].value>>)
                => Composed(type, body, pieces, p) = <<value>>
        <3> HIDE DEF parts
        <3> QED
            BY <2>2 DEF RestoredFrom, members, body
    <2>5. ASSUME NEW n \in DOMAIN pieces
          PROVE  parsed[n] = <<members[of[n]][1].value>>
        <3> DEFINE m == members[of[n]][1]
        <3>1. of[n] \in DOMAIN members /\ members[of[n]] # <<>>
            BY <2>4
        <3>2. parts[of[n]] = Marshal6(m.value, m.type, m.params) /\ of[n] \in DOMAIN parts
            BY <3>1
        <3>3. ReadsBack6(m.value, m.type, m.params)
            BY <1>2, <3>1
        <3>4. Short(parts[of[n]])
            BY <2>1, <3>2
        <3>5. /\ pieces[n].type = m.type /\ pieces[n].bytes = parts[of[n]]
              /\ m.type.kind = "choice" => pieces[n].params = m.params
            BY <2>4
        <3>6. parsed[n] = ParseField6(m.type, parts[of[n]], pieces[n].params)
            BY <3>5
        <3> HIDE DEF m, parts, parsed
        <3>7. ParseField6(m.type, parts[of[n]], pieces[n].params) = <<m.value>>
            BY <3>2, <3>3, <3>4, <3>5 DEF ReadsBack6
        <3> QED
            BY <3>6, <3>7 DEF m
    <2>6. DOMAIN parsed = DOMAIN pieces
        OBVIOUS
    <2> HIDE DEF parsed, parts
    <2>7. Composed(type, body, pieces, parsed) = <<value>>
        BY <2>4, <2>5, <2>6
    <2> QED
        BY <2>3, <2>7
<1>6. Readable(e, value, type, params)
    <2> HIDE DEF parts
    <2> QED
        BY <1>4 DEF Restored
<1> QED
    BY <1>5, <1>6 DEF ReadsBack, e

\* The parameters of a field are those of its tag number.
LEMMA FieldTag ==
    ASSUME NEW n \in TagNumber, NEW type
    PROVE  /\ Field(n, type).params \in TagParams /\ Field(n, type).params.tagNumber = n
           /\ Field(n, type).type = type
<1>1. 0 \in TagNumber
    BY DEF TagNumber, Under
<1> QED
    BY <1>1 DEF Field, Plain, TagParams

\* The parameters without a tag, and those of the elements of a list.
LEMMA PlainTag ==
    /\ Plain \in TagParams
    /\ \A params \in TagParams : ElementParams(params) \in TagParams
<1>1. 0 \in TagNumber
    BY DEF TagNumber, Under
<1> QED
    BY <1>1 DEF Plain, TagParams, ElementParams

\* Integers that are not negative, and octets, are read back as they were.
IsSimple(value, type) ==
    \/ type.kind \in {"int", "enum"} /\ value \in Nat
    \/ type.kind \in {"octets", "string"} /\ value \in Seq(Byte)

\* They are, at the first level of types and hence at every one.
LEMMA SimpleReadsBack ==
    ASSUME NEW value, NEW type, NEW params \in TagParams, IsSimple(value, type)
    PROVE  /\ ReadsBack1(value, type, params) /\ ReadsBack2(value, type, params)
           /\ ReadsBack3(value, type, params) /\ ReadsBack4(value, type, params)
           /\ ReadsBack5(value, type, params) /\ ReadsBack6(value, type, params)
<1>1. Shape(value, type, params)
    BY DEF Shape, IsSimple
<1>2. Members(value, type, params) = <<>>
    BY DEF Members, IsSimple
<1>3. DOMAIN Members(value, type, params) = {}
    <2>1. DOMAIN <<>> = {}
        OBVIOUS
    <2> QED
        BY <1>2, <2>1
<1>4. ReadsBack1(value, type, params)
    BY <1>1, <1>3, Restored1
<1>5. ReadsBack2(value, type, params)
    BY <1>1, <1>3, Restored2
<1>6. ReadsBack3(value, type, params)
    BY <1>1, <1>3, Restored3
<1>7. ReadsBack4(value, type, params)
    BY <1>1, <1>3, Restored4
<1>8. ReadsBack5(value, type, params)
    BY <1>1, <1>3, Restored5
<1>9. ReadsBack6(value, type, params)
    BY <1>1, <1>3, Restored6
<1> QED
    BY <1>4, <1>5, <1>6, <1>7, <1>8, <1>9

\* Integers are values of the integer types, octets of the string types.
LEMMA SimpleTypes ==
    /\ \A n \in Nat : IsSimple(n, Integer) /\ IsSimple(n, EnumeratedType)
    /\ \A m \in Seq(Byte) : IsSimple(m, OctetStringType) /\ IsSimple(m, StringType)
    BY DEF IsSimple, Integer, EnumeratedType, OctetStringType, StringType

\* A structure of 2 levels is read back if its fields are.
LEMMA StructReadsBack2 ==
    ASSUME NEW value, NEW type, NEW params \in TagParams, IsStruct(value, type),
           \A i \in DOMAIN type.fields : value[i] # <<>> =>
              ReadsBack1(value[i][1], type.fields[i].type, type.fields[i].params)
    PROVE  ReadsBack2(value, type, params)
<1> DEFINE members == Members(value, type, params)
<1>1. members = [i \in DOMAIN type.fields |->
                   IF value[i] = <<>> THEN <<>>
                   ELSE Member(value[i][1], type.fields[i].type, type.fields[i].params)]
    BY DEF Members, IsStruct
<1> HIDE DEF members
<1>2. ASSUME NEW i \in DOMAIN members, members[i] # <<>>
      PROVE  ReadsBack1(members[i][1].value, members[i][1].type, members[i][1].params)
    <2>1. i \in DOMAIN type.fields /\ value[i] # <<>>
        BY <1>1, <1>2
    <2>2. /\ members[i][1].value = value[i][1] /\ members[i][1].type = type.fields[i].type
          /\ members[i][1].params = type.fields[i].params
        BY <1>1, <2>1 DEF Member
    <2> QED
        BY <2>1, <2>2
<1>3. Shape(value, type, params)
    BY DEF Shape
<1> QED
    BY <1>2, <1>3, Restored2 DEF members

\* A structure of 4 levels is read back if its fields are.
LEMMA StructReadsBack4 ==
    ASSUME NEW value, NEW type, NEW params \in TagParams, IsStruct(value, type),
           \A i \in DOMAIN type.fields : value[i] # <<>> =>
              ReadsBack3(value[i][1], type.fields[i].type, type.fields[i].params)
    PROVE  ReadsBack4(value, type, params)
<1> DEFINE members == Members(value, type, params)
<1>1. members = [i \in DOMAIN type.fields |->
                   IF value[i] = <<>> THEN <<>>
                   ELSE Member(value[i][1], type.fields[i].type, type.fields[i].params)]
    BY DEF Members, IsStruct
<1> HIDE DEF members
<1>2. ASSUME NEW i \in DOMAIN members, members[i] # <<>>
      PROVE  ReadsBack3(members[i][1].value, members[i][1].type, members[i][1].params)
    <2>1. i \in DOMAIN type.fields /\ value[i] # <<>>
        BY <1>1, <1>2
    <2>2. /\ members[i][1].value = value[i][1] /\ members[i][1].type = type.fields[i].type
          /\ members[i][1].params = type.fields[i].params
        BY <1>1, <2>1 DEF Member
    <2> QED
        BY <2>1, <2>2
<1>3. Shape(value, type, params)
    BY DEF Shape
<1> QED
    BY <1>2, <1>3, Restored4 DEF members

\* A structure of 5 levels is read back if its fields are.
LEMMA StructReadsBack5 ==
    ASSUME NEW value, NEW type, NEW params \in TagParams, IsStruct(value, type),
           \A i \in DOMAIN type.fields : value[i] # <<>> =>
              ReadsBack4(value[i][1], type.fields[i].type, type.fields[i].params)
    PROVE  ReadsBack5(value, type, params)
<1> DEFINE members == Members(value, type, params)
<1>1. members = [i \in DOMAIN type.fields |->
                   IF value[i] = <<>> THEN <<>>
                   ELSE Member(value[i][1], type.fields[i].type, type.fields[i].params)]
    BY DEF Members, IsStruct
<1> HIDE DEF members
<1>2. ASSUME NEW i \in DOMAIN members, members[i] # <<>>
      PROVE  ReadsBack4(members[i][1].value, members[i][1].type, members[i][1].params)
    <2>1. i \in DOMAIN type.fields /\ value[i] # <<>>
        BY <1>1, <1>2
    <2>2. /\ members[i][1].value = value[i][1] /\ members[i][1].type = type.fields[i].type
          /\ members[i][1].params = type.fields[i].params
        BY <1>1, <2>1 DEF Member
    <2> QED
        BY <2>1, <2>2
<1>3. Shape(value, type, params)
    BY DEF Shape
<1> QED
    BY <1>2, <1>3, Restored5 DEF members

\* A structure of 6 levels is read back if its fields are.
LEMMA StructReadsBack6 ==
    ASSUME NEW value, NEW type, NEW params \in TagParams, IsStruct(value, type),
           \A i \in DOMAIN type.fields : value[i] # <<>> =>
              ReadsBack5(value[i][1], type.fields[i].type, type.fields[i].params)
    PROVE  ReadsBack6(value, type, params)
<1> DEFINE members == Members(value, type, params)
<1>1. members = [i \in DOMAIN type.fields |->
                   IF value[i] = <<>> THEN <<>>
                   ELSE Member(value[i][1], type.fields[i].type, type.fields[i].params)]
    BY DEF Members, IsStruct
<1> HIDE DEF members
<1>2. ASSUME NEW i \in DOMAIN members, members[i] # <<>>
      PROVE  ReadsBack5(members[i][1].value, members[i][1].type, members[i][1].params)
    <2>1. i \in DOMAIN type.fields /\ value[i] # <<>>
        BY <1>1, <1>2
    <2>2. /\ members[i][1].value = value[i][1] /\ members[i][1].type = type.fields[i].type
          /\ members[i][1].params = type.fields[i].params
        BY <1>1, <2>1 DEF Member
    <2> QED
        BY <2>1, <2>2
<1>3. Shape(value, type, params)
    BY DEF Shape
<1> QED
    BY <1>2, <1>3, Restored6 DEF members

\* A list of 3 levels is read back if its elements are.
LEMMA SliceReadsBack3 ==
    ASSUME NEW value, NEW type, NEW params \in TagParams, IsSlice(value, type),
           \A i \in DOMAIN value : ReadsBack2(value[i], type.type, ElementParams(params))
    PROVE  ReadsBack3(value, type, params)
<1> DEFINE members == Members(value, type, params)
<1>1. members = [i \in DOMAIN value |-> Member(value[i], type.type, ElementParams(params))]
    BY DEF Members, IsSlice
<1> HIDE DEF members
<1>2. ASSUME NEW i \in DOMAIN members, members[i] # <<>>
      PROVE  ReadsBack2(members[i][1].value, members[i][1].type, members[i][1].params)
    <2>1. i \in DOMAIN value
        BY <1>1, <1>2
    <2>2. /\ members[i][1].value = value[i] /\ members[i][1].type = type.type
          /\ members[i][1].params = ElementParams(params)
        BY <1>1, <2>1 DEF Member
    <2> QED
        BY <2>1, <2>2
<1>3. Shape(value, type, params)
    BY DEF Shape
<1> QED
    BY <1>2, <1>3, Restored3 DEF members

\* A list of 5 levels is read back if its elements are.
LEMMA SliceReadsBack5 ==
    ASSUME NEW value, NEW type, NEW params \in TagParams, IsSlice(value, type),
           \A i \in DOMAIN value : ReadsBack4(value[i], type.type, ElementParams(params))
    PROVE  ReadsBack5(value, type, params)
<1> DEFINE members == Members(value, type, params)
<1>1. members = [i \in DOMAIN value |-> Member(value[i], type.type, ElementParams(params))]
    BY DEF Members, IsSlice
<1> HIDE DEF members
<1>2. ASSUME NEW i \in DOMAIN members, members[i] # <<>>
      PROVE  ReadsBack4(members[i][1].value, members[i][1].type, members[i][1].params)
    <2>1. i \in DOMAIN value
        BY <1>1, <1>2
    <2>2. /\ members[i][1].value = value[i] /\ members[i][1].type = type.type
          /\ members[i][1].params = ElementParams(params)
        BY <1>1, <2>1 DEF Member
    <2> QED
        BY <2>1, <2>2
<1>3. Shape(value, type, params)
    BY DEF Shape
<1> QED
    BY <1>2, <1>3, Restored5 DEF members

\* A choice of 4 levels is read back if what it has chosen is.
LEMMA ChoiceReadsBack4 ==
    ASSUME NEW value, NEW type, NEW params \in TagParams, IsChoice(value, type),
           params.tagNumber # NoTag => ChoosesText(value, type, params),
           ReadsBack3(value.Value, type.fields[value.Present].type,
                      type.fields[value.Present].params)
    PROVE  ReadsBack4(value, type, params)
<1> DEFINE members == Members(value, type, params)
           field == type.fields[value.Present]
<1>1. members = <<Member(value.Value, field.type, field.params)>>
    BY DEF Members, IsChoice
<1> HIDE DEF members
<1>2. ASSUME NEW i \in DOMAIN members, members[i] # <<>>
      PROVE  ReadsBack3(members[i][1].value, members[i][1].type, members[i][1].params)
    <2>1. i = 1
        BY <1>1, <1>2
    <2>2. /\ members[1][1].value = value.Value /\ members[1][1].type = field.type
          /\ members[1][1].params = field.params
        BY <1>1 DEF Member
    <2> QED
        BY <2>1, <2>2
<1>3. Shape(value, type, params)
    BY DEF Shape
<1> QED
    BY <1>2, <1>3, Restored4 DEF members

\* A choice of 7 levels is read back if what it has chosen is.
LEMMA ChoiceReadsBack7 ==
    ASSUME NEW value, NEW type, NEW params \in TagParams, IsChoice(value, type),
           params.tagNumber # NoTag => ChoosesText(value, type, params),
           ReadsBack6(value.Value, type.fields[value.Present].type,
                      type.fields[value.Present].params)
    PROVE  ReadsBack(value, type, params)
<1> DEFINE members == Members(value, type, params)
           field == type.fields[value.Present]
<1>1. members = <<Member(value.Value, field.type, field.params)>>
    BY DEF Members, IsChoice
<1> HIDE DEF members
<1>2. ASSUME NEW i \in DOMAIN members, members[i] # <<>>
      PROVE  ReadsBack6(members[i][1].value, members[i][1].type, members[i][1].params)
    <2>1. i = 1
        BY <1>1, <1>2
    <2>2. /\ members[1][1].value = value.Value /\ members[1][1].type = field.type
          /\ members[1][1].params = field.params
        BY <1>1 DEF Member
    <2> QED
        BY <2>1, <2>2
<1>3. Shape(value, type, params)
    BY DEF Shape
<1> QED
    BY <1>2, <1>3, Restored7 DEF members
=============================================================================
