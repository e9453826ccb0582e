------------------------ MODULE OnlineChargingProofs ------------------------
(***************************************************************************)
(* Theorems about OnlineCharging, for every value of its constants.        *)
(***************************************************************************)
EXTENDS OnlineCharging, SequenceTheorems, FiniteSetTheorems, TLAPS

-----------------------------------------------------------------------------
(* Sums over finite sets.  That the numbers are well-founded stands for    *)
(* induction: of a set that is not empty, take a least element.            *)

LEMMA LeastOf ==
    ASSUME NEW T \in SUBSET Nat, T # {}
    PROVE  \E x \in T : \A y \in T : x <= y
<1> DEFINE Less == OpToRel(<, Nat)
<1>1. Less = {p \in Nat \X Nat : p[1] < p[2]}
    BY DEF OpToRel
<1>2. IsWellFoundedOn(Less, Nat)
    BY NatLessThanWellFounded
<1> HIDE DEF Less
<1>3. PICK x \in T : \A y \in T : ~(<<y, x>> \in Less)
    BY <1>2, WFMin
<1>4. \A y \in T : <<y, x>> \in Less <=> y < x
    BY <1>1
<1>5. \A y \in T : x <= y
    <2> TAKE y \in T
    <2>1. x \in Nat /\ y \in Nat /\ ~(y < x)
        BY <1>3, <1>4
    <2> QED
        BY <2>1
<1> QED
    BY <1>5

\* A set of finite sets has one of the smallest.
LEMMA SmallestOf ==
    ASSUME NEW S, IsFiniteSet(S), NEW T \in SUBSET (SUBSET S), T # {}
    PROVE  \E t \in T : \A u \in T : Cardinality(t) <= Cardinality(u)
<1> DEFINE sizes == {Cardinality(t) : t \in T}
<1>1. sizes \in SUBSET Nat /\ sizes # {}
    <2>1. \A t \in T : IsFiniteSet(t)
        BY FS_Subset
    <2>2. \A t \in T : Cardinality(t) \in Nat
        BY <2>1, FS_CardinalityType
    <2> QED
        BY <2>2
<1>2. \E x \in sizes : \A y \in sizes : x <= y
    <2> HIDE DEF sizes
    <2> QED
        BY <1>1, LeastOf
<1> QED
    BY <1>2

\* The recursion of SumFunction: an element is taken out, whichever.
Some(s) == CHOOSE x \in s : TRUE
Step(w, sum, s) == IF s = {} THEN 0 ELSE w[Some(s)] + sum[s \ {Some(s)}]
Sums(w, S, sum) ==
    /\ sum \in [SUBSET S -> Int]
    /\ \A s \in SUBSET S : sum[s] = Step(w, sum, s)

LEMMA SmallerWithout ==
    ASSUME NEW S, IsFiniteSet(S), NEW s \in SUBSET S, NEW x \in s
    PROVE  /\ s \ {x} \in SUBSET S
           /\ Cardinality(s) \in Nat /\ Cardinality(s \ {x}) = Cardinality(s) - 1
           /\ ~(Cardinality(s) <= Cardinality(s \ {x}))
<1>1. IsFiniteSet(s)
    BY FS_Subset
<1>2. Cardinality(s) \in Nat /\ Cardinality(s \ {x}) = Cardinality(s) - 1
    BY <1>1, FS_RemoveElement, FS_CardinalityType
<1> QED
    BY <1>2

LEMMA SomeOf ==
    ASSUME NEW S, IsFiniteSet(S), NEW s \in SUBSET S, s # {}
    PROVE  /\ Some(s) \in s /\ Some(s) \in S /\ s \ {Some(s)} \in SUBSET S
           /\ Cardinality(s) \in Nat /\ Cardinality(s \ {Some(s)}) = Cardinality(s) - 1
           /\ ~(Cardinality(s) <= Cardinality(s \ {Some(s)}))
<1>1. Some(s) \in s
    BY DEF Some
<1> QED
    BY <1>1, SmallerWithout

LEMMA StepType ==
    ASSUME NEW S, IsFiniteSet(S), NEW w \in [S -> Int], NEW sum \in [SUBSET S -> Int],
           NEW s \in SUBSET S
    PROVE  Step(w, sum, s) \in Int
<1>1. CASE s = {}
    BY <1>1 DEF Step
<1>2. CASE s # {}
    <2>1. Some(s) \in S /\ s \ {Some(s)} \in SUBSET S
        BY <1>2, SomeOf
    <2>2. w[Some(s)] \in Int /\ sum[s \ {Some(s)}] \in Int
        BY <2>1
    <2> QED
        BY <1>2, <2>2 DEF Step
<1> QED
    BY <1>1, <1>2

\* There are sums of the sets of so many elements.
SumsUpTo(w, S, n) ==
    \E sum \in [SUBSET S -> Int] :
        \A s \in SUBSET S : Cardinality(s) <= n => sum[s] = Step(w, sum, s)

LEMMA SumsUpToNext ==
    ASSUME NEW S, IsFiniteSet(S), NEW w \in [S -> Int], NEW n \in Nat, SumsUpTo(w, S, n)
    PROVE  SumsUpTo(w, S, n + 1)
<1>1. PICK old \in [SUBSET S -> Int] :
         \A s \in SUBSET S : Cardinality(s) <= n => old[s] = Step(w, old, s)
    BY DEF SumsUpTo
<1> DEFINE sum == [s \in SUBSET S |-> Step(w, old, s)]
<1>2. sum \in [SUBSET S -> Int]
    BY StepType
<1>3. ASSUME NEW s \in SUBSET S, Cardinality(s) <= n + 1
      PROVE  sum[s] = Step(w, sum, s)
    <2>1. CASE s = {}
        BY <2>1 DEF Step
    <2>2. CASE s # {}
        <3> DEFINE rest == s \ {Some(s)}
        <3>1. rest \in SUBSET S /\ Cardinality(rest) <= n
            BY <1>3, <2>2, SomeOf
        <3>2. old[rest] = Step(w, old, rest)
            BY <1>1, <3>1
        <3>3. sum[s] = w[Some(s)] + old[rest]
            BY <2>2 DEF Step
        <3>4. sum[rest] = old[rest]
            BY <3>1, <3>2
        <3> QED
            BY <2>2, <3>3, <3>4 DEF Step
    <2> QED
        BY <2>1, <2>2
<1> QED
    BY <1>2, <1>3 DEF SumsUpTo

LEMMA SumsExist ==
    ASSUME NEW S, IsFiniteSet(S), NEW w \in [S -> Int]
    PROVE  \E sum : Sums(w, S, sum)
<1> DEFINE None == {n \in Nat : ~SumsUpTo(w, S, n)}
<1>1. SumsUpTo(w, S, 0)
    <2> DEFINE sum == [s \in SUBSET S |-> 0]
    <2>1. \A s \in SUBSET S : Cardinality(s) <= 0 => s = {}
        BY FS_EmptySet, FS_Subset, FS_CardinalityType
    <2>2. \A s \in SUBSET S : Cardinality(s) <= 0 => sum[s] = Step(w, sum, s)
        BY <2>1 DEF Step
    <2>3. sum \in [SUBSET S -> Int]
        OBVIOUS
    <2> QED
        BY <2>2, <2>3 DEF SumsUpTo
<1>2. None = {}
    <2>1. SUFFICES ASSUME None # {}
                   PROVE  FALSE
        OBVIOUS
    <2>2. PICK n \in None : \A m \in None : n <= m
        <3>1. None \in SUBSET Nat
            OBVIOUS
        <3> HIDE DEF None
        <3> QED
            BY <2>1, <3>1, LeastOf
    <2>3. n \in Nat /\ ~SumsUpTo(w, S, n) /\ n # 0
        BY <1>1
    <2>4. n - 1 \in Nat /\ SumsUpTo(w, S, n - 1)
        BY <2>2, <2>3
    <2>5. SumsUpTo(w, S, (n - 1) + 1)
        BY <2>4, SumsUpToNext
    <2>6. (n - 1) + 1 = n
        BY <2>3
    <2> QED
        BY <2>3, <2>5, <2>6
<1>3. Cardinality(S) \in Nat
    BY FS_CardinalityType
<1>4. SumsUpTo(w, S, Cardinality(S))
    BY <1>2, <1>3
<1>5. \A s \in SUBSET S : Cardinality(s) <= Cardinality(S)
    BY FS_Subset
<1> QED
    BY <1>4, <1>5 DEF Sums, SumsUpTo

\* Sums of functions that agree are the same, however they came about.
LEMMA SumsAgree ==
    ASSUME NEW S, IsFiniteSet(S), NEW v, NEW w, \A x \in S : v[x] = w[x],
           NEW f, \A s \in SUBSET S : f[s] = Step(v, f, s),
           NEW g, \A s \in SUBSET S : g[s] = Step(w, g, s)
    PROVE  \A s \in SUBSET S : f[s] = g[s]
<1> DEFINE Apart == {s \in SUBSET S : f[s] # g[s]}
<1>1. SUFFICES ASSUME Apart # {}
               PROVE  FALSE
    OBVIOUS
<1>2. PICK s \in Apart : \A u \in Apart : Cardinality(s) <= Cardinality(u)
    <2>1. Apart \in SUBSET (SUBSET S)
        OBVIOUS
    <2> HIDE DEF Apart
    <2> QED
        BY <1>1, <2>1, SmallestOf
<1>3. s \in SUBSET S /\ f[s] # g[s]
    OBVIOUS
<1>4. s # {}
    BY <1>3 DEF Step
<1>5. /\ Some(s) \in S /\ s \ {Some(s)} \in SUBSET S
      /\ ~(Cardinality(s) <= Cardinality(s \ {Some(s)}))
    BY <1>3, <1>4, SomeOf
<1>6. f[s \ {Some(s)}] = g[s \ {Some(s)}]
    BY <1>2, <1>5
<1>7. f[s] = Step(v, f, s) /\ g[s] = Step(w, g, s)
    BY <1>3
<1> QED
    BY <1>3, <1>4, <1>5, <1>6, <1>7 DEF Step

LEMMA SumIs ==
    ASSUME NEW S, IsFiniteSet(S), NEW w \in [S -> Int]
    PROVE  \E sum : Sums(w, S, sum) /\ SumFunction(w) = sum[S]
<1> DEFINE Iter(sum) ==
       sum = [s \in SUBSET S |-> IF s = {} THEN 0
              ELSE LET x == CHOOSE x \in s : TRUE IN w[x] + sum[s \ {x}]]
<1>1. PICK sum : Sums(w, S, sum)
    BY SumsExist
<1>2. Iter(sum)
    BY <1>1 DEF Sums, Step, Some
<1> DEFINE it == CHOOSE it : Iter(it)
<1>3. Iter(it)
    BY <1>2
<1>4. SumFunction(w) = it[S]
    BY DEF SumFunction, SumFunctionOnSet, FoldFunctionOnSet, MapThenFoldSet
<1>5. \A s \in SUBSET S : it[s] = Step(w, it, s)
    <2> HIDE DEF it
    <2> QED
        BY <1>3 DEF Step, Some
<1> HIDE DEF it
<1>6. it[S] = sum[S]
    BY <1>1, <1>5, SumsAgree DEF Sums
<1> QED
    BY <1>1, <1>4, <1>6

\* Whichever element is taken out, ...
LEMMA TakeOut ==
    ASSUME NEW S, IsFiniteSet(S), NEW w \in [S -> Int], NEW sum, Sums(w, S, sum),
           NEW member \in S
    PROVE  sum[S] = w[member] + sum[S \ {member}]
<1> DEFINE Bad == {s \in SUBSET S : \E x \in s : sum[s] # w[x] + sum[s \ {x}]}
<1>1. SUFFICES ASSUME Bad # {}
               PROVE  FALSE
    OBVIOUS
<1>2. PICK s \in Bad : \A u \in Bad : Cardinality(s) <= Cardinality(u)
    <2>1. Bad \in SUBSET (SUBSET S)
        OBVIOUS
    <2> HIDE DEF Bad
    <2> QED
        BY <1>1, <2>1, SmallestOf
<1>3. s \in SUBSET S
    OBVIOUS
<1>4. PICK x \in s : sum[s] # w[x] + sum[s \ {x}]
    OBVIOUS
<1> DEFINE c == Some(s)
           rest == s \ {c}
<1>5. /\ c \in s /\ rest \in SUBSET S /\ ~(Cardinality(s) <= Cardinality(rest))
    BY <1>3, <1>4, SomeOf
<1>6. rest \notin Bad
    BY <1>2, <1>5
<1>7. sum[s] = w[c] + sum[rest]
    BY <1>3, <1>4 DEF Sums, Step
<1>8. x # c
    BY <1>4, <1>7
<1> HIDE DEF c
<1>9. sum[rest] = w[x] + sum[rest \ {x}]
    BY <1>4, <1>5, <1>6, <1>8
<1>10. s \ {x} \notin Bad
    <2>1. s \ {x} \in SUBSET S /\ ~(Cardinality(s) <= Cardinality(s \ {x}))
        BY <1>3, <1>4, SmallerWithout
    <2> QED
        BY <1>2, <2>1
<1>11. sum[s \ {x}] = w[c] + sum[(s \ {x}) \ {c}]
    BY <1>3, <1>5, <1>8, <1>10
<1>12. rest \ {x} = (s \ {x}) \ {c} /\ rest \ {x} \in SUBSET S
    BY <1>3
<1>13. /\ w[c] \in Int /\ w[x] \in Int /\ sum[rest \ {x}] \in Int
       /\ sum[s \ {x}] = w[c] + sum[rest \ {x}]
    BY <1>3, <1>4, <1>5, <1>11, <1>12 DEF Sums
<1> HIDE DEF rest
<1> QED
    BY <1>4, <1>7, <1>9, <1>13

\* v is w with x left out of its domain.
LeavesOut(w, S, x, v, R) ==
    /\ IsFiniteSet(S) /\ x \in S /\ R = S \ {x}
    /\ w \in [S -> Int] /\ v \in [R -> Int]
    /\ \A y \in R : v[y] = w[y]

\* ... the sum is its number and the sum of the rest.
LEMMA SumLess ==
    ASSUME NEW S, NEW w, NEW x, NEW v, NEW R, LeavesOut(w, S, x, v, R)
    PROVE  /\ SumFunction(w) = w[x] + SumFunction(v)
           /\ SumFunction(v) \in Int
<1>0. /\ IsFiniteSet(S) /\ x \in S /\ w \in [S -> Int] /\ v \in [S \ {x} -> Int]
      /\ \A y \in S \ {x} : v[y] = w[y]
    BY DEF LeavesOut
<1> DEFINE rest == S \ {x}
<1>1. PICK sum : Sums(w, S, sum) /\ SumFunction(w) = sum[S]
    BY <1>0, SumIs
<1>2. IsFiniteSet(rest) /\ rest \in SUBSET S
    BY <1>0, FS_RemoveElement
<1>3. v \in [rest -> Int] /\ \A y \in rest : v[y] = w[y]
    BY <1>0
<1>4. sum[S] = w[x] + sum[rest]
    BY <1>0, <1>1, TakeOut
<1> HIDE DEF rest
<1>5. PICK less : Sums(v, rest, less) /\ SumFunction(v) = less[rest]
    BY <1>2, <1>3, SumIs
<1>6. \A s \in SUBSET rest : sum[s] = Step(w, sum, s)
    BY <1>1, <1>2 DEF Sums
<1>7. \A s \in SUBSET rest : less[s] = Step(v, less, s)
    BY <1>5 DEF Sums
<1>8. \A s \in SUBSET rest : sum[s] = less[s]
    BY <1>0, <1>2, <1>3, <1>6, <1>7, SumsAgree
<1>9. sum[rest] = less[rest] /\ less[rest] \in Int
    BY <1>5, <1>8 DEF Sums
<1> QED
    BY <1>1, <1>4, <1>5, <1>9

LEMMA SumOfNone ==
    ASSUME NEW w \in [{} -> Int]
    PROVE  SumFunction(w) = 0
<1>1. PICK sum : Sums(w, {}, sum) /\ SumFunction(w) = sum[{}]
    BY FS_EmptySet, SumIs
<1> QED
    BY <1>1 DEF Sums, Step

\* The sum of zeros is zero.
LEMMA SumOfZeros ==
    ASSUME NEW S, IsFiniteSet(S), NEW w \in [S -> Int], \A x \in S : w[x] = 0
    PROVE  SumFunction(w) = 0
<1> DEFINE zero == [s \in SUBSET S |-> 0]
<1>1. PICK sum : Sums(w, S, sum) /\ SumFunction(w) = sum[S]
    BY SumIs
<1>2. ASSUME NEW s \in SUBSET S
      PROVE  zero[s] = Step(w, zero, s)
    <2>1. s # {} => w[Some(s)] = 0 /\ s \ {Some(s)} \in SUBSET S
        BY SomeOf
    <2> QED
        BY <2>1 DEF Step
<1>3. sum[S] = zero[S]
    <2> HIDE DEF zero
    <2> QED
        BY <1>1, <1>2, SumsAgree DEF Sums
<1> QED
    BY <1>1, <1>3

\* A sum changes by what one of its numbers changes.
LEMMA SumChange ==
    ASSUME NEW S, IsFiniteSet(S), NEW w \in [S -> Int], NEW v \in [S -> Int],
           NEW x \in S, \A y \in S \ {x} : v[y] = w[y]
    PROVE  /\ SumFunction(v) = SumFunction(w) - w[x] + v[x]
           /\ SumFunction(w) \in Int
<1> DEFINE rest == [y \in S \ {x} |-> w[y]]
<1>1. rest \in [S \ {x} -> Int]
    OBVIOUS
<1>2. (\A y \in S \ {x} : rest[y] = w[y]) /\ (\A y \in S \ {x} : rest[y] = v[y])
    OBVIOUS
<1> HIDE DEF rest
<1>3. LeavesOut(w, S, x, rest, S \ {x}) /\ LeavesOut(v, S, x, rest, S \ {x})
    BY <1>1, <1>2 DEF LeavesOut
<1>4. /\ SumFunction(w) = w[x] + SumFunction(rest) /\ SumFunction(rest) \in Int
      /\ SumFunction(v) = v[x] + SumFunction(rest)
    BY <1>3, SumLess
<1>5. w[x] \in Int /\ v[x] \in Int
    OBVIOUS
<1> QED
    BY <1>4, <1>5

\* One of its numbers is taken out and another one put in its place.
LEMMA SumHandedOver ==
    ASSUME NEW S, IsFiniteSet(S), NEW w \in [S -> Int], NEW v \in [S -> Int],
           NEW x \in S, NEW y \in S, v[x] = 0, x # y => v[y] = w[x],
           \A z \in S \ {x, y} : v[z] = w[z]
    PROVE  SumFunction(v) = SumFunction(w) - w[y]
<1>1. w[x] \in Int /\ w[y] \in Int
    OBVIOUS
<1>2. CASE x = y
    BY <1>1, <1>2, SumChange
<1>3. CASE x # y
    <2> DEFINE u == [w EXCEPT ![x] = 0]
    <2>1. /\ u \in [S -> Int] /\ u[x] = 0 /\ u[y] = w[y]
          /\ \A z \in S \ {x} : u[z] = w[z]
          /\ \A z \in S \ {y} : v[z] = u[z]
        BY <1>3
    <2> HIDE DEF u
    <2>2. SumFunction(u) = SumFunction(w) - w[x] + 0 /\ SumFunction(w) \in Int
        BY <2>1, SumChange
    <2>3. SumFunction(v) = SumFunction(u) - w[y] + w[x]
        BY <1>3, <2>1, SumChange
    <2> QED
        BY <1>1, <2>2, <2>3
<1> QED
    BY <1>2, <1>3

-----------------------------------------------------------------------------
(* What the unit usages of a request cost.                                 *)

\* A sum of natural numbers is one.
LEMMA SumOfNaturals ==
    ASSUME NEW S, IsFiniteSet(S), NEW w \in [S -> Nat]
    PROVE  SumFunction(w) \in Nat
<1>1. w \in [S -> Int]
    OBVIOUS
<1>2. PICK sum : Sums(w, S, sum) /\ SumFunction(w) = sum[S]
    BY <1>1, SumIs
<1> DEFINE Bad == {s \in SUBSET S : sum[s] \notin Nat}
<1>3. SUFFICES ASSUME Bad # {}
               PROVE  FALSE
    BY <1>2
<1>4. PICK s \in Bad : \A u \in Bad : Cardinality(s) <= Cardinality(u)
    <2>1. Bad \in SUBSET (SUBSET S)
        OBVIOUS
    <2> HIDE DEF Bad
    <2> QED
        BY <1>3, <2>1, SmallestOf
<1>5. s \in SUBSET S /\ sum[s] \notin Nat /\ sum[s] = Step(w, sum, s)
    BY <1>2 DEF Sums
<1>6. s # {}
    BY <1>5 DEF Step
<1>7. Some(s) \in S /\ s \ {Some(s)} \in SUBSET S /\ s \ {Some(s)} \notin Bad
    BY <1>4, <1>5, <1>6, SomeOf
<1>8. w[Some(s)] \in Nat /\ sum[s \ {Some(s)}] \in Nat
    BY <1>7
<1> QED
    BY <1>5, <1>6, <1>8 DEF Step

\* The numbers of a list may be counted from 2.
ShiftedTo(w, m) == [i \in 1 .. m |-> w[i + 1]]
ShiftedFrom(w, m) == [i \in 2 .. m + 1 |-> w[i]]

LEMMA SumShifted ==
    ASSUME NEW w \in [Nat -> Int], NEW m \in Nat
    PROVE  SumFunction(ShiftedTo(w, m)) = SumFunction(ShiftedFrom(w, m))
<1> DEFINE Same(k) == SumFunction(ShiftedTo(w, k)) = SumFunction(ShiftedFrom(w, k))
           Bad == {k \in Nat : ~Same(k)}
<1>1. Same(0)
    <2>1. 1 .. 0 = {} /\ 2 .. 0 + 1 = {}
        OBVIOUS
    <2>2. ShiftedTo(w, 0) \in [{} -> Int] /\ ShiftedFrom(w, 0) \in [{} -> Int]
        BY <2>1 DEF ShiftedTo, ShiftedFrom
    <2> QED
        BY <2>2, SumOfNone
<1>2. ASSUME NEW k \in Nat, k # 0, Same(k - 1)
      PROVE  Same(k)
    <2>1. k - 1 \in Nat /\ (1 .. k) \ {k} = 1 .. k - 1 /\ (2 .. k + 1) \ {k + 1} = 2 .. k
        BY <1>2
    <2>2. /\ ShiftedTo(w, k) \in [1 .. k -> Int]
          /\ ShiftedTo(w, k - 1) \in [1 .. k - 1 -> Int]
          /\ \A y \in 1 .. k - 1 : ShiftedTo(w, k - 1)[y] = ShiftedTo(w, k)[y]
          /\ ShiftedTo(w, k)[k] = w[k + 1]
        BY <1>2 DEF ShiftedTo
    <2>3. /\ ShiftedFrom(w, k) \in [2 .. k + 1 -> Int]
          /\ ShiftedFrom(w, k - 1) \in [2 .. k -> Int]
          /\ \A y \in 2 .. k : ShiftedFrom(w, k - 1)[y] = ShiftedFrom(w, k)[y]
          /\ ShiftedFrom(w, k)[k + 1] = w[k + 1]
        BY <1>2 DEF ShiftedFrom
    <2>4. IsFiniteSet(1 .. k) /\ IsFiniteSet(2 .. k + 1) /\ k \in 1 .. k /\ k + 1 \in 2 .. k + 1
        BY <1>2, FS_Interval
    <2>5. /\ LeavesOut(ShiftedTo(w, k), 1 .. k, k, ShiftedTo(w, k - 1), 1 .. k - 1)
          /\ LeavesOut(ShiftedFrom(w, k), 2 .. k + 1, k + 1, ShiftedFrom(w, k - 1), 2 .. k)
        BY <2>1, <2>2, <2>3, <2>4 DEF LeavesOut
    <2>6. /\ SumFunction(ShiftedTo(w, k)) = w[k + 1] + SumFunction(ShiftedTo(w, k - 1))
          /\ SumFunction(ShiftedFrom(w, k)) = w[k + 1] + SumFunction(ShiftedFrom(w, k - 1))
        BY <2>2, <2>3, <2>5, SumLess
    <2> QED
        BY <1>2, <2>6
<1>3. Bad = {}
    <2>1. SUFFICES ASSUME Bad # {}
                   PROVE  FALSE
        OBVIOUS
    <2>2. PICK k \in Bad : \A n \in Bad : k <= n
        <3>1. Bad \in SUBSET Nat
            OBVIOUS
        <3> HIDE DEF Bad
        <3> QED
            BY <2>1, <3>1, LeastOf
    <2> HIDE DEF Same
    <2>3. k \in Nat /\ ~Same(k) /\ k # 0
        BY <1>1
    <2>4. k - 1 \in Nat /\ Same(k - 1)
        BY <2>2, <2>3
    <2> QED
        BY <1>2, <2>3, <2>4
<1> HIDE DEF Same
<1>4. Same(m)
    BY <1>3
<1> QED
    BY <1>4 DEF Same

USE U32Assumption, TariffAssumption, UsagesAssumption, MoneyAssumption, BoundsAssumption

LEMMA CostType ==
    ASSUME NEW u \in Usage, NEW rg \in RatingGroups
    PROVE  Cost(u, rg) \in Nat
BY DEF Cost, Usage

LEMMA CostOfType ==
    ASSUME NEW list \in Seq(Usages), NEW rg \in RatingGroups
    PROVE  CostOf(list, rg) \in Nat
<1>1. Len(list) \in Nat /\ \A i \in 1 .. Len(list) : list[i] \in Usage
    OBVIOUS
<1> DEFINE w == [i \in 1 .. Len(list) |-> Cost(list[i], rg)]
<1>2. w \in [1 .. Len(list) -> Nat]
    BY <1>1, CostType
<1>3. IsFiniteSet(1 .. Len(list))
    BY <1>1, FS_Interval
<1> HIDE DEF w
<1>4. SumFunction(w) \in Nat
    BY <1>2, <1>3, SumOfNaturals
<1> QED
    BY <1>4 DEF w, CostOf

LEMMA CostOfNone ==
    ASSUME NEW rg \in RatingGroups
    PROVE  CostOf(<<>>, rg) = 0
<1> DEFINE w == [i \in 1 .. Len(<<>>) |-> Cost(<<>>[i], rg)]
<1>1. 1 .. Len(<<>>) = {}
    OBVIOUS
<1>2. w \in [{} -> Int]
    BY <1>1
<1> HIDE DEF w
<1>3. SumFunction(w) = 0
    BY <1>2, SumOfNone
<1> QED
    BY <1>3 DEF w, CostOf

\* The cost of a list is that of the first usage and that of the others.
LEMMA CostOfTaken ==
    ASSUME NEW list \in Seq(Usages), list # <<>>, NEW rg \in RatingGroups
    PROVE  /\ Head(list) \in Usages /\ Tail(list) \in Seq(Usages)
           /\ CostOf(list, rg) = Cost(Head(list), rg) + CostOf(Tail(list), rg)
<1> DEFINE n == Len(list)
           rest == Tail(list)
<1>1. /\ n \in Nat \ {0} /\ Head(list) = list[1] /\ Head(list) \in Usages
      /\ rest \in Seq(Usages) /\ Len(rest) = n - 1
      /\ \A i \in 1 .. n - 1 : rest[i] = list[i + 1]
      /\ \A i \in 1 .. n : list[i] \in Usage
    OBVIOUS
<1> DEFINE w == [i \in Nat |-> IF i \in 1 .. n THEN Cost(list[i], rg) ELSE 0]
           all == [i \in 1 .. n |-> Cost(list[i], rg)]
<1>2. w \in [Nat -> Int] /\ \A i \in 1 .. n : w[i] = Cost(list[i], rg)
    BY <1>1, CostType
<1>3. all \in [1 .. n -> Int] /\ all[1] = Cost(Head(list), rg)
    BY <1>1, CostType
<1>4. \A i \in 1 .. n : all[i] = w[i]
    BY <1>2
<1>5. CostOf(list, rg) = SumFunction(all)
    BY DEF CostOf
<1>6. CostOf(rest, rg) = SumFunction(ShiftedTo(w, n - 1))
    <2>1. \A i \in 1 .. n - 1 : Cost(rest[i], rg) = w[i + 1]
        BY <1>1, <1>2
    <2> HIDE DEF n, rest, w
    <2>2. [i \in 1 .. Len(rest) |-> Cost(rest[i], rg)] = [i \in 1 .. n - 1 |-> w[i + 1]]
        BY <1>1, <2>1
    <2> QED
        BY <2>2 DEF CostOf, ShiftedTo
<1> HIDE DEF n, rest, w, all
<1>7. n - 1 \in Nat /\ (n - 1) + 1 = n /\ (1 .. n) \ {1} = 2 .. n /\ 1 \in 1 .. n
    BY <1>1
<1>8. IsFiniteSet(1 .. n)
    BY <1>1, FS_Interval
<1>9. /\ ShiftedFrom(w, n - 1) \in [2 .. n -> Int]
      /\ \A y \in 2 .. n : ShiftedFrom(w, n - 1)[y] = all[y]
    BY <1>2, <1>4, <1>7 DEF ShiftedFrom
<1>10. SumFunction(all) = all[1] + SumFunction(ShiftedFrom(w, n - 1))
    <2>1. LeavesOut(all, 1 .. n, 1, ShiftedFrom(w, n - 1), 2 .. n)
        BY <1>3, <1>7, <1>8, <1>9 DEF LeavesOut
    <2> QED
        BY <2>1, SumLess
<1>11. SumFunction(ShiftedTo(w, n - 1)) = SumFunction(ShiftedFrom(w, n - 1))
    BY <1>2, <1>7, SumShifted
<1> QED
    BY <1>1, <1>3, <1>5, <1>6, <1>10, <1>11 DEF rest

-----------------------------------------------------------------------------
(* The inductive invariant.                                                *)

\* A request comes in.
RequestBegins ==
    \E isFinal \in BOOLEAN, n \in 0 .. MaxUsages - nUsages :
        \E list \in [1 .. n -> Usages] : BeginRequest(isFinal, list)

Waiting == {"ccr", "debit"}
Granting == {"cost", "reserve", "ccr", "allow", "recost"}
Working == Granting \cup {"mode", "price", "settle", "debit"}

\* A request works on a usage, which asks for units where it is granted some.
UsageAtHand ==
    /\ pc \in Working => usage \in Usage
    /\ pc \in Granting => usage.requested > 0

\* Slot 0 is the exchange of the running request, and says what it waits for.
OwnExchange ==
    /\ pc \notin Waiting => acct[0] = NoExchange
    /\ pc \in Waiting => acct[0] \in Exchange /\ acct[0].rg = usage.rg
    /\ pc = "ccr" => acct[0].kind = "reserve"
    /\ pc = "debit" => /\ acct[0].kind \in {"refund", "settle"}
                       /\ price = reserved[usage.rg] + Moved(acct[0])

\* The other slots fill up in order, one for each timeout.
FreeSlots == \A s \in Slots : s > nAcctTimeouts => acct[s] = NoExchange

CrossedLate == "crossed" \in mishaps => nAcctTimeouts > 0

\* The inductive invariant.
IInv ==
    /\ TypeOK
    /\ UsageAtHand
    /\ OwnExchange
    /\ FreeSlots
    /\ CrossedLate
    /\ Conservation

-----------------------------------------------------------------------------
(* The operators the actions are made of. *)

\* Every rating answer, and every usage's price, is of its type.
LEMMA RatingTypes ==
    ASSUME NEW rg \in RatingGroups, NEW n \in Nat
    PROVE  Reserve(rg, n) \in Answer /\ Debit(rg, n) \in Answer /\ Unrated \in Answer
<1>1. Tariff[rg] \in Nat \ {0}
    OBVIOUS
<1>2. n \div Tariff[rg] \in Nat
    BY <1>1
<1>3. (n \div Tariff[rg]) * Tariff[rg] \in Nat /\ n * Tariff[rg] \in Nat
    BY <1>1, <1>2
<1>4. \A k \in Nat : k % U32 \in Nat
    OBVIOUS
<1> QED
    BY <1>1, <1>2, <1>3, <1>4 DEF Reserve, Debit, Unrated, Answer

\* A rating exchange yields an answer or none, and leaves only answers behind.
LEMMA RatingExchange ==
    ASSUME lateSua \in Seq(Answer), NEW own \in Answer, NEW sua \in RatingOutcomes(own),
           AskRating(own, sua)
    PROVE  /\ sua \in Answer \/ sua = NoAnswer
           /\ lateSua' \in Seq(Answer)
<1>1. RatingAnswers(own) \subseteq Answer
    BY DEF RatingAnswers, Unrated, Answer
<1>2. \A i \in DOMAIN lateSua : lateSua[i] \in Answer
    OBVIOUS
<1>3. sua \in Answer \/ sua = NoAnswer
    BY <1>1, <1>2 DEF RatingOutcomes
<1>4. ASSUME NEW answer \in Answer, NEW i \in DOMAIN lateSua,
             lateSua' = [lateSua EXCEPT ![i] = answer]
      PROVE  lateSua' \in Seq(Answer)
    <2>1. i \in 1 .. Len(lateSua)
        OBVIOUS
    <2> QED
        BY <1>4, <2>1, ExceptSeq
<1>5. ASSUME NEW answer \in Answer, lateSua' = Append(lateSua, answer)
      PROVE  lateSua' \in Seq(Answer)
    BY <1>5
<1>6. lateSua' \in Seq(Answer)
    BY <1>1, <1>4, <1>5 DEF AskRating
<1> QED
    BY <1>3, <1>6

\* No answer is not an answer.
LEMMA NoAnswerIsNone == NoAnswer \notin Answer
BY DEF NoAnswer, Answer

\* What an exchange moves is an amount of money.
LEMMA MovedType ==
    ASSUME NEW m \in Exchange
    PROVE  Moved(m) \in Int
BY DEF Moved, Exchange, Kinds

\* A slot that has come anywhere holds an exchange; an empty one has not.
LEMMA Occupied ==
    ASSUME NEW m \in Exchange \cup {NoExchange}, m.phase \in {"sent", "read", "answered"}
    PROVE  m \in Exchange
BY DEF NoExchange

\* Receiving the answer of slot s leaves slot 0 free and the rest as they were.
LEMMA TakeType ==
    ASSUME NEW s \in Slots, TypeOK, TakeCCA(s)
    PROVE  /\ acct[s] \in Exchange
           /\ acct' \in [Slots -> Exchange \cup {NoExchange}]
           /\ acct'[0] = NoExchange
           /\ \A t \in Slots \ {0, s} : acct'[t] = acct[t]
           /\ s # 0 => acct'[s] = acct[0]
           /\ pending' \in [RatingGroups -> Int]
           /\ mishaps' \subseteq Mishap
<1>1. acct[s] \in Exchange
    BY Occupied DEF TypeOK, TakeCCA
<1>2. 0 \in Slots
    BY DEF Slots
<1>3. Moved(acct[s]) \in Int /\ acct[s].rg \in RatingGroups
    BY <1>1, MovedType DEF Exchange
<1>4. /\ acct' \in [Slots -> Exchange \cup {NoExchange}]
      /\ acct'[0] = NoExchange
      /\ \A t \in Slots \ {0, s} : acct'[t] = acct[t]
      /\ s # 0 => acct'[s] = acct[0]
    BY <1>2 DEF TypeOK, TakeCCA
<1>5. pending' \in [RatingGroups -> Int]
    <2>1. pending \in [RatingGroups -> Int]
        BY DEF TypeOK
    <2>2. pending' = [pending EXCEPT ![acct[s].rg] = pending[acct[s].rg] - Moved(acct[s])]
        BY DEF TakeCCA
    <2>3. pending[acct[s].rg] - Moved(acct[s]) \in Int
        BY <1>3, <2>1
    <2> QED
        BY <2>1, <2>2, <2>3
<1>6. mishaps' \subseteq Mishap
    BY DEF TypeOK, TakeCCA, Note, Mishap
<1> QED
    BY <1>1, <1>4, <1>5, <1>6

-----------------------------------------------------------------------------
(* Each kind of step keeps the invariant.                                  *)

\* The steps that only move the request on.
LEMMA BeginRequestStep ==
    ASSUME IInv, RequestBegins
    PROVE  IInv'
<1> USE DEF server, context, request, bounds, history
<1>1. PICK isFinal \in BOOLEAN, n \in 0 .. MaxUsages - nUsages :
         \E list \in [1 .. n -> Usages] : BeginRequest(isFinal, list)
    BY DEF RequestBegins
<1>2. PICK list \in [1 .. n -> Usages] : BeginRequest(isFinal, list)
    BY <1>1
<1>3. nUsages \in 0 .. MaxUsages /\ n \in Nat
    BY DEF IInv, TypeOK
<1>4. list \in Seq(Usages) /\ Len(list) = n
    BY <1>3
<1>5. TypeOK'
    <2>1. owed' \in [RatingGroups -> Nat]
        <3>1. owed \in [RatingGroups -> Nat]
            BY DEF IInv, TypeOK
        <3>2. \A rg \in RatingGroups : CostOf(list, rg) \in Nat
            BY <1>4, CostOfType
        <3>3. owed' = [rg \in RatingGroups |-> owed[rg] + CostOf(list, rg)]
            BY <1>2 DEF BeginRequest
        <3> QED
            BY <3>1, <3>2, <3>3
    <2>2. report' \in Seq(Usages) /\ pc' = "loop" /\ final' \in BOOLEAN
        BY <1>2, <1>4 DEF BeginRequest
    <2>3. nUsages' \in 0 .. MaxUsages
        BY <1>2, <1>3, <1>4 DEF BeginRequest
    <2>4. UNCHANGED <<server, context, usage, unitCost, price, finalUnit, granted,
                      nRecharges, nCrashes, funded, spent, forgone, pending, lost,
                      mishaps>>
        BY <1>2 DEF BeginRequest
    <2> QED
        BY <2>1, <2>2, <2>3, <2>4 DEF IInv, TypeOK
<1>6. UsageAtHand' /\ OwnExchange'
    BY <1>2 DEF IInv, UsageAtHand, OwnExchange, Working, Granting, Waiting, BeginRequest
<1>7. FreeSlots' /\ CrossedLate' /\ Conservation'
    BY <1>2 DEF IInv, FreeSlots, CrossedLate, Conservation, Without, BeginRequest
<1> QED
    BY <1>5, <1>6, <1>7 DEF IInv

\* A usage that is given up goes into the books as such.
LEMMA GivenUpType ==
    ASSUME IInv, pc \in Working, GiveUp
    PROVE  forgone' \in [RatingGroups -> Nat]
<1>1. forgone \in [RatingGroups -> Nat] /\ usage \in Usage /\ usage.rg \in RatingGroups
    BY DEF IInv, TypeOK, UsageAtHand, Usage
<1>2. Cost(usage, usage.rg) \in Nat
    BY <1>1, CostType
<1>3. forgone' = [forgone EXCEPT ![usage.rg] = forgone[usage.rg] + Cost(usage, usage.rg)]
    BY DEF GiveUp
<1> QED
    BY <1>1, <1>2, <1>3

\* What a request that is cut off leaves uncharged.
LEMMA CutOffType ==
    ASSUME IInv, CutOff
    PROVE  /\ forgone' \in [RatingGroups -> Nat]
           /\ report' \in Seq(Usages)
<1>1. forgone \in [RatingGroups -> Nat] /\ report \in Seq(Usages)
    BY DEF IInv, TypeOK
<1>2. ASSUME NEW rg \in RatingGroups
      PROVE  Due(rg) \in Nat /\ CostOf(report, rg) \in Nat
    <2>1. pc \in Uncharged => usage \in Usage
        BY DEF IInv, UsageAtHand, Working, Granting, Uncharged
    <2> QED
        BY <1>1, <2>1, CostType, CostOfType DEF Due
<1>3. forgone' = [rg \in RatingGroups |-> forgone[rg] + Due(rg) + CostOf(report, rg)]
    BY DEF CutOff
<1> QED
    BY <1>1, <1>2, <1>3 DEF CutOff

LEMMA RequestSteps ==
    ASSUME IInv,
           EndRequest \/ ReserveMode \/ DebitMode \/ UNCHANGED vars
    PROVE  IInv'
<1> USE DEF server, context, request, bounds, history
<1>1. TypeOK'
    BY DEF IInv, TypeOK, EndRequest, ReserveMode, DebitMode, vars
<1>2. UsageAtHand'
    BY DEF IInv, TypeOK, UsageAtHand, Working, Granting, EndRequest,
           ReserveMode, DebitMode, vars
<1>3. OwnExchange'
    BY DEF IInv, OwnExchange, Waiting, EndRequest, ReserveMode, DebitMode,
           vars
<1>4. FreeSlots' /\ CrossedLate' /\ Conservation'
    BY DEF IInv, FreeSlots, CrossedLate, Conservation, Without, EndRequest,
           ReserveMode, DebitMode, vars
<1> QED
    BY <1>1, <1>2, <1>3, <1>4 DEF IInv

LEMMA TakeUsageStep ==
    ASSUME IInv, TakeUsage
    PROVE  IInv'
<1> USE DEF server, context, request, bounds, history
<1> DEFINE u == Head(report)
<1>1. u \in Usage /\ report' \in Seq(Usages)
    <2>1. report \in Seq(Usages) /\ report # <<>> /\ report' = Tail(report)
        BY DEF IInv, TypeOK, TakeUsage
    <2> QED
        BY <2>1
<1>2. /\ usage' = u /\ pc' = "mode"
      /\ ratingType' = [ratingType EXCEPT ![u.rg] =
                           IF u.requested = NoRequest THEN "DEBIT"
                           ELSE IF ~final THEN ratingType[u.rg]
                           ELSE IF u.requested > 0 THEN "RESERVE" ELSE "DEBIT"]
      /\ UNCHANGED <<server, reserved, nAcctTimeouts, lateSua, final, unitCost, price,
                     finalUnit, granted, bounds, history>>
    BY DEF TakeUsage
<1> HIDE DEF u
<1>3. TypeOK'
    <2>1. u.rg \in RatingGroups
        BY <1>1 DEF Usage
    <2>2. ratingType' \in [RatingGroups -> {"RESERVE", "DEBIT"}]
        BY <1>2, <2>1 DEF IInv, TypeOK
    <2> QED
        BY <1>1, <1>2, <2>2 DEF IInv, TypeOK
<1>4. UsageAtHand'
    BY <1>1, <1>2 DEF UsageAtHand, Working, Granting
<1>5. OwnExchange'
    BY <1>2 DEF IInv, OwnExchange, Waiting, TakeUsage
<1>6. FreeSlots' /\ CrossedLate' /\ Conservation'
    BY <1>2 DEF IInv, FreeSlots, CrossedLate, Conservation, Without
<1> QED
    BY <1>3, <1>4, <1>5, <1>6 DEF IInv

\* A usage passed over, and the rating exchanges: money stays where it is.
LEMMA SkipGrantingStep ==
    ASSUME IInv, SkipGranting
    PROVE  IInv'
<1> USE DEF server, context, request, bounds, history
<1>1. TypeOK'
    <2>1. forgone' \in [RatingGroups -> Nat]
        BY GivenUpType DEF SkipGranting, Working
    <2> QED
        BY <2>1 DEF IInv, TypeOK, SkipGranting, NextUsage
<1>2. UsageAtHand' /\ OwnExchange'
    BY DEF IInv, UsageAtHand, OwnExchange, Working, Granting, Waiting, SkipGranting,
           NextUsage
<1>3. FreeSlots' /\ CrossedLate' /\ Conservation'
    BY DEF IInv, FreeSlots, CrossedLate, Conservation, Without, SkipGranting, NextUsage
<1> QED
    BY <1>1, <1>2, <1>3 DEF IInv

LEMMA GetUnitCostStep ==
    ASSUME IInv, GetUnitCost
    PROVE  IInv'
<1> USE DEF server, context, request, bounds, history
<1>1. PICK sua \in RatingOutcomes(Reserve(usage.rg, 0)) :
         /\ AskRating(Reserve(usage.rg, 0), sua)
         /\ unitCost' = IF sua = NoAnswer THEN DefaultCost ELSE sua.cost
         /\ Note("misrated", sua # Reserve(usage.rg, 0))
    BY DEF GetUnitCost
<1>2. usage.rg \in RatingGroups
    BY DEF IInv, UsageAtHand, Working, Granting, Usage, GetUnitCost
<1>3. (sua \in Answer \/ sua = NoAnswer) /\ lateSua' \in Seq(Answer)
    BY <1>1, <1>2, RatingTypes, RatingExchange DEF IInv, TypeOK
<1>4. unitCost' \in Nat
    BY <1>1, <1>3, NoAnswerIsNone DEF Answer, DefaultCost
<1>5. TypeOK'
    BY <1>1, <1>3, <1>4 DEF IInv, TypeOK, GetUnitCost, Note, Mishap
<1>6. UsageAtHand' /\ OwnExchange'
    BY DEF IInv, UsageAtHand, OwnExchange, Working, Granting, Waiting, GetUnitCost
<1>7. FreeSlots' /\ CrossedLate' /\ Conservation'
    BY <1>1 DEF IInv, FreeSlots, CrossedLate, Conservation, Without, GetUnitCost, Note
<1> QED
    BY <1>5, <1>6, <1>7 DEF IInv

LEMMA GrantUnitsStep ==
    ASSUME IInv, GrantUnits
    PROVE  IInv'
<1> USE DEF server, context, request, bounds, history
<1> DEFINE own == Reserve(usage.rg, RequestedQuota)
<1>1. PICK sua \in RatingOutcomes(own) :
         /\ AskRating(own, sua)
         /\ Note("misrated", sua # own)
         /\ \/ sua = NoAnswer /\ NextUsage
            \/ /\ sua # NoAnswer
               /\ granted' = IF sua.allowed < usage.requested THEN sua.allowed
                                                              ELSE usage.requested
               /\ pc' = "recost"
               /\ UNCHANGED <<final, report, usage, unitCost, price, finalUnit>>
    BY DEF GrantUnits
<1>2. usage \in Usage /\ usage.rg \in RatingGroups /\ usage.requested \in Nat
    BY DEF IInv, UsageAtHand, Working, Granting, Usage, GrantUnits, NoRequest
<1>3. RequestedQuota \in Nat
    <2>1. unitCost \in Nat
        BY DEF IInv, TypeOK
    <2> QED
        BY <1>2, <2>1 DEF RequestedQuota
<1>4. (sua \in Answer \/ sua = NoAnswer) /\ lateSua' \in Seq(Answer)
    BY <1>1, <1>2, <1>3, RatingTypes, RatingExchange DEF IInv, TypeOK
<1>5. granted' \in Nat
    BY <1>1, <1>2, <1>4 DEF Answer, NextUsage
<1> HIDE DEF own
<1>6. TypeOK'
    BY <1>1, <1>2, <1>4, <1>5 DEF IInv, TypeOK, GrantUnits, NextUsage, Note, Mishap
<1>7. UsageAtHand' /\ OwnExchange'
    BY <1>1 DEF IInv, UsageAtHand, OwnExchange, Working, Granting, Waiting, GrantUnits,
                NextUsage
<1>8. FreeSlots' /\ CrossedLate' /\ Conservation'
    BY <1>1 DEF IInv, FreeSlots, CrossedLate, Conservation, Without, GrantUnits, Note
<1> QED
    BY <1>6, <1>7, <1>8 DEF IInv

LEMMA RefreshUnitCostStep ==
    ASSUME IInv, RefreshUnitCost
    PROVE  IInv'
<1> USE DEF server, context, request, bounds, history
<1>1. PICK sua \in RatingOutcomes(Reserve(usage.rg, 0)) :
         AskRating(Reserve(usage.rg, 0), sua)
    BY DEF RefreshUnitCost
<1>2. usage.rg \in RatingGroups
    BY DEF IInv, UsageAtHand, Working, Granting, Usage, RefreshUnitCost
<1>3. lateSua' \in Seq(Answer)
    BY <1>1, <1>2, RatingTypes, RatingExchange DEF IInv, TypeOK
<1>4. TypeOK'
    BY <1>3 DEF IInv, TypeOK, RefreshUnitCost, NextUsage
<1>5. UsageAtHand' /\ OwnExchange'
    BY DEF IInv, UsageAtHand, OwnExchange, Working, Granting, Waiting, RefreshUnitCost,
           NextUsage
<1>6. FreeSlots' /\ CrossedLate' /\ Conservation'
    BY DEF IInv, FreeSlots, CrossedLate, Conservation, Without, RefreshUnitCost
<1> QED
    BY <1>4, <1>5, <1>6 DEF IInv

LEMMA QuotePriceStep ==
    ASSUME IInv, QuotePrice
    PROVE  IInv'
<1> USE DEF server, context, request, bounds, history
<1> DEFINE own == Debit(usage.rg, usage.used)
<1>1. PICK sua \in RatingOutcomes(own) :
         /\ AskRating(own, sua)
         /\ \/ sua = NoAnswer /\ NextUsage /\ GiveUp /\ UNCHANGED mishaps
            \/ /\ sua # NoAnswer
               /\ price' = sua.price
               /\ pc' = "settle"
               /\ Note("misrated", sua # own)
               /\ UNCHANGED <<final, report, usage, unitCost, finalUnit, granted, forgone>>
    BY DEF QuotePrice
<1>2. usage \in Usage /\ usage.rg \in RatingGroups /\ usage.used \in Nat
    BY DEF IInv, UsageAtHand, Working, Granting, Usage, QuotePrice
<1>3. (sua \in Answer \/ sua = NoAnswer) /\ lateSua' \in Seq(Answer)
    BY <1>1, <1>2, RatingTypes, RatingExchange DEF IInv, TypeOK
<1> HIDE DEF own
<1>4. price' \in Nat
    <2>1. CASE sua = NoAnswer /\ NextUsage
        BY <2>1 DEF NextUsage
    <2>2. CASE sua # NoAnswer /\ price' = sua.price
        BY <1>3, <2>2 DEF Answer
    <2> QED
        BY <1>1, <2>1, <2>2
<1>5. TypeOK'
    <2>1. forgone' \in [RatingGroups -> Nat]
        <3>1. pc \in Working /\ forgone \in [RatingGroups -> Nat]
            BY DEF IInv, TypeOK, QuotePrice, Working
        <3> QED
            BY <1>1, <3>1, GivenUpType
    <2> QED
        BY <1>1, <1>2, <1>3, <1>4, <2>1 DEF IInv, TypeOK, QuotePrice, NextUsage, Note, Mishap
<1>6. UsageAtHand' /\ OwnExchange'
    BY <1>1, <1>2 DEF IInv, UsageAtHand, OwnExchange, Working, Granting, Waiting,
                      QuotePrice, NextUsage
<1>7. FreeSlots' /\ CrossedLate' /\ Conservation'
    BY <1>1 DEF IInv, FreeSlots, CrossedLate, Conservation, Without, QuotePrice, Note
<1> QED
    BY <1>5, <1>6, <1>7 DEF IInv

\* The reservation is charged, and the account is asked for more or not.
LEMMA UsedQuotaType ==
    ASSUME IInv, pc \in Granting
    PROVE  /\ usage \in Usage
           /\ usage.rg \in RatingGroups
           /\ UsedQuota \in Nat
           /\ RequestedQuota \in Nat
<1>1. usage \in Usage /\ usage.rg \in RatingGroups /\ usage.used \in Nat
      /\ usage.requested \in Nat
    BY DEF IInv, UsageAtHand, Working, Granting, Usage, NoRequest
<1>2. unitCost \in Nat
    BY DEF IInv, TypeOK
<1>3. usage.used * unitCost \in Nat /\ usage.requested * unitCost \in Nat
    BY <1>1, <1>2
<1> QED
    BY <1>1, <1>3 DEF UsedQuota, RequestedQuota

LEMMA ChargeReservationStep ==
    ASSUME IInv, pc \in Granting, ChargeReservation
    PROVE  /\ reserved' \in [RatingGroups -> Int]
           /\ spent' \in [RatingGroups -> Nat]
           /\ \A rg \in RatingGroups : reserved'[rg] + spent'[rg] = reserved[rg] + spent[rg]
<1>1. usage.rg \in RatingGroups /\ UsedQuota \in Nat
    BY UsedQuotaType
<1>2. reserved \in [RatingGroups -> Int] /\ spent \in [RatingGroups -> Nat]
    BY DEF IInv, TypeOK
<1>3. /\ reserved' = [reserved EXCEPT ![usage.rg] = reserved[usage.rg] - UsedQuota]
      /\ spent' = [spent EXCEPT ![usage.rg] = spent[usage.rg] + UsedQuota]
    BY DEF ChargeReservation
<1> QED
    BY <1>1, <1>2, <1>3

\* A CCR that is sent takes slot 0 as a well-formed exchange.
LEMMA SendType ==
    ASSUME IInv, NEW kind \in Kinds, NEW amount \in Nat, NEW wait,
           usage.rg \in RatingGroups, SendCCR(kind, amount, wait)
    PROVE  /\ acct' \in [Slots -> Exchange \cup {NoExchange}]
           /\ acct'[0] = [phase |-> "sent", kind |-> kind, rg |-> usage.rg,
                          amount |-> amount, seen |-> 0]
           /\ acct'[0] \in Exchange
           /\ \A s \in Slots \ {0} : acct'[s] = acct[s]
<1> DEFINE m == [phase |-> "sent", kind |-> kind, rg |-> usage.rg, amount |-> amount,
                 seen |-> 0]
<1>1. m \in Exchange
    BY DEF Exchange
<1>2. acct \in [Slots -> Exchange \cup {NoExchange}] /\ 0 \in Slots
    BY DEF IInv, TypeOK, Slots
<1>3. acct' = [acct EXCEPT ![0] = m]
    BY DEF SendCCR
<1> HIDE DEF m
<1>4. /\ acct' \in [Slots -> Exchange \cup {NoExchange}]
      /\ acct'[0] = m
      /\ \A s \in Slots \ {0} : acct'[s] = acct[s]
    BY <1>1, <1>2, <1>3
<1> QED
    BY <1>1, <1>4 DEF m

LEMMA ReserveSteps ==
    ASSUME IInv, UseReservation \/ AskReservation
    PROVE  IInv'
<1> USE DEF server, context, request, bounds, history
<1>1. pc = "reserve" /\ pc \in Granting /\ ChargeReservation
    BY DEF UseReservation, AskReservation, Granting
<1>2. /\ reserved' \in [RatingGroups -> Int]
      /\ spent' \in [RatingGroups -> Nat]
      /\ \A rg \in RatingGroups : reserved'[rg] + spent'[rg] = reserved[rg] + spent[rg]
    BY <1>1, ChargeReservationStep
<1>3. Conservation'
    <2>1. SUFFICES ASSUME Without({"crossed", "falsified"})', NEW rg \in RatingGroups
                   PROVE  balance'[rg] + reserved'[rg] + spent'[rg] + pending'[rg] + lost'[rg]
                             = funded'[rg]
        BY DEF Conservation
    <2>2. balance[rg] + reserved[rg] + spent[rg] + pending[rg] + lost[rg] = funded[rg]
        BY <1>1, <2>1 DEF IInv, Conservation, Without, ChargeReservation
    <2>3. UNCHANGED <<balance, pending, lost, funded>>
        BY <1>1 DEF ChargeReservation
    <2>4. /\ balance[rg] \in Int /\ reserved[rg] \in Int /\ spent[rg] \in Int
          /\ pending[rg] \in Int /\ lost[rg] \in Int
          /\ reserved'[rg] \in Int /\ spent'[rg] \in Int
        BY <1>2 DEF IInv, TypeOK
    <2> QED
        BY <1>2, <2>2, <2>3, <2>4
<1>4. CrossedLate' /\ nAcctTimeouts' = nAcctTimeouts
    BY <1>1 DEF IInv, CrossedLate, ChargeReservation
<1>5. CASE acct' = acct /\ UNCHANGED <<final, report, usage, unitCost, price, finalUnit, granted>>
           /\ pc' = "allow"
    <2>1. TypeOK'
        BY <1>1, <1>2, <1>5 DEF IInv, TypeOK, ChargeReservation
    <2>2. UsageAtHand' /\ OwnExchange' /\ FreeSlots'
        BY <1>1, <1>4, <1>5 DEF IInv, UsageAtHand, OwnExchange, FreeSlots, Working,
                                Granting, Waiting
    <2> QED
        BY <1>3, <1>4, <2>1, <2>2 DEF IInv
<1>6. CASE DialFails
    <2>1. TypeOK'
        BY <1>1, <1>2, <1>6 DEF IInv, TypeOK, ChargeReservation, DialFails, NextUsage
    <2>2. UsageAtHand' /\ OwnExchange' /\ FreeSlots'
        BY <1>1, <1>4, <1>6 DEF IInv, UsageAtHand, OwnExchange, FreeSlots, Working,
                                Granting, Waiting, DialFails, NextUsage
    <2> QED
        BY <1>3, <1>4, <2>1, <2>2 DEF IInv
<1>7. ASSUME AskReservation,
             SendCCR("reserve", RequestedQuota - (reserved[usage.rg] - UsedQuota), "ccr")
      PROVE  IInv'
    <2> DEFINE amount == RequestedQuota - (reserved[usage.rg] - UsedQuota)
    <2>1. usage.rg \in RatingGroups /\ amount \in Nat
        <3>1. usage.rg \in RatingGroups /\ UsedQuota \in Nat /\ RequestedQuota \in Nat
            BY <1>1, UsedQuotaType
        <3>2. reserved[usage.rg] \in Int
            BY <3>1 DEF IInv, TypeOK
        <3>3. reserved[usage.rg] - UsedQuota <= 0
            BY <1>7 DEF AskReservation
        <3> QED
            BY <3>1, <3>2, <3>3
    <2>2. SendCCR("reserve", amount, "ccr")
        BY <1>7
    <2> HIDE DEF amount
    <2>3. /\ acct' \in [Slots -> Exchange \cup {NoExchange}]
          /\ acct'[0] = [phase |-> "sent", kind |-> "reserve", rg |-> usage.rg,
                         amount |-> amount, seen |-> 0]
          /\ acct'[0] \in Exchange
          /\ \A s \in Slots \ {0} : acct'[s] = acct[s]
        <3>1. "reserve" \in Kinds
            BY DEF Kinds
        <3> QED
            BY <2>1, <2>2, <3>1, SendType
    <2>4. pc' = "ccr" /\ UNCHANGED <<final, report, usage, unitCost, price, finalUnit, granted>>
        BY <2>2 DEF SendCCR
    <2>5. TypeOK'
        BY <1>1, <1>2, <2>3, <2>4 DEF IInv, TypeOK, ChargeReservation
    <2>6. UsageAtHand' /\ OwnExchange'
        BY <1>1, <2>3, <2>4 DEF IInv, UsageAtHand, OwnExchange, Working, Granting, Waiting
    <2>7. FreeSlots'
        BY <1>4, <2>3 DEF IInv, TypeOK, FreeSlots, Slots
    <2> QED
        BY <1>3, <1>4, <2>5, <2>6, <2>7 DEF IInv
<1> QED
    BY <1>5, <1>6, <1>7 DEF UseReservation, AskReservation

LEMMA SettleStep ==
    ASSUME IInv, Settle
    PROVE  IInv'
<1> USE DEF server, context, request, bounds, history
<1>1. /\ usage \in Usage
      /\ usage.rg \in RatingGroups
      /\ reserved[usage.rg] \in Int
      /\ price \in Nat
      /\ pc = "settle"
    BY DEF IInv, TypeOK, UsageAtHand, Working, Granting, Usage, Settle
<1>2. ratingType' \in [RatingGroups -> {"RESERVE", "DEBIT"}]
    BY <1>1 DEF IInv, TypeOK, Settle
<1>3. Conservation' /\ CrossedLate'
    BY DEF IInv, Conservation, CrossedLate, Without, Settle
<1>4. CASE DialFails
    <2>1. TypeOK'
        <3>1. forgone' \in [RatingGroups -> Nat]
            <4>1. pc \in Working /\ forgone \in [RatingGroups -> Nat]
                BY <1>1 DEF IInv, TypeOK, Working
            <4>2. GiveUp \/ UNCHANGED forgone
                BY DEF Settle
            <4> QED
                BY <4>1, <4>2, GivenUpType
        <3> QED
            BY <1>2, <1>4, <3>1 DEF IInv, TypeOK, Settle, DialFails, NextUsage
    <2>2. UsageAtHand' /\ OwnExchange' /\ FreeSlots'
        BY <1>1, <1>4 DEF IInv, UsageAtHand, OwnExchange, FreeSlots, Working, Granting,
                           Waiting, Settle, DialFails, NextUsage
    <2> QED
        BY <1>3, <2>1, <2>2 DEF IInv
<1>5. ASSUME NEW kind \in {"refund", "settle"}, NEW amount \in Nat,
             price = reserved[usage.rg] + (IF kind = "refund" THEN -amount ELSE amount),
             SendCCR(kind, amount, "debit")
      PROVE  IInv'
    <2>1. /\ acct' \in [Slots -> Exchange \cup {NoExchange}]
          /\ acct'[0] = [phase |-> "sent", kind |-> kind, rg |-> usage.rg,
                         amount |-> amount, seen |-> 0]
          /\ acct'[0] \in Exchange
          /\ \A s \in Slots \ {0} : acct'[s] = acct[s]
        BY <1>1, <1>5, SendType DEF Kinds
    <2>2. /\ pc' = "debit"
          /\ UNCHANGED <<final, report, usage, unitCost, price, finalUnit, granted>>
        BY <1>5 DEF SendCCR
    <2>3. UNCHANGED <<reserved, nAcctTimeouts>>
        BY DEF Settle
    <2>4. Moved(acct'[0]) = IF kind = "refund" THEN -amount ELSE amount
        BY <2>1 DEF Moved
    <2>5. TypeOK'
        <3>1. forgone' \in [RatingGroups -> Nat]
            <4>1. pc \in Working /\ forgone \in [RatingGroups -> Nat]
                BY <1>1 DEF IInv, TypeOK, Working
            <4>2. GiveUp \/ UNCHANGED forgone
                BY DEF Settle
            <4> QED
                BY <4>1, <4>2, GivenUpType
        <3> QED
            BY <1>2, <2>1, <2>2, <3>1 DEF IInv, TypeOK, Settle
    <2>6. UsageAtHand'
        BY <1>1, <2>2 DEF UsageAtHand, Working, Granting
    <2>7. OwnExchange'
        BY <1>5, <2>1, <2>2, <2>3, <2>4 DEF OwnExchange, Waiting
    <2>8. FreeSlots'
        BY <2>1, <2>3 DEF IInv, TypeOK, FreeSlots, Slots
    <2> QED
        BY <1>3, <2>5, <2>6, <2>7, <2>8 DEF IInv
<1> DEFINE left == reserved[usage.rg] - price
<1>6. left > 0 => left \in Nat /\ price = reserved[usage.rg] + (-left)
    BY <1>1
<1>7. left <= 0 => -left \in Nat /\ price = reserved[usage.rg] + (-left)
    BY <1>1
<1>8. \/ DialFails
      \/ left > 0 /\ SendCCR("refund", left, "debit")
      \/ left <= 0 /\ SendCCR("settle", -left, "debit")
    BY DEF Settle
<1> HIDE DEF left
<1>9. CASE left > 0 /\ SendCCR("refund", left, "debit")
    BY <1>5, <1>6, <1>9
<1>10. CASE left <= 0 /\ SendCCR("settle", -left, "debit")
    BY <1>5, <1>7, <1>10
<1> QED
    BY <1>4, <1>8, <1>9, <1>10

\* The slots after a receipt.
LEMMA TakeSlots ==
    ASSUME IInv, NEW s \in Slots, pc \in Waiting, TakeCCA(s), nAcctTimeouts' = nAcctTimeouts
    PROVE  FreeSlots' /\ CrossedLate'
<1>1. /\ acct[s] \in Exchange
      /\ acct'[0] = NoExchange
      /\ \A t \in Slots \ {0, s} : acct'[t] = acct[t]
    BY TakeType DEF IInv
<1>2. s # 0 => nAcctTimeouts > 0 /\ s <= nAcctTimeouts
    <2>1. acct[s] # NoExchange
        BY <1>1 DEF Exchange, NoExchange
    <2> QED
        BY <2>1 DEF IInv, TypeOK, FreeSlots, Slots
<1>3. FreeSlots'
    BY <1>1, <1>2 DEF IInv, TypeOK, FreeSlots, Slots
<1>4. CrossedLate'
    BY <1>2 DEF IInv, CrossedLate, TakeCCA, Note
<1> QED
    BY <1>3, <1>4

LEMMA ReceiveReservationStep ==
    ASSUME IInv, NEW s \in Slots, ReceiveReservation(s)
    PROVE  IInv'
<1> USE DEF server, context, request, bounds, history
<1>1. TakeCCA(s) /\ pc = "ccr" /\ pc \in Waiting /\ pc \in Granting /\ pc' = "allow"
    BY DEF ReceiveReservation, Waiting, Granting
<1>2. /\ acct[s] \in Exchange
      /\ acct' \in [Slots -> Exchange \cup {NoExchange}]
      /\ acct'[0] = NoExchange
      /\ pending' \in [RatingGroups -> Int]
      /\ mishaps' \subseteq Mishap
    BY <1>1, TakeType DEF IInv
<1>3. usage \in Usage /\ usage.rg \in RatingGroups /\ Moved(acct[s]) \in Int
    BY <1>1, <1>2, UsedQuotaType, MovedType
<1>4. reserved \in [RatingGroups -> Int]
      /\ reserved' = [reserved EXCEPT ![usage.rg] = reserved[usage.rg] + Moved(acct[s])]
    BY DEF IInv, TypeOK, ReceiveReservation
<1>5. reserved' \in [RatingGroups -> Int]
    BY <1>3, <1>4
<1>6. TypeOK'
    <2>1. ratingType' \in [RatingGroups -> {"RESERVE", "DEBIT"}]
        BY <1>3 DEF IInv, TypeOK, ReceiveReservation
    <2>2. finalUnit' \in BOOLEAN
        BY DEF ReceiveReservation, Exhausted
    <2> QED
        BY <1>2, <1>5, <2>1, <2>2 DEF IInv, TypeOK, ReceiveReservation
<1>7. UsageAtHand'
    BY <1>1, <1>3 DEF IInv, UsageAtHand, Granting, Working, ReceiveReservation
<1>8. OwnExchange'
    BY <1>1, <1>2 DEF OwnExchange, Waiting
<1>9. FreeSlots' /\ CrossedLate'
    BY <1>1, TakeSlots DEF ReceiveReservation
<1>10. Conservation'
    <2>1. SUFFICES ASSUME Without({"crossed", "falsified"})', NEW rg \in RatingGroups
                   PROVE  balance'[rg] + reserved'[rg] + spent'[rg] + pending'[rg] + lost'[rg]
                             = funded'[rg]
        BY DEF Conservation
    <2>2. s = 0 /\ Without({"crossed", "falsified"})
        BY <1>1, <2>1 DEF Without, TakeCCA, Note
    <2>3. acct[s].rg = usage.rg
        BY <1>1, <2>2 DEF IInv, OwnExchange
    <2>4. balance[rg] + reserved[rg] + spent[rg] + pending[rg] + lost[rg] = funded[rg]
        BY <2>2 DEF IInv, Conservation
    <2>5. UNCHANGED <<balance, spent, lost, funded>>
        BY DEF ReceiveReservation
    <2>6. pending' = [pending EXCEPT ![usage.rg] = pending[usage.rg] - Moved(acct[s])]
        BY <1>1, <2>3 DEF TakeCCA
    <2>7. /\ balance[rg] \in Int /\ spent[rg] \in Int /\ lost[rg] \in Int
          /\ reserved \in [RatingGroups -> Int] /\ pending \in [RatingGroups -> Int]
        BY DEF IInv, TypeOK
    <2> QED
        BY <1>3, <1>4, <2>4, <2>5, <2>6, <2>7
<1> QED
    BY <1>6, <1>7, <1>8, <1>9, <1>10 DEF IInv

\* An answer without a grant can only be another request's.
LEMMA PanicOnAnswerStep ==
    ASSUME IInv, NEW s \in Slots, PanicOnAnswer(s)
    PROVE  IInv'
<1> USE DEF server, context, request, bounds, history
<1>1. TakeCCA(s) /\ pc = "ccr" /\ pc \in Waiting /\ pc' = "idle"
    BY DEF PanicOnAnswer, CutOff, Waiting
<1>2. /\ acct' \in [Slots -> Exchange \cup {NoExchange}]
      /\ acct'[0] = NoExchange
      /\ pending' \in [RatingGroups -> Int]
      /\ mishaps' \subseteq Mishap
    BY <1>1, TakeType DEF IInv
<1>3. TypeOK'
    BY <1>2, CutOffType DEF IInv, TypeOK, PanicOnAnswer, CutOff
<1>4. UsageAtHand' /\ OwnExchange'
    BY <1>1, <1>2 DEF UsageAtHand, OwnExchange, Working, Granting, Waiting
<1>5. FreeSlots' /\ CrossedLate'
    BY <1>1, TakeSlots DEF PanicOnAnswer
<1>6. Conservation'
    <2>1. s # 0
        BY <1>1 DEF IInv, OwnExchange, PanicOnAnswer
    <2> QED
        BY <1>1, <2>1 DEF Conservation, Without, TakeCCA, Note
<1> QED
    BY <1>3, <1>4, <1>5, <1>6 DEF IInv

LEMMA ReceiveSettlementStep ==
    ASSUME IInv, NEW s \in Slots, ReceiveSettlement(s)
    PROVE  IInv'
<1> USE DEF server, context, request, bounds, history
<1>1. TakeCCA(s) /\ pc = "debit" /\ pc \in Waiting /\ pc \in Working /\ pc' = "loop"
    BY DEF ReceiveSettlement, NextUsage, Waiting, Working
<1>2. /\ acct[s] \in Exchange
      /\ acct' \in [Slots -> Exchange \cup {NoExchange}]
      /\ acct'[0] = NoExchange
      /\ pending' \in [RatingGroups -> Int]
      /\ mishaps' \subseteq Mishap
    BY <1>1, TakeType DEF IInv
<1>3. usage.rg \in RatingGroups /\ price \in Nat /\ Moved(acct[s]) \in Int
    BY <1>1, <1>2, MovedType DEF IInv, TypeOK, UsageAtHand, Usage
<1>4. /\ reserved \in [RatingGroups -> Int]
      /\ spent \in [RatingGroups -> Nat]
      /\ reserved' = [reserved EXCEPT ![usage.rg] = 0]
      /\ spent' = [spent EXCEPT ![usage.rg] = spent[usage.rg] + price]
    BY DEF IInv, TypeOK, ReceiveSettlement
<1>5. reserved' \in [RatingGroups -> Int] /\ spent' \in [RatingGroups -> Nat]
    BY <1>3, <1>4
<1>6. TypeOK'
    BY <1>2, <1>5 DEF IInv, TypeOK, ReceiveSettlement, NextUsage
<1>7. UsageAtHand' /\ OwnExchange'
    BY <1>1, <1>2 DEF UsageAtHand, OwnExchange, Working, Granting, Waiting
<1>8. FreeSlots' /\ CrossedLate'
    BY <1>1, TakeSlots DEF ReceiveSettlement
<1>9. Conservation'
    <2>1. SUFFICES ASSUME Without({"crossed", "falsified"})', NEW rg \in RatingGroups
                   PROVE  balance'[rg] + reserved'[rg] + spent'[rg] + pending'[rg] + lost'[rg]
                             = funded'[rg]
        BY DEF Conservation
    <2>2. s = 0 /\ Without({"crossed", "falsified"})
        BY <1>1, <2>1 DEF Without, TakeCCA, Note
    <2>3. acct[s].rg = usage.rg /\ price = reserved[usage.rg] + Moved(acct[s])
        BY <1>1, <2>2 DEF IInv, OwnExchange
    <2>4. balance[rg] + reserved[rg] + spent[rg] + pending[rg] + lost[rg] = funded[rg]
        BY <2>2 DEF IInv, Conservation
    <2>5. UNCHANGED <<balance, lost, funded>>
        BY DEF ReceiveSettlement
    <2>6. pending' = [pending EXCEPT ![usage.rg] = pending[usage.rg] - Moved(acct[s])]
        BY <1>1, <2>3 DEF TakeCCA
    <2>7. /\ balance[rg] \in Int /\ lost[rg] \in Int
          /\ pending \in [RatingGroups -> Int]
        BY DEF IInv, TypeOK
    <2> QED
        BY <1>3, <1>4, <2>3, <2>4, <2>5, <2>6, <2>7
<1> QED
    BY <1>6, <1>7, <1>8, <1>9 DEF IInv

LEMMA AbandonAccountStep ==
    ASSUME IInv, AbandonAccount
    PROVE  IInv'
<1> USE DEF server, context, request, bounds, history
<1>1. nAcctTimeouts + 1 \in Slots /\ 0 \in Slots /\ nAcctTimeouts \in Nat
    BY DEF IInv, TypeOK, AbandonAccount, Slots
<1>2. /\ acct' \in [Slots -> Exchange \cup {NoExchange}]
      /\ acct'[0] = NoExchange
      /\ \A t \in Slots \ {0, nAcctTimeouts + 1} : acct'[t] = acct[t]
    BY <1>1 DEF IInv, TypeOK, AbandonAccount
<1>3. TypeOK'
    <2>1. forgone' \in [RatingGroups -> Nat]
        BY GivenUpType DEF AbandonAccount, Working, IInv, TypeOK
    <2> QED
        BY <1>1, <1>2, <2>1 DEF IInv, TypeOK, AbandonAccount, NextUsage
<1>4. UsageAtHand' /\ OwnExchange'
    BY <1>2 DEF UsageAtHand, OwnExchange, Working, Granting, Waiting, AbandonAccount,
                NextUsage
<1>5. FreeSlots' /\ CrossedLate'
    BY <1>1, <1>2 DEF IInv, FreeSlots, CrossedLate, AbandonAccount, Slots
<1>6. Conservation'
    BY DEF IInv, Conservation, Without, AbandonAccount
<1> QED
    BY <1>3, <1>4, <1>5, <1>6 DEF IInv

\* The account server: slot s goes one phase further and stays what it is.
LEMMA ServerSlots ==
    ASSUME IInv, NEW s \in Slots, NEW m \in Exchange, acct[s] # NoExchange,
           acct' = [acct EXCEPT ![s] = m],
           m.kind = acct[s].kind, m.rg = acct[s].rg,
           pc \notin Waiting \/ s # 0 \/ Moved(m) = Moved(acct[s]) \/ pc = "ccr",
           UNCHANGED <<reserved, nAcctTimeouts, request>>
    PROVE  /\ acct' \in [Slots -> Exchange \cup {NoExchange}]
           /\ UsageAtHand' /\ OwnExchange' /\ FreeSlots'
<1>1. acct \in [Slots -> Exchange \cup {NoExchange}] /\ 0 \in Slots
    BY DEF IInv, TypeOK, Slots
<1>2. acct' \in [Slots -> Exchange \cup {NoExchange}]
    BY <1>1
<1>3. UsageAtHand'
    BY DEF IInv, UsageAtHand, request
<1>4. FreeSlots'
    BY <1>1 DEF IInv, FreeSlots
<1>5. acct'[0] = IF s = 0 THEN m ELSE acct[0]
    BY <1>1
<1>6. OwnExchange'
    <2>1. CASE s # 0
        BY <1>5, <2>1 DEF IInv, OwnExchange, request
    <2>2. CASE s = 0
        <3>1. pc \in Waiting
            BY <2>2 DEF IInv, OwnExchange
        <3> QED
            BY <1>5, <2>2, <3>1 DEF IInv, OwnExchange, Waiting, request
    <2> QED
        BY <2>1, <2>2
<1> QED
    BY <1>2, <1>3, <1>4, <1>6

LEMMA ReadQuotaStep ==
    ASSUME IInv, NEW s \in Slots, ReadQuota(s)
    PROVE  IInv'
<1> USE DEF server, context, bounds, history
<1> DEFINE m == [acct[s] EXCEPT !.phase = "read", !.seen = balance[acct[s].rg]]
<1>1. acct[s] \in Exchange /\ acct[s] # NoExchange
    BY Occupied DEF IInv, TypeOK, ReadQuota, NoExchange
<1>2. balance[acct[s].rg] \in Int
    BY <1>1 DEF IInv, TypeOK, Exchange
<1>3. m \in Exchange /\ m.kind = acct[s].kind /\ m.rg = acct[s].rg /\ m.amount = acct[s].amount
    BY <1>1, <1>2 DEF Exchange
<1>4. acct' = [acct EXCEPT ![s] = m]
    BY DEF IInv, TypeOK, ReadQuota
<1>5. pc \in Waiting /\ s = 0 => pc = "ccr" \/ Moved(m) = Moved(acct[s])
    BY <1>3 DEF IInv, OwnExchange, Waiting, Moved
<1> HIDE DEF m
<1>6. /\ acct' \in [Slots -> Exchange \cup {NoExchange}]
      /\ UsageAtHand' /\ OwnExchange' /\ FreeSlots'
    BY <1>1, <1>3, <1>4, <1>5, ServerSlots DEF ReadQuota
<1>7. TypeOK'
    BY <1>6 DEF IInv, TypeOK, ReadQuota, request
<1>8. CrossedLate' /\ Conservation'
    BY DEF IInv, CrossedLate, Conservation, Without, ReadQuota
<1> QED
    BY <1>6, <1>7, <1>8 DEF IInv

\* Answering, whether or not the quota is written.
LEMMA AnsweredStep ==
    ASSUME IInv, NEW s \in Slots, Answered(s),
           UNCHANGED <<reserved, nAcctTimeouts, request>>
    PROVE  /\ acct[s] \in Exchange
           /\ acct' \in [Slots -> Exchange \cup {NoExchange}]
           /\ pending' \in [RatingGroups -> Int]
           /\ UsageAtHand' /\ OwnExchange' /\ FreeSlots'
<1> DEFINE m == [acct[s] EXCEPT !.phase = "answered"]
<1>1. acct[s] \in Exchange /\ acct[s] # NoExchange
    BY Occupied DEF IInv, TypeOK, Answered, NoExchange
<1>2. /\ m \in Exchange
      /\ m.kind = acct[s].kind /\ m.rg = acct[s].rg
      /\ m.amount = acct[s].amount /\ m.seen = acct[s].seen
    BY <1>1 DEF Exchange
<1>3. acct' = [acct EXCEPT ![s] = m]
    BY DEF IInv, TypeOK, Answered
<1>4. Moved(m) = Moved(acct[s])
    BY <1>2 DEF Moved
<1> HIDE DEF m
<1>5. /\ acct' \in [Slots -> Exchange \cup {NoExchange}]
      /\ UsageAtHand' /\ OwnExchange' /\ FreeSlots'
    BY <1>1, <1>2, <1>3, <1>4, ServerSlots
<1>6. pending' \in [RatingGroups -> Int]
    <2>1. acct[s].rg \in RatingGroups /\ Moved(acct[s]) \in Int
        BY <1>1, MovedType DEF Exchange
    <2>2. pending \in [RatingGroups -> Int]
        BY DEF IInv, TypeOK
    <2>3. pending' = [pending EXCEPT ![acct[s].rg] = pending[acct[s].rg] + Moved(acct[s])]
        BY DEF Answered
    <2> QED
        BY <2>1, <2>2, <2>3
<1> QED
    BY <1>1, <1>5, <1>6

LEMMA WriteQuotaStep ==
    ASSUME IInv, NEW s \in Slots, WriteQuota(s)
    PROVE  IInv'
<1> USE DEF server, context, bounds, history
<1>1. /\ acct[s] \in Exchange
      /\ acct' \in [Slots -> Exchange \cup {NoExchange}]
      /\ pending' \in [RatingGroups -> Int]
      /\ UsageAtHand' /\ OwnExchange' /\ FreeSlots'
    BY AnsweredStep DEF WriteQuota
<1>2. acct[s].rg \in RatingGroups /\ acct[s].seen \in Int /\ Moved(acct[s]) \in Int
    BY <1>1, MovedType DEF Exchange
<1>3. /\ balance \in [RatingGroups -> Int]
      /\ pending \in [RatingGroups -> Int]
      /\ balance' = [balance EXCEPT ![acct[s].rg] = acct[s].seen - Moved(acct[s])]
      /\ pending' = [pending EXCEPT ![acct[s].rg] = pending[acct[s].rg] + Moved(acct[s])]
    BY DEF IInv, TypeOK, WriteQuota, Answered
<1>4. balance' \in [RatingGroups -> Int]
    BY <1>2, <1>3
<1>5. TypeOK'
    BY <1>1, <1>4 DEF IInv, TypeOK, WriteQuota, request, Note, Mishap
<1>6. CrossedLate'
    BY DEF IInv, CrossedLate, WriteQuota, Note
<1>7. Conservation'
    <2>1. SUFFICES ASSUME Without({"crossed", "falsified"})', NEW rg \in RatingGroups
                   PROVE  balance'[rg] + reserved'[rg] + spent'[rg] + pending'[rg] + lost'[rg]
                             = funded'[rg]
        BY DEF Conservation
    <2>2. balance[acct[s].rg] = acct[s].seen /\ Without({"crossed", "falsified"})
        BY <2>1 DEF Without, WriteQuota, Note
    <2>3. balance[rg] + reserved[rg] + spent[rg] + pending[rg] + lost[rg] = funded[rg]
        BY <2>2 DEF IInv, Conservation
    <2>4. UNCHANGED <<reserved, spent, lost, funded>>
        BY DEF WriteQuota
    <2>5. reserved[rg] \in Int /\ spent[rg] \in Int /\ lost[rg] \in Int
        BY DEF IInv, TypeOK
    <2> QED
        BY <1>2, <1>3, <2>2, <2>3, <2>4, <2>5
<1> QED
    BY <1>1, <1>5, <1>6, <1>7 DEF IInv

LEMMA FailWriteStep ==
    ASSUME IInv, NEW s \in Slots, FailWrite(s)
    PROVE  IInv'
<1> USE DEF server, context, bounds, history
<1>1. /\ acct' \in [Slots -> Exchange \cup {NoExchange}]
      /\ pending' \in [RatingGroups -> Int]
      /\ UsageAtHand' /\ OwnExchange' /\ FreeSlots'
    BY AnsweredStep DEF FailWrite
<1>2. TypeOK'
    BY <1>1 DEF IInv, TypeOK, FailWrite, request, Note, Mishap
<1>3. CrossedLate' /\ Conservation'
    BY DEF IInv, CrossedLate, Conservation, Without, FailWrite, Note
<1> QED
    BY <1>1, <1>2, <1>3 DEF IInv

LEMMA OperatorStep ==
    ASSUME IInv, NEW rg \in RatingGroups, Recharge(rg) \/ NotifyRecharge(rg)
    PROVE  IInv'
<1> USE DEF server, context, request, bounds, history
<1>1. CASE NotifyRecharge(rg)
    <2>1. TypeOK'
        BY <1>1 DEF IInv, TypeOK, NotifyRecharge
    <2>2. UsageAtHand' /\ OwnExchange' /\ FreeSlots' /\ CrossedLate' /\ Conservation'
        BY <1>1 DEF IInv, UsageAtHand, OwnExchange, FreeSlots, CrossedLate, Conservation,
                    Without, NotifyRecharge
    <2> QED
        BY <2>1, <2>2 DEF IInv
<1>2. CASE Recharge(rg)
    <2>1. /\ balance \in [RatingGroups -> Int] /\ funded \in [RatingGroups -> Nat]
          /\ balance' = [balance EXCEPT ![rg] = balance[rg] + RechargeAmount]
          /\ funded' = [funded EXCEPT ![rg] = funded[rg] + RechargeAmount]
        BY <1>2 DEF IInv, TypeOK, Recharge
    <2>2. balance' \in [RatingGroups -> Int] /\ funded' \in [RatingGroups -> Nat]
        BY <2>1
    <2>3. TypeOK'
        <3>1. toNotify' \subseteq RatingGroups /\ nRecharges' \in 0 .. MaxRecharges
            BY <1>2 DEF IInv, TypeOK, Recharge
        <3> QED
            BY <1>2, <2>2, <3>1 DEF IInv, TypeOK, Recharge
    <2>4. UsageAtHand' /\ OwnExchange' /\ FreeSlots' /\ CrossedLate'
        BY <1>2 DEF IInv, UsageAtHand, OwnExchange, FreeSlots, CrossedLate, Recharge
    <2>5. Conservation'
        <3>1. SUFFICES ASSUME Without({"crossed", "falsified"})', NEW r \in RatingGroups
                       PROVE  balance'[r] + reserved'[r] + spent'[r] + pending'[r] + lost'[r]
                                 = funded'[r]
            BY DEF Conservation
        <3>2. UNCHANGED <<reserved, spent, pending, lost, mishaps>>
            BY <1>2 DEF Recharge
        <3>3. balance[r] + reserved[r] + spent[r] + pending[r] + lost[r] = funded[r]
            BY <3>1, <3>2 DEF IInv, Conservation, Without
        <3>4. /\ reserved[r] \in Int /\ spent[r] \in Int
              /\ pending[r] \in Int /\ lost[r] \in Int
            BY DEF IInv, TypeOK
        <3> QED
            BY <2>1, <3>2, <3>3, <3>4
    <2> QED
        BY <2>3, <2>4, <2>5 DEF IInv
<1> QED
    BY <1>1, <1>2

\* A crash takes what was reserved or on its way with it, to the last unit.
LEMMA CrashStep ==
    ASSUME IInv, Crash
    PROVE  IInv'
<1> USE DEF server, context, request, bounds, history
<1>1. /\ reserved \in [RatingGroups -> Int] /\ spent \in [RatingGroups -> Nat]
      /\ pending \in [RatingGroups -> Int] /\ lost \in [RatingGroups -> Int]
      /\ balance \in [RatingGroups -> Int]
    BY DEF IInv, TypeOK
<1>2. /\ lost' = [rg \in RatingGroups |-> lost[rg] + reserved[rg] + pending[rg]]
      /\ reserved' = [rg \in RatingGroups |-> 0]
      /\ pending' = [rg \in RatingGroups |-> 0]
      /\ UNCHANGED <<balance, spent, funded>>
    BY DEF Crash
<1>3. /\ lost' \in [RatingGroups -> Int]
      /\ reserved' \in [RatingGroups -> Int]
      /\ pending' \in [RatingGroups -> Int]
    BY <1>1, <1>2
<1>4. acct' \in [Slots -> Exchange \cup {NoExchange}] /\ \A s \in Slots : acct'[s] = NoExchange
    BY DEF Crash
<1>5. TypeOK'
    <2>1. lateSua' \in Seq(Answer) /\ ratingType' \in [RatingGroups -> {"RESERVE", "DEBIT"}]
        BY DEF Crash
    <2>2. mishaps' \subseteq Mishap
        BY DEF IInv, TypeOK, Crash
    <2>3. nCrashes' \in 0 .. MaxCrashes
        BY DEF IInv, TypeOK, Crash
    <2> QED
        BY <1>3, <1>4, <2>1, <2>2, <2>3, CutOffType DEF IInv, TypeOK, Crash, CutOff
<1>6. UsageAtHand' /\ OwnExchange'
    <2>1. pc' = "idle" /\ 0 \in Slots
        BY DEF Crash, CutOff, Slots
    <2> QED
        BY <1>4, <2>1 DEF UsageAtHand, OwnExchange, Working, Granting, Waiting
<1>7. FreeSlots' /\ CrossedLate'
    BY <1>4 DEF IInv, FreeSlots, CrossedLate, Crash
<1>8. Conservation'
    <2>1. SUFFICES ASSUME Without({"crossed", "falsified"})', NEW rg \in RatingGroups
                   PROVE  balance'[rg] + reserved'[rg] + spent'[rg] + pending'[rg] + lost'[rg]
                             = funded'[rg]
        BY DEF Conservation
    <2>2. Without({"crossed", "falsified"})
        BY <2>1 DEF Without, Crash
    <2>3. balance[rg] + reserved[rg] + spent[rg] + pending[rg] + lost[rg] = funded[rg]
        BY <2>2 DEF IInv, Conservation
    <2> QED
        BY <1>1, <1>2, <2>3
<1> QED
    BY <1>5, <1>6, <1>7, <1>8 DEF IInv

-----------------------------------------------------------------------------

LEMMA InitIInv == Init => IInv
<1> SUFFICES ASSUME Init
             PROVE  IInv
    OBVIOUS
<1>1. TypeOK
    <2>1. acct \in [Slots -> Exchange \cup {NoExchange}]
        BY DEF Init
    <2>2. nAcctTimeouts \in Slots /\ lateSua \in Seq(Answer)
        BY DEF Init, Slots
    <2>3. balance \in [RatingGroups -> Int] /\ funded \in [RatingGroups -> Nat]
        BY DEF Init
    <2>4. /\ reserved \in [RatingGroups -> Int]
          /\ pending \in [RatingGroups -> Int]
          /\ lost \in [RatingGroups -> Int]
          /\ spent \in [RatingGroups -> Nat]
          /\ owed \in [RatingGroups -> Nat]
          /\ forgone \in [RatingGroups -> Nat]
          /\ ratingType \in [RatingGroups -> {"RESERVE", "DEBIT"}]
        BY DEF Init
    <2>5. /\ toNotify \subseteq RatingGroups
          /\ pc = "idle" /\ report = <<>>
          /\ final \in BOOLEAN /\ finalUnit \in BOOLEAN
          /\ usage \in Usage \cup {NoUsage}
          /\ unitCost \in Nat /\ price \in Nat /\ granted \in Nat
          /\ mishaps \subseteq Mishap
        BY DEF Init
    <2>6. /\ nUsages \in 0 .. MaxUsages
          /\ nRecharges \in 0 .. MaxRecharges
          /\ nCrashes \in 0 .. MaxCrashes
        BY DEF Init
    <2>7. report \in Seq(Usages)
        <3>1. <<>> \in Seq(Usages)
            OBVIOUS
        <3> QED
            BY <3>1, <2>5
    <2> QED
        BY <2>1, <2>2, <2>3, <2>4, <2>5, <2>6, <2>7 DEF TypeOK
<1>2. UsageAtHand /\ OwnExchange /\ FreeSlots /\ CrossedLate
    BY DEF Init, UsageAtHand, OwnExchange, FreeSlots, CrossedLate, Working, Granting,
           Waiting, Slots
<1>3. Conservation
    <2>1. SUFFICES ASSUME NEW rg \in RatingGroups
                   PROVE  balance[rg] + reserved[rg] + spent[rg] + pending[rg] + lost[rg]
                             = funded[rg]
        BY DEF Conservation
    <2>2. InitBalance[rg] \in Nat
        OBVIOUS
    <2> QED
        BY <2>2 DEF Init
<1> QED
    BY <1>1, <1>2, <1>3 DEF IInv

LEMMA NextIInv == IInv /\ [Next]_vars => IInv'
<1> SUFFICES ASSUME IInv, [Next]_vars
             PROVE  IInv'
    OBVIOUS
<1>1. CASE RequestBegins
    BY <1>1, BeginRequestStep
<1>2. CASE Processor
    <2>1. CASE TakeUsage
        BY <2>1, TakeUsageStep
    <2>2. CASE EndRequest \/ ReserveMode \/ DebitMode
        BY <2>2, RequestSteps
    <2>3. CASE SkipGranting
        BY <2>3, SkipGrantingStep
    <2>4. CASE GetUnitCost
        BY <2>4, GetUnitCostStep
    <2>5. CASE UseReservation \/ AskReservation
        BY <2>5, ReserveSteps
    <2>6. CASE GrantUnits
        BY <2>6, GrantUnitsStep
    <2>7. CASE RefreshUnitCost
        BY <2>7, RefreshUnitCostStep
    <2>8. CASE QuotePrice
        BY <2>8, QuotePriceStep
    <2>9. CASE Settle
        BY <2>9, SettleStep
    <2>10. CASE \E s \in Slots : ReceiveReservation(s)
        BY <2>10, ReceiveReservationStep
    <2>11. CASE \E s \in Slots : PanicOnAnswer(s)
        BY <2>11, PanicOnAnswerStep
    <2>12. CASE \E s \in Slots : ReceiveSettlement(s)
        BY <2>12, ReceiveSettlementStep
    <2>13. CASE AbandonAccount
        BY <2>13, AbandonAccountStep
    <2> QED
        BY <1>2, <2>1, <2>2, <2>3, <2>4, <2>5, <2>6, <2>7, <2>8, <2>9, <2>10, <2>11,
           <2>12, <2>13 DEF Processor
<1>3. CASE Server
    BY <1>3, ReadQuotaStep, WriteQuotaStep, FailWriteStep DEF Server
<1>4. CASE Operator
    BY <1>4, OperatorStep DEF Operator
<1>5. CASE Finished \/ UNCHANGED vars
    BY <1>5, RequestSteps DEF Finished
<1>6. CASE Crash
    BY <1>6, CrashStep
<1> QED
    BY <1>1, <1>2, <1>3, <1>4, <1>5, <1>6 DEF Next, RequestBegins

\* The inductive invariant holds throughout.
THEOREM Invariance == Spec => []IInv
BY InitIInv, NextIInv, PTL DEF Spec

\* Every variable keeps its type: no reservation, charge or grant leaves its
\* range whatever the database, the network and the timers do.
THEOREM TypeCorrect == Spec => []TypeOK
<1>1. IInv => TypeOK
    BY DEF IInv
<1> QED
    BY <1>1, Invariance, PTL

\* Money is conserved by every interleaving of the processor, the account
\* server, the operator, late answers and restarts, up to the first crossed
\* answer or falsified quota.
THEOREM MoneyConserved == Spec => []Conservation
<1>1. IInv => Conservation
    BY DEF IInv
<1> QED
    BY <1>1, Invariance, PTL

\* Before the first account timeout every answer goes to the request it is
\* for, and nothing is under way that no request waits for.
THEOREM AnswersBelong == Spec => []AnswersMatch
<1>1. IInv => AnswersMatch
    <2> SUFFICES ASSUME IInv, nAcctTimeouts = 0
                 PROVE  /\ "crossed" \notin mishaps
                        /\ \A s \in Slots :
                              acct[s] # NoExchange =>
                                  /\ s = 0
                                  /\ pc \in {"ccr", "debit"}
                                  /\ acct[s].rg = usage.rg
                                  /\ (acct[s].kind = "reserve") = (pc = "ccr")
        BY DEF AnswersMatch
    <2>1. "crossed" \notin mishaps
        BY DEF IInv, CrossedLate
    <2>2. ASSUME NEW s \in Slots, acct[s] # NoExchange
          PROVE  s = 0
        BY <2>2 DEF IInv, FreeSlots, Slots
    <2>3. acct[0] # NoExchange =>
             /\ pc \in {"ccr", "debit"}
             /\ acct[0].rg = usage.rg
             /\ (acct[0].kind = "reserve") = (pc = "ccr")
        BY DEF IInv, OwnExchange, Waiting
    <2> QED
        BY <2>1, <2>2, <2>3
<1> QED
    BY <1>1, Invariance, PTL

-----------------------------------------------------------------------------
(* The account and the ledger.                                             *)

\* Only the server's write and a recharge touch the account.
AccountUntouched == UNCHANGED balance

LEMMA AccountSteps ==
    ASSUME [Next]_vars
    PROVE  \/ AccountUntouched
           \/ \E s \in Slots : WriteQuota(s)
           \/ \E rg \in RatingGroups : Recharge(rg)
<1> USE DEF AccountUntouched, server, context, request, bounds, history
<1>1. CASE UNCHANGED vars \/ Finished \/ RequestBegins
    BY <1>1 DEF vars, Finished, RequestBegins, BeginRequest
<1>2. CASE Processor
    <2>1. CASE \/ TakeUsage
               \/ EndRequest \/ ReserveMode \/ SkipGranting \/ DebitMode
        BY <2>1 DEF TakeUsage, EndRequest, ReserveMode, SkipGranting, DebitMode
    <2>2. CASE \/ GetUnitCost \/ UseReservation \/ AskReservation
               \/ GrantUnits \/ RefreshUnitCost \/ QuotePrice \/ Settle
        BY <2>2 DEF GetUnitCost, UseReservation, AskReservation, GrantUnits,
                    RefreshUnitCost, QuotePrice, Settle, ChargeReservation
    <2>3. CASE \E s \in Slots :
                  ReceiveReservation(s) \/ PanicOnAnswer(s) \/ ReceiveSettlement(s)
        BY <2>3 DEF ReceiveReservation, PanicOnAnswer, ReceiveSettlement
    <2>4. CASE AbandonAccount
        BY <2>4 DEF AbandonAccount
    <2> QED
        BY <1>2, <2>1, <2>2, <2>3, <2>4 DEF Processor
<1>3. CASE Server
    BY <1>3 DEF Server, ReadQuota, FailWrite
<1>4. CASE Operator
    BY <1>4 DEF Operator, NotifyRecharge
<1>5. CASE Crash
    BY <1>5 DEF Crash
<1> QED
    BY <1>1, <1>2, <1>3, <1>4, <1>5 DEF Next, RequestBegins

\* What the server takes for a reservation or a refund leaves the account at
\* zero or above, or above what it was.
THEOREM OverdraftBySettlementOnly == Spec => NoOverdraft
<1>1. ASSUME IInv, [Next]_vars, NEW rg \in RatingGroups,
             balance'[rg] < balance[rg], balance'[rg] < 0, "falsified" \notin mishaps'
      PROVE  \E s \in Slots : /\ acct[s].phase = "read"
                              /\ acct'[s].phase = "answered"
                              /\ acct[s].kind = "settle"
    <2>1. balance \in [RatingGroups -> Int]
        BY <1>1 DEF IInv, TypeOK
    <2>2. CASE AccountUntouched
        BY <1>1, <2>1, <2>2 DEF AccountUntouched
    <2>3. CASE \E r \in RatingGroups : Recharge(r)
        BY <1>1, <2>1, <2>3 DEF Recharge
    <2>4. CASE \E s \in Slots : WriteQuota(s)
        <3>1. PICK s \in Slots : WriteQuota(s)
            BY <2>4
        <3>2. acct[s] \in Exchange
            BY <1>1, <3>1, Occupied DEF IInv, TypeOK, WriteQuota, Answered
        <3>3. acct[s].phase = "read" /\ acct'[s].phase = "answered"
            BY <1>1, <3>1 DEF IInv, TypeOK, WriteQuota, Answered
        <3>4. /\ acct[s].amount \in Nat /\ acct[s].seen \in Int
              /\ acct[s].kind \in {"reserve", "refund", "settle"}
            BY <3>2 DEF Exchange, Kinds
        <3>5. /\ balance' = [balance EXCEPT ![acct[s].rg] = acct[s].seen - Moved(acct[s])]
              /\ balance[acct[s].rg] = acct[s].seen
            BY <1>1, <3>1 DEF WriteQuota, Note
        <3>6. rg = acct[s].rg
            BY <1>1, <2>1, <3>5
        <3>7. acct[s].seen - Moved(acct[s]) < acct[s].seen /\ acct[s].seen - Moved(acct[s]) < 0
            BY <1>1, <2>1, <3>5, <3>6
        <3>8. acct[s].kind = "settle"
            BY <3>4, <3>7 DEF Moved
        <3> QED
            BY <3>3, <3>8
    <2> QED
        BY <1>1, <2>2, <2>3, <2>4, AccountSteps
<1>2. IInv /\ [Next]_vars =>
        \A rg \in RatingGroups :
            balance'[rg] < balance[rg] /\ balance'[rg] < 0 =>
                \/ "falsified" \in mishaps'
                \/ \E s \in Slots : /\ acct[s].phase = "read"
                                    /\ acct'[s].phase = "answered"
                                    /\ acct[s].kind = "settle"
    BY <1>1
<1> QED
    BY <1>2, Invariance, PTL DEF Spec, NoOverdraft

Held == [rg \in RatingGroups |-> reserved[rg] + pending[rg]]
Trusted == Without({"crossed", "falsified"})

\* Steps that leave account, charge, reservation and what is on its way alone.
LEMMA LedgerStutters ==
    ASSUME Trusted, Trusted', UNCHANGED <<balance, reserved, pending, spent>>
    PROVE  UNCHANGED Books!vars
BY DEF Trusted, Without, Books!vars

\* An untrusted state is beyond the ledger.
LEMMA LedgerDistrusts ==
    ASSUME TypeOK', ~Trusted'
    PROVE  Books!Next
<1>0. /\ balance' \in [RatingGroups -> Int] /\ spent' \in [RatingGroups -> Nat]
      /\ reserved' \in [RatingGroups -> Int] /\ pending' \in [RatingGroups -> Int]
    BY DEF TypeOK
<1>1. /\ balance' \in [RatingGroups -> Int]
      /\ Held' \in [RatingGroups -> Int]
      /\ spent' \in [RatingGroups -> Int]
    BY <1>0 DEF Held
<1>2. Without({"crossed", "falsified"})' = FALSE
    BY DEF Trusted, Without
<1>3. Books!Distrust
    BY <1>1, <1>2 DEF Books!Distrust, Held
<1> QED
    BY <1>3 DEF Books!Next

\* The fields of the ledger after a step that changes one group.
LEMMA LedgerSpend ==
    ASSUME TypeOK, Trusted, Trusted', NEW rg \in RatingGroups, NEW amount \in Nat,
           NEW h \in Int, Held' = [Held EXCEPT ![rg] = h], h = Held[rg] - amount,
           spent' = [spent EXCEPT ![rg] = spent[rg] + amount], UNCHANGED balance
    PROVE  Books!Next
<1>1. spent \in [RatingGroups -> Nat]
    BY DEF TypeOK
<1>2. spent'[rg] - spent[rg] = amount
    BY <1>1
<1>3. Held' = [Held EXCEPT ![rg] = Held[rg] - (spent'[rg] - spent[rg])]
    BY <1>2
<1>4. spent' = [spent EXCEPT ![rg] = spent[rg] + (spent'[rg] - spent[rg])]
    BY <1>2
<1>5. spent'[rg] - spent[rg] >= 0
    BY <1>2
<1>6. Books!Spend(rg, spent'[rg] - spent[rg])
    BY <1>3, <1>4, <1>5 DEF Books!Spend, Held, Trusted
<1> QED
    BY <1>6 DEF Books!Next

LEMMA HeldType ==
    ASSUME TypeOK
    PROVE  /\ Held \in [RatingGroups -> Int]
           /\ reserved \in [RatingGroups -> Int]
           /\ pending \in [RatingGroups -> Int]
           /\ spent \in [RatingGroups -> Nat]
           /\ balance \in [RatingGroups -> Int]
BY DEF TypeOK, Held

LEMMA LedgerProcessor ==
    ASSUME IInv, IInv', Trusted, Trusted', Processor
    PROVE  Books!Next \/ UNCHANGED Books!vars
<1> USE DEF server, context, request, bounds, history
<1>0. TypeOK /\ TypeOK'
    BY DEF IInv
<1>1. CASE \/ TakeUsage
           \/ EndRequest \/ ReserveMode \/ SkipGranting \/ DebitMode
    BY <1>1, LedgerStutters DEF TakeUsage, EndRequest, ReserveMode, SkipGranting, DebitMode
<1>2. CASE GetUnitCost \/ GrantUnits \/ RefreshUnitCost \/ QuotePrice \/ Settle
    BY <1>2, LedgerStutters DEF GetUnitCost, GrantUnits, RefreshUnitCost, QuotePrice, Settle
<1>3. CASE AbandonAccount
    BY <1>3, LedgerStutters DEF AbandonAccount
<1>4. CASE UseReservation \/ AskReservation
    <2>1. pc \in Granting /\ ChargeReservation
        BY <1>4 DEF UseReservation, AskReservation, Granting
    <2>2. usage.rg \in RatingGroups /\ UsedQuota \in Nat
        BY <2>1, UsedQuotaType
    <2> DEFINE h == Held[usage.rg] - UsedQuota
    <2>3. h \in Int
        BY <1>0, <2>2, HeldType
    <2>4. Held' = [Held EXCEPT ![usage.rg] = h]
        <3>1. /\ reserved' = [reserved EXCEPT ![usage.rg] = reserved[usage.rg] - UsedQuota]
              /\ pending' = pending
            BY <2>1 DEF ChargeReservation
        <3>2. ASSUME NEW rg \in RatingGroups
              PROVE  Held'[rg] = IF rg = usage.rg THEN h ELSE Held[rg]
            BY <1>0, <2>2, <3>1, HeldType DEF Held
        <3> HIDE DEF h
        <3>3. Held \in [RatingGroups -> Int] /\ Held' \in [RatingGroups -> Int]
            <4>1. reserved' \in [RatingGroups -> Int] /\ pending' \in [RatingGroups -> Int]
                BY <1>0 DEF TypeOK
            <4> QED
                BY <1>0, <4>1, HeldType DEF Held
        <3> QED
            BY <2>2, <3>2, <3>3
    <2>5. /\ spent' = [spent EXCEPT ![usage.rg] = spent[usage.rg] + UsedQuota]
          /\ UNCHANGED balance
        BY <2>1 DEF ChargeReservation
    <2>6. h = Held[usage.rg] - UsedQuota
        OBVIOUS
    <2> HIDE DEF h
    <2> QED
        BY <1>0, <2>2, <2>3, <2>4, <2>5, <2>6, LedgerSpend
<1>5. CASE \E s \in Slots : ReceiveReservation(s)
    <2>1. PICK s \in Slots : ReceiveReservation(s)
        BY <1>5
    <2>2. s = 0
        BY <2>1 DEF Trusted, Without, ReceiveReservation, TakeCCA, Note
    <2>3. acct[s].rg = usage.rg /\ acct[s] \in Exchange /\ usage.rg \in RatingGroups
        BY <2>1, <2>2 DEF IInv, OwnExchange, Waiting, Exchange, ReceiveReservation
    <2>4. Moved(acct[s]) \in Int
        BY <2>3, MovedType
    <2>5. /\ reserved' = [reserved EXCEPT ![usage.rg] = reserved[usage.rg] + Moved(acct[s])]
          /\ pending' = [pending EXCEPT ![usage.rg] = pending[usage.rg] - Moved(acct[s])]
          /\ UNCHANGED <<balance, spent>>
        BY <2>1, <2>3 DEF ReceiveReservation, TakeCCA
    <2>6. Held' = Held
        <3>1. \A rg \in RatingGroups : reserved'[rg] + pending'[rg] = reserved[rg] + pending[rg]
            BY <1>0, <2>3, <2>4, <2>5, HeldType
        <3> QED
            BY <3>1 DEF Held
    <2> QED
        BY <2>5, <2>6 DEF Books!vars, Held, Trusted
<1>6. CASE \E s \in Slots : PanicOnAnswer(s)
    <2>1. PICK s \in Slots : PanicOnAnswer(s)
        BY <1>6
    <2>2. s # 0
        BY <2>1 DEF IInv, OwnExchange, PanicOnAnswer
    <2> QED
        BY <2>1, <2>2 DEF Trusted, Without, PanicOnAnswer, TakeCCA, Note
<1>7. CASE \E s \in Slots : ReceiveSettlement(s)
    <2>1. PICK s \in Slots : ReceiveSettlement(s)
        BY <1>7
    <2>2. s = 0
        BY <2>1 DEF Trusted, Without, ReceiveSettlement, TakeCCA, Note
    <2>3. /\ acct[s].rg = usage.rg /\ acct[s] \in Exchange /\ usage.rg \in RatingGroups
          /\ price = reserved[usage.rg] + Moved(acct[s])
        BY <2>1, <2>2 DEF IInv, OwnExchange, Waiting, Exchange, ReceiveSettlement
    <2>4. Moved(acct[s]) \in Int /\ price \in Nat
        BY <1>0, <2>3, MovedType DEF TypeOK
    <2> DEFINE h == Held[usage.rg] - price
    <2>5. h \in Int
        BY <1>0, <2>3, <2>4, HeldType
    <2>6. Held' = [Held EXCEPT ![usage.rg] = h]
        <3>1. /\ reserved' = [reserved EXCEPT ![usage.rg] = 0]
              /\ pending' = [pending EXCEPT ![usage.rg] = pending[usage.rg] - Moved(acct[s])]
            BY <2>1, <2>3 DEF ReceiveSettlement, TakeCCA
        <3>2. ASSUME NEW rg \in RatingGroups
              PROVE  Held'[rg] = IF rg = usage.rg THEN h ELSE Held[rg]
            BY <1>0, <2>3, <2>4, <3>1, HeldType DEF Held
        <3> HIDE DEF h
        <3>3. Held \in [RatingGroups -> Int] /\ Held' \in [RatingGroups -> Int]
            <4>1. reserved' \in [RatingGroups -> Int] /\ pending' \in [RatingGroups -> Int]
                BY <1>0 DEF TypeOK
            <4> QED
                BY <1>0, <4>1, HeldType DEF Held
        <3> QED
            BY <2>3, <3>2, <3>3
    <2>7. /\ spent' = [spent EXCEPT ![usage.rg] = spent[usage.rg] + price]
          /\ UNCHANGED balance
        BY <2>1 DEF ReceiveSettlement
    <2>8. h = Held[usage.rg] - price
        OBVIOUS
    <2> HIDE DEF h
    <2> QED
        BY <1>0, <2>3, <2>4, <2>5, <2>6, <2>7, <2>8, LedgerSpend
<1> QED
    BY <1>1, <1>2, <1>3, <1>4, <1>5, <1>6, <1>7 DEF Processor

LEMMA LedgerServer ==
    ASSUME IInv, IInv', Trusted, Trusted', NEW s \in Slots,
           ReadQuota(s) \/ WriteQuota(s) \/ FailWrite(s)
    PROVE  Books!Next \/ UNCHANGED Books!vars
<1> USE DEF server, context, request, bounds, history
<1>1. CASE ReadQuota(s)
    BY <1>1, LedgerStutters DEF ReadQuota
<1>2. CASE FailWrite(s)
    BY <1>2 DEF Trusted, Without, FailWrite, Note
<1>3. CASE WriteQuota(s)
    <2> DEFINE rg == acct[s].rg
               d == Moved(acct[s])
    <2>1. acct[s] \in Exchange
        BY <1>3, Occupied DEF IInv, TypeOK, WriteQuota, Answered
    <2>2. rg \in RatingGroups /\ d \in Int
        BY <2>1, MovedType DEF Exchange
    <2>3. balance[rg] = acct[s].seen
        BY <1>3 DEF Trusted, Without, WriteQuota, Note
    <2>4. /\ balance' = [balance EXCEPT ![rg] = balance[rg] - d]
          /\ pending' = [pending EXCEPT ![rg] = pending[rg] + d]
          /\ UNCHANGED <<reserved, spent>>
        BY <1>3, <2>3 DEF WriteQuota, Answered
    <2>5. acct[s].amount \in Nat /\ acct[s].kind \in {"reserve", "refund", "settle"}
        BY <2>1 DEF Exchange, Kinds
    <2>6. \/ acct[s].kind = "reserve" /\ d <= balance[rg]
          \/ acct[s].kind = "refund" /\ d <= 0
          \/ acct[s].kind = "settle" /\ d >= 0
        BY <2>1, <2>3, <2>5 DEF Moved, Exchange
    <2> HIDE DEF rg, d
    <2>7. /\ balance \in [RatingGroups -> Int] /\ Held \in [RatingGroups -> Int]
          /\ pending \in [RatingGroups -> Int] /\ reserved \in [RatingGroups -> Int]
        BY HeldType DEF IInv
    <2>8. Held' = [Held EXCEPT ![rg] = Held[rg] + d]
        <3>1. ASSUME NEW r \in RatingGroups
              PROVE  Held'[r] = IF r = rg THEN Held[rg] + d ELSE Held[r]
            BY <2>2, <2>4, <2>7 DEF Held
        <3>2. Held' \in [RatingGroups -> Int]
            <4>1. reserved' \in [RatingGroups -> Int] /\ pending' \in [RatingGroups -> Int]
                BY DEF IInv, TypeOK
            <4> QED
                BY <4>1 DEF Held
        <3> QED
            BY <2>2, <2>7, <3>1, <3>2
    <2>9. CASE d = 0
        <3>1. balance' = balance /\ Held' = Held
            BY <2>2, <2>4, <2>7, <2>8, <2>9
        <3> QED
            BY <2>4, <3>1 DEF Books!vars, Held, Trusted
    <2>10. /\ balance[rg] - balance'[rg] = d
           /\ balance'[rg] - balance[rg] = -d
        BY <2>2, <2>4, <2>7
    <2>11. CASE acct[s].kind = "refund" /\ d # 0
        <3>1. -d > 0 /\ d <= 0
            BY <2>2, <2>6, <2>11
        <3>2. balance' = [balance EXCEPT ![rg] = balance[rg] + (-d)]
            BY <2>2, <2>4, <2>7
        <3>3. Held' = [Held EXCEPT ![rg] = Held[rg] - (-d)]
            <4>1. Held[rg] - (-d) = Held[rg] + d
                BY <2>2, <2>7
            <4> QED
                BY <2>8, <4>1
        <3>4. Books!Refund(rg, balance'[rg] - balance[rg])
            BY <2>4, <2>10, <3>1, <3>2, <3>3 DEF Books!Refund, Held, Trusted
        <3> QED
            BY <2>2, <3>4 DEF Books!Next
    <2>12. CASE acct[s].kind = "reserve"
        <3>1. Books!Hold(rg, balance[rg] - balance'[rg])
            BY <2>4, <2>6, <2>8, <2>10, <2>12 DEF Books!Hold, Held, Trusted
        <3> QED
            BY <2>2, <3>1 DEF Books!Next
    <2>13. CASE acct[s].kind = "settle"
        <3>1. Books!Overdraw(rg, balance[rg] - balance'[rg])
            BY <2>4, <2>6, <2>8, <2>10, <2>13 DEF Books!Overdraw, Held, Trusted
        <3> QED
            BY <2>2, <3>1 DEF Books!Next
    <2> QED
        BY <2>5, <2>9, <2>11, <2>12, <2>13
<1> QED
    BY <1>1, <1>2, <1>3

LEMMA LedgerOperator ==
    ASSUME IInv, Trusted, Trusted', NEW rg \in RatingGroups,
           Recharge(rg) \/ NotifyRecharge(rg)
    PROVE  Books!Next \/ UNCHANGED Books!vars
<1> USE DEF server, context, request, bounds, history
<1>1. CASE NotifyRecharge(rg)
    BY <1>1, LedgerStutters DEF NotifyRecharge
<1>2. CASE Recharge(rg)
    <2>1. balance \in [RatingGroups -> Int]
        BY DEF IInv, TypeOK
    <2>2. /\ balance' = [balance EXCEPT ![rg] = balance[rg] + RechargeAmount]
          /\ UNCHANGED <<reserved, pending, spent>>
        BY <1>2 DEF Recharge
    <2>3. balance'[rg] - balance[rg] = RechargeAmount
        BY <2>1, <2>2
    <2>4. balance' = [balance EXCEPT ![rg] = balance[rg] + (balance'[rg] - balance[rg])]
        BY <2>2, <2>3
    <2>5. Held' = Held
        BY <2>2 DEF Held
    <2>6. Books!Fund(rg, balance'[rg] - balance[rg])
        BY <2>2, <2>3, <2>4, <2>5 DEF Books!Fund, Held, Trusted
    <2> QED
        BY <2>6 DEF Books!Next
<1> QED
    BY <1>1, <1>2

LEMMA LedgerCrash ==
    ASSUME Trusted, Trusted', Crash
    PROVE  Books!Next
<1>1. Held' = [rg \in RatingGroups |-> 0]
    BY DEF Crash, Held
<1>2. UNCHANGED <<balance, spent>>
    BY DEF Crash
<1>3. Books!Forget
    BY <1>1, <1>2 DEF Books!Forget, Held, Trusted
<1> QED
    BY <1>3 DEF Books!Next

LEMMA LedgerInit == Init => Books!Init
<1> SUFFICES ASSUME Init
             PROVE  Books!Init
    OBVIOUS
<1>1. Held = [rg \in RatingGroups |-> 0]
    BY DEF Init, Held
<1>2. Trusted
    BY DEF Init, Trusted, Without
<1>3. balance \in [RatingGroups -> Nat] /\ spent = [rg \in RatingGroups |-> 0]
    BY DEF Init
<1> QED
    BY <1>1, <1>2, <1>3 DEF Books!Init, Held, Trusted, Without

LEMMA MishapsStay ==
    ASSUME [Next]_vars, Trusted'
    PROVE  Trusted
<1> USE DEF server, context, request, bounds, history
<1>1. mishaps \subseteq mishaps'
    <2>1. CASE UNCHANGED vars \/ Finished \/ RequestBegins
        BY <2>1 DEF vars, Finished, RequestBegins, BeginRequest
    <2>2. CASE Processor
        <3>1. CASE \/ TakeUsage
                   \/ EndRequest \/ ReserveMode \/ SkipGranting \/ DebitMode
            BY <3>1 DEF TakeUsage, EndRequest, ReserveMode, SkipGranting, DebitMode, Note
        <3>2. CASE GetUnitCost \/ UseReservation \/ AskReservation \/ RefreshUnitCost
            BY <3>2 DEF GetUnitCost, UseReservation, AskReservation, RefreshUnitCost,
                        ChargeReservation, Note
        <3>3. CASE GrantUnits \/ QuotePrice \/ Settle
            BY <3>3 DEF GrantUnits, QuotePrice, Settle, Note
        <3>4. CASE \E s \in Slots :
                      ReceiveReservation(s) \/ PanicOnAnswer(s) \/ ReceiveSettlement(s)
            BY <3>4 DEF ReceiveReservation, PanicOnAnswer, ReceiveSettlement, TakeCCA, Note
        <3>5. CASE AbandonAccount
            BY <3>5 DEF AbandonAccount, Note
        <3> QED
            BY <2>2, <3>1, <3>2, <3>3, <3>4, <3>5 DEF Processor
    <2>3. CASE Server
        BY <2>3 DEF Server, ReadQuota, WriteQuota, FailWrite, Note
    <2>4. CASE Operator
        BY <2>4 DEF Operator, Recharge, NotifyRecharge
    <2>5. CASE Crash
        BY <2>5 DEF Crash, Note
    <2> QED
        BY <2>1, <2>2, <2>3, <2>4, <2>5 DEF Next, RequestBegins
<1> QED
    BY <1>1 DEF Trusted, Without

\* Online charging implements the ledger: every step of the processor, the
\* account server and the operator moves one group's money as the ledger
\* allows, or moves none, until an incident takes the trust away.
THEOREM LedgerImplemented == Spec => ImplementsLedger
<1>1. IInv /\ IInv' /\ [Next]_vars => [Books!Next]_(Books!vars)
    <2> SUFFICES ASSUME IInv, IInv', [Next]_vars
                 PROVE  Books!Next \/ UNCHANGED Books!vars
        OBVIOUS
    <2>1. CASE ~Trusted'
        BY <2>1, LedgerDistrusts DEF IInv
    <2>2. CASE Trusted'
        <3>1. Trusted
            BY <2>2, MishapsStay
        <3>2. CASE UNCHANGED vars \/ Finished \/ RequestBegins
            BY <2>2, <3>1, <3>2, LedgerStutters
               DEF vars, Finished, RequestBegins, BeginRequest, server, context, request, bounds, history
        <3>3. CASE Processor
            BY <2>2, <3>1, <3>3, LedgerProcessor
        <3>4. CASE Server
            BY <2>2, <3>1, <3>4, LedgerServer DEF Server
        <3>5. CASE Operator
            BY <2>2, <3>1, <3>5, LedgerOperator DEF Operator
        <3>6. CASE Crash
            BY <2>2, <3>1, <3>6, LedgerCrash
        <3> QED
            BY <3>2, <3>3, <3>4, <3>5, <3>6 DEF Next, RequestBegins
    <2> QED
        BY <2>1, <2>2
<1> QED
    BY <1>1, LedgerInit, Invariance, PTL DEF Spec, ImplementsLedger, Books!Spec

-----------------------------------------------------------------------------
(* What is charged and granted: every usage is charged what it costs, and  *)
(* units are granted against money.                                        *)

\* The usage at hand is one the SMF may report.
Reported == pc \in Working => usage \in Usages

\* A reservation asks for what is missing to the requested quota.
AsksTheRest == pc = "ccr" => acct[0].amount = RequestedQuota - reserved[usage.rg]

\* Before the grant the reservation holds money, or all that was requested
\* (which is nothing where the price of the request wraps to 0).
HoldsTheRest ==
    pc = "allow" /\ ~finalUnit /\ Without({"crossed"}) =>
        reserved[usage.rg] > 0 \/ RequestedQuota = 0

\* While no rating answer was missing or another's ...
Fair == Without({"misrated"})

\* ... the usage at hand is rated by its group's tariff,
RatedByTariff ==
    Fair => /\ pc = "reserve" => unitCost = Tariff[usage.rg]
            /\ pc \in {"settle", "debit"} =>
                  price = (usage.used * Tariff[usage.rg]) % U32

\* and what a group owes is what is accounted for, charged or given up or still
\* to be charged by the request at hand, and a multiple of 2^32, which is 0 if
\* no usage costs that much.
Accounted(rg) == spent[rg] + forgone[rg] + Due(rg) + CostOf(report, rg)
Settled(rg) ==
    \E k \in Nat : /\ owed[rg] = Accounted(rg) + k * U32
                   /\ NoWrap => k = 0
BooksAgree == Fair => \A rg \in RatingGroups : Settled(rg)

\* No request is left with usages to take up.
NothingLeft == pc = "idle" => report = <<>>

\* The inductive invariant, beside IInv.
UsageInv ==
    /\ Reported
    /\ NothingLeft
    /\ AsksTheRest
    /\ HoldsTheRest
    /\ GrantBacked
    /\ RatedByTariff
    /\ BooksAgree

-----------------------------------------------------------------------------
(* Arithmetic modulo 2^32.                                                 *)

\* What wrapping takes off is a multiple, which is 0 where nothing wraps.
LEMMA WrapTakesMultiple ==
    ASSUME NEW n \in Nat
    PROVE  /\ n % U32 \in Nat
           /\ \E k \in Nat : /\ n = (n % U32) + k * U32
                             /\ n < U32 => k = 0
<1>1. n \div U32 \in Nat /\ n % U32 \in 0 .. U32 - 1
    OBVIOUS
<1>2. n = (n % U32) + (n \div U32) * U32
    OBVIOUS
<1>3. n < U32 => n \div U32 = 0
    OBVIOUS
<1> DEFINE q == n \div U32
           r == n % U32
<1>4. q \in Nat /\ r \in Nat /\ n = r + q * U32 /\ (n < U32 => q = 0)
    BY <1>1, <1>2, <1>3
<1> HIDE DEF q
<1> QED
    BY <1>4

\* A multiple wraps to 0.
LEMMA MultipleWraps ==
    ASSUME NEW k \in Nat
    PROVE  (k * U32) % U32 = 0
<1> DEFINE n == k * U32
           q == n \div U32
           r == n % U32
<1>1. n \in Nat /\ q \in Nat /\ r \in 0 .. U32 - 1 /\ n = r + q * U32
    <2>1. n \in Nat
        OBVIOUS
    <2> HIDE DEF n
    <2> QED
        BY <2>1
<1>2. r = (k - q) * U32
    BY <1>1
<1> HIDE DEF q, r, n
<1>3. CASE k - q <= -1
    <2>1. (k - q) * U32 <= (-1) * U32
        BY <1>1, <1>3
    <2> QED
        BY <1>1, <1>2, <2>1
<1>4. CASE k - q >= 1
    <2>1. (k - q) * U32 >= 1 * U32
        BY <1>1, <1>4
    <2> QED
        BY <1>1, <1>2, <2>1
<1>5. CASE k - q = 0
    <2>1. r = 0
        BY <1>2, <1>5
    <2> QED
        BY <2>1 DEF r, n
<1> QED
    BY <1>1, <1>3, <1>4, <1>5

-----------------------------------------------------------------------------
(* What the steps have in common.                                          *)

\* What is accounted for.
LEMMA AccountedType ==
    ASSUME IInv, NEW rg \in RatingGroups
    PROVE  /\ owed[rg] \in Nat /\ spent[rg] \in Nat /\ forgone[rg] \in Nat
           /\ Due(rg) \in Nat /\ CostOf(report, rg) \in Nat
<1>1. /\ owed \in [RatingGroups -> Nat] /\ spent \in [RatingGroups -> Nat]
      /\ forgone \in [RatingGroups -> Nat] /\ report \in Seq(Usages)
    BY DEF IInv, TypeOK
<1>2. pc \in Uncharged => usage \in Usage
    BY DEF IInv, UsageAtHand, Working, Granting, Uncharged
<1> QED
    BY <1>1, <1>2, CostType, CostOfType DEF Due

\* The books stand where neither they nor what is accounted for changes.
LEMMA BooksStand ==
    ASSUME BooksAgree, Fair' => Fair, UNCHANGED owed,
           Fair' => \A rg \in RatingGroups : Accounted(rg)' = Accounted(rg)
    PROVE  BooksAgree'
BY DEF BooksAgree, Settled, NoWrap

\* They do where the usage at hand is as far from its charge as before ...
LEMMA BooksUntouched ==
    ASSUME BooksAgree, Fair' => Fair, UNCHANGED <<owed, spent, forgone, report>>,
           Fair' => \A rg \in RatingGroups : Due(rg)' = Due(rg)
    PROVE  BooksAgree'
<1>1. ASSUME Fair', NEW rg \in RatingGroups
      PROVE  Accounted(rg)' = Accounted(rg)
    BY <1>1 DEF Accounted
<1> QED
    BY <1>1, BooksStand

\* ... and agree again once it is charged at its tariff.
LEMMA BooksCharged ==
    ASSUME IInv, Reported, BooksAgree, Fair, pc \in Uncharged, pc' \notin Uncharged,
           UNCHANGED <<owed, forgone, report>>,
           NEW charge, charge = (usage.used * Tariff[usage.rg]) % U32,
           spent' = [spent EXCEPT ![usage.rg] = spent[usage.rg] + charge]
    PROVE  BooksAgree'
<1>1. SUFFICES ASSUME NEW rg \in RatingGroups
               PROVE  Settled(rg)'
    BY DEF BooksAgree
<1>2. usage \in Usages /\ usage.rg \in RatingGroups /\ usage.used \in Nat
    BY DEF Reported, Working, Granting, Uncharged, Usage
<1>3. /\ spent \in [RatingGroups -> Nat] /\ owed[rg] \in Nat /\ forgone[rg] \in Nat
      /\ CostOf(report, rg) \in Nat /\ Due(rg) \in Nat
    BY AccountedType DEF IInv, TypeOK
<1>4. Accounted(rg)' = spent'[rg] + forgone[rg] + CostOf(report, rg)
    <2>1. Due(rg)' = 0
        BY DEF Due
    <2>2. spent'[rg] \in Nat
        <3>1. charge \in Nat
            <4>1. usage.used * Tariff[usage.rg] \in Nat
                BY <1>2
            <4> QED
                BY <4>1, WrapTakesMultiple
        <3> QED
            BY <1>2, <1>3, <3>1
    <2> QED
        BY <2>1, <2>2, <1>3 DEF Accounted
<1>5. PICK k \in Nat : owed[rg] = Accounted(rg) + k * U32 /\ (NoWrap => k = 0)
    BY DEF BooksAgree, Settled
<1> DEFINE cost == usage.used * Tariff[usage.rg]
<1>6. cost \in Nat
    BY <1>2
<1>7. PICK j \in Nat : cost = charge + j * U32 /\ (cost < U32 => j = 0)
    BY <1>6, WrapTakesMultiple
<1>8. charge \in Nat
    BY <1>6, WrapTakesMultiple
<1>9. NoWrap => j = 0
    BY <1>2, <1>7 DEF NoWrap
<1>10. CASE rg = usage.rg
    <2>1. Due(rg) = cost
        BY <1>10 DEF Due, Cost
    <2> HIDE DEF cost
    <2>2. j * U32 \in Nat /\ k * U32 \in Nat /\ (j + k) * U32 = j * U32 + k * U32
        OBVIOUS
    <2>3. spent'[rg] = spent[rg] + charge
        BY <1>3, <1>10
    <2>4. owed[rg] = Accounted(rg)' + (j + k) * U32
        BY <1>3, <1>4, <1>5, <1>6, <1>7, <1>8, <2>1, <2>2, <2>3 DEF Accounted
    <2>5. j + k \in Nat /\ (NoWrap => j + k = 0)
        BY <1>5, <1>9
    <2> QED
        BY <2>4, <2>5 DEF Settled, NoWrap
<1>11. CASE rg # usage.rg
    <2>1. Due(rg) = 0
        BY <1>11 DEF Due, Cost
    <2>2. spent'[rg] = spent[rg]
        BY <1>3, <1>11
    <2>3. Accounted(rg)' = Accounted(rg)
        BY <1>3, <1>4, <2>1, <2>2 DEF Accounted
    <2> QED
        BY <1>5, <2>3 DEF Settled, NoWrap
<1> QED
    BY <1>10, <1>11

\* Between two usages, and outside a request, only the books matter.
LEMMA UsageOver ==
    ASSUME pc' \in {"idle", "loop"}, NothingLeft', BooksAgree'
    PROVE  UsageInv'
BY DEF UsageInv, Reported, AsksTheRest, HoldsTheRest, GrantBacked, RatedByTariff, Working,
       Granting

\* A usage that was charged, or that nothing is due for, is done with.
LEMMA UsageDone ==
    ASSUME UsageInv, pc' = "loop" \/ (pc' = "idle" /\ report = <<>>), pc \notin Uncharged,
           UNCHANGED <<owed, spent, forgone, report>>, mishaps \subseteq mishaps'
    PROVE  UsageInv'
<1>1. Fair' => Fair
    BY DEF Fair, Without
<1>2. \A rg \in RatingGroups : Due(rg)' = Due(rg)
    BY DEF Due, Uncharged
<1>3. BooksAgree'
    BY <1>1, <1>2, BooksUntouched DEF UsageInv
<1> QED
    BY <1>3, UsageOver DEF NothingLeft

\* A usage that is given up moves from what is due to what is forgone.
LEMMA UsageGivenUp ==
    ASSUME UsageInv, IInv, pc' = "loop", pc \in Uncharged, GiveUp,
           UNCHANGED <<owed, spent, report>>, mishaps \subseteq mishaps'
    PROVE  UsageInv'
<1>1. Fair' => Fair
    BY DEF Fair, Without
<1>2. ASSUME NEW rg \in RatingGroups
      PROVE  Accounted(rg)' = Accounted(rg)
    <2>1. /\ spent[rg] \in Nat /\ forgone[rg] \in Nat /\ Due(rg) \in Nat
          /\ CostOf(report, rg) \in Nat
          /\ forgone \in [RatingGroups -> Nat]
        BY AccountedType DEF IInv, TypeOK
    <2>2. Due(rg)' = 0 /\ Due(rg) = Cost(usage, rg)
        BY DEF Due, Uncharged
    <2>3. forgone' = [forgone EXCEPT ![usage.rg] = forgone[usage.rg] + Cost(usage, usage.rg)]
        BY DEF GiveUp
    <2>4. forgone'[rg] = forgone[rg] + Cost(usage, rg)
        <3>1. usage.rg # rg => Cost(usage, rg) = 0
            BY DEF Cost
        <3> QED
            BY <2>1, <2>2, <2>3, <3>1
    <2>5. Accounted(rg)' = spent[rg] + forgone'[rg] + Due(rg)' + CostOf(report, rg)
        BY DEF Accounted
    <2>6. Accounted(rg) = spent[rg] + forgone[rg] + Due(rg) + CostOf(report, rg)
        BY DEF Accounted
    <2> QED
        BY <2>1, <2>2, <2>4, <2>5, <2>6
<1>3. BooksAgree'
    BY <1>1, <1>2, BooksStand DEF UsageInv
<1> QED
    BY <1>3, UsageOver DEF NothingLeft

\* A request that is cut off takes what it has still to charge with it.
LEMMA RequestCutOff ==
    ASSUME UsageInv, IInv, CutOff, UNCHANGED <<owed, spent>>, mishaps \subseteq mishaps'
    PROVE  UsageInv'
<1>1. Fair' => Fair
    BY DEF Fair, Without
<1>2. pc' = "idle" /\ report' = <<>>
    BY DEF CutOff
<1>3. ASSUME NEW rg \in RatingGroups
      PROVE  Accounted(rg)' = Accounted(rg)
    <2>1. /\ spent[rg] \in Nat /\ forgone[rg] \in Nat /\ Due(rg) \in Nat
          /\ CostOf(report, rg) \in Nat
        BY AccountedType
    <2>2. Due(rg)' = 0 /\ CostOf(<<>>, rg) = 0
        BY <1>2, CostOfNone DEF Due, Uncharged
    <2>3. forgone'[rg] = forgone[rg] + Due(rg) + CostOf(report, rg)
        BY DEF CutOff
    <2>4. Accounted(rg)' = spent[rg] + forgone'[rg] + Due(rg)' + CostOf(<<>>, rg)
        BY <1>2 DEF Accounted
    <2>5. Accounted(rg) = spent[rg] + forgone[rg] + Due(rg) + CostOf(report, rg)
        BY DEF Accounted
    <2> QED
        BY <2>1, <2>2, <2>3, <2>4, <2>5
<1>4. BooksAgree'
    BY <1>1, <1>3, BooksStand DEF UsageInv
<1> QED
    BY <1>2, <1>4, UsageOver DEF NothingLeft

\* Steps beside the request.
LEMMA Bystanders ==
    ASSUME UsageInv, UNCHANGED <<request, reserved, owed, spent, forgone>>,
           mishaps \subseteq mishaps', mishaps' \subseteq mishaps \cup {"falsified"},
           pc = "ccr" => acct'[0].amount = acct[0].amount
    PROVE  UsageInv'
<1> USE DEF request
<1>1. Reported' /\ NothingLeft' /\ AsksTheRest'
    BY DEF UsageInv, Reported, NothingLeft, AsksTheRest, RequestedQuota
<1>2. HoldsTheRest' /\ GrantBacked'
    BY DEF UsageInv, HoldsTheRest, GrantBacked, RequestedQuota, Without
<1>3. Fair' = Fair
    BY DEF Fair, Without
<1>4. RatedByTariff'
    BY <1>3 DEF UsageInv, RatedByTariff
<1>5. BooksAgree'
    BY <1>3, BooksUntouched DEF UsageInv, Due
<1> QED
    BY <1>1, <1>2, <1>4, <1>5 DEF UsageInv

-----------------------------------------------------------------------------
(* Each kind of step keeps the invariant.                                  *)

\* All that a request reports is owed when it comes in.
LEMMA UsageBegins ==
    ASSUME IInv, UsageInv, RequestBegins
    PROVE  UsageInv'
<1>1. PICK isFinal \in BOOLEAN, n \in 0 .. MaxUsages - nUsages :
         \E list \in [1 .. n -> Usages] : BeginRequest(isFinal, list)
    BY DEF RequestBegins
<1>2. PICK list \in [1 .. n -> Usages] : BeginRequest(isFinal, list)
    BY <1>1
<1>3. list \in Seq(Usages)
    OBVIOUS
<1>4. /\ pc = "idle" /\ pc' = "loop" /\ report' = list
      /\ owed' = [rg \in RatingGroups |-> owed[rg] + CostOf(list, rg)]
      /\ UNCHANGED <<spent, forgone, mishaps>>
    BY <1>2 DEF BeginRequest
<1>5. report = <<>>
    BY <1>4 DEF UsageInv, NothingLeft
<1>6. BooksAgree'
    <2>1. SUFFICES ASSUME Fair, NEW rg \in RatingGroups
                   PROVE  Settled(rg)'
        BY <1>4 DEF BooksAgree, Fair, Without
    <2>2. PICK k \in Nat : owed[rg] = Accounted(rg) + k * U32 /\ (NoWrap => k = 0)
        BY <2>1 DEF UsageInv, BooksAgree, Settled
    <2>3. Due(rg)' = 0 /\ Due(rg) = 0 /\ CostOf(report, rg) = 0
        BY <1>4, <1>5, CostOfNone DEF Due, Uncharged
    <2>4. owed[rg] \in Nat /\ spent[rg] \in Nat /\ forgone[rg] \in Nat
        BY AccountedType
    <2>5. CostOf(list, rg) \in Nat /\ k * U32 \in Nat
        BY <1>3, CostOfType
    <2>6. Accounted(rg)' = spent[rg] + forgone[rg] + Due(rg)' + CostOf(list, rg)
        BY <1>4 DEF Accounted
    <2>7. Accounted(rg) = spent[rg] + forgone[rg] + Due(rg) + CostOf(report, rg)
        BY DEF Accounted
    <2>8. owed'[rg] = owed[rg] + CostOf(list, rg)
        BY <1>4
    <2>9. owed'[rg] = Accounted(rg)' + k * U32
        BY <2>2, <2>3, <2>4, <2>5, <2>6, <2>7, <2>8
    <2> QED
        BY <2>2, <2>9 DEF Settled, NoWrap
<1> QED
    BY <1>4, <1>6, UsageOver DEF NothingLeft

LEMMA UsageEnds ==
    ASSUME UsageInv, EndRequest
    PROVE  UsageInv'
BY UsageDone DEF EndRequest, Uncharged, history

\* A usage taken up is due.
LEMMA UsageTaken ==
    ASSUME IInv, UsageInv, TakeUsage
    PROVE  UsageInv'
<1>1. /\ pc = "loop" /\ pc' = "mode" /\ usage' = Head(report) /\ report' = Tail(report)
      /\ report # <<>> /\ UNCHANGED <<spent, mishaps, owed, forgone>>
    BY DEF TakeUsage, history
<1>2. report \in Seq(Usages)
    BY DEF IInv, TypeOK
<1>3. BooksAgree'
    <2>1. ASSUME NEW rg \in RatingGroups
          PROVE  Accounted(rg)' = Accounted(rg)
        <3>1. Due(rg) = 0 /\ Due(rg)' = Cost(Head(report), rg)
            BY <1>1 DEF Due, Uncharged
        <3>2. /\ Head(report) \in Usage /\ Tail(report) \in Seq(Usages)
              /\ CostOf(report, rg) = Cost(Head(report), rg) + CostOf(Tail(report), rg)
            BY <1>1, <1>2, CostOfTaken
        <3>3. /\ spent[rg] \in Nat /\ forgone[rg] \in Nat
              /\ Cost(Head(report), rg) \in Nat /\ CostOf(Tail(report), rg) \in Nat
            BY <3>2, AccountedType, CostType, CostOfType
        <3>4. Accounted(rg)' = spent[rg] + forgone[rg] + Due(rg)' + CostOf(Tail(report), rg)
            BY <1>1 DEF Accounted
        <3>5. Accounted(rg) = spent[rg] + forgone[rg] + Due(rg) + CostOf(report, rg)
            BY DEF Accounted
        <3> QED
            BY <3>1, <3>2, <3>3, <3>4, <3>5
    <2>2. Fair' => Fair
        BY <1>1 DEF Fair, Without
    <2> QED
        BY <1>1, <2>1, <2>2, BooksStand DEF UsageInv
<1>4. usage' \in Usages
    BY <1>1, <1>2, CostOfTaken
<1> QED
    BY <1>1, <1>3, <1>4 DEF UsageInv, Reported, AsksTheRest, HoldsTheRest, GrantBacked,
                            RatedByTariff, NothingLeft

\* The way to the rating of a usage.
LEMMA UsageRouted ==
    ASSUME UsageInv, ReserveMode \/ DebitMode
    PROVE  UsageInv'
<1>1. /\ pc = "mode" /\ pc' \in {"cost", "price"}
      /\ UNCHANGED <<usage, report, owed, spent, forgone, mishaps>>
    BY DEF ReserveMode, DebitMode, history
<1>2. BooksAgree'
    BY <1>1, BooksUntouched DEF UsageInv, Fair, Without, Due, Uncharged
<1> QED
    BY <1>1, <1>2 DEF UsageInv, NothingLeft, Reported, Working, Granting, AsksTheRest, HoldsTheRest,
                      GrantBacked, RatedByTariff

LEMMA UsageSkipped ==
    ASSUME UsageInv, IInv, SkipGranting
    PROVE  UsageInv'
BY UsageGivenUp DEF SkipGranting, NextUsage, Uncharged

LEMMA UsageCosted ==
    ASSUME UsageInv, IInv, GetUnitCost
    PROVE  UsageInv'
<1>1. /\ pc = "cost" /\ pc' = "reserve"
      /\ UNCHANGED <<usage, report, owed, spent, forgone>>
    BY DEF GetUnitCost
<1>2. Fair' => Fair /\ unitCost' = Tariff[usage.rg]
    <2>1. Reserve(usage.rg, 0) # NoAnswer /\ Reserve(usage.rg, 0).cost = Tariff[usage.rg]
        <3>1. usage.rg \in RatingGroups
            BY DEF IInv, UsageAtHand, Working, Granting, Usage, GetUnitCost
        <3>2. Reserve(usage.rg, 0) \in Answer
            BY <3>1, RatingTypes
        <3> QED
            BY <3>2, NoAnswerIsNone DEF Reserve
    <2> QED
        BY <2>1 DEF GetUnitCost, Note, Fair, Without
<1>3. RatedByTariff'
    BY <1>1, <1>2 DEF RatedByTariff
<1>4. BooksAgree'
    BY <1>1, <1>2, BooksUntouched DEF UsageInv, Due, Uncharged
<1> QED
    BY <1>1, <1>3, <1>4 DEF UsageInv, NothingLeft, Reported, Working, Granting, AsksTheRest,
                            HoldsTheRest, GrantBacked

\* The usage is charged to the reservation, whatever comes after.
LEMMA UsageReserved ==
    ASSUME UsageInv, IInv, UseReservation \/ AskReservation
    PROVE  UsageInv'
<1>1. /\ pc = "reserve" /\ pc \in Uncharged /\ pc \in Granting /\ ChargeReservation
      /\ pc' \in {"allow", "ccr", "loop"}
      /\ pc' = "loop" \/ UNCHANGED <<usage, unitCost, finalUnit>>
      /\ UNCHANGED <<owed, forgone, report, mishaps>>
    BY DEF UseReservation, AskReservation, SendCCR, DialFails, NextUsage, Uncharged,
           Granting, ChargeReservation, bounds
<1>2. usage \in Usages /\ usage.rg \in RatingGroups
    BY <1>1, UsedQuotaType DEF UsageInv, NothingLeft, Reported, Working
<1>3. /\ reserved \in [RatingGroups -> Int] /\ UsedQuota \in Nat
      /\ reserved' = [reserved EXCEPT ![usage.rg] = reserved[usage.rg] - UsedQuota]
      /\ spent' = [spent EXCEPT ![usage.rg] = spent[usage.rg] + UsedQuota]
    BY <1>1, UsedQuotaType DEF IInv, TypeOK, ChargeReservation
<1>4. BooksAgree'
    <2>1. CASE ~Fair
        BY <1>1, <2>1 DEF BooksAgree, Fair, Without
    <2>2. CASE Fair
        <3>1. UsedQuota = (usage.used * Tariff[usage.rg]) % U32
            BY <1>1, <2>2 DEF UsageInv, RatedByTariff, UsedQuota
        <3>2. pc' \notin Uncharged
            BY <1>1 DEF Uncharged
        <3> QED
            BY <1>1, <1>3, <2>2, <3>1, <3>2, BooksCharged DEF UsageInv
    <2> QED
        BY <2>1, <2>2
<1>5. CASE pc' = "loop"
    BY <1>4, <1>5, UsageOver DEF NothingLeft
<1>6. CASE pc' = "allow"
    <2>1. reserved'[usage.rg] > 0
        BY <1>2, <1>3, <1>6 DEF UseReservation, AskReservation, SendCCR, DialFails,
                                NextUsage
    <2> QED
        BY <1>1, <1>2, <1>4, <1>6, <2>1
           DEF UsageInv, NothingLeft, Reported, AsksTheRest, HoldsTheRest, GrantBacked, RatedByTariff
<1>7. CASE pc' = "ccr"
    <2>1. /\ acct \in [Slots -> Exchange \cup {NoExchange}] /\ 0 \in Slots
          /\ acct' = [acct EXCEPT ![0] =
                        [phase |-> "sent", kind |-> "reserve", rg |-> usage.rg,
                         amount |-> RequestedQuota - (reserved[usage.rg] - UsedQuota),
                         seen |-> 0]]
        BY <1>7 DEF IInv, TypeOK, Slots, UseReservation, AskReservation, SendCCR,
                    DialFails, NextUsage
    <2>2. acct'[0].amount = RequestedQuota - (reserved[usage.rg] - UsedQuota)
        BY <2>1
    <2>3. reserved'[usage.rg] = reserved[usage.rg] - UsedQuota
        BY <1>2, <1>3
    <2>4. AsksTheRest'
        BY <1>1, <1>7, <2>2, <2>3 DEF AsksTheRest, RequestedQuota
    <2> QED
        BY <1>1, <1>2, <1>4, <1>7, <2>4
           DEF UsageInv, NothingLeft, Reported, HoldsTheRest, GrantBacked, RatedByTariff
<1> QED
    BY <1>1, <1>5, <1>6, <1>7

\* A reservation that was not cut short brings the quota up to the request.
LEMMA UsageGivenQuota ==
    ASSUME UsageInv, IInv, NEW s \in Slots, ReceiveReservation(s)
    PROVE  UsageInv'
<1>1. /\ pc = "ccr" /\ pc' = "allow" /\ TakeCCA(s)
      /\ UNCHANGED <<usage, report, unitCost, owed, spent, forgone>>
    BY DEF ReceiveReservation
<1>2. Fair' => Fair
    BY <1>1 DEF TakeCCA, Note, Fair, Without
<1>3. BooksAgree'
    BY <1>1, <1>2, BooksUntouched DEF UsageInv, Due, Uncharged
<1>4. HoldsTheRest'
    <2>1. SUFFICES ASSUME ~finalUnit', Without({"crossed"})'
                   PROVE  reserved'[usage.rg] > 0 \/ RequestedQuota = 0
        BY <1>1 DEF HoldsTheRest, RequestedQuota
    <2>2. s = 0
        BY <1>1, <2>1 DEF TakeCCA, Note, Without
    <2>3. acct[0] \in Exchange /\ acct[0].kind = "reserve"
        BY <1>1 DEF IInv, OwnExchange, Waiting
    <2>4. ~(acct[0].amount > acct[0].seen)
        BY <2>1, <2>2 DEF ReceiveReservation, Exhausted
    <2>5. Moved(acct[0]) = acct[0].amount
        BY <2>3, <2>4 DEF Moved
    <2>6. usage.rg \in RatingGroups /\ RequestedQuota \in Nat
        BY <1>1, UsedQuotaType DEF Granting
    <2>7. reserved \in [RatingGroups -> Int]
          /\ reserved' = [reserved EXCEPT ![usage.rg] = reserved[usage.rg] + Moved(acct[0])]
        BY <2>2 DEF IInv, TypeOK, ReceiveReservation
    <2>8. acct[0].amount = RequestedQuota - reserved[usage.rg]
        BY <1>1 DEF UsageInv, AsksTheRest
    <2>9. reserved'[usage.rg] = RequestedQuota
        BY <2>5, <2>6, <2>7, <2>8
    <2> QED
        BY <2>6, <2>9
<1> QED
    BY <1>1, <1>3, <1>4 DEF UsageInv, NothingLeft, Reported, Working, Granting, AsksTheRest,
                            GrantBacked, RatedByTariff

LEMMA UsageCutOff ==
    ASSUME UsageInv, IInv, NEW s \in Slots, PanicOnAnswer(s)
    PROVE  UsageInv'
BY RequestCutOff DEF PanicOnAnswer, TakeCCA, Note

LEMMA UsageAbandoned ==
    ASSUME UsageInv, IInv, AbandonAccount
    PROVE  UsageInv'
<1>1. CASE pc = "ccr" /\ UNCHANGED forgone
    BY <1>1, UsageDone DEF AbandonAccount, NextUsage, Uncharged
<1>2. CASE pc = "debit" /\ GiveUp
    BY <1>2, UsageGivenUp DEF AbandonAccount, NextUsage, Uncharged
<1> QED
    BY <1>1, <1>2 DEF AbandonAccount

LEMMA UsageGranted ==
    ASSUME UsageInv, IInv, GrantUnits
    PROVE  UsageInv'
<1> DEFINE own == Reserve(usage.rg, RequestedQuota)
<1>1. PICK sua \in RatingOutcomes(own) :
         /\ Note("misrated", sua # own)
         /\ \/ sua = NoAnswer /\ NextUsage
            \/ /\ sua # NoAnswer
               /\ granted' = IF sua.allowed < usage.requested THEN sua.allowed
                                                              ELSE usage.requested
               /\ pc' = "recost"
               /\ UNCHANGED <<final, report, usage, unitCost, price, finalUnit>>
    BY DEF GrantUnits
<1>2. /\ pc = "allow" /\ UNCHANGED <<reserved, owed, spent, forgone>>
      /\ mishaps \subseteq mishaps'
    BY <1>1 DEF GrantUnits, Note
<1>3. CASE NextUsage
    BY <1>2, <1>3, UsageDone DEF NextUsage, Uncharged
<1>4. CASE sua # NoAnswer /\ pc' = "recost"
    <2>1. UNCHANGED <<usage, report, unitCost, finalUnit>>
        BY <1>1, <1>4 DEF NextUsage
    <2>2. BooksAgree'
        BY <1>2, <1>4, <2>1, BooksUntouched DEF UsageInv, Fair, Without, Due, Uncharged
    <2>3. GrantBacked'
        <3>1. SUFFICES ASSUME granted' > 0, ~finalUnit', Without({"crossed"})',
                              ~(reserved'[usage.rg] > 0)
                       PROVE  RequestedQuota = 0 /\ "misrated" \in mishaps'
            BY <2>1 DEF GrantBacked, RequestedQuota
        <3>2. RequestedQuota = 0
            BY <1>2, <2>1, <3>1 DEF UsageInv, HoldsTheRest, Without
        <3>3. usage.rg \in RatingGroups /\ usage.requested > 0
            BY <1>2 DEF IInv, UsageAtHand, Working, Granting, Usage
        <3>4. own.allowed = 0
            BY <3>2, <3>3 DEF Reserve
        <3>5. sua # own
            BY <1>1, <1>4, <3>1, <3>3, <3>4 DEF NextUsage
        <3> QED
            BY <1>1, <3>2, <3>5 DEF Note
    <2> QED
        BY <1>2, <1>4, <2>1, <2>2, <2>3 DEF UsageInv, NothingLeft, Reported, Working, Granting,
                                            AsksTheRest, HoldsTheRest, RatedByTariff
<1> QED
    BY <1>1, <1>3, <1>4

LEMMA UsageRefreshed ==
    ASSUME UsageInv, RefreshUnitCost
    PROVE  UsageInv'
BY UsageDone DEF RefreshUnitCost, NextUsage, history, Uncharged

LEMMA UsagePriced ==
    ASSUME UsageInv, IInv, QuotePrice
    PROVE  UsageInv'
<1> DEFINE own == Debit(usage.rg, usage.used)
<1>1. PICK sua \in RatingOutcomes(own) :
         \/ sua = NoAnswer /\ NextUsage /\ GiveUp /\ UNCHANGED mishaps
         \/ /\ sua # NoAnswer
            /\ price' = sua.price
            /\ pc' = "settle"
            /\ Note("misrated", sua # own)
            /\ UNCHANGED <<final, report, usage, unitCost, finalUnit, granted, forgone>>
    BY DEF QuotePrice
<1>2. pc = "price" /\ UNCHANGED <<owed, spent>>
    BY DEF QuotePrice
<1>3. CASE NextUsage /\ GiveUp /\ UNCHANGED mishaps
    BY <1>2, <1>3, UsageGivenUp DEF NextUsage, Uncharged
<1>4. CASE /\ pc' = "settle" /\ price' = sua.price /\ Note("misrated", sua # own)
           /\ UNCHANGED <<usage, report, forgone>>
    <2>1. Fair' => Fair /\ price' = (usage.used * Tariff[usage.rg]) % U32
        BY <1>4 DEF Note, Fair, Without, Debit
    <2>2. BooksAgree'
        BY <1>2, <1>4, <2>1, BooksUntouched DEF UsageInv, Due, Uncharged
    <2> QED
        BY <1>2, <1>4, <2>1, <2>2 DEF UsageInv, NothingLeft, Reported, Working, AsksTheRest,
                                      HoldsTheRest, GrantBacked, RatedByTariff
<1> QED
    BY <1>1, <1>3, <1>4

LEMMA UsageSettling ==
    ASSUME UsageInv, IInv, Settle
    PROVE  UsageInv'
<1>1. pc = "settle" /\ UNCHANGED <<owed, spent, mishaps>>
    BY DEF Settle
<1>2. CASE DialFails /\ GiveUp
    BY <1>1, <1>2, UsageGivenUp DEF DialFails, NextUsage, Uncharged
<1>3. CASE pc' = "debit" /\ UNCHANGED <<usage, report, price, forgone>>
    <2>1. BooksAgree'
        BY <1>1, <1>3, BooksUntouched DEF UsageInv, Fair, Without, Due, Uncharged
    <2> QED
        BY <1>1, <1>3, <2>1 DEF UsageInv, NothingLeft, Reported, Working, AsksTheRest, HoldsTheRest,
                                GrantBacked, RatedByTariff, Fair, Without
<1> QED
    BY <1>2, <1>3 DEF Settle, SendCCR

LEMMA UsageSettled ==
    ASSUME UsageInv, IInv, NEW s \in Slots, ReceiveSettlement(s)
    PROVE  UsageInv'
<1>1. /\ pc = "debit" /\ pc \in Uncharged /\ pc' = "loop" /\ pc' \notin Uncharged
      /\ TakeCCA(s)
      /\ UNCHANGED <<owed, forgone, report>>
      /\ spent' = [spent EXCEPT ![usage.rg] = spent[usage.rg] + price]
    BY DEF ReceiveSettlement, NextUsage, Uncharged
<1>2. Fair' => Fair
    BY <1>1 DEF TakeCCA, Note, Fair, Without
<1>3. CASE Fair
    <2>1. price = (usage.used * Tariff[usage.rg]) % U32
        BY <1>1, <1>3 DEF UsageInv, RatedByTariff
    <2>2. BooksAgree'
        BY <1>1, <1>3, <2>1, BooksCharged DEF UsageInv
    <2> QED
        BY <1>1, <2>2, UsageOver DEF NothingLeft
<1>4. CASE ~Fair
    BY <1>1, <1>2, <1>4, UsageOver DEF BooksAgree, NothingLeft
<1> QED
    BY <1>3, <1>4

LEMMA UsageServed ==
    ASSUME UsageInv, IInv, NEW s \in Slots, ReadQuota(s) \/ WriteQuota(s) \/ FailWrite(s)
    PROVE  UsageInv'
<1>1. UNCHANGED <<request, reserved, owed, spent, forgone>>
    BY DEF ReadQuota, WriteQuota, FailWrite, context, history
<1>2. mishaps \subseteq mishaps' /\ mishaps' \subseteq mishaps \cup {"falsified"}
    BY DEF ReadQuota, WriteQuota, FailWrite, Note, history
<1>3. pc = "ccr" => acct'[0].amount = acct[0].amount
    <2>1. SUFFICES ASSUME pc = "ccr"
                   PROVE  acct'[0].amount = acct[0].amount
        OBVIOUS
    <2>2. acct[0] \in Exchange /\ acct \in [Slots -> Exchange \cup {NoExchange}] /\ 0 \in Slots
        BY <2>1 DEF IInv, TypeOK, OwnExchange, Waiting, Slots
    <2>3. \/ acct' = [acct EXCEPT ![s].phase = "read", ![s].seen = balance[acct[s].rg]]
          \/ acct' = [acct EXCEPT ![s].phase = "answered"]
        BY DEF ReadQuota, WriteQuota, FailWrite, Answered
    <2>4. CASE s # 0
        BY <2>2, <2>3, <2>4
    <2>5. CASE s = 0
        BY <2>2, <2>3, <2>5 DEF Exchange
    <2> QED
        BY <2>4, <2>5
<1> QED
    BY <1>1, <1>2, <1>3, Bystanders

LEMMA UsageRecharged ==
    ASSUME UsageInv, NEW rg \in RatingGroups, Recharge(rg) \/ NotifyRecharge(rg)
    PROVE  UsageInv'
BY Bystanders DEF Recharge, NotifyRecharge, context, history

LEMMA UsageCrashed ==
    ASSUME UsageInv, IInv, Crash
    PROVE  UsageInv'
BY RequestCutOff DEF Crash

LEMMA UsageInit == Init => UsageInv
<1> SUFFICES ASSUME Init
             PROVE  UsageInv
    OBVIOUS
<1>1. BooksAgree
    <2>1. SUFFICES ASSUME NEW rg \in RatingGroups
                   PROVE  Settled(rg)
        BY DEF BooksAgree
    <2>2. /\ owed[rg] = 0 /\ spent[rg] = 0 /\ forgone[rg] = 0 /\ Due(rg) = 0
          /\ CostOf(report, rg) = 0
        BY CostOfNone DEF Init, Due, Uncharged
    <2>3. owed[rg] = Accounted(rg) + 0 * U32
        BY <2>2 DEF Accounted
    <2> QED
        BY <2>3 DEF Settled
<1> QED
    BY <1>1 DEF Init, UsageInv, NothingLeft, Reported, AsksTheRest, HoldsTheRest, GrantBacked,
                RatedByTariff, Working, Granting

LEMMA NextUsageInv == IInv /\ UsageInv /\ [Next]_vars => UsageInv'
<1> SUFFICES ASSUME IInv, UsageInv, [Next]_vars
             PROVE  UsageInv'
    OBVIOUS
<1>1. CASE Processor
    <2>1. CASE \/ EndRequest \/ ReserveMode \/ DebitMode \/ SkipGranting
               \/ TakeUsage
        BY <2>1, UsageEnds, UsageRouted, UsageSkipped, UsageTaken
    <2>2. CASE GetUnitCost \/ UseReservation \/ AskReservation
        BY <2>2, UsageCosted, UsageReserved
    <2>3. CASE GrantUnits \/ RefreshUnitCost \/ QuotePrice \/ Settle \/ AbandonAccount
        BY <2>3, UsageGranted, UsageRefreshed, UsagePriced, UsageSettling, UsageAbandoned
    <2>4. CASE \E s \in Slots :
                  ReceiveReservation(s) \/ PanicOnAnswer(s) \/ ReceiveSettlement(s)
        BY <2>4, UsageGivenQuota, UsageCutOff, UsageSettled
    <2> QED
        BY <1>1, <2>1, <2>2, <2>3, <2>4 DEF Processor
<1>2. CASE RequestBegins
    BY <1>2, UsageBegins
<1>3. CASE Server
    BY <1>3, UsageServed DEF Server
<1>4. CASE Operator
    BY <1>4, UsageRecharged DEF Operator
<1>5. CASE Crash
    BY <1>5, UsageCrashed
<1>6. CASE Finished \/ UNCHANGED vars
    BY <1>6, Bystanders DEF Finished, vars, server, context, history
<1> QED
    BY <1>1, <1>2, <1>3, <1>4, <1>5, <1>6 DEF Next, RequestBegins

\* The inductive invariant holds throughout.
THEOREM UsageInvariance == Spec => []UsageInv
BY UsageInit, NextUsageInv, Invariance, PTL DEF Spec

\* All the usage that was ever reported is charged, still to be taken up or
\* given up at one of the places UsageCharged names, less a multiple of 2^32
\* where a cost wraps, in every interleaving with late answers, recharges and
\* restarts, while no rating answer is missing or another's.
THEOREM UsageIsCharged == Spec => []UsageCharged
<1>1. IInv /\ UsageInv => UsageCharged
    <2> DEFINE accounted(rg) == spent[rg] + CostOf(report, rg) + forgone[rg]
    <2>1. SUFFICES ASSUME IInv, UsageInv, pc \in {"idle", "loop"}, Fair,
                          NEW rg \in RatingGroups
                   PROVE  /\ accounted(rg) <= owed[rg]
                          /\ (owed[rg] - accounted(rg)) % U32 = 0
                          /\ NoWrap => accounted(rg) = owed[rg]
        BY DEF UsageCharged, Fair
    <2>2. PICK k \in Nat : owed[rg] = Accounted(rg) + k * U32 /\ (NoWrap => k = 0)
        BY <2>1 DEF UsageInv, BooksAgree, Settled
    <2>3. Due(rg) = 0
        BY <2>1 DEF Due, Uncharged
    <2>4. /\ owed[rg] \in Nat /\ k * U32 \in Nat
          /\ spent[rg] \in Nat /\ forgone[rg] \in Nat /\ CostOf(report, rg) \in Nat
        BY <2>1, AccountedType
    <2>5. accounted(rg) \in Nat /\ Accounted(rg) = accounted(rg)
        BY <2>3, <2>4 DEF Accounted
    <2> HIDE DEF accounted
    <2>6. owed[rg] - accounted(rg) = k * U32
        BY <2>2, <2>4, <2>5
    <2>7. (k * U32) % U32 = 0
        BY MultipleWraps
    <2>8. k = 0 => k * U32 = 0
        OBVIOUS
    <2>9. (owed[rg] - accounted(rg)) % U32 = 0
        BY <2>6, <2>7
    <2>10. NoWrap => owed[rg] - accounted(rg) = 0
        BY <2>2, <2>6, <2>8
    <2>11. accounted(rg) <= owed[rg]
        BY <2>4, <2>5, <2>6
    <2>12. NoWrap => accounted(rg) = owed[rg]
        BY <2>4, <2>5, <2>10
    <2> QED
        BY <2>9, <2>11, <2>12
<1> QED
    BY <1>1, Invariance, UsageInvariance, PTL

\* Units are granted only against a reservation that holds money, or announced
\* as the last, whatever was late or lost.
THEOREM GrantsAreBacked == Spec => []GrantBacked
<1>1. UsageInv => GrantBacked
    BY DEF UsageInv
<1> QED
    BY <1>1, UsageInvariance, PTL

-----------------------------------------------------------------------------
(* What is pending is the sum of what is in flight.                        *)

LEMMA InFlightType ==
    ASSUME NEW m \in Exchange \cup {NoExchange}, NEW rg \in RatingGroups
    PROVE  InFlight(m, rg) \in Int
<1>1. CASE m = NoExchange
    BY <1>1 DEF InFlight, NoExchange
<1>2. CASE m \in Exchange
    BY <1>2, MovedType DEF InFlight
<1> QED
    BY <1>1, <1>2

\* Nothing is in flight where no exchange is.
LEMMA NoneInFlight ==
    ASSUME NEW rg \in RatingGroups
    PROVE  InFlight(NoExchange, rg) = 0
BY DEF InFlight, NoExchange

LEMMA SlotsFinite == IsFiniteSet(Slots) /\ 0 \in Slots
BY FS_Interval DEF Slots

\* One slot comes further, and what is pending with it.
LEMMA FlightChanges ==
    ASSUME PendingInFlight, NEW s \in Slots,
           acct \in [Slots -> Exchange \cup {NoExchange}],
           acct' \in [Slots -> Exchange \cup {NoExchange}],
           \A t \in Slots \ {s} : acct'[t] = acct[t],
           \A rg \in RatingGroups : pending'[rg] =
               pending[rg] - InFlight(acct[s], rg) + InFlight(acct'[s], rg)
    PROVE  PendingInFlight'
<1> SUFFICES ASSUME NEW rg \in RatingGroups
             PROVE  pending'[rg] = SumFunction([t \in Slots |-> InFlight(acct'[t], rg)])
    BY DEF PendingInFlight
<1> DEFINE w == [t \in Slots |-> InFlight(acct[t], rg)]
           v == [t \in Slots |-> InFlight(acct'[t], rg)]
<1>1. w \in [Slots -> Int] /\ v \in [Slots -> Int]
    BY InFlightType
<1>2. \A t \in Slots \ {s} : v[t] = w[t]
    OBVIOUS
<1>3. w[s] = InFlight(acct[s], rg) /\ v[s] = InFlight(acct'[s], rg)
    OBVIOUS
<1>4. pending[rg] = SumFunction(w)
    BY DEF PendingInFlight
<1> HIDE DEF v, w
<1>5. SumFunction(v) = SumFunction(w) - w[s] + v[s]
    BY <1>1, <1>2, SlotsFinite, SumChange
<1>6. pending'[rg] = SumFunction(v)
    BY <1>3, <1>4, <1>5
<1> QED
    BY <1>6 DEF v

\* Slot s is done with, and takes what slot 0 has.
LEMMA FlightHandedOver ==
    ASSUME PendingInFlight, NEW s \in Slots,
           acct \in [Slots -> Exchange \cup {NoExchange}],
           acct' \in [Slots -> Exchange \cup {NoExchange}],
           acct'[0] = NoExchange,
           s # 0 => acct'[s] = acct[0],
           \A t \in Slots \ {0, s} : acct'[t] = acct[t],
           \A rg \in RatingGroups : pending'[rg] = pending[rg] - InFlight(acct[s], rg)
    PROVE  PendingInFlight'
<1> SUFFICES ASSUME NEW rg \in RatingGroups
             PROVE  pending'[rg] = SumFunction([t \in Slots |-> InFlight(acct'[t], rg)])
    BY DEF PendingInFlight
<1> DEFINE w == [t \in Slots |-> InFlight(acct[t], rg)]
           v == [t \in Slots |-> InFlight(acct'[t], rg)]
<1>1. w \in [Slots -> Int] /\ v \in [Slots -> Int]
    BY InFlightType
<1>2. \A t \in Slots \ {0, s} : v[t] = w[t]
    OBVIOUS
<1>3. v[0] = 0 /\ w[s] = InFlight(acct[s], rg) /\ (0 # s => v[s] = w[0])
    BY SlotsFinite, NoneInFlight
<1>4. pending[rg] = SumFunction(w)
    BY DEF PendingInFlight
<1> HIDE DEF v, w
<1>5. SumFunction(v) = SumFunction(w) - w[s]
    BY <1>1, <1>2, <1>3, SlotsFinite, SumHandedOver
<1>6. pending'[rg] = SumFunction(v)
    BY <1>3, <1>4, <1>5
<1> QED
    BY <1>6 DEF v

\* Where no slot holds an exchange nothing is in flight.
LEMMA NothingInFlight ==
    ASSUME NEW held, held = [s \in Slots |-> NoExchange], NEW rg \in RatingGroups
    PROVE  SumFunction([s \in Slots |-> InFlight(held[s], rg)]) = 0
<1> DEFINE w == [s \in Slots |-> InFlight(held[s], rg)]
<1>1. w \in [Slots -> Int] /\ \A s \in Slots : w[s] = 0
    BY NoneInFlight
<1> HIDE DEF w
<1>2. SumFunction(w) = 0
    BY <1>1, SlotsFinite, SumOfZeros
<1> QED
    BY <1>2 DEF w

-----------------------------------------------------------------------------
(* Every step keeps it so.                                                 *)

\* The account server and its client are not involved.
LEMMA FlightStands ==
    ASSUME PendingInFlight, UNCHANGED <<acct, pending>>
    PROVE  PendingInFlight'
BY DEF PendingInFlight

\* A request is sent: nothing is moved yet.
LEMMA FlightSent ==
    ASSUME IInv, IInv', PendingInFlight, acct[0] = NoExchange, acct'[0].phase = "sent",
           \A t \in Slots \ {0} : acct'[t] = acct[t], UNCHANGED pending
    PROVE  PendingInFlight'
<1>1. \A rg \in RatingGroups : InFlight(acct[0], rg) = 0 /\ InFlight(acct'[0], rg) = 0
    BY NoneInFlight DEF InFlight
<1>2. \A rg \in RatingGroups : pending[rg] \in Int
    BY DEF IInv, TypeOK
<1>3. \A rg \in RatingGroups :
          pending'[rg] = pending[rg] - InFlight(acct[0], rg) + InFlight(acct'[0], rg)
    BY <1>1, <1>2
<1> QED
    BY <1>3, SlotsFinite, FlightChanges DEF IInv, TypeOK

LEMMA FlightAsked ==
    ASSUME IInv, IInv', PendingInFlight, AskReservation \/ Settle
    PROVE  PendingInFlight'
<1>1. pc \notin Waiting /\ UNCHANGED pending
    BY DEF AskReservation, Settle, ChargeReservation, Waiting
<1>2. acct[0] = NoExchange /\ acct \in [Slots -> Exchange \cup {NoExchange}]
    BY <1>1 DEF IInv, OwnExchange, TypeOK
<1>3. CASE UNCHANGED acct
    BY <1>1, <1>3, FlightStands
<1>4. CASE \E kind, amount : acct' = [acct EXCEPT ![0] =
              [phase |-> "sent", kind |-> kind, rg |-> usage.rg, amount |-> amount,
               seen |-> 0]]
    <2>1. acct'[0].phase = "sent" /\ \A t \in Slots \ {0} : acct'[t] = acct[t]
        BY <1>2, <1>4, SlotsFinite
    <2> QED
        BY <1>1, <1>2, <2>1, FlightSent
<1> QED
    BY <1>3, <1>4 DEF AskReservation, Settle, SendCCR, DialFails

\* An answer is received: what it moved is no longer pending.
LEMMA FlightReceived ==
    ASSUME IInv, PendingInFlight, NEW s \in Slots, TakeCCA(s)
    PROVE  PendingInFlight'
<1>1. TypeOK
    BY DEF IInv
<1>2. ASSUME NEW rg \in RatingGroups
      PROVE  pending'[rg] = pending[rg] - InFlight(acct[s], rg)
    <2>1. acct[s] \in Exchange /\ pending[rg] \in Int
        BY <1>1, TakeType DEF TypeOK
    <2>2. acct[s].rg \in RatingGroups /\ Moved(acct[s]) \in Int
        BY <2>1, MovedType DEF Exchange
    <2>3. /\ acct[s].phase = "answered"
          /\ pending' = [pending EXCEPT ![acct[s].rg] = pending[acct[s].rg] - Moved(acct[s])]
        BY DEF TakeCCA
    <2>4. CASE acct[s].rg = rg
        BY <1>1, <2>3, <2>4 DEF TypeOK, InFlight
    <2>5. CASE acct[s].rg # rg
        <3>1. pending'[rg] = pending[rg]
            BY <1>1, <2>3, <2>5 DEF TypeOK
        <3>2. InFlight(acct[s], rg) = 0
            BY <2>5 DEF InFlight
        <3> QED
            BY <2>1, <3>1, <3>2
    <2> QED
        BY <2>4, <2>5
<1> QED
    BY <1>1, <1>2, TakeType, FlightHandedOver DEF TypeOK

\* A request given up on moves to an empty slot with what it has moved.
LEMMA FlightAbandoned ==
    ASSUME IInv, IInv', PendingInFlight, AbandonAccount
    PROVE  PendingInFlight'
<1> DEFINE s == nAcctTimeouts + 1
<1>1. s \in Slots /\ s # 0 /\ s > nAcctTimeouts
    BY DEF IInv, TypeOK, Slots, AbandonAccount
<1>2. acct[s] = NoExchange
    BY <1>1 DEF IInv, FreeSlots
<1>3. /\ acct' = [acct EXCEPT ![s] = acct[0], ![0] = NoExchange]
      /\ UNCHANGED pending
    BY DEF AbandonAccount
<1> HIDE DEF s
<1>4. /\ acct \in [Slots -> Exchange \cup {NoExchange}]
      /\ acct' \in [Slots -> Exchange \cup {NoExchange}]
    BY DEF IInv, TypeOK
<1>5. /\ acct'[0] = NoExchange /\ acct'[s] = acct[0]
      /\ \A t \in Slots \ {0, s} : acct'[t] = acct[t]
    BY <1>1, <1>3, <1>4, SlotsFinite
<1>6. ASSUME NEW rg \in RatingGroups
      PROVE  pending'[rg] = pending[rg] - InFlight(acct[s], rg)
    <2>1. pending[rg] \in Int
        BY DEF IInv, TypeOK
    <2>2. InFlight(acct[s], rg) = 0
        BY <1>2, NoneInFlight
    <2> QED
        BY <1>3, <2>1, <2>2
<1> QED
    BY <1>1, <1>4, <1>5, <1>6, FlightHandedOver

\* The server has read the quota, and moves nothing until it answers.
LEMMA FlightRead ==
    ASSUME IInv, IInv', PendingInFlight, NEW s \in Slots, ReadQuota(s)
    PROVE  PendingInFlight'
<1>1. /\ acct \in [Slots -> Exchange \cup {NoExchange}]
      /\ acct' \in [Slots -> Exchange \cup {NoExchange}]
      /\ UNCHANGED pending
    BY DEF IInv, TypeOK, ReadQuota, history
<1>2. acct[s] \in Exchange /\ acct[s].phase = "sent"
    BY <1>1, Occupied DEF ReadQuota
<1>3. acct'[s].phase = "read" /\ \A t \in Slots \ {s} : acct'[t] = acct[t]
    BY <1>1, <1>2 DEF ReadQuota, Exchange
<1>4. ASSUME NEW rg \in RatingGroups
      PROVE  pending'[rg] = pending[rg] - InFlight(acct[s], rg) + InFlight(acct'[s], rg)
    <2>1. pending[rg] \in Int
        BY DEF IInv, TypeOK
    <2>2. InFlight(acct[s], rg) = 0 /\ InFlight(acct'[s], rg) = 0
        BY <1>2, <1>3 DEF InFlight
    <2> QED
        BY <1>1, <2>1, <2>2
<1> QED
    BY <1>1, <1>3, <1>4, FlightChanges

\* The server has answered: what it moved is pending.
LEMMA FlightAnswered ==
    ASSUME IInv, IInv', PendingInFlight, NEW s \in Slots, Answered(s)
    PROVE  PendingInFlight'
<1>1. /\ acct \in [Slots -> Exchange \cup {NoExchange}]
      /\ acct' \in [Slots -> Exchange \cup {NoExchange}]
      /\ pending \in [RatingGroups -> Int]
    BY DEF IInv, TypeOK
<1>2. acct[s] \in Exchange /\ acct[s].phase = "read"
    BY <1>1, Occupied DEF Answered
<1>3. /\ acct'[s] = [acct[s] EXCEPT !.phase = "answered"]
      /\ \A t \in Slots \ {s} : acct'[t] = acct[t]
      /\ pending' = [pending EXCEPT ![acct[s].rg] = pending[acct[s].rg] + Moved(acct[s])]
    BY <1>1, <1>2 DEF Answered
<1>4. /\ acct'[s].phase = "answered" /\ acct'[s].rg = acct[s].rg
      /\ Moved(acct'[s]) = Moved(acct[s])
    BY <1>2, <1>3 DEF Exchange, Moved
<1>5. acct[s].rg \in RatingGroups /\ Moved(acct[s]) \in Int
    BY <1>2, MovedType DEF Exchange
<1>6. ASSUME NEW rg \in RatingGroups
      PROVE  pending'[rg] = pending[rg] - InFlight(acct[s], rg) + InFlight(acct'[s], rg)
    <2>1. InFlight(acct[s], rg) = 0 /\ pending[rg] \in Int
        BY <1>1, <1>2 DEF InFlight
    <2>2. CASE acct[s].rg = rg
        <3>1. pending'[rg] = pending[rg] + Moved(acct[s])
            BY <1>1, <1>3, <2>2
        <3>2. InFlight(acct'[s], rg) = Moved(acct[s])
            BY <1>4, <2>2 DEF InFlight
        <3> QED
            BY <1>5, <2>1, <3>1, <3>2
    <2>3. CASE acct[s].rg # rg
        <3>1. pending'[rg] = pending[rg]
            BY <1>1, <1>3, <2>3
        <3>2. InFlight(acct'[s], rg) = 0
            BY <1>4, <2>3 DEF InFlight
        <3> QED
            BY <2>1, <3>1, <3>2
    <2> QED
        BY <2>2, <2>3
<1> QED
    BY <1>1, <1>3, <1>6, FlightChanges

LEMMA FlightCrashed ==
    ASSUME Crash
    PROVE  PendingInFlight'
<1> SUFFICES ASSUME NEW rg \in RatingGroups
             PROVE  pending'[rg] = SumFunction([s \in Slots |-> InFlight(acct'[s], rg)])
    BY DEF PendingInFlight
<1>1. acct' = [s \in Slots |-> NoExchange] /\ pending'[rg] = 0
    BY DEF Crash
<1>2. SumFunction([s \in Slots |-> InFlight(acct'[s], rg)]) = 0
    BY <1>1, NothingInFlight
<1> QED
    BY <1>1, <1>2

LEMMA NextFlight == IInv /\ IInv' /\ PendingInFlight /\ [Next]_vars => PendingInFlight'
<1> SUFFICES ASSUME IInv, IInv', PendingInFlight, [Next]_vars
             PROVE  PendingInFlight'
    OBVIOUS
<1> USE DEF server, context, request, bounds, history
<1>1. CASE Processor
    <2>1. CASE \/ EndRequest \/ ReserveMode \/ DebitMode \/ SkipGranting
               \/ TakeUsage
        BY <2>1, FlightStands DEF EndRequest, ReserveMode, DebitMode, SkipGranting,
                                  TakeUsage
    <2>2. CASE GetUnitCost \/ UseReservation \/ GrantUnits \/ RefreshUnitCost \/ QuotePrice
        BY <2>2, FlightStands DEF GetUnitCost, UseReservation, ChargeReservation,
                                  GrantUnits, RefreshUnitCost, QuotePrice
    <2>3. CASE AskReservation \/ Settle \/ AbandonAccount
        BY <2>3, FlightAsked, FlightAbandoned
    <2>4. CASE \E s \in Slots :
                  ReceiveReservation(s) \/ PanicOnAnswer(s) \/ ReceiveSettlement(s)
        BY <2>4, FlightReceived DEF ReceiveReservation, PanicOnAnswer, ReceiveSettlement
    <2> QED
        BY <1>1, <2>1, <2>2, <2>3, <2>4 DEF Processor
<1>2. CASE RequestBegins
    BY <1>2, FlightStands DEF RequestBegins, BeginRequest
<1>3. CASE Server
    BY <1>3, FlightRead, FlightAnswered DEF Server, WriteQuota, FailWrite
<1>4. CASE Operator
    BY <1>4, FlightStands DEF Operator, Recharge, NotifyRecharge
<1>5. CASE Crash
    BY <1>5, FlightCrashed
<1>6. CASE Finished \/ UNCHANGED vars
    BY <1>6, FlightStands DEF Finished, vars
<1> QED
    BY <1>1, <1>2, <1>3, <1>4, <1>5, <1>6 DEF Next, RequestBegins

\* What is pending is what the answers nobody has received yet moved, however
\* many there are and however requests time out and receive one another's.
THEOREM PendingIsInFlight == Spec => []PendingInFlight
<1>1. Init => PendingInFlight
    <2> SUFFICES ASSUME Init, NEW rg \in RatingGroups
                 PROVE  pending[rg] = SumFunction([s \in Slots |-> InFlight(acct[s], rg)])
        BY DEF PendingInFlight
    <2>1. acct = [s \in Slots |-> NoExchange] /\ pending[rg] = 0
        BY DEF Init
    <2>2. SumFunction([s \in Slots |-> InFlight(acct[s], rg)]) = 0
        BY <2>1, NothingInFlight
    <2> QED
        BY <2>1, <2>2
<1> QED
    BY <1>1, NextFlight, Invariance, PTL DEF Spec
=============================================================================
