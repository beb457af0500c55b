--------------------------- MODULE Extents_proofs ---------------------------
(***************************************************************************)
(* Proofs about Extents, for every file, every cut of it into records and  *)
(* every batch size: the loop reads exactly the records that begin before  *)
(* the end of the file, the merge keeps what they say, and so the number   *)
(* of runs answers the tool's question.                                    *)
(***************************************************************************)
EXTENDS Extents, TLAPS, FiniteSetTheorems, FunctionTheorems,
        WellFoundedInduction

-----------------------------------------------------------------------------
(***************************************************************************)
(* Order: least and greatest numbers, and the members of a set in a row.   *)
(***************************************************************************)

\* Every set of natural numbers has a least one.
LEMMA LeastOf ==
  ASSUME NEW T \in SUBSET Nat, T # {}
  PROVE  \E m \in T : \A x \in T : m <= x
<1>1. PICK m \in T : \A x \in T : ~(<<x, m>> \in OpToRel(<, Nat))
  BY WFMin, NatLessThanWellFounded
<1>2. \A x \in T : ~(x < m)
  BY <1>1 DEF OpToRel
<1>. QED  BY <1>2

\* Every set of numbers with a bound has a greatest one.
LEMMA GreatestOf ==
  ASSUME NEW n \in Nat, NEW T \in SUBSET (0 .. n), T # {}
  PROVE  \E m \in T : \A x \in T : x <= m
<1>. DEFINE U == {n - x : x \in T}
<1>1. U \in SUBSET Nat /\ U # {}
  <2>1. \A x \in T : n - x \in Nat
    OBVIOUS
  <2>. QED  BY <2>1
<1>2. PICK u \in U : \A y \in U : u <= y
  BY <1>1, LeastOf
<1>3. PICK m \in T : u = n - m
  OBVIOUS
<1>4. \A x \in T : n - m <= n - x
  BY <1>2, <1>3
<1>. QED  BY <1>4

\* The sets upTo[x] grow from one member of S to the next.
Grows(S, upTo) ==
  /\ DOMAIN upTo = S
  /\ \A x \in S : upTo[x] \subseteq S /\ x \in upTo[x]
  /\ \A x, y \in S : x # y =>
       \/ upTo[x] \subseteq upTo[y] /\ y \notin upTo[x]
       \/ upTo[y] \subseteq upTo[x] /\ x \notin upTo[y]

\* E has every member of S once, in the order in which the sets grow.
LaidOut(S, upTo, E) ==
  /\ Cardinality(S) \in Nat
  /\ E \in [1 .. Cardinality(S) -> S]
  /\ \A x \in S : \E k \in 1 .. Cardinality(S) : E[k] = x
  /\ \A i, j \in 1 .. Cardinality(S) :
       i < j => E[i] # E[j] /\ E[i] \in upTo[E[j]]

\* What Ranked does, for any order of any finite set.
LEMMA RankedLemma ==
  ASSUME NEW S, IsFiniteSet(S), NEW upTo, Grows(S, upTo)
  PROVE  LaidOut(S, upTo, Ranked(upTo))
<1>. DEFINE n == Cardinality(S)
            r == [x \in S |-> Cardinality(upTo[x])]
            E == Ranked(upTo)
<1>0. /\ DOMAIN upTo = S
      /\ \A x \in S : upTo[x] \subseteq S /\ x \in upTo[x]
      /\ \A x, y \in S : x # y =>
           \/ upTo[x] \subseteq upTo[y] /\ y \notin upTo[x]
           \/ upTo[y] \subseteq upTo[x] /\ x \notin upTo[y]
  BY DEF Grows
<1>1. n \in Nat
  BY FS_CardinalityType
<1>2. \A x \in S : IsFiniteSet(upTo[x]) /\ r[x] \in 1 .. n
  <2>. TAKE x \in S
  <2>1. IsFiniteSet(upTo[x]) /\ Cardinality(upTo[x]) <= n
    BY <1>0, FS_Subset
  <2>2. Cardinality(upTo[x]) \in Nat
    BY <2>1, FS_CardinalityType
  <2>3. Cardinality(upTo[x]) # 0
    BY <1>0, <2>1, FS_EmptySet
  <2>. QED  BY <1>1, <2>1, <2>2, <2>3
<1>3. \A x, y \in S : x # y /\ upTo[x] \subseteq upTo[y] /\ y \notin upTo[x]
        => r[x] < r[y]
  <2>. SUFFICES ASSUME NEW x \in S, NEW y \in S,
                       upTo[x] \subseteq upTo[y], y \notin upTo[x]
                PROVE  r[x] < r[y]
    OBVIOUS
  <2>1. Cardinality(upTo[x]) <= Cardinality(upTo[y])
    BY <1>2, FS_Subset
  <2>2. upTo[x] # upTo[y]
    BY <1>0
  <2>3. Cardinality(upTo[x]) # Cardinality(upTo[y])
    BY <1>2, <2>2, FS_Subset
  <2>. QED  BY <1>2, <2>1, <2>3
<1>4. r \in Injection(S, 1 .. n)
  BY <1>0, <1>2, <1>3 DEF Injection, IsInjective
<1>5. r \in Surjection(S, 1 .. n)
  <2>1. IsFiniteSet(1 .. n) /\ Cardinality(1 .. n) = n
    BY <1>1, FS_Interval
  <2>. QED  BY <1>4, <2>1, FS_Injection
<1>6. \A k \in 1 .. n : \E x \in S : Cardinality(upTo[x]) = k
  BY <1>5 DEF Surjection
<1>7. /\ E = [k \in 1 .. n |-> CHOOSE x \in S : Cardinality(upTo[x]) = k]
      /\ \A k \in 1 .. n : E[k] \in S /\ r[E[k]] = k
  BY <1>0, <1>6 DEF Ranked
<1>8. \A x \in S : \E k \in 1 .. n : E[k] = x
  BY <1>2, <1>4, <1>7 DEF Injection, IsInjective
<1>9. ASSUME NEW i \in 1 .. n, NEW j \in 1 .. n, i < j
      PROVE  E[i] # E[j] /\ E[i] \in upTo[E[j]]
  <2>1. E[i] # E[j]
    <3>1. r[E[i]] = i /\ r[E[j]] = j /\ i # j
      BY <1>1, <1>7, <1>9
    <3>. QED  BY <3>1
  <2>2. CASE upTo[E[i]] \subseteq upTo[E[j]]
    BY <1>0, <1>7, <2>1, <2>2
  <2>3. CASE upTo[E[j]] \subseteq upTo[E[i]] /\ E[i] \notin upTo[E[j]]
    <3>1. r[E[j]] < r[E[i]]
      BY <1>3, <1>7, <2>1, <2>3
    <3>. QED  BY <1>7, <1>9, <3>1
  <2>. QED  BY <1>0, <1>7, <2>1, <2>2, <2>3
<1>. QED  BY <1>1, <1>7, <1>8, <1>9 DEF LaidOut

\* Ascending: the numbers of a finite set from the least to the greatest.
LEMMA AscendingLemma ==
  ASSUME NEW S, IsFiniteSet(S), \A x \in S : x \in Int
  PROVE  /\ Cardinality(S) \in Nat
         /\ Ascending(S) \in [1 .. Cardinality(S) -> S]
         /\ \A x \in S : \E k \in 1 .. Cardinality(S) : Ascending(S)[k] = x
         /\ \A i, j \in 1 .. Cardinality(S) :
              i < j => Ascending(S)[i] < Ascending(S)[j]
<1>. DEFINE upTo == [x \in S |-> {y \in S : y <= x}]
<1>1. /\ DOMAIN upTo = S
      /\ \A x \in S : upTo[x] \subseteq S /\ x \in upTo[x]
  OBVIOUS
<1>2. \A x, y \in S : y \in upTo[x] <=> y <= x
  OBVIOUS
<1>3. Ascending(S) = Ranked(upTo)
  BY DEF Ascending
<1>. HIDE DEF upTo
<1>4. \A x, y \in S : x # y =>
        \/ upTo[x] \subseteq upTo[y] /\ y \notin upTo[x]
        \/ upTo[y] \subseteq upTo[x] /\ x \notin upTo[y]
  <2>. SUFFICES ASSUME NEW x \in S, NEW y \in S, x # y
                PROVE  \/ upTo[x] \subseteq upTo[y] /\ y \notin upTo[x]
                       \/ upTo[y] \subseteq upTo[x] /\ x \notin upTo[y]
    OBVIOUS
  <2>1. CASE x < y
    BY <1>1, <1>2, <2>1
  <2>2. CASE y < x
    BY <1>1, <1>2, <2>2
  <2>. QED  BY <2>1, <2>2
<1>5. LaidOut(S, upTo, Ranked(upTo))
  BY <1>1, <1>4, RankedLemma DEF Grows
<1>6. ASSUME NEW i \in 1 .. Cardinality(S), NEW j \in 1 .. Cardinality(S), i < j
      PROVE  Ascending(S)[i] < Ascending(S)[j]
  <2>1. PICK x, y \in S : /\ x = Ascending(S)[i] /\ y = Ascending(S)[j]
                          /\ x # y /\ x \in upTo[y]
    BY <1>3, <1>5, <1>6 DEF LaidOut
  <2>. QED  BY <1>2, <2>1
<1>. QED  BY <1>3, <1>5, <1>6 DEF LaidOut

\* InOrder: the records of a finite set by their place in the file.
LEMMA InOrderLemma ==
  ASSUME NEW S, IsFiniteSet(S), \A x \in S : x.logical \in Int,
         \A x, y \in S : x # y => x.logical # y.logical
  PROVE  /\ Cardinality(S) \in Nat
         /\ InOrder(S) \in [1 .. Cardinality(S) -> S]
         /\ \A x \in S : \E k \in 1 .. Cardinality(S) : InOrder(S)[k] = x
         /\ \A i, j \in 1 .. Cardinality(S) :
              i < j => InOrder(S)[i].logical < InOrder(S)[j].logical
<1>. DEFINE upTo == [x \in S |-> {y \in S : y.logical <= x.logical}]
<1>1. /\ DOMAIN upTo = S
      /\ \A x \in S : upTo[x] \subseteq S /\ x \in upTo[x]
  OBVIOUS
<1>2. \A x, y \in S : y \in upTo[x] <=> y.logical <= x.logical
  OBVIOUS
<1>3. InOrder(S) = Ranked(upTo)
  BY DEF InOrder
<1>. HIDE DEF upTo
<1>4. \A x, y \in S : x # y =>
        \/ upTo[x] \subseteq upTo[y] /\ y \notin upTo[x]
        \/ upTo[y] \subseteq upTo[x] /\ x \notin upTo[y]
  <2>. SUFFICES ASSUME NEW x \in S, NEW y \in S, x # y
                PROVE  \/ upTo[x] \subseteq upTo[y] /\ y \notin upTo[x]
                       \/ upTo[y] \subseteq upTo[x] /\ x \notin upTo[y]
    OBVIOUS
  <2>1. CASE x.logical < y.logical
    BY <1>1, <1>2, <2>1
  <2>2. CASE y.logical < x.logical
    BY <1>1, <1>2, <2>2
  <2>. QED  BY <2>1, <2>2
<1>5. LaidOut(S, upTo, Ranked(upTo))
  BY <1>1, <1>4, RankedLemma DEF Grows
<1>6. ASSUME NEW i \in 1 .. Cardinality(S), NEW j \in 1 .. Cardinality(S), i < j
      PROVE  InOrder(S)[i].logical < InOrder(S)[j].logical
  <2>1. PICK x, y \in S : /\ x = InOrder(S)[i] /\ y = InOrder(S)[j]
                          /\ x # y /\ x \in upTo[y]
    BY <1>3, <1>5, <1>6 DEF LaidOut
  <2>. QED  BY <1>2, <2>1
<1>. QED  BY <1>3, <1>5, <1>6 DEF LaidOut

-----------------------------------------------------------------------------
(***************************************************************************)
(* merge_runs: the sort, and the chains of records that join.              *)
(***************************************************************************)

LEMMA FieldTypes ==
  \A x \in RecordType :
    /\ x.logical \in Nat /\ x.physical \in Nat /\ x.length \in Nat
    /\ End(x) \in Nat /\ End(x) = x.logical + x.length
BY DEF RecordType, End

\* A row of records that hold something, by their place in the file.
Row(q) ==
  /\ q \in Seq(RecordType)
  /\ \A k \in DOMAIN q : q[k].length > 0
  /\ \A j, k \in DOMAIN q : j < k => q[j].logical <= q[k].logical

\* The sort loses no record but the markers, and takes none twice.
LEMMA SortedLemma ==
  ASSUME NEW extents \in Seq(RecordType)
  PROVE  /\ Row(Sorted(extents))
         /\ \A i \in Real(extents) :
              \E k \in DOMAIN Sorted(extents) : Sorted(extents)[k] = extents[i]
         /\ \A k \in DOMAIN Sorted(extents) :
              \E i \in Real(extents) : Sorted(extents)[k] = extents[i]
         /\ \A j, k \in DOMAIN Sorted(extents) : j < k =>
              \E i, m \in Real(extents) :
                i # m /\ Sorted(extents)[j] = extents[i]
                      /\ Sorted(extents)[k] = extents[m]
<1>. DEFINE S == Real(extents)
            Upto(i) == {j \in S :
                          \/ extents[j].logical < extents[i].logical
                          \/ extents[j].logical = extents[i].logical /\ j <= i}
            upTo == [i \in S |-> Upto(i)]
            at == Ranked(upTo)
            q == Sorted(extents)
<1>1. /\ S \subseteq DOMAIN extents /\ DOMAIN extents = 1 .. Len(extents)
      /\ Len(extents) \in Nat
      /\ \A i \in S : /\ extents[i] \in RecordType /\ i \in Nat
                      /\ extents[i].length > 0 /\ extents[i].logical \in Nat
  <2>1. /\ DOMAIN extents = 1 .. Len(extents) /\ Len(extents) \in Nat
        /\ \A i \in DOMAIN extents : extents[i] \in RecordType
    OBVIOUS
  <2>2. \A i \in S : i \in DOMAIN extents /\ extents[i].length > 0
    BY DEF Real
  <2>3. \A x \in RecordType : x.logical \in Nat
    BY DEF RecordType
  <2>. QED  BY <2>1, <2>2, <2>3
<1>2. IsFiniteSet(S)
  <2>1. IsFiniteSet(1 .. Len(extents))
    BY <1>1, FS_Interval
  <2>. QED  BY <1>1, <2>1, FS_Subset
<1>3. q = [k \in DOMAIN at |-> extents[at[k]]]
  BY DEF Sorted
<1>4. /\ DOMAIN upTo = S
      /\ \A i \in S : upTo[i] = Upto(i)
  OBVIOUS
<1>. HIDE DEF S, upTo
<1>5. Grows(S, upTo)
  <2>1. \A i \in S : upTo[i] \subseteq S /\ i \in upTo[i]
    BY <1>1, <1>4
  <2>2. ASSUME NEW i \in S, NEW j \in S, i # j
        PROVE  \/ upTo[i] \subseteq upTo[j] /\ j \notin upTo[i]
               \/ upTo[j] \subseteq upTo[i] /\ i \notin upTo[j]
    <3>1. CASE \/ extents[i].logical < extents[j].logical
               \/ extents[i].logical = extents[j].logical /\ i < j
      BY <1>1, <1>4, <3>1
    <3>2. CASE \/ extents[j].logical < extents[i].logical
               \/ extents[i].logical = extents[j].logical /\ j < i
      BY <1>1, <1>4, <3>2
    <3>. QED  BY <1>1, <2>2, <3>1, <3>2
  <2>. QED  BY <1>4, <2>1, <2>2 DEF Grows
<1>6. LaidOut(S, upTo, at)
  BY <1>2, <1>5, RankedLemma
<1>. DEFINE n == Cardinality(S)
<1>. HIDE DEF at, q
<1>7. /\ n \in Nat /\ DOMAIN q = 1 .. n /\ at \in [1 .. n -> S]
      /\ \A k \in 1 .. n : q[k] = extents[at[k]] /\ at[k] \in S
  BY <1>3, <1>6 DEF LaidOut
<1>. HIDE DEF n
<1>8. q \in Seq(RecordType) /\ \A k \in DOMAIN q : q[k].length > 0
  <2>1. q = [k \in 1 .. n |-> extents[at[k]]]
    BY <1>3, <1>7
  <2>2. \A k \in 1 .. n : extents[at[k]] \in RecordType
    BY <1>1, <1>7
  <2>3. q \in [1 .. n -> RecordType]
    BY <2>1, <2>2
  <2>. QED  BY <1>1, <1>7, <2>3
<1>9. ASSUME NEW j \in DOMAIN q, NEW k \in DOMAIN q, j < k
      PROVE  /\ q[j].logical <= q[k].logical
             /\ \E i, m \in S : i # m /\ q[j] = extents[i] /\ q[k] = extents[m]
  <2>1. at[j] # at[k] /\ at[j] \in upTo[at[k]]
    BY <1>6, <1>7, <1>9 DEF LaidOut, n
  <2>2. extents[at[j]].logical <= extents[at[k]].logical
    <3>1. at[j] \in S /\ at[k] \in S
      BY <1>7
    <3>2. PICK i \in S, m \in S : i = at[j] /\ m = at[k]
      BY <3>1
    <3>3. i \in upTo[m]
      BY <2>1, <3>2
    <3>4. \/ extents[i].logical < extents[m].logical
          \/ extents[i].logical = extents[m].logical
      BY <1>4, <3>3
    <3>5. extents[i].logical \in Nat /\ extents[m].logical \in Nat
      BY <1>1
    <3>6. extents[i].logical <= extents[m].logical
      BY <3>4, <3>5
    <3>. QED  BY <3>2, <3>6
  <2>. QED  BY <1>7, <2>1, <2>2
<1>10. \A i \in S : \E k \in DOMAIN q : q[k] = extents[i]
  BY <1>6, <1>7 DEF LaidOut, n
<1>11. \A k \in DOMAIN q : \E i \in S : q[k] = extents[i]
  BY <1>7
<1>. QED  BY <1>8, <1>9, <1>10, <1>11 DEF Row, S, q

\* The i-th chain of q: where it begins and where it ends.
Chains(q)   == Cardinality(Starts(q))
First(q, i) == Ascending(Starts(q))[i]
Final(q, i) == IF i = Chains(q) THEN Len(q) ELSE First(q, i + 1) - 1

\* The chains divide the row: each begins where the one before it ends.
LEMMA StartsLemma ==
  ASSUME NEW q \in Seq(RecordType)
  PROVE  /\ Chains(q) \in Nat
         /\ Ascending(Starts(q)) \in [1 .. Chains(q) -> Starts(q)]
         /\ \A i \in 1 .. Chains(q) :
              First(q, i) \in Starts(q) /\ First(q, i) \in 1 .. Len(q)
         /\ \A k \in Starts(q) : \E i \in 1 .. Chains(q) : First(q, i) = k
         /\ \A i, j \in 1 .. Chains(q) : i < j => First(q, i) < First(q, j)
<1>. DEFINE S == Starts(q)
<1>1. S \subseteq 1 .. Len(q) /\ \A k \in S : k \in Int
  BY DEF Starts
<1>2. IsFiniteSet(S)
  <2>1. IsFiniteSet(1 .. Len(q))
    BY FS_Interval
  <2>. QED  BY <1>1, <2>1, FS_Subset
<1>. HIDE DEF S
<1>3. /\ Cardinality(S) \in Nat
      /\ Ascending(S) \in [1 .. Cardinality(S) -> S]
      /\ \A x \in S : \E k \in 1 .. Cardinality(S) : Ascending(S)[k] = x
      /\ \A i, j \in 1 .. Cardinality(S) :
           i < j => Ascending(S)[i] < Ascending(S)[j]
  BY <1>1, <1>2, AscendingLemma
<1>. QED  BY <1>1, <1>3 DEF Chains, First, S

LEMMA ChainsLemma ==
  ASSUME NEW q \in Seq(RecordType)
  PROVE  /\ \A i \in 1 .. Chains(q) : Final(q, i) \in First(q, i) .. Len(q)
         /\ \A k \in 1 .. Len(q) : \E i \in 1 .. Chains(q) :
              k \in First(q, i) .. Final(q, i)
         /\ \A i, j \in 1 .. Chains(q) : i < j => Final(q, i) < First(q, j)
         /\ \A i \in 1 .. Chains(q) : \A k \in First(q, i) + 1 .. Final(q, i) :
              Joins(q[k - 1], q[k])
         /\ \A i \in 1 .. Chains(q) : i > 1 =>
              /\ Final(q, i - 1) = First(q, i) - 1
              /\ ~Joins(q[First(q, i) - 1], q[First(q, i)])
<1>. DEFINE n == Chains(q)
<1>1. /\ n \in Nat
      /\ \A i \in 1 .. n : First(q, i) \in Starts(q) /\ First(q, i) \in 1 .. Len(q)
      /\ \A k \in Starts(q) : \E i \in 1 .. n : First(q, i) = k
      /\ \A i, j \in 1 .. n : i < j => First(q, i) < First(q, j)
  BY StartsLemma
<1>. HIDE DEF n
<1>2. ASSUME NEW i \in 1 .. n
      PROVE  /\ i = n => Final(q, i) = Len(q)
             /\ i # n => i + 1 \in 1 .. n /\ Final(q, i) = First(q, i + 1) - 1
  BY <1>1 DEF Final, n
<1>3. ASSUME NEW i \in 1 .. n
      PROVE  Final(q, i) \in First(q, i) .. Len(q)
  <2>1. CASE i = n
    BY <1>1, <1>2, <2>1
  <2>2. CASE i # n
    BY <1>1, <1>2, <2>2
  <2>. QED  BY <2>1, <2>2
<1>4. ASSUME NEW i \in 1 .. n, NEW j \in 1 .. n, i < j
      PROVE  Final(q, i) < First(q, j)
  <2>1. i # n /\ i + 1 \in 1 .. n /\ Final(q, i) = First(q, i + 1) - 1
    BY <1>1, <1>2, <1>4
  <2>2. i + 1 = j \/ First(q, i + 1) < First(q, j)
    BY <1>1, <1>4, <2>1
  <2>. QED  BY <1>1, <2>1, <2>2
<1>5. ASSUME NEW k \in 1 .. Len(q)
      PROVE  \E i \in 1 .. n : k \in First(q, i) .. Final(q, i)
  <2>. DEFINE T == {i \in 1 .. n : First(q, i) <= k}
  <2>1. 1 \in Starts(q)
    BY DEF Starts
  <2>2. PICK o \in 1 .. n : First(q, o) = 1
    BY <1>1, <2>1
  <2>3. T \in SUBSET (0 .. n) /\ T # {}
    <3>1. o \in T
      BY <2>2
    <3>2. \A x \in T : x \in 0 .. n
      OBVIOUS
    <3>. QED  BY <3>1, <3>2
  <2>4. PICK i \in T : \A x \in T : x <= i
    BY <1>1, <2>3, GreatestOf
  <2>5. CASE i = n
    BY <1>1, <1>2, <2>4, <2>5
  <2>6. CASE i # n
    <3>1. i + 1 \in 1 .. n /\ i + 1 \notin T /\ Final(q, i) = First(q, i + 1) - 1
      BY <1>1, <1>2, <2>4, <2>6
    <3>2. ~(First(q, i + 1) <= k)
      BY <3>1
    <3>. QED  BY <1>1, <2>4, <3>1, <3>2
  <2>. QED  BY <2>5, <2>6
<1>6. ASSUME NEW i \in 1 .. n, NEW k \in First(q, i) + 1 .. Final(q, i)
      PROVE  Joins(q[k - 1], q[k])
  <2>1. k \in 1 .. Len(q) /\ k # 1 /\ k > First(q, i)
    BY <1>1, <1>3
  <2>2. k \notin Starts(q)
    <3>. SUFFICES ASSUME k \in Starts(q)
                  PROVE  FALSE
      OBVIOUS
    <3>1. PICK j \in 1 .. n : First(q, j) = k
      BY <1>1
    <3>2. CASE i < j
      BY <1>1, <1>3, <1>4, <3>1, <3>2
    <3>3. CASE j <= i
      BY <1>1, <2>1, <3>1, <3>3
    <3>. QED  BY <1>1, <3>2, <3>3
  <2>. QED  BY <2>1, <2>2 DEF Starts
<1>7. ASSUME NEW i \in 1 .. n, i > 1
      PROVE  /\ Final(q, i - 1) = First(q, i) - 1
             /\ ~Joins(q[First(q, i) - 1], q[First(q, i)])
  <2>1. i - 1 \in 1 .. n /\ i - 1 # n /\ (i - 1) + 1 = i /\ i - 1 < i
    BY <1>1, <1>7
  <2>2. Final(q, i - 1) = First(q, i) - 1
    BY <1>2, <2>1
  <2>3. First(q, i) # 1 /\ First(q, i) \in Starts(q)
    BY <1>1, <2>1
  <2>. QED  BY <2>2, <2>3 DEF Starts
<1>. QED  BY <1>3, <1>4, <1>5, <1>6, <1>7 DEF n

\* Within a chain, address and place differ by one number, and the records
\* leave nothing out.
LEMMA OffsetLemma ==
  ASSUME NEW q, Row(q), NEW i \in 1 .. Chains(q),
         NEW k \in First(q, i) .. Final(q, i)
  PROVE  /\ q[k].physical - q[k].logical
              = q[First(q, i)].physical - q[First(q, i)].logical
         /\ \A b \in q[First(q, i)].logical .. End(q[k]) - 1 :
              \E j \in First(q, i) .. k : b \in q[j].logical .. End(q[j]) - 1
<1>. DEFINE f == First(q, i)
            l == Final(q, i)
            Good(m) ==
              /\ q[m].physical - q[m].logical = q[f].physical - q[f].logical
              /\ \A b \in q[f].logical .. End(q[m]) - 1 :
                   \E j \in f .. m : b \in q[j].logical .. End(q[j]) - 1
            Bad == {m \in f .. l : ~Good(m)}
<1>1. /\ q \in Seq(RecordType)
      /\ f \in 1 .. Len(q) /\ l \in f .. Len(q)
      /\ \A m \in f + 1 .. l : Joins(q[m - 1], q[m])
  BY StartsLemma, ChainsLemma DEF Row
<1>. HIDE DEF f, l
<1>2. \A m \in f .. l : /\ m \in 1 .. Len(q) /\ m \in Nat
                        /\ q[m].logical \in Nat /\ q[m].physical \in Nat
                        /\ q[m].length \in Nat /\ End(q[m]) \in Nat
                        /\ End(q[m]) = q[m].logical + q[m].length
  <2>1. \A m \in 1 .. Len(q) : q[m] \in RecordType
    BY <1>1
  <2>2. \A m \in f .. l : m \in 1 .. Len(q) /\ m \in Nat
    BY <1>1
  <2>. QED  BY <2>1, <2>2, FieldTypes
<1>3. Good(f)
  BY <1>1
<1>4. ASSUME NEW m \in f + 1 .. l, Good(m - 1)
      PROVE  Good(m)
  <2>1. m \in f .. l /\ m - 1 \in f .. l /\ Joins(q[m - 1], q[m])
    BY <1>1
  <2>2. /\ q[m].logical = q[m - 1].logical + q[m - 1].length
        /\ q[m].physical = q[m - 1].physical + q[m - 1].length
        /\ q[m].logical = End(q[m - 1])
    BY <2>1 DEF Joins, End
  <2>3. q[m].physical - q[m].logical = q[f].physical - q[f].logical
    <3>1. q[m - 1].physical - q[m - 1].logical = q[f].physical - q[f].logical
      BY <1>4
    <3>2. /\ q[m - 1].physical \in Nat /\ q[m - 1].logical \in Nat
          /\ q[m - 1].length \in Nat
      BY <1>2, <2>1
    <3>. QED  BY <2>2, <3>1, <3>2
  <2>4. ASSUME NEW b \in q[f].logical .. End(q[m]) - 1
        PROVE  \E j \in f .. m : b \in q[j].logical .. End(q[j]) - 1
    <3>0. End(q[m - 1]) \in Int /\ End(q[m]) \in Int
      BY <1>2, <2>1
    <3>1. CASE b < End(q[m - 1])
      <4>1. b \in q[f].logical .. End(q[m - 1]) - 1
        BY <1>1, <1>2, <2>1, <3>0, <3>1
      <4>2. PICK j \in f .. m - 1 : b \in q[j].logical .. End(q[j]) - 1
        BY <1>4, <4>1
      <4>. QED  BY <1>1, <4>2
    <3>2. CASE b >= End(q[m - 1])
      BY <1>1, <1>2, <2>1, <2>2, <3>0, <3>2
    <3>. QED  BY <1>1, <1>2, <3>0, <3>1, <3>2
  <2>. QED  BY <2>3, <2>4
<1>. HIDE DEF Good
<1>5. Bad = {}
  <2>. SUFFICES ASSUME Bad # {}
                PROVE  FALSE
    OBVIOUS
  <2>1. Bad \in SUBSET Nat
    BY <1>2
  <2>2. PICK m \in Bad : \A x \in Bad : m <= x
    BY <2>1, LeastOf
  <2>3. m # f /\ m \in f + 1 .. l
    BY <1>1, <1>3, <2>2
  <2>4. m - 1 \in f .. l /\ m - 1 \notin Bad
    BY <1>1, <2>2, <2>3
  <2>. QED  BY <1>4, <2>2, <2>3, <2>4
<1>. QED  BY <1>5 DEF Good, f, l

\* What merge_runs makes of a chain.
LEMMA RunsLemma ==
  ASSUME NEW extents \in Seq(RecordType), NEW q, q = Sorted(extents)
  PROVE  /\ Len(MergeRuns(extents)) = Chains(q)
         /\ DOMAIN MergeRuns(extents) = 1 .. Chains(q)
         /\ \A i \in 1 .. Chains(q) :
              /\ MergeRuns(extents)[i].logical = q[First(q, i)].logical
              /\ MergeRuns(extents)[i].physical = q[First(q, i)].physical
              /\ End(MergeRuns(extents)[i]) = End(q[Final(q, i)])
              /\ MergeRuns(extents)[i].length
                   = End(q[Final(q, i)]) - q[First(q, i)].logical
<1>. DEFINE s == Ascending(Starts(q))
            last == [i \in DOMAIN s |->
                       IF i = Len(s) THEN Len(q) ELSE s[i + 1] - 1]
            runs == [i \in DOMAIN s |->
                       [logical  |-> q[s[i]].logical,
                        physical |-> q[s[i]].physical,
                        length   |-> End(q[last[i]]) - q[s[i]].logical]]
<1>1. MergeRuns(extents) = runs
  BY DEF MergeRuns
<1>2. Row(q) /\ q \in Seq(RecordType)
  BY SortedLemma DEF Row
<1>3. /\ Chains(q) \in Nat /\ DOMAIN s = 1 .. Chains(q)
      /\ \A i \in 1 .. Chains(q) : First(q, i) \in 1 .. Len(q)
      /\ \A i \in 1 .. Chains(q) : Final(q, i) \in 1 .. Len(q)
  <2>1. \A i \in 1 .. Chains(q) : First(q, i) \in 1 .. Len(q)
    BY <1>2, StartsLemma
  <2>2. \A i \in 1 .. Chains(q) : Final(q, i) \in First(q, i) .. Len(q)
    BY <1>2, ChainsLemma
  <2>. QED  BY <1>2, <2>1, <2>2, StartsLemma
<1>4. Len(s) = Chains(q)
  <2>1. s \in [1 .. Chains(q) -> Starts(q)]
    BY <1>2, StartsLemma
  <2>. QED  BY <1>3, <2>1
<1>5. \A i \in 1 .. Chains(q) : s[i] = First(q, i) /\ last[i] = Final(q, i)
  BY <1>3, <1>4 DEF First, Final
<1>. HIDE DEF s, last
<1>6. \A k \in 1 .. Len(q) : /\ q[k].logical \in Nat /\ q[k].physical \in Nat
                             /\ End(q[k]) \in Nat
  BY <1>2, FieldTypes
<1>7. /\ DOMAIN runs = 1 .. Chains(q)
      /\ \A i \in 1 .. Chains(q) :
           runs[i] = [logical  |-> q[First(q, i)].logical,
                      physical |-> q[First(q, i)].physical,
                      length   |-> End(q[Final(q, i)]) - q[First(q, i)].logical]
  BY <1>3, <1>5
<1>8. Len(runs) = Chains(q)
  BY <1>3, <1>7
<1>. HIDE DEF runs
<1>9. ASSUME NEW i \in 1 .. Chains(q)
      PROVE  /\ runs[i].logical = q[First(q, i)].logical
             /\ runs[i].physical = q[First(q, i)].physical
             /\ End(runs[i]) = End(q[Final(q, i)])
             /\ runs[i].length = End(q[Final(q, i)]) - q[First(q, i)].logical
  <2>1. /\ runs[i].logical = q[First(q, i)].logical
        /\ runs[i].physical = q[First(q, i)].physical
        /\ runs[i].length = End(q[Final(q, i)]) - q[First(q, i)].logical
    BY <1>7
  <2>2. q[First(q, i)].logical \in Nat /\ End(q[Final(q, i)]) \in Nat
    BY <1>3, <1>6
  <2>3. End(runs[i]) = runs[i].logical + runs[i].length
    BY DEF End
  <2>. QED  BY <2>1, <2>2, <2>3
<1>. QED  BY <1>1, <1>7, <1>8, <1>9

\* A record of a chain lies within the chain's run.
LEMMA WithinLemma ==
  ASSUME NEW q, Row(q), NEW i \in 1 .. Chains(q),
         NEW k \in First(q, i) .. Final(q, i)
  PROVE  /\ k \in 1 .. Len(q)
         /\ q[First(q, i)].logical <= q[k].logical
         /\ End(q[k]) <= End(q[Final(q, i)])
<1>. DEFINE f == First(q, i)
            l == Final(q, i)
<1>1. /\ q \in Seq(RecordType) /\ DOMAIN q = 1 .. Len(q)
      /\ f \in 1 .. Len(q) /\ l \in f .. Len(q)
      /\ \A m \in f + 1 .. l : Joins(q[m - 1], q[m])
  BY StartsLemma, ChainsLemma DEF Row
<1>. HIDE DEF f, l
<1>2. \A m \in 1 .. Len(q) :
        /\ q[m].logical \in Nat /\ q[m].length \in Nat /\ q[m].length > 0
        /\ End(q[m]) = q[m].logical + q[m].length
  <2>1. \A m \in 1 .. Len(q) : q[m] \in RecordType
    BY <1>1
  <2>2. \A m \in 1 .. Len(q) : q[m].length > 0
    BY <1>1 DEF Row
  <2>. QED  BY <2>1, <2>2, FieldTypes
<1>3. \A j, m \in 1 .. Len(q) : j < m => q[j].logical <= q[m].logical
  BY <1>1 DEF Row
<1>4. k \in f .. l
  BY DEF f, l
<1>5. k \in 1 .. Len(q) /\ q[f].logical <= q[k].logical
  BY <1>1, <1>2, <1>3, <1>4
<1>6. CASE k = l
  BY <1>1, <1>2, <1>5, <1>6 DEF f, l
<1>7. CASE k < l
  <2>1. k + 1 \in f + 1 .. l /\ k + 1 \in 1 .. Len(q) /\ (k + 1) - 1 = k
        /\ l \in 1 .. Len(q)
    BY <1>1, <1>4, <1>7
  <2>2. q[k + 1].logical = End(q[k])
    BY <1>1, <2>1 DEF Joins
  <2>3. q[k + 1].logical <= q[l].logical
    BY <1>2, <1>3, <2>1
  <2>4. q[l].logical < End(q[l])
    <3>1. /\ q[l].logical \in Nat /\ q[l].length \in Nat /\ q[l].length > 0
          /\ End(q[l]) = q[l].logical + q[l].length
      BY <1>2, <2>1
    <3>. QED  BY <3>1
  <2>5. End(q[k]) \in Int /\ End(q[l]) \in Int /\ q[l].logical \in Int
    <3>1. \A x \in RecordType : End(x) \in Int /\ x.logical \in Int
      BY FieldTypes
    <3>2. q[k] \in RecordType /\ q[l] \in RecordType
      BY <1>1, <1>5, <2>1
    <3>. QED  BY <3>1, <3>2
  <2>. QED  BY <1>5, <2>2, <2>3, <2>4, <2>5 DEF f, l
<1>. QED  BY <1>1, <1>4, <1>6, <1>7

\* The runs of any records whatever: in the order of the file, none of them to
\* be joined to the one before, and every record that is not a marker in one.
LEMMA MergeLemma ==
  ASSUME NEW extents \in Seq(RecordType), NEW runs, runs = MergeRuns(extents)
  PROVE  /\ \A k \in DOMAIN runs \ {1} :
              /\ runs[k - 1].logical <= runs[k].logical
              /\ ~(End(runs[k - 1]) = runs[k].logical
                   /\ runs[k - 1].physical + runs[k - 1].length
                        = runs[k].physical)
         /\ \A i \in DOMAIN extents : extents[i].length > 0 =>
              \E k \in DOMAIN runs :
                /\ runs[k].logical <= extents[i].logical
                /\ End(extents[i]) <= End(runs[k])
                /\ extents[i].physical - extents[i].logical
                     = runs[k].physical - runs[k].logical
<1>1. PICK q : q = Sorted(extents)
  OBVIOUS
<1>2. /\ Row(q) /\ q \in Seq(RecordType) /\ DOMAIN q = 1 .. Len(q)
      /\ \A i \in Real(extents) : \E k \in DOMAIN q : q[k] = extents[i]
  BY <1>1, SortedLemma DEF Row
<1>3. PICK n \in Nat : n = Chains(q)
  BY <1>2, StartsLemma
<1>4. /\ DOMAIN runs = 1 .. n
      /\ \A i \in 1 .. n :
           /\ runs[i].logical = q[First(q, i)].logical
           /\ runs[i].physical = q[First(q, i)].physical
           /\ End(runs[i]) = End(q[Final(q, i)])
           /\ runs[i].length = End(q[Final(q, i)]) - q[First(q, i)].logical
  BY <1>1, <1>3, RunsLemma
<1>5. /\ \A i \in 1 .. n : First(q, i) \in 1 .. Len(q)
      /\ \A i \in 1 .. n : Final(q, i) \in First(q, i) .. Len(q)
  BY <1>2, <1>3, StartsLemma, ChainsLemma
<1>6. \A m \in 1 .. Len(q) :
        /\ q[m].logical \in Nat /\ q[m].physical \in Nat /\ q[m].length \in Nat
        /\ End(q[m]) \in Nat /\ End(q[m]) = q[m].logical + q[m].length
  BY <1>2, FieldTypes
<1>7. ASSUME NEW k \in 1 .. n, k # 1
      PROVE  /\ runs[k - 1].logical <= runs[k].logical
             /\ ~(End(runs[k - 1]) = runs[k].logical
                  /\ runs[k - 1].physical + runs[k - 1].length
                       = runs[k].physical)
  <2>1. k - 1 \in 1 .. n /\ k - 1 < k /\ k > 1
    BY <1>7
  <2>2. PICK f, l, m : /\ f = First(q, k - 1) /\ l = Final(q, k - 1)
                       /\ m = First(q, k)
    OBVIOUS
  <2>3. /\ l = m - 1 /\ ~Joins(q[m - 1], q[m]) /\ m \in 1 .. Len(q)
        /\ f \in 1 .. Len(q) /\ l \in f .. Len(q)
    BY <1>2, <1>3, <1>5, <2>1, <2>2, ChainsLemma
  <2>4. q[f].logical <= q[m].logical
    BY <1>2, <2>3 DEF Row
  <2>5. q[l].physical - q[l].logical = q[f].physical - q[f].logical
    BY <1>2, <1>3, <2>1, <2>2, <2>3, OffsetLemma
  <2>6. /\ runs[k - 1].logical = q[f].logical /\ runs[k].logical = q[m].logical
        /\ runs[k - 1].physical = q[f].physical
        /\ runs[k].physical = q[m].physical
        /\ End(runs[k - 1]) = End(q[l])
        /\ runs[k - 1].length = End(q[l]) - q[f].logical
    BY <1>4, <2>1, <2>2
  <2>7. ~(q[m].logical = End(q[l]) /\ q[m].physical = q[l].physical + q[l].length)
    BY <2>3 DEF Joins
  <2>8. /\ q[f].logical \in Nat /\ q[f].physical \in Nat
        /\ q[l].logical \in Nat /\ q[l].physical \in Nat /\ q[l].length \in Nat
        /\ End(q[l]) = q[l].logical + q[l].length
    BY <1>6, <2>3
  <2>9. runs[k - 1].physical + runs[k - 1].length = q[l].physical + q[l].length
    <3>1. q[f].physical + (End(q[l]) - q[f].logical)
            = q[l].physical + q[l].length
      <4>1. PICK pf, lf, pl, ll, n1 \in Nat :
              /\ pf = q[f].physical /\ lf = q[f].logical /\ n1 = q[l].length
              /\ pl = q[l].physical /\ ll = q[l].logical
        BY <2>8
      <4>2. pl - ll = pf - lf
        BY <2>5, <4>1
      <4>3. End(q[l]) = ll + n1
        BY <2>8, <4>1
      <4>4. pf + ((ll + n1) - lf) = pl + n1
        BY <4>2
      <4>. QED  BY <4>1, <4>3, <4>4
    <3>. QED  BY <2>6, <3>1
  <2>. QED  BY <2>4, <2>6, <2>7, <2>9
<1>8. ASSUME NEW i \in DOMAIN extents, extents[i].length > 0
      PROVE  \E k \in 1 .. n :
                /\ runs[k].logical <= extents[i].logical
                /\ End(extents[i]) <= End(runs[k])
                /\ extents[i].physical - extents[i].logical
                     = runs[k].physical - runs[k].logical
  <2>1. PICK m \in 1 .. Len(q) : q[m] = extents[i]
    BY <1>2, <1>8 DEF Real
  <2>2. PICK k \in 1 .. n : m \in First(q, k) .. Final(q, k)
    BY <1>2, <1>3, ChainsLemma
  <2>3. /\ q[First(q, k)].logical <= q[m].logical
        /\ End(q[m]) <= End(q[Final(q, k)])
    BY <1>2, <1>3, <2>2, WithinLemma
  <2>4. q[m].physical - q[m].logical
          = q[First(q, k)].physical - q[First(q, k)].logical
    BY <1>2, <1>3, <2>2, OffsetLemma
  <2>. QED  BY <1>4, <2>1, <2>3, <2>4
<1>. QED  BY <1>4, <1>7, <1>8

-----------------------------------------------------------------------------
(***************************************************************************)
(* The records of a file.                                                  *)
(***************************************************************************)

\* The types of what does not change while a file is read.
FileOK ==
  /\ phys \in Placements
  /\ flag \in [Block -> {"data", "unwritten", "unknown"}]
  /\ cuts \subseteq Block /\ size \in 0 .. Blocks /\ honest \in BOOLEAN

LEMMA FileTypes ==
  ASSUME FileOK
  PROVE  /\ Blocks \in Nat
         /\ \A b \in Block : b \in Nat /\ b < Blocks
         /\ \A b \in Nat : b < Blocks => b \in Block
         /\ \A b \in Block : phys[b] # Hole => phys[b] \in Nat
         /\ \A b \in Block : flag[b] \in {"data", "unwritten", "unknown"}
         /\ Heads \subseteq Block
         /\ \A b \in Heads : phys[b] # Hole
<1>1. /\ Blocks \in Nat /\ Addresses \subseteq Nat
      /\ phys \in [Block -> Addresses \cup {Hole}]
      /\ flag \in [Block -> {"data", "unwritten", "unknown"}]
  BY ExtentsAssumption DEF FileOK, Placements
<1>2. /\ \A b \in Block : b \in Nat /\ b < Blocks
      /\ \A b \in Nat : b < Blocks => b \in Block
  BY <1>1 DEF Block
<1>3. /\ \A b \in Block : phys[b] # Hole => phys[b] \in Nat
      /\ \A b \in Block : flag[b] \in {"data", "unwritten", "unknown"}
  BY <1>1
<1>4. Heads \subseteq Block /\ \A b \in Heads : phys[b] # Hole
  BY DEF Heads
<1>. QED  BY <1>1, <1>2, <1>3, <1>4

\* A record ends at the first place where it has to.
LEMMA RecordEnds ==
  ASSUME FileOK, NEW b \in Block
  PROVE  /\ Record(b).logical = b /\ Record(b).physical = phys[b]
         /\ Record(b).flag = flag[b] /\ Record(b).length = End(Record(b)) - b
         /\ End(Record(b)) \in b + 1 .. Blocks
         /\ \A d \in b + 1 .. End(Record(b)) - 1 : phys[d] # Hole /\ d \notin Heads
         /\ End(Record(b)) # Blocks =>
              phys[End(Record(b))] = Hole \/ End(Record(b)) \in Heads
<1>. DEFINE stop == {c \in b + 1 .. Blocks : c = Blocks \/ phys[c] = Hole \/ c \in Heads}
            e == CHOOSE c \in stop : \A d \in stop : c <= d
<1>1. b \in Nat /\ Blocks \in Nat /\ b < Blocks
  BY FileTypes
<1>2. stop \in SUBSET Nat /\ stop # {}
  <2>1. Blocks \in stop
    BY <1>1
  <2>2. \A c \in stop : c \in Nat
    BY <1>1
  <2>. QED  BY <2>1, <2>2
<1>3. \E c \in stop : \A d \in stop : c <= d
  BY <1>2, LeastOf
<1>4. e \in stop /\ \A d \in stop : e <= d
  BY <1>3
<1>5. Record(b) = [logical |-> b, physical |-> phys[b], flag |-> flag[b],
                   length |-> e - b]
  BY DEF Record
<1>. HIDE DEF e
<1>6. e \in b + 1 .. Blocks /\ (e # Blocks => phys[e] = Hole \/ e \in Heads)
  BY <1>4
<1>7. \A d \in b + 1 .. e - 1 : d \notin stop /\ d \in b + 1 .. Blocks
  BY <1>1, <1>4, <1>6
<1>8. \A d \in b + 1 .. e - 1 : phys[d] # Hole /\ d \notin Heads
  BY <1>7
<1>9. End(Record(b)) = e
  <2>1. End(Record(b)) = b + (e - b)
    BY <1>5 DEF End
  <2>. QED  BY <1>1, <1>6, <2>1
<1>. QED  BY <1>5, <1>6, <1>8, <1>9

\* The records of a file are records, and hold something.
LEMMA RecordTypes ==
  ASSUME FileOK, NEW b \in Heads
  PROVE  /\ Record(b) \in RecordType /\ Record(b).length > 0
         /\ Record(b).logical = b /\ Record(b).flag = flag[b]
         /\ Record(b).physical = phys[b]
         /\ b \in Nat /\ b < Blocks /\ End(Record(b)) \in b + 1 .. Blocks
<1>1. /\ b \in Block /\ b \in Nat /\ b < Blocks /\ Blocks \in Nat
      /\ phys[b] \in Nat /\ flag[b] \in {"data", "unwritten", "unknown"}
  BY FileTypes
<1>2. /\ Record(b).logical = b /\ Record(b).physical = phys[b]
      /\ Record(b).flag = flag[b] /\ Record(b).length = End(Record(b)) - b
      /\ End(Record(b)) \in b + 1 .. Blocks
  BY <1>1, RecordEnds
<1>3. Record(b).length \in Nat /\ Record(b).length > 0
  BY <1>1, <1>2
<1>4. PICK c : Record(b) = [logical |-> b, physical |-> phys[b], flag |-> flag[b],
                            length |-> c]
  BY DEF Record
<1>5. Record(b) \in RecordType
  BY <1>1, <1>2, <1>3, <1>4 DEF RecordType
<1>. QED  BY <1>1, <1>2, <1>3, <1>5

\* What a record says of each of its blocks is so.
LEMMA RecordTells ==
  ASSUME FileOK, NEW h \in Heads, NEW b \in h .. End(Record(h)) - 1
  PROVE  /\ b \in Block /\ phys[b] # Hole
         /\ phys[b] - b = phys[h] - h
         /\ flag[b] = flag[h]
<1>. DEFINE e == End(Record(h))
            Good(m) == /\ phys[m] # Hole /\ phys[m] - m = phys[h] - h
                       /\ flag[m] = flag[h]
            Bad == {m \in h .. e - 1 : ~Good(m)}
<1>1. /\ h \in Block /\ h \in Nat /\ Blocks \in Nat /\ phys[h] # Hole
      /\ e \in h + 1 .. Blocks
      /\ \A d \in h + 1 .. e - 1 : phys[d] # Hole /\ d \notin Heads
  BY FileTypes, RecordEnds
<1>. HIDE DEF e
<1>2. \A m \in h .. e - 1 : m \in Block /\ m \in Nat
  BY <1>1, FileTypes
<1>3. Good(h)
  BY <1>1
<1>4. ASSUME NEW m \in h + 1 .. e - 1, Good(m - 1)
      PROVE  Good(m)
  <2>1. m \in Block /\ m \in Nat /\ m - 1 \in Block /\ m \notin Heads /\ phys[m] # Hole
    BY <1>1, <1>2
  <2>2. Continues(m) /\ flag[m] = flag[m - 1]
    BY <2>1 DEF Heads
  <2>3. phys[m] = phys[m - 1] + 1
    BY <2>2 DEF Continues
  <2>4. phys[m - 1] \in Nat /\ phys[h] \in Nat
    BY <1>1, <1>4, <2>1, FileTypes
  <2>5. phys[m - 1] - (m - 1) = phys[h] - h /\ flag[m - 1] = flag[h]
    BY <1>4
  <2>6. phys[m] - m = phys[h] - h
    BY <1>1, <2>1, <2>3, <2>4, <2>5
  <2>. QED  BY <2>1, <2>2, <2>5, <2>6
<1>. HIDE DEF Good
<1>5. Bad = {}
  <2>. SUFFICES ASSUME Bad # {}
                PROVE  FALSE
    OBVIOUS
  <2>1. Bad \in SUBSET Nat
    BY <1>2
  <2>2. PICK m \in Bad : \A x \in Bad : m <= x
    BY <2>1, LeastOf
  <2>3. m # h /\ m \in h + 1 .. e - 1
    BY <1>1, <1>3, <2>2
  <2>4. m - 1 \in h .. e - 1 /\ m - 1 \notin Bad
    BY <1>1, <2>2, <2>3
  <2>. QED  BY <1>4, <2>2, <2>3, <2>4
<1>. QED  BY <1>2, <1>5 DEF Good, e

\* No record begins within another.
LEMMA RecordsDisjoint ==
  ASSUME FileOK, NEW g \in Heads, NEW h \in Heads, g < h
  PROVE  End(Record(g)) <= h
<1>1. /\ g \in Block /\ g \in Nat /\ h \in Nat /\ Blocks \in Nat
      /\ End(Record(g)) \in g + 1 .. Blocks
      /\ \A d \in g + 1 .. End(Record(g)) - 1 : d \notin Heads
  BY FileTypes, RecordEnds
<1>. QED  BY <1>1

\* Every block that is not a hole is in a record.
LEMMA RecordOf ==
  ASSUME FileOK, NEW b \in Block, phys[b] # Hole
  PROVE  \E h \in Heads : b \in h .. End(Record(h)) - 1
<1>. DEFINE Row1(m) == \A d \in m .. b : phys[d] # Hole /\ (d > m => d \notin Heads)
            U == {m \in 0 .. b : Row1(m)}
<1>1. b \in Nat /\ Blocks \in Nat /\ b < Blocks
  BY FileTypes
<1>2. U \in SUBSET Nat /\ b \in U
  BY <1>1
<1>3. PICK m \in U : \A x \in U : m <= x
  BY <1>2, LeastOf
<1>4. /\ m \in Nat /\ m <= b /\ m \in Block
      /\ \A d \in m .. b : phys[d] # Hole /\ (d > m => d \notin Heads)
  BY <1>1, <1>3, FileTypes
<1>5. m \in Heads
  <2>. SUFFICES ASSUME m \notin Heads
                PROVE  FALSE
    OBVIOUS
  <2>1. phys[m] # Hole
    BY <1>1, <1>4
  <2>2. m > 0 /\ phys[m - 1] # Hole
    BY <1>4, <2>1 DEF Heads, Continues
  <2>3. m - 1 \in U
    BY <1>1, <1>4, <2>2
  <2>. QED  BY <1>3, <1>4, <2>2, <2>3
<1>6. /\ End(Record(m)) \in m + 1 .. Blocks
      /\ End(Record(m)) # Blocks =>
           phys[End(Record(m))] = Hole \/ End(Record(m)) \in Heads
  BY <1>4, RecordEnds
<1>7. b < End(Record(m))
  <2>. SUFFICES ASSUME End(Record(m)) <= b
                PROVE  FALSE
    BY <1>1, <1>6
  <2>1. End(Record(m)) \in m .. b /\ End(Record(m)) > m /\ End(Record(m)) # Blocks
    BY <1>1, <1>4, <1>6
  <2>. QED  BY <1>4, <1>6, <2>1
<1>. QED  BY <1>1, <1>4, <1>5, <1>6, <1>7

-----------------------------------------------------------------------------
(***************************************************************************)
(* The map of a file whose records were all read.                          *)
(***************************************************************************)

\* The row holds the records that begin before n, each once and in order.
Holds(row, n) ==
  /\ \A i \in DOMAIN row : \E h \in Heads : h < n /\ row[i] = Record(h)
  /\ \A h \in Heads : h < n => \E i \in DOMAIN row : row[i] = Record(h)
  /\ \A i, j \in DOMAIN row : i < j => row[i].logical < row[j].logical

\* The sorted row q holds the records that begin before the end of the file.
Whole(q) ==
  /\ Row(q)
  /\ \A k \in 1 .. Len(q) : \E h \in Heads : h < size /\ q[k] = Record(h)
  /\ \A h \in Heads : h < size => \E k \in 1 .. Len(q) : q[k] = Record(h)
  /\ \A j, k \in 1 .. Len(q) : j < k => q[j].logical < q[k].logical

LEMMA WholeLemma ==
  ASSUME FileOK, out \in Seq(RecordType), Holds(out, size)
  PROVE  Whole(Sorted(out))
<1>1. PICK q : q = Sorted(out)
  OBVIOUS
<1>2. /\ Row(q) /\ DOMAIN q = 1 .. Len(q)
      /\ \A i \in Real(out) : \E k \in DOMAIN q : q[k] = out[i]
      /\ \A k \in DOMAIN q : \E i \in Real(out) : q[k] = out[i]
      /\ \A j, k \in DOMAIN q : j < k =>
           \E i, m \in Real(out) : i # m /\ q[j] = out[i] /\ q[k] = out[m]
  BY <1>1, SortedLemma DEF Row
<1>3. /\ Real(out) \subseteq DOMAIN out /\ DOMAIN out = 1 .. Len(out)
      /\ \A i \in DOMAIN out : out[i].length > 0 => i \in Real(out)
  BY DEF Real
<1>4. \A k \in 1 .. Len(q) : \E h \in Heads : h < size /\ q[k] = Record(h)
  BY <1>2, <1>3 DEF Holds
<1>5. ASSUME NEW h \in Heads, h < size
      PROVE  \E k \in 1 .. Len(q) : q[k] = Record(h)
  <2>1. PICK i \in DOMAIN out : out[i] = Record(h)
    BY <1>5 DEF Holds
  <2>2. i \in Real(out)
    BY <1>3, <2>1, RecordTypes
  <2>. QED  BY <1>2, <2>1, <2>2
<1>6. ASSUME NEW j \in 1 .. Len(q), NEW k \in 1 .. Len(q), j < k
      PROVE  q[j].logical < q[k].logical
  <2>1. PICK i, m \in DOMAIN out : i # m /\ q[j] = out[i] /\ q[k] = out[m]
    BY <1>2, <1>3, <1>6
  <2>2. i < m \/ m < i
    BY <1>3, <2>1
  <2>3. q[j].logical < q[k].logical \/ q[k].logical < q[j].logical
    BY <2>1, <2>2 DEF Holds
  <2>4. q[j].logical <= q[k].logical
    BY <1>2, <1>6 DEF Row
  <2>5. q[j].logical \in Nat /\ q[k].logical \in Nat
    BY <1>2, FieldTypes DEF Row
  <2>. QED  BY <2>3, <2>4, <2>5
<1>. QED  BY <1>1, <1>2, <1>4, <1>5, <1>6 DEF Whole

\* A block of a run is a block of one of the run's records.
LEMMA RunHas ==
  ASSUME FileOK, NEW q, Whole(q), NEW i \in 1 .. Chains(q),
         NEW b \in q[First(q, i)].logical .. End(q[Final(q, i)]) - 1
  PROVE  \E j \in First(q, i) .. Final(q, i) : \E h \in Heads :
            /\ j \in 1 .. Len(q) /\ q[j] = Record(h) /\ h < size
            /\ b \in h .. End(Record(h)) - 1
<1>1. Row(q) /\ q \in Seq(RecordType)
  BY DEF Whole, Row
<1>2. First(q, i) \in 1 .. Len(q) /\ Final(q, i) \in First(q, i) .. Len(q)
  BY <1>1, StartsLemma, ChainsLemma
<1>3. Final(q, i) \in First(q, i) .. Final(q, i)
  BY <1>2
<1>4. PICK j \in First(q, i) .. Final(q, i) : b \in q[j].logical .. End(q[j]) - 1
  BY <1>1, <1>3, OffsetLemma
<1>5. j \in 1 .. Len(q)
  BY <1>2
<1>6. PICK h \in Heads : h < size /\ q[j] = Record(h)
  BY <1>5 DEF Whole
<1>. QED  BY <1>4, <1>5, <1>6, RecordTypes

\* A block of a record that was read is in the run of that record, at its
\* address, and in no other.
LEMMA RunOf ==
  ASSUME FileOK, NEW q, Whole(q), NEW b \in Block, b < size, phys[b] # Hole
  PROVE  \E i \in 1 .. Chains(q) :
            /\ b \in q[First(q, i)].logical .. End(q[Final(q, i)]) - 1
            /\ phys[b] - b = q[First(q, i)].physical - q[First(q, i)].logical
            /\ \A m \in 1 .. Chains(q) :
                 b \in q[First(q, m)].logical .. End(q[Final(q, m)]) - 1 => m = i
<1>1. /\ Row(q) /\ q \in Seq(RecordType) /\ Chains(q) \in Nat
      /\ \A k \in 1 .. Len(q) : q[k] \in RecordType
  <2>1. Row(q) /\ q \in Seq(RecordType)
    BY DEF Whole, Row
  <2>. QED  BY <2>1, StartsLemma
<1>2. /\ \A i \in 1 .. Chains(q) : First(q, i) \in 1 .. Len(q)
      /\ \A i \in 1 .. Chains(q) : Final(q, i) \in First(q, i) .. Len(q)
      /\ \A k \in 1 .. Len(q) : \E i \in 1 .. Chains(q) :
           k \in First(q, i) .. Final(q, i)
      /\ \A i, j \in 1 .. Chains(q) : i < j => Final(q, i) < First(q, j)
  BY <1>1, StartsLemma, ChainsLemma
<1>3. PICK h \in Heads : b \in h .. End(Record(h)) - 1
  BY RecordOf
<1>4. /\ h \in Nat /\ h <= b /\ b \in Nat /\ size \in Nat
      /\ Record(h).logical = h /\ Record(h).physical = phys[h]
      /\ End(Record(h)) \in Nat
  <2>1. size \in Nat /\ b \in Nat
    BY FileTypes DEF FileOK
  <2>. QED  BY <1>3, <2>1, RecordTypes, FileTypes
<1>5. PICK k \in 1 .. Len(q) : q[k] = Record(h)
  BY <1>3, <1>4 DEF Whole
<1>6. PICK i \in 1 .. Chains(q) : k \in First(q, i) .. Final(q, i)
  BY <1>2
<1>7. b \in q[First(q, i)].logical .. End(q[Final(q, i)]) - 1
  <2>1. q[First(q, i)].logical <= h /\ End(Record(h)) <= End(q[Final(q, i)])
    BY <1>1, <1>4, <1>5, <1>6, WithinLemma
  <2>2. q[First(q, i)].logical \in Nat /\ End(q[Final(q, i)]) \in Nat
    <3>1. First(q, i) \in 1 .. Len(q) /\ Final(q, i) \in 1 .. Len(q)
      BY <1>1, <1>2
    <3>2. q[First(q, i)] \in RecordType /\ q[Final(q, i)] \in RecordType
      BY <1>1, <3>1
    <3>. QED  BY <3>2, FieldTypes
  <2>. QED  BY <1>3, <1>4, <2>1, <2>2
<1>8. phys[b] - b = q[First(q, i)].physical - q[First(q, i)].logical
  <2>1. phys[b] - b = phys[h] - h
    BY <1>3, RecordTells
  <2>2. q[k].physical - q[k].logical
          = q[First(q, i)].physical - q[First(q, i)].logical
    BY <1>1, <1>6, OffsetLemma
  <2>. QED  BY <1>4, <1>5, <2>1, <2>2
<1>9. ASSUME NEW m \in 1 .. Chains(q),
             b \in q[First(q, m)].logical .. End(q[Final(q, m)]) - 1
      PROVE  m = i
  <2>1. PICK j \in First(q, m) .. Final(q, m) : \E g \in Heads :
          /\ j \in 1 .. Len(q) /\ q[j] = Record(g) /\ g < size
          /\ b \in g .. End(Record(g)) - 1
    BY <1>9, RunHas
  <2>2. PICK g \in Heads : /\ j \in 1 .. Len(q) /\ q[j] = Record(g)
                           /\ b \in g .. End(Record(g)) - 1
    BY <2>1
  <2>3. g \in Nat /\ Record(g).logical = g /\ End(Record(g)) \in Nat
    BY RecordTypes, FileTypes
  <2>4. g = h
    <3>1. CASE g < h
      BY <1>3, <1>4, <2>2, <2>3, <3>1, RecordsDisjoint
    <3>2. CASE h < g
      BY <1>3, <1>4, <2>2, <2>3, <3>2, RecordsDisjoint
    <3>. QED  BY <1>4, <2>3, <3>1, <3>2
  <2>5. j = k
    <3>1. q[j].logical = q[k].logical /\ q[j].logical \in Nat
      BY <1>4, <1>5, <2>2, <2>4
    <3>2. j \in 1 .. Len(q) /\ k \in 1 .. Len(q)
      BY <2>2
    <3>3. \A c, d \in 1 .. Len(q) : c < d => q[c].logical < q[d].logical
      BY DEF Whole
    <3>4. ~(j < k) /\ ~(k < j)
      BY <3>1, <3>2, <3>3
    <3>. QED  BY <1>1, <3>2, <3>4
  <2>6. CASE m < i
    BY <1>2, <1>6, <2>5, <2>6
  <2>7. CASE i < m
    BY <1>2, <1>6, <2>5, <2>7
  <2>. QED  BY <1>1, <2>6, <2>7
<1>. QED  BY <1>7, <1>8, <1>9

\* The runs of the map, read off the chains of the sorted row.
LEMMA RunsOfOut ==
  ASSUME FileOK, out \in Seq(RecordType), Holds(out, size),
         NEW q, q = Sorted(out), NEW runs, runs = MergeRuns(out)
  PROVE  /\ Whole(q) /\ Row(q) /\ q \in Seq(RecordType)
         /\ Chains(q) \in Nat /\ Len(runs) = Chains(q)
         /\ DOMAIN runs = 1 .. Chains(q)
         /\ \A i \in 1 .. Chains(q) :
              /\ runs[i].logical = q[First(q, i)].logical
              /\ runs[i].physical = q[First(q, i)].physical
              /\ runs[i].logical \in Nat /\ runs[i].physical \in Nat
              /\ End(runs[i]) = End(q[Final(q, i)])
<1>1. Whole(q) /\ Row(q) /\ q \in Seq(RecordType)
  BY WholeLemma DEF Whole, Row
<1>2. Chains(q) \in Nat /\ \A i \in 1 .. Chains(q) : First(q, i) \in 1 .. Len(q)
  BY <1>1, StartsLemma
<1>3. \A i \in 1 .. Chains(q) : q[First(q, i)].logical \in Nat
                                /\ q[First(q, i)].physical \in Nat
  <2>1. \A k \in 1 .. Len(q) : q[k] \in RecordType
    BY <1>1
  <2>. QED  BY <1>2, <2>1, FieldTypes
<1>. QED  BY <1>1, <1>2, <1>3, RunsLemma

LEMMA FaithfulMap ==
  ASSUME FileOK, out \in Seq(RecordType), Holds(out, size),
         NEW runs, runs = MergeRuns(out), NEW b \in Block, b < size,
         NEW holds,
         holds = {k \in DOMAIN runs : b \in runs[k].logical .. End(runs[k]) - 1}
  PROVE  IF phys[b] = Hole THEN holds = {}
         ELSE \E k \in holds :
                /\ holds = {k}
                /\ phys[b] = runs[k].physical + b - runs[k].logical
<1>1. PICK q : q = Sorted(out)
  OBVIOUS
<1>2. /\ Whole(q) /\ Row(q) /\ q \in Seq(RecordType)
      /\ Chains(q) \in Nat /\ Len(runs) = Chains(q)
      /\ DOMAIN runs = 1 .. Chains(q)
      /\ \A i \in 1 .. Chains(q) :
           /\ runs[i].logical = q[First(q, i)].logical
           /\ runs[i].physical = q[First(q, i)].physical
           /\ runs[i].logical \in Nat /\ runs[i].physical \in Nat
           /\ End(runs[i]) = End(q[Final(q, i)])
  BY <1>1, RunsOfOut
<1>3. \A i : i \in holds <=>
        /\ i \in 1 .. Chains(q)
        /\ b \in q[First(q, i)].logical .. End(q[Final(q, i)]) - 1
  BY <1>2
<1>4. CASE phys[b] = Hole
  <2>. SUFFICES ASSUME NEW i \in holds
                PROVE  FALSE
    BY <1>4
  <2>1. PICK j, h : h \in Heads /\ b \in h .. End(Record(h)) - 1
    BY <1>2, <1>3, RunHas
  <2>. QED  BY <1>4, <2>1, RecordTells
<1>5. CASE phys[b] # Hole
  <2>1. PICK i \in 1 .. Chains(q) :
          /\ b \in q[First(q, i)].logical .. End(q[Final(q, i)]) - 1
          /\ phys[b] - b = q[First(q, i)].physical - q[First(q, i)].logical
          /\ \A m \in 1 .. Chains(q) :
               b \in q[First(q, m)].logical .. End(q[Final(q, m)]) - 1 => m = i
    BY <1>2, <1>5, RunOf
  <2>2. i \in holds /\ holds = {i}
    BY <1>3, <2>1
  <2>3. phys[b] = runs[i].physical + b - runs[i].logical
    <3>1. phys[b] \in Nat /\ b \in Nat
      BY <1>5, FileTypes
    <3>2. PICK p, l \in Nat : p = runs[i].physical /\ l = runs[i].logical
      BY <1>2
    <3>3. phys[b] - b = p - l
      BY <1>2, <2>1, <3>2
    <3>4. phys[b] = p + b - l
      BY <3>1, <3>3
    <3>. QED  BY <3>2, <3>4
  <2>. QED  BY <1>5, <2>2, <2>3
<1>. QED  BY <1>4, <1>5

LEMMA FlagsOfMap ==
  ASSUME FileOK, out \in Seq(RecordType), Holds(out, size), ~Untrusted(out)
  PROVE  /\ AnyUnwritten(out) <=> \E b \in Mapped : flag[b] = "unwritten"
         /\ \A b \in Mapped : flag[b] # "unknown"
<1>1. \A b \in Mapped : b \in Block /\ b < size /\ phys[b] # Hole /\ b \in Nat
  BY FileTypes DEF Mapped
<1>2. ASSUME NEW b \in Mapped
      PROVE  \E i \in DOMAIN out : out[i].flag = flag[b]
  <2>1. PICK h \in Heads : b \in h .. End(Record(h)) - 1
    BY <1>1, RecordOf
  <2>2. h < size
    BY <1>1, <2>1, RecordTypes, FileTypes DEF FileOK
  <2>3. PICK i \in DOMAIN out : out[i] = Record(h)
    BY <2>2 DEF Holds
  <2>4. flag[b] = flag[h] /\ Record(h).flag = flag[h]
    BY <2>1, RecordTells, RecordTypes
  <2>. QED  BY <2>3, <2>4
<1>3. ASSUME NEW i \in DOMAIN out
      PROVE  \E b \in Mapped : out[i].flag = flag[b]
  <2>1. PICK h \in Heads : h < size /\ out[i] = Record(h)
    BY DEF Holds
  <2>2. h \in Mapped
    BY <2>1, FileTypes DEF Mapped
  <2>. QED  BY <2>1, <2>2, RecordTypes
<1>. QED  BY <1>2, <1>3 DEF AnyUnwritten, Untrusted

LEMMA CoreAnswer ==
  ASSUME FileOK, out \in Seq(RecordType), Holds(out, size)
  PROVE  Len(MergeRuns(out)) = 1 <=> Contiguous
<1>1. PICK q, runs : q = Sorted(out) /\ runs = MergeRuns(out)
  OBVIOUS
<1>2. /\ Whole(q) /\ Row(q) /\ q \in Seq(RecordType)
      /\ Chains(q) \in Nat /\ Len(runs) = Chains(q)
      /\ DOMAIN runs = 1 .. Chains(q)
      /\ \A i \in 1 .. Chains(q) :
           /\ runs[i].logical = q[First(q, i)].logical
           /\ runs[i].physical = q[First(q, i)].physical
           /\ runs[i].logical \in Nat /\ runs[i].physical \in Nat
           /\ End(runs[i]) = End(q[Final(q, i)])
  BY <1>1, RunsOfOut
<1>3. /\ \A b \in Mapped : /\ b \in Block /\ b < size /\ phys[b] # Hole
                           /\ b \in Nat /\ phys[b] \in Nat
      /\ \A b \in Block : b < size /\ phys[b] # Hole => b \in Mapped
      /\ size \in Nat /\ Blocks \in Nat /\ size <= Blocks
  BY FileTypes DEF Mapped, FileOK
<1>4. /\ \A i \in 1 .. Chains(q) : First(q, i) \in 1 .. Len(q)
      /\ \A i \in 1 .. Chains(q) : Final(q, i) \in First(q, i) .. Len(q)
      /\ \A k \in 1 .. Len(q) : \E i \in 1 .. Chains(q) :
           k \in First(q, i) .. Final(q, i)
  BY <1>2, StartsLemma, ChainsLemma
<1>5. ASSUME NEW k \in 1 .. Len(q)
      PROVE  \E h \in Mapped : h \in Heads /\ q[k] = Record(h)
  <2>1. PICK h \in Heads : h < size /\ q[k] = Record(h)
    BY <1>2 DEF Whole
  <2>. QED  BY <1>3, <2>1, FileTypes
<1>6. ASSUME Chains(q) = 1
      PROVE  Contiguous
  <2>1. PICK lo, up : /\ lo = q[First(q, 1)].logical
                      /\ up = End(q[Final(q, 1)])
    OBVIOUS
  <2>2. Mapped # {}
    BY <1>4, <1>5, <1>6
  <2>3. ASSUME NEW b \in Mapped
        PROVE  /\ b \in lo .. up - 1
               /\ phys[b] - b = q[First(q, 1)].physical - q[First(q, 1)].logical
    <3>1. PICK i \in 1 .. Chains(q) :
            /\ b \in q[First(q, i)].logical .. End(q[Final(q, i)]) - 1
            /\ phys[b] - b = q[First(q, i)].physical - q[First(q, i)].logical
      BY <1>2, <1>3, RunOf
    <3>. QED  BY <1>6, <2>1, <3>1
  <2>4. ASSUME NEW d \in Block, d < size, d \in lo .. up - 1
        PROVE  d \in Mapped
    <3>1. 1 \in 1 .. Chains(q)
      BY <1>6
    <3>2. PICK j, h : h \in Heads /\ d \in h .. End(Record(h)) - 1
      BY <1>2, <2>1, <2>4, <3>1, RunHas
    <3>. QED  BY <1>3, <2>4, <3>2, RecordTells
  <2>5. ASSUME NEW b \in Mapped, NEW c \in Mapped, b < c
        PROVE  /\ phys[c] - phys[b] = c - b
               /\ \A d \in b .. c : d \in Mapped
    <3>1. phys[c] - c = phys[b] - b
      BY <2>3
    <3>2. phys[c] - phys[b] = c - b
      BY <1>3, <3>1
    <3>3. /\ lo \in Int /\ up \in Int
      BY <1>2, <1>4, <1>6, <2>1, FieldTypes
    <3>4. ASSUME NEW d \in b .. c
          PROVE  d \in Mapped
      <4>1. b \in lo .. up - 1 /\ c \in lo .. up - 1
        BY <2>3
      <4>2. d \in Nat /\ d < size /\ d \in Block /\ d \in lo .. up - 1
        BY <1>3, <3>3, <4>1, FileTypes
      <4>. QED  BY <2>4, <4>2
    <3>. QED  BY <3>2, <3>4
  <2>. QED  BY <2>2, <2>5 DEF Contiguous
<1>7. ASSUME Contiguous
      PROVE  Chains(q) = 1
  <2>1. Chains(q) # 0
    <3>1. PICK b \in Mapped : TRUE
      BY <1>7 DEF Contiguous
    <3>2. PICK i \in 1 .. Chains(q) : TRUE
      BY <1>2, <1>3, RunOf
    <3>. QED  BY <1>2, <3>2
  <2>2. ASSUME Chains(q) > 1
        PROVE  FALSE
    <3>1. 1 \in 1 .. Chains(q) /\ 2 \in 1 .. Chains(q)
      BY <1>2, <2>2
    <3>2. PICK k : k = First(q, 2)
      OBVIOUS
    <3>3. /\ k \in 1 .. Len(q) /\ k - 1 \in 1 .. Len(q)
          /\ ~Joins(q[k - 1], q[k])
      <4>1. Final(q, 1) = k - 1 /\ ~Joins(q[k - 1], q[k])
        BY <1>2, <3>1, <3>2, ChainsLemma
      <4>. QED  BY <1>4, <3>1, <3>2, <4>1
    <3>4. PICK g \in Mapped : g \in Heads /\ q[k - 1] = Record(g)
      BY <1>5, <3>3
    <3>5. PICK h \in Mapped : h \in Heads /\ q[k] = Record(h)
      BY <1>5, <3>3
    <3>6. /\ g \in Nat /\ h \in Nat /\ g < h
          /\ Record(g).logical = g /\ Record(h).logical = h
          /\ Record(g).physical = phys[g] /\ Record(h).physical = phys[h]
          /\ Record(g).length = End(Record(g)) - g
      <4>1. k - 1 < k
        BY <3>3
      <4>2. q[k - 1].logical < q[k].logical
        BY <1>2, <3>3, <4>1 DEF Whole
      <4>3. /\ Record(g).logical = g /\ Record(h).logical = h
            /\ Record(g).physical = phys[g] /\ Record(h).physical = phys[h]
            /\ g \in Block /\ Record(g).length = End(Record(g)) - g
        BY <1>3, <3>4, <3>5, RecordTypes, RecordEnds
      <4>. QED  BY <1>3, <3>4, <3>5, <4>2, <4>3
    <3>7. PICK e \in g + 1 .. h : e = End(Record(g))
      <4>1. End(Record(g)) <= h
        BY <3>4, <3>5, <3>6, RecordsDisjoint
      <4>2. End(Record(g)) \in g + 1 .. Blocks
        BY <3>4, RecordTypes
      <4>. QED  BY <1>3, <3>6, <4>1, <4>2
    <3>8. phys[h] - phys[g] = h - g /\ \A d \in g .. h : d \in Mapped
      BY <1>7, <3>6 DEF Contiguous
    <3>9. e \in Mapped /\ e \in Nat /\ e < size /\ e # Blocks /\ phys[e] # Hole
      BY <1>3, <3>6, <3>7, <3>8
    <3>10. e \in Heads
      BY <1>3, <3>7, <3>9, RecordEnds
    <3>11. PICK j \in 1 .. Len(q) : q[j] = Record(e)
      BY <1>2, <3>9, <3>10 DEF Whole
    <3>12. Record(e).logical = e /\ e > g
      BY <3>6, <3>7, <3>10, RecordTypes
    <3>13. ~(j < k)
      <4>. SUFFICES ASSUME j < k
                    PROVE  FALSE
        OBVIOUS
      <4>1. j = k - 1 \/ j < k - 1
        BY <3>3
      <4>2. CASE j = k - 1
        BY <3>4, <3>6, <3>11, <3>12, <4>2
      <4>3. CASE j < k - 1
        <5>1. q[j].logical < q[k - 1].logical
          BY <1>2, <3>3, <4>3 DEF Whole
        <5>. QED  BY <3>4, <3>6, <3>9, <3>11, <3>12, <5>1
      <4>. QED  BY <4>1, <4>2, <4>3
    <3>14. ~(k < j)
      <4>. SUFFICES ASSUME k < j
                    PROVE  FALSE
        OBVIOUS
      <4>1. q[k].logical < q[j].logical
        BY <1>2, <3>3 DEF Whole
      <4>. QED  BY <3>5, <3>6, <3>7, <3>9, <3>11, <3>12, <4>1
    <3>15. e = h
      BY <3>3, <3>5, <3>6, <3>11, <3>12, <3>13, <3>14
    <3>16. phys[h] = phys[g] + (e - g)
      BY <1>3, <3>6, <3>8, <3>9, <3>15
    <3>17. Joins(q[k - 1], q[k])
      BY <3>4, <3>5, <3>6, <3>7, <3>15, <3>16 DEF Joins
    <3>. QED  BY <3>3, <3>17
  <2>. QED  BY <1>2, <2>1, <2>2
<1>. QED  BY <1>1, <1>2, <1>6, <1>7

-----------------------------------------------------------------------------
(***************************************************************************)
(* The answers of the driver.                                              *)
(***************************************************************************)

LEMMA TimesLemma ==
  ASSUME NEW a \in Nat, NEW b \in Nat, NEW c \in Nat, a < b
  PROVE  c * a + c <= c * b
<1>1. PICK d \in Nat : b = a + 1 + d
  <2>1. b - a - 1 \in Nat /\ b = a + 1 + (b - a - 1)
    OBVIOUS
  <2>. QED  BY <2>1
<1>2. c * (a + 1 + d) = c * a + c + c * d
  OBVIOUS
<1>3. c * d \in Nat /\ c * a \in Nat
  OBVIOUS
<1>. QED  BY <1>1, <1>2, <1>3

LEMMA FirstOfLemma ==
  ASSUME NEW T, NEW q \in Seq(T), NEW n \in Nat
  PROVE  /\ FirstOf(q, n) \in Seq(T)
         /\ Len(FirstOf(q, n)) = IF Len(q) <= n THEN Len(q) ELSE n
         /\ \A k \in 1 .. Len(FirstOf(q, n)) : FirstOf(q, n)[k] = q[k]
<1>1. CASE Len(q) <= n
  BY <1>1 DEF FirstOf
<1>2. CASE ~(Len(q) <= n)
  BY <1>2 DEF FirstOf
<1>. QED  BY <1>1, <1>2

LEMMA ConcatLemma ==
  ASSUME NEW T, NEW q \in Seq(T), NEW r \in Seq(T)
  PROVE  /\ q \o r \in Seq(T) /\ Len(q \o r) = Len(q) + Len(r)
         /\ Len(r) = 0 => q \o r = q
OBVIOUS

\* The records that the driver has still to tell of.
Due(h) == h \in Heads /\ h < size /\ End(Record(h)) > start

\* An honest answer: the records due, in order, as many as one batch holds.
LEMMA HonestAnswer ==
  ASSUME FileOK, honest, start \in 0 .. size, NEW got \in Answers,
         NEW n, n = Len(got)
  PROVE  /\ got \in Seq(RecordType) /\ n <= Batch
         /\ \A k \in 1 .. n : \E h \in Heads : Due(h) /\ got[k] = Record(h)
         /\ \A j, k \in 1 .. n : j < k => got[j].logical < got[k].logical
         /\ n = 0 => \A h \in Heads : ~Due(h)
         /\ n > 0 => \A h \in Heads : Due(h) /\ h <= got[n].logical =>
                       \E k \in 1 .. n : got[k] = Record(h)
<1>. DEFINE S == {x \in Records : End(x) > start /\ x.logical < size}
            m == Cardinality(S)
            E == InOrder(S)
<1>1. got = FirstOf(E, Batch)
  BY DEF Answers, Bound
<1>2. \A h \in Heads : /\ Record(h) \in RecordType /\ Record(h).logical = h
                       /\ h \in Nat
  BY RecordTypes
<1>3. /\ \A x \in S : \E h \in Heads : Due(h) /\ x = Record(h)
      /\ \A h \in Heads : Due(h) => Record(h) \in S
  BY <1>2 DEF Records, Due
<1>4. IsFiniteSet(S)
  <2>1. IsFiniteSet(Heads)
    <3>1. IsFiniteSet(0 .. Blocks - 1)
      BY FileTypes, FS_Interval
    <3>. QED  BY <3>1, FileTypes, FS_Subset DEF Block
  <2>2. [h \in Heads |-> Record(h)] \in Surjection(Heads, Records)
    BY DEF Surjection, Records
  <2>3. IsFiniteSet(Records)
    BY <2>1, <2>2, FS_Surjection
  <2>. QED  BY <2>3, FS_Subset
<1>. HIDE DEF S
<1>5. /\ \A x \in S : x \in RecordType /\ x.logical \in Int
      /\ \A x, y \in S : x # y => x.logical # y.logical
  BY <1>2, <1>3
<1>6. /\ m \in Nat
      /\ E \in [1 .. m -> S]
      /\ \A x \in S : \E k \in 1 .. m : E[k] = x
      /\ \A i, j \in 1 .. m : i < j => E[i].logical < E[j].logical
  BY <1>4, <1>5, InOrderLemma
<1>. HIDE DEF E, m
<1>7. E \in Seq(RecordType) /\ Len(E) = m
  BY <1>5, <1>6
<1>8. /\ Batch \in Nat /\ Batch > 0 /\ got \in Seq(RecordType)
      /\ n = IF m <= Batch THEN m ELSE Batch
      /\ \A k \in 1 .. n : got[k] = E[k]
  BY <1>1, <1>7, FirstOfLemma, ExtentsAssumption
<1>9. n \in Nat /\ n <= m /\ (n = 0 => m = 0)
  BY <1>6, <1>8
<1>10. \A k \in 1 .. n : got[k] \in S /\ got[k] = E[k] /\ k \in 1 .. m
  BY <1>6, <1>8, <1>9
<1>11. ASSUME NEW h \in Heads, Due(h), n > 0, h <= got[n].logical
       PROVE  \E k \in 1 .. n : got[k] = Record(h)
  <2>1. PICK k \in 1 .. m : E[k] = Record(h)
    BY <1>3, <1>6, <1>11
  <2>2. CASE k <= n
    BY <1>8, <1>9, <2>1, <2>2
  <2>3. CASE n < k
    <3>1. n \in 1 .. m /\ n \in 1 .. n
      BY <1>9, <1>11
    <3>2. E[n].logical < E[k].logical
      BY <1>6, <2>3, <3>1
    <3>3. got[n].logical < h /\ got[n].logical \in Int
      BY <1>2, <1>5, <1>8, <1>10, <2>1, <3>1, <3>2
    <3>. QED  BY <1>2, <1>11, <3>3
  <2>. QED  BY <1>9, <2>2, <2>3
<1>12. n = 0 => \A h \in Heads : ~Due(h)
  BY <1>3, <1>6, <1>9
<1>13. \A k \in 1 .. n : \E h \in Heads : Due(h) /\ got[k] = Record(h)
  BY <1>3, <1>10
<1>14. \A j, k \in 1 .. n : j < k => got[j].logical < got[k].logical
  BY <1>6, <1>10
<1>. QED  BY <1>8, <1>9, <1>11, <1>12, <1>13, <1>14

\* Any answer, of any driver, is a batch of records.
LEMMA AnswerTypes ==
  ASSUME FileOK, start \in 0 .. size, NEW got \in Answers
  PROVE  got \in Seq(RecordType) /\ Len(got) <= Batch
<1>1. CASE honest
  BY <1>1, HonestAnswer
<1>2. CASE ~honest
  <2>1. PICK k \in 0 .. Batch : got \in [1 .. k -> Strays]
    BY <1>2 DEF Answers
  <2>2. got \in [1 .. k -> RecordType] /\ k \in Nat
    BY <2>1, ExtentsAssumption
  <2>. QED  BY <2>1, <2>2, ExtentsAssumption
<1>. QED  BY <1>1, <1>2

-----------------------------------------------------------------------------
(***************************************************************************)
(* The inductive invariant: the loop has read the records that begin before *)
(* start, none of them reaches past it, and there are at most Batch of them *)
(* for every block that start has passed.                                  *)
(***************************************************************************)

Types ==
  /\ FileOK
  /\ pc \in {"loop", "map", "done"} /\ start \in 0 .. size
  /\ out \in Seq(RecordType)
  /\ answer \in {"none", "Unverifiable", "map"}

Bounded ==
  /\ Len(out) <= Batch * size
  /\ pc = "loop" => start < size /\ Len(out) <= Batch * start

Read ==
  honest /\ pc = "loop" =>
    /\ Holds(out, start)
    /\ \A h \in Heads : h < start => End(Record(h)) <= start

Finished ==
  /\ honest /\ (pc = "map" \/ answer = "map") => Holds(out, size)
  /\ answer = "map" => pc = "done" /\ ~Untrusted(out)

IInv == Types /\ Bounded /\ Read /\ Finished

\* The file does not change, and so neither do its records.
LEMMA Unmoved ==
  ASSUME UNCHANGED file
  PROVE  /\ UNCHANGED <<size, honest>>
         /\ Heads' = Heads
         /\ \A b : Record(b)' = Record(b)
         /\ FileOK => FileOK'
<1>1. /\ phys' = phys /\ flag' = flag /\ cuts' = cuts /\ size' = size
      /\ honest' = honest
  BY DEF file
<1>2. Heads' = Heads
  BY <1>1 DEF Heads, Continues
<1>3. \A b : Record(b)' = Record(b)
  BY <1>1, <1>2 DEF Record
<1>4. FileOK => FileOK'
  BY <1>1 DEF FileOK
<1>. QED  BY <1>1, <1>2, <1>3, <1>4

LEMMA HoldsNext ==
  ASSUME UNCHANGED file, NEW row, NEW n, Holds(row, n)
  PROVE  Holds(row, n)'
BY Unmoved DEF Holds

\* What one more answer adds to the records read so far.
LEMMA AppendLemma ==
  ASSUME FileOK, honest, start \in 0 .. size, out \in Seq(RecordType),
         Holds(out, start),
         \A h \in Heads : h < start => End(Record(h)) <= start,
         NEW got \in Answers, NEW n \in Nat, n = Len(got), n > 0,
         NEW g \in Heads, got[n] = Record(g),
         NEW e \in Int, start <= e, g < e,
         \A h \in Heads : h < e => h < start \/ (Due(h) /\ h <= g)
  PROVE  Holds(out \o got, e)
<1>1. /\ got \in Seq(RecordType)
      /\ \A k \in 1 .. n : \E h \in Heads : Due(h) /\ got[k] = Record(h)
      /\ \A j, k \in 1 .. n : j < k => got[j].logical < got[k].logical
      /\ \A h \in Heads : Due(h) /\ h <= got[n].logical =>
           \E k \in 1 .. n : got[k] = Record(h)
  BY HonestAnswer
<1>2. \A h \in Heads : /\ Record(h).logical = h /\ h \in Nat
                       /\ End(Record(h)) \in Nat
  BY RecordTypes, FileTypes
<1>3. PICK m \in Nat : m = Len(out)
  OBVIOUS
<1>4. PICK row : row = out \o got
  OBVIOUS
<1>5. /\ DOMAIN row = 1 .. m + n
      /\ \A i \in 1 .. m : row[i] = out[i] /\ i \in DOMAIN out
      /\ \A k \in 1 .. n : row[m + k] = got[k] /\ m + k \in DOMAIN row
      /\ \A i \in 1 .. m + n : i \in 1 .. m \/ i - m \in 1 .. n
      /\ \A i \in m + 1 .. m + n : row[i] = got[i - m] /\ i - m \in 1 .. n
      /\ DOMAIN out = 1 .. m
  BY <1>1, <1>3, <1>4
<1>6. \A i \in 1 .. m : \E h \in Heads : h < start /\ row[i] = Record(h)
  BY <1>5 DEF Holds
<1>7. ASSUME NEW k \in 1 .. n
      PROVE  \E h \in Heads : h <= g /\ h >= start /\ got[k] = Record(h)
  <2>1. PICK h \in Heads : Due(h) /\ got[k] = Record(h)
    BY <1>1
  <2>2. h >= start
    BY <1>2, <2>1 DEF Due, FileOK
  <2>3. k = n \/ got[k].logical < got[n].logical
    BY <1>1
  <2>4. h <= g
    BY <1>2, <2>1, <2>3
  <2>. QED  BY <2>1, <2>2, <2>4
<1>8. ASSUME NEW i \in DOMAIN row
      PROVE  \E h \in Heads : h < e /\ row[i] = Record(h)
  <2>1. CASE i \in 1 .. m
    <3>1. PICK h \in Heads : h < start /\ row[i] = Record(h)
      BY <1>6, <2>1
    <3>2. h < e
      BY <1>2, <3>1 DEF FileOK
    <3>. QED  BY <3>1, <3>2
  <2>2. CASE i \in m + 1 .. m + n
    <3>1. PICK h \in Heads : h <= g /\ row[i] = Record(h)
      BY <1>5, <1>7, <2>2
    <3>2. h < e
      BY <1>2, <3>1
    <3>. QED  BY <3>1, <3>2
  <2>. QED  BY <1>3, <1>5, <1>8, <2>1, <2>2
<1>9. ASSUME NEW h \in Heads, h < e
      PROVE  \E i \in DOMAIN row : row[i] = Record(h)
  <2>1. CASE h < start
    <3>1. PICK i \in DOMAIN out : out[i] = Record(h)
      BY <2>1 DEF Holds
    <3>. QED  BY <1>5, <3>1
  <2>2. CASE Due(h) /\ h <= g
    <3>1. PICK k \in 1 .. n : got[k] = Record(h)
      BY <1>1, <1>2, <2>2
    <3>. QED  BY <1>5, <3>1
  <2>. QED  BY <1>9, <2>1, <2>2
<1>10. ASSUME NEW i \in DOMAIN row, NEW j \in DOMAIN row, i < j
       PROVE  row[i].logical < row[j].logical
  <2>1. CASE j \in 1 .. m
    <3>1. i \in 1 .. m
      BY <1>3, <1>5, <1>10, <2>1
    <3>. QED  BY <1>5, <1>10, <2>1, <3>1 DEF Holds
  <2>2. CASE i \in 1 .. m /\ j \in m + 1 .. m + n
    <3>1. PICK h \in Heads : h < start /\ row[i] = Record(h)
      BY <1>6, <2>2
    <3>2. PICK o \in Heads : o >= start /\ row[j] = Record(o)
      BY <1>5, <1>7, <2>2
    <3>. QED  BY <1>2, <3>1, <3>2 DEF FileOK
  <2>3. CASE i \in m + 1 .. m + n /\ j \in m + 1 .. m + n
    <3>1. i - m \in 1 .. n /\ j - m \in 1 .. n /\ i - m < j - m
      BY <1>3, <1>10, <2>3
    <3>. QED  BY <1>1, <1>5, <2>3, <3>1
  <2>. QED  BY <1>3, <1>5, <1>10, <2>1, <2>2, <2>3
<1>. QED  BY <1>4, <1>8, <1>9, <1>10 DEF Holds

LEMMA InitIInv == Init => IInv
<1>. SUFFICES ASSUME Init
              PROVE  IInv
  OBVIOUS
<1>1. Blocks \in Nat /\ Batch \in Nat /\ Odd \subseteq {"unwritten", "unknown"}
  BY ExtentsAssumption
<1>2. /\ size \in 0 .. Blocks /\ start = 0 /\ out = <<>> /\ answer = "none"
      /\ pc = IF size = 0 THEN "map" ELSE "loop"
  BY DEF Init
<1>3. FileOK
  <2>1. phys \in Placements /\ cuts \subseteq Block /\ honest \in BOOLEAN
    BY DEF Init
  <2>2. flag \in [Block -> {"data", "unwritten", "unknown"}]
    BY <1>1 DEF Init
  <2>. QED  BY <1>2, <2>1, <2>2 DEF FileOK
<1>4. Types
  BY <1>1, <1>2, <1>3 DEF Types
<1>5. Bounded
  <2>1. Len(out) = 0 /\ Batch * size \in Nat /\ Batch * start = 0
    BY <1>1, <1>2
  <2>2. pc = "loop" => start < size
    BY <1>1, <1>2
  <2>. QED  BY <2>1, <2>2 DEF Bounded
<1>6. /\ \A h \in Heads : ~(h < 0)
      /\ size = 0 => \A h \in Heads : ~(h < size)
  BY <1>3, FileTypes
<1>7. Read
  BY <1>2, <1>6 DEF Read, Holds
<1>8. Finished
  BY <1>2, <1>6 DEF Finished, Holds
<1>. QED  BY <1>4, <1>5, <1>7, <1>8 DEF IInv

\* One round: the records that the answer brings are the next ones, and the
\* loop ends only when none is left.
LEMMA RoundKeeps == IInv /\ Round => IInv'
<1>. SUFFICES ASSUME IInv, Round
              PROVE  IInv'
  OBVIOUS
<1>1. /\ FileOK /\ pc = "loop" /\ start \in 0 .. size /\ start < size
      /\ out \in Seq(RecordType) /\ Len(out) <= Batch * start
      /\ answer \in {"none", "Unverifiable", "map"} /\ answer # "map"
      /\ UNCHANGED file /\ answer' = answer
  <2>1. pc = "loop" /\ UNCHANGED file /\ answer' = answer
    BY DEF Round
  <2>2. answer # "map"
    BY <2>1 DEF IInv, Finished
  <2>. QED  BY <2>1, <2>2 DEF IInv, Types, Bounded
<1>2. size \in Nat /\ start \in Nat /\ Batch \in Nat /\ Blocks \in Nat
  BY <1>1, ExtentsAssumption DEF FileOK
<1>3. PICK got \in Answers :
        /\ out' = FirstOf(out \o got, MaxRecords)
        /\ \/ /\ Len(got) = 0
              /\ pc' = "map" /\ UNCHANGED start
           \/ /\ Len(got) > 0
              /\ \/ /\ \/ honest => \E k \in 1 .. Len(got) : IsLast(got[k])
                       \/ Stops(Advance(got[Len(got)]))
                    /\ pc' = "map" /\ UNCHANGED start
                 \/ /\ ~Stops(Advance(got[Len(got)]))
                    /\ start' = Advance(got[Len(got)]) /\ UNCHANGED pc
  <2>1. PICK got \in Answers, last \in BOOLEAN :
          /\ last \in SaysLast(got)
          /\ out' = FirstOf(out \o got, MaxRecords)
          /\ \/ Len(got) = 0 /\ pc' = "map" /\ UNCHANGED start
             \/ /\ Len(got) > 0
                /\ IF last \/ Stops(Advance(got[Len(got)]))
                   THEN pc' = "map" /\ UNCHANGED start
                   ELSE start' = Advance(got[Len(got)]) /\ UNCHANGED pc
    BY DEF Round
  <2>2. got \in Seq(RecordType)
    BY <1>1, AnswerTypes
  <2>3. last /\ honest => \E k \in 1 .. Len(got) : IsLast(got[k])
    <3>1. DOMAIN got = 1 .. Len(got)
      BY <2>2
    <3>2. honest => last = \E k \in DOMAIN got : IsLast(got[k])
      BY <2>1, Zenon DEF SaysLast
    <3>. QED  BY <3>1, <3>2
  <2>. QED  BY <2>1, <2>3
<1>4. PICK n \in Nat : n = Len(got)
  BY <1>1, AnswerTypes
<1>5. got \in Seq(RecordType) /\ n <= Batch
  BY <1>1, <1>4, AnswerTypes
<1>6. /\ out' = out \o got /\ out' \in Seq(RecordType)
      /\ Len(out') <= Batch * start + Batch /\ Len(out') <= Batch * size
      /\ Batch * start \in Nat
  <2>1. Batch * start + Batch <= Batch * size
    BY <1>1, <1>2, TimesLemma
  <2>2. Batch * start \in Nat /\ Batch * size \in Nat
    BY <1>2
  <2>3. PICK bs, bz \in Nat : bs = Batch * start /\ bz = Batch * size
    BY <2>2
  <2>4. PICK row \in Seq(RecordType) : row = out \o got
    BY <1>1, <1>5, ConcatLemma
  <2>5. Len(row) = Len(out) + n
    BY <1>1, <1>4, <1>5, <2>4, ConcatLemma
  <2>6. Len(row) <= bs + Batch /\ Len(row) <= bz
    <3>1. bs + Batch <= bz /\ Len(out) <= bs
      BY <1>1, <2>1, <2>3
    <3>2. Len(out) \in Nat
      BY <1>1
    <3>. QED  BY <1>2, <1>5, <2>3, <2>5, <3>1, <3>2
  <2>7. FirstOf(row, MaxRecords) = row
    BY <2>3, <2>6 DEF FirstOf, MaxRecords
  <2>. QED  BY <1>3, <2>3, <2>4, <2>6, <2>7
<1>7. size' = size /\ honest' = honest /\ FileOK'
  BY <1>1, Unmoved
<1>8. CASE n = 0
  <2>1. out' = out /\ pc' = "map" /\ start' = start
    <3>1. out \o got = out
      BY <1>1, <1>4, <1>5, <1>8, ConcatLemma
    <3>. QED  BY <1>3, <1>4, <1>6, <1>8, <3>1
  <2>2. Types' /\ Bounded' /\ Read'
    BY <1>1, <1>6, <1>7, <2>1 DEF Types, Bounded, Read
  <2>3. ASSUME honest
        PROVE  Holds(out, size)
    <3>1. Holds(out, start) /\ \A h \in Heads : h < start => End(Record(h)) <= start
      BY <1>1, <2>3 DEF IInv, Read
    <3>2. \A h \in Heads : ~Due(h)
      BY <1>1, <1>4, <1>8, <2>3, HonestAnswer
    <3>3. \A h \in Heads : h \in Nat /\ End(Record(h)) \in h + 1 .. Blocks
      BY <1>1, RecordTypes
    <3>4. \A h \in Heads : h < size <=> h < start
      BY <1>1, <1>2, <3>2, <3>3 DEF Due
    <3>. QED  BY <3>1, <3>4 DEF Holds
  <2>4. Finished'
    BY <1>1, <1>7, <2>1, <2>3, HoldsNext DEF Finished
  <2>. QED  BY <2>2, <2>4 DEF IInv
<1>9. CASE n > 0
  <2>1. PICK next \in Nat : next = Advance(got[n])
    BY <1>4, <1>5, <1>9, FieldTypes DEF Advance
  <2>2. ASSUME honest
        PROVE  \E g \in Heads :
                 /\ got[n] = Record(g) /\ g < size /\ g < next /\ start < next
                 /\ \A h \in Heads : h <= g => End(Record(h)) <= next
                 /\ \A h \in Heads : h < next => h <= g
    <3>1. PICK g \in Heads : Due(g) /\ got[n] = Record(g)
      BY <1>1, <1>4, <1>9, <2>2, HonestAnswer
    <3>2. \A h \in Heads : h \in Nat /\ End(Record(h)) \in h + 1 .. Blocks
      BY <1>1, RecordTypes
    <3>3. next = End(Record(g))
      BY <2>1, <3>1 DEF Advance
    <3>4. \A h \in Heads : h <= g => End(Record(h)) <= next
      <4>1. \A h \in Heads : h < g => End(Record(h)) <= g
        BY <1>1, RecordsDisjoint
      <4>. QED  BY <1>2, <3>2, <3>3, <4>1
    <3>5. \A h \in Heads : h < next => h <= g
      <4>1. \A h \in Heads : g < h => End(Record(g)) <= h
        BY <1>1, RecordsDisjoint
      <4>. QED  BY <1>2, <3>2, <3>3, <4>1
    <3>. QED  BY <1>2, <3>1, <3>2, <3>3, <3>4, <3>5 DEF Due
  <2>3. CASE /\ \/ honest => \E k \in 1 .. n : IsLast(got[k])
                \/ Stops(next)
             /\ pc' = "map" /\ start' = start
    <3>1. Types' /\ Bounded' /\ Read'
      BY <1>1, <1>6, <1>7, <2>3 DEF Types, Bounded, Read
    <3>2. ASSUME honest
          PROVE  Holds(out \o got, size)
      <4>1. /\ Holds(out, start)
            /\ \A h \in Heads : h < start => End(Record(h)) <= start
        BY <1>1, <3>2 DEF IInv, Read
      <4>2. PICK g \in Heads :
              /\ got[n] = Record(g) /\ g < size /\ g < next /\ start < next
              /\ \A h \in Heads : h <= g => End(Record(h)) <= next
              /\ \A h \in Heads : h < next => h <= g
        BY <2>2, <3>2
      <4>3. \A h \in Heads : h \in Nat /\ End(Record(h)) \in h + 1 .. Blocks
                             /\ Record(h).logical = h
        BY <1>1, RecordTypes
      <4>4. \A h \in Heads : h < size => h <= g
        <5>1. CASE \E k \in 1 .. n : IsLast(got[k])
          <6>1. PICK k \in 1 .. n : IsLast(got[k])
            BY <5>1
          <6>2. \A h \in Heads : h <= got[k].logical
            BY <4>3, <6>1 DEF IsLast, Records
          <6>3. k = n \/ got[k].logical < got[n].logical
            BY <1>1, <1>4, <3>2, HonestAnswer
          <6>4. got[k].logical \in Nat
            BY <1>4, <1>5, FieldTypes
          <6>. QED  BY <4>2, <4>3, <6>2, <6>3, <6>4
        <5>2. CASE Stops(next)
          <6>1. next >= size
            BY <1>2, <4>2, <5>2 DEF Stops
          <6>. QED  BY <1>2, <4>2, <4>3, <6>1
        <5>. QED  BY <2>3, <3>2, <5>1, <5>2
      <4>5. \A h \in Heads : h < size => h < start \/ (Due(h) /\ h <= g)
        BY <1>2, <4>3, <4>4 DEF Due
      <4>. QED  BY <1>1, <1>2, <1>4, <1>9, <3>2, <4>1, <4>2, <4>5, AppendLemma
    <3>3. Finished'
      BY <1>1, <1>6, <1>7, <2>3, <3>2, HoldsNext DEF Finished
    <3>. QED  BY <3>1, <3>3 DEF IInv
  <2>4. CASE ~Stops(next) /\ start' = next /\ pc' = pc
    <3>1. start < next /\ next < size
      BY <1>2, <2>4 DEF Stops
    <3>2. Types'
      BY <1>1, <1>2, <1>6, <1>7, <2>4, <3>1 DEF Types
    <3>3. Bounded'
      <4>1. Batch * start + Batch <= Batch * next
        BY <1>2, <3>1, TimesLemma
      <4>2. Len(out') <= Batch * next
        <5>1. Batch * next \in Nat /\ Len(out') \in Nat
          BY <1>2, <1>6
        <5>2. PICK bs, bn \in Nat : bs = Batch * start /\ bn = Batch * next
          BY <1>6, <5>1
        <5>3. bs + Batch <= bn
          BY <4>1, <5>2
        <5>4. PICK l \in Nat : l = Len(out') /\ l <= bs + Batch
          BY <1>6, <5>1, <5>2
        <5>5. l <= bn
          BY <1>2, <5>3, <5>4
        <5>. QED  BY <5>2, <5>4, <5>5
      <4>. QED  BY <1>6, <1>7, <2>4, <3>1, <4>2 DEF Bounded
    <3>4. ASSUME honest
          PROVE  /\ Holds(out \o got, next)
                 /\ \A h \in Heads : h < next => End(Record(h)) <= next
      <4>1. /\ Holds(out, start)
            /\ \A h \in Heads : h < start => End(Record(h)) <= start
        BY <1>1, <3>4 DEF IInv, Read
      <4>2. PICK g \in Heads :
              /\ got[n] = Record(g) /\ g < size /\ g < next /\ start < next
              /\ \A h \in Heads : h <= g => End(Record(h)) <= next
              /\ \A h \in Heads : h < next => h <= g
        BY <2>2, <3>4
      <4>3. \A h \in Heads : h \in Nat /\ End(Record(h)) \in h + 1 .. Blocks
        BY <1>1, RecordTypes
      <4>4. \A h \in Heads : h < next => h < start \/ (Due(h) /\ h <= g)
        BY <1>2, <3>1, <4>2, <4>3 DEF Due
      <4>5. Holds(out \o got, next)
        BY <1>1, <1>2, <1>4, <1>9, <3>4, <4>1, <4>2, <4>4, AppendLemma
      <4>. QED  BY <4>2, <4>5
    <3>5. Read'
      BY <1>1, <1>6, <1>7, <2>4, <3>4, HoldsNext, Unmoved DEF Read
    <3>6. Finished'
      BY <1>1, <1>7, <2>4 DEF Finished
    <3>. QED  BY <3>2, <3>3, <3>5, <3>6 DEF IInv
  <2>. QED  BY <1>3, <1>4, <1>9, <2>1, <2>3, <2>4
<1>. QED  BY <1>4, <1>8, <1>9

LEMMA NextKeeps == IInv /\ [Next]_vars => IInv'
<1>. SUFFICES ASSUME IInv, [Next]_vars
              PROVE  IInv'
  OBVIOUS
<1>1. CASE Round
  BY <1>1, RoundKeeps
<1>2. CASE RoundFails
  <2>1. /\ pc' = "done" /\ answer' = "Unverifiable" /\ UNCHANGED file
        /\ start' = start /\ out' = out
    BY <1>2 DEF RoundFails
  <2>2. size' = size /\ (FileOK => FileOK')
    BY <2>1, Unmoved
  <2>. QED  BY <2>1, <2>2 DEF IInv, Types, Bounded, Read, Finished
<1>3. CASE Map
  <2>1. /\ pc = "map" /\ pc' = "done" /\ UNCHANGED file
        /\ start' = start /\ out' = out
        /\ answer' = IF Untrusted(out) THEN "Unverifiable" ELSE "map"
    BY <1>3 DEF Map
  <2>2. size' = size /\ honest' = honest /\ (FileOK => FileOK')
    BY <2>1, Unmoved
  <2>3. Types' /\ Bounded' /\ Read'
    BY <2>1, <2>2 DEF IInv, Types, Bounded, Read
  <2>4. honest => Holds(out, size)'
    BY <2>1, <2>2, HoldsNext DEF IInv, Finished
  <2>5. Finished'
    BY <2>1, <2>2, <2>4 DEF Finished, Untrusted
  <2>. QED  BY <2>3, <2>5 DEF IInv
<1>4. CASE UNCHANGED vars
  <2>1. /\ UNCHANGED file /\ pc' = pc /\ start' = start /\ out' = out
        /\ answer' = answer
    BY <1>4 DEF vars
  <2>2. size' = size /\ honest' = honest /\ (FileOK => FileOK')
    BY <2>1, Unmoved
  <2>3. Types' /\ Bounded'
    BY <2>1, <2>2 DEF IInv, Types, Bounded
  <2>4. Read'
    BY <2>1, <2>2, HoldsNext, Unmoved DEF IInv, Read
  <2>5. Finished'
    BY <2>1, <2>2, HoldsNext DEF IInv, Finished, Untrusted
  <2>. QED  BY <2>3, <2>4, <2>5 DEF IInv
<1>. QED  BY <1>1, <1>2, <1>3, <1>4 DEF Next

\* The invariant of the loop holds in every reachable state.
THEOREM ExtentsInvariant == Spec => []IInv
BY InitIInv, NextKeeps, PTL DEF Spec

-----------------------------------------------------------------------------
(***************************************************************************)
(* The theorems.                                                           *)
(***************************************************************************)

\* The loop of read_extents asks for a range that never wraps, and keeps at most
\* Batch records for each block of the file: it has an end.
THEOREM ExtentsTypes == Spec => []TypeOK
<1>1. IInv => TypeOK
  <2>. SUFFICES ASSUME IInv
                PROVE  TypeOK
    OBVIOUS
  <2>1. Types /\ Len(out) <= Batch * size
    BY DEF IInv, Bounded
  <2>2. Batch * size \in Nat
    BY <2>1, ExtentsAssumption DEF Types, FileOK
  <2>3. Len(out) < MaxRecords
    <3>1. PICK bz \in Nat : bz = Batch * size
      BY <2>2
    <3>2. Len(out) \in Nat /\ Len(out) <= bz
      BY <2>1, <3>1 DEF Types
    <3>. QED  BY <3>1, <3>2 DEF MaxRecords
  <2>. QED  BY <2>1, <2>3 DEF Types, FileOK, TypeOK
<1>. QED  BY ExtentsInvariant, <1>1, PTL

\* is_contiguous is true of a file exactly when its data is one run, whatever
\* the size of a batch and wherever the driver cuts the file into records.
THEOREM ExtentsCoreQuestion == Spec => []CoreQuestion
<1>1. IInv => CoreQuestion
  BY CoreAnswer DEF IInv, Types, Finished, CoreQuestion
<1>. QED  BY ExtentsInvariant, <1>1, PTL

\* Each mapped block of the file is in one run, at its address, and no hole is
\* in any.
THEOREM ExtentsFaithful == Spec => []Faithful
<1>1. IInv => Faithful
  <2>. SUFFICES ASSUME IInv, honest, answer = "map"
                PROVE  Faithful
    BY DEF Faithful
  <2>1. FileOK /\ out \in Seq(RecordType) /\ Holds(out, size)
    BY DEF IInv, Types, Finished
  <2>2. PICK runs : runs = MergeRuns(out)
    OBVIOUS
  <2>3. ASSUME NEW b \in Block, b < size
        PROVE  LET holds == {k \in DOMAIN runs :
                               b \in runs[k].logical .. End(runs[k]) - 1}
               IN  IF phys[b] = Hole THEN holds = {}
                   ELSE \E k \in holds :
                          /\ holds = {k}
                          /\ phys[b] = runs[k].physical + b - runs[k].logical
    <3>1. PICK holds : holds = {k \in DOMAIN runs :
                                  b \in runs[k].logical .. End(runs[k]) - 1}
      OBVIOUS
    <3>2. IF phys[b] = Hole THEN holds = {}
          ELSE \E k \in holds :
                 /\ holds = {k}
                 /\ phys[b] = runs[k].physical + b - runs[k].logical
      BY <2>1, <2>2, <2>3, <3>1, FaithfulMap
    <3>. QED  BY <3>1, <3>2
  <2>. QED  BY <2>2, <2>3 DEF Faithful
<1>. QED  BY ExtentsInvariant, <1>1, PTL

\* any_unwritten is true exactly when a block of the file is unwritten, and a
\* file with a block of unknown place has no map.
THEOREM ExtentsFlagsSurvive == Spec => []FlagsSurvive
<1>1. IInv => FlagsSurvive
  BY FlagsOfMap DEF IInv, Types, Finished, FlagsSurvive
<1>. QED  BY ExtentsInvariant, <1>1, PTL

\* Whatever the driver answered, the runs are in order, no two of them could
\* have been one, and each record that is not a marker is within one.
THEOREM ExtentsMaximal == Spec => []Maximal
<1>1. IInv => Maximal
  <2>. SUFFICES ASSUME IInv
                PROVE  Maximal
    OBVIOUS
  <2>1. out \in Seq(RecordType)
    BY DEF IInv, Types
  <2>2. PICK runs : runs = MergeRuns(out)
    OBVIOUS
  <2>. QED  BY <2>1, <2>2, MergeLemma DEF Maximal
<1>. QED  BY ExtentsInvariant, <1>1, PTL
-----------------------------------------------------------------------------
\* The steps the loop still owes: at most an ioctl for each block it has not
\* passed, one that ends it, and map.
Owed ==
  CASE pc = "loop" -> size - start + 2
    [] pc = "map"  -> 1
    [] pc = "done" -> 0

Shrinks ==
  /\ Owed \in Nat /\ Owed' \in Nat
  /\ Next => Owed' < Owed

\* A round that is not the last asks for less.
LEMMA OwedLess ==
  ASSUME NEW s \in Nat, NEW a \in 0 .. s, NEW b \in Int, a < b, b < s
  PROVE  s - b + 2 < s - a + 2
  OBVIOUS

LEMMA OwedCounts == IInv => Owed \in Nat
<1>. SUFFICES ASSUME IInv  PROVE Owed \in Nat
  OBVIOUS
<1>1. size \in Nat /\ start \in 0 .. size /\ pc \in {"loop", "map", "done"}
  BY ExtentsAssumption DEF IInv, Types, FileOK
<1>. QED  BY <1>1 DEF Owed

LEMMA NextShrinks == IInv /\ IInv' /\ [Next]_vars => [Shrinks]_vars
<1>. SUFFICES ASSUME IInv, IInv', Next  PROVE Shrinks
  BY DEF vars
<1>1. Owed \in Nat /\ Owed' \in Nat
  <2>1. IInv' => (Owed \in Nat)'
    BY OwedCounts, PTL
  <2>. QED  BY <2>1, OwedCounts
<1>2. size \in Nat /\ start \in 0 .. size
  BY ExtentsAssumption DEF IInv, Types, FileOK
<1>3. CASE Round
  <2>1. pc = "loop" /\ size' = size /\ Owed = size - start + 2
    BY <1>3 DEF Round, file, Owed
  <2>2. CASE pc' = "map"
    <3>1. Owed' = 1
      BY <2>2 DEF Owed
    <3>. QED  BY <1>1, <1>2, <2>1, <3>1 DEF Shrinks
  <2>3. CASE pc' = "loop"
    <3>1. start' \in Int /\ start < start' /\ start' < size
      <4>1. start' \in 0 .. size
        BY <2>1 DEF IInv, Types
      <4>2. ~Stops(start')
        BY <1>3, <2>3 DEF Round
      <4>. QED  BY <1>2, <4>1, <4>2 DEF Stops
    <3>2. Owed' = size - start' + 2
      BY <2>1, <2>3 DEF Owed
    <3>3. Owed' < Owed
      BY <1>2, <2>1, <3>1, <3>2, OwedLess
    <3>. QED  BY <1>1, <3>3 DEF Shrinks
  <2>. QED  BY <1>3, <2>1, <2>2, <2>3 DEF Round
<1>4. CASE RoundFails \/ Map
  <2>1. pc \in {"loop", "map"} /\ pc' = "done"
    BY <1>4 DEF RoundFails, Map
  <2>2. Owed > 0
    BY <1>2, <2>1 DEF Owed
  <2>3. Owed' = 0
    BY <2>1 DEF Owed
  <2>. QED  BY <1>1, <2>2, <2>3 DEF Shrinks
<1>. QED  BY <1>3, <1>4 DEF Next

\* No driver can keep the loop of read_extents for ever, whatever it answers: at
\* most one ioctl for each block of the file, and two steps, are ever taken.  With
\* the fairness of FairSpec this is Ends.
THEOREM ExtentsIsBounded == Spec => [][Shrinks]_vars
BY ExtentsInvariant, NextShrinks, PTL DEF Spec
-----------------------------------------------------------------------------
\* The records that hold something, if no two begin at one place.
RealRecords(extents) == {extents[i] : i \in Real(extents)}

OnePerPlace(extents) ==
  \A i, j \in Real(extents) : i # j => extents[i].logical # extents[j].logical

\* A row of records, each at a place of its own.
StrictRow(q) ==
  /\ Row(q)
  /\ \A j, k \in DOMAIN q : j < k => q[j].logical < q[k].logical

\* There is one way to lay out the records of a set: the first place at which two
\* ways differ would be where each still has the record of the other ahead.
LEMMA OneStrictRow ==
  ASSUME NEW p, NEW q, StrictRow(p), StrictRow(q),
         \A k \in DOMAIN p : \E j \in DOMAIN q : q[j] = p[k],
         \A k \in DOMAIN q : \E j \in DOMAIN p : p[j] = q[k]
  PROVE  p = q
<1>1. /\ p \in Seq(RecordType) /\ DOMAIN p = 1 .. Len(p) /\ Len(p) \in Nat
      /\ q \in Seq(RecordType) /\ DOMAIN q = 1 .. Len(q) /\ Len(q) \in Nat
  BY DEF StrictRow, Row
<1>2. /\ \A k \in DOMAIN p : p[k].logical \in Nat
      /\ \A k \in DOMAIN q : q[k].logical \in Nat
  BY <1>1, FieldTypes
<1>0. \A k \in DOMAIN p \cup DOMAIN q : k \in Nat
  BY <1>1
<1>. DEFINE Differ == {k \in DOMAIN p \cup DOMAIN q :
                         k \notin DOMAIN p \/ k \notin DOMAIN q \/ p[k] # q[k]}
<1>3. ASSUME Differ # {}  PROVE FALSE
  <2>1. Differ \in SUBSET Nat
    BY <1>1
  <2>2. PICK m \in Differ : \A k \in Differ : m <= k
    BY <1>3, <2>1, LeastOf
  <2>3. /\ m \in Nat /\ m >= 1
        /\ \A k \in 1 .. m - 1 : k \in DOMAIN p /\ k \in DOMAIN q /\ p[k] = q[k]
    <3>1. m \in Nat /\ m >= 1
      BY <1>1, <2>2
    <3>2. ASSUME NEW k \in 1 .. m - 1
          PROVE  k \in DOMAIN p /\ k \in DOMAIN q /\ p[k] = q[k]
      <4>1. k \notin Differ
        BY <2>2, <3>1
      <4>2. k \in DOMAIN p \cup DOMAIN q
        BY <1>1, <2>2, <3>1
      <4>. QED  BY <4>1, <4>2
    <3>. QED  BY <3>1, <3>2
  <2>. HIDE DEF Differ
  \* What one has at m, the other has further on.
  <2>4. ASSUME m \in DOMAIN p
        PROVE  \E j \in DOMAIN q : j >= m /\ q[j] = p[m]
    <3>1. PICK j \in DOMAIN q : q[j] = p[m]
      BY <2>4
    <3>2. CASE j < m
      <4>1. p[j] = q[j] /\ j \in DOMAIN p
        BY <1>1, <2>3, <3>2
      <4>2. p[j].logical < p[m].logical
        BY <2>4, <3>2, <4>1 DEF StrictRow
      <4>. QED  BY <1>2, <2>4, <3>1, <4>1, <4>2
    <3>3. j \in Nat /\ m \in Nat
      BY <1>0, <2>3
    <3>. QED  BY <3>1, <3>2, <3>3
  <2>5. ASSUME m \in DOMAIN q
        PROVE  \E j \in DOMAIN p : j >= m /\ p[j] = q[m]
    <3>1. PICK j \in DOMAIN p : p[j] = q[m]
      BY <2>5
    <3>2. CASE j < m
      <4>1. p[j] = q[j] /\ j \in DOMAIN q
        BY <1>1, <2>3, <3>2
      <4>2. q[j].logical < q[m].logical
        BY <2>5, <3>2, <4>1 DEF StrictRow
      <4>. QED  BY <1>2, <2>5, <3>1, <4>1, <4>2
    <3>3. j \in Nat /\ m \in Nat
      BY <1>0, <2>3
    <3>. QED  BY <3>1, <3>2, <3>3
  <2>6. m \in DOMAIN p /\ m \in DOMAIN q
    BY <1>1, <2>2, <2>3, <2>4, <2>5 DEF Differ
  <2>7. PICK j \in DOMAIN q : j >= m /\ q[j] = p[m]
    BY <2>4, <2>6
  <2>8. PICK k \in DOMAIN p : k >= m /\ p[k] = q[m]
    BY <2>5, <2>6
  <2>9. m < j /\ m < k
    <3>1. j # m /\ k # m
      BY <2>2, <2>6, <2>7, <2>8 DEF Differ
    <3>2. m \in Nat /\ j \in Nat /\ k \in Nat
      BY <1>0, <2>3
    <3>. QED  BY <2>7, <2>8, <3>1, <3>2
  <2>10. q[m].logical < q[j].logical /\ p[m].logical < p[k].logical
    BY <2>6, <2>9 DEF StrictRow
  <2>. QED  BY <1>2, <2>6, <2>7, <2>8, <2>10
<1>4. DOMAIN p = DOMAIN q /\ \A k \in DOMAIN p : p[k] = q[k]
  BY <1>3
<1>5. p = [k \in DOMAIN p |-> p[k]] /\ q = [k \in DOMAIN q |-> q[k]]
  BY <1>1
<1>. QED  BY <1>4, <1>5

LEMMA SortedStrict ==
  ASSUME NEW extents \in Seq(RecordType), OnePerPlace(extents)
  PROVE  StrictRow(Sorted(extents))
<1>. DEFINE q == Sorted(extents)
<1>1. Row(q) /\ q \in Seq(RecordType) /\ DOMAIN q = 1 .. Len(q)
  BY SortedLemma DEF Row
<1>2. ASSUME NEW j \in DOMAIN q, NEW k \in DOMAIN q, j < k
      PROVE  q[j].logical < q[k].logical
  <2>1. q[j].logical <= q[k].logical
    BY <1>1, <1>2 DEF Row
  <2>2. q[j].logical # q[k].logical
    <3>1. PICK i \in Real(extents), m \in Real(extents) :
            i # m /\ q[j] = extents[i] /\ q[k] = extents[m]
      BY <1>2, SortedLemma
    <3>. QED  BY <3>1 DEF OnePerPlace
  <2>3. q[j].logical \in Nat /\ q[k].logical \in Nat
    BY <1>1, FieldTypes
  <2>. QED  BY <2>1, <2>2, <2>3
<1>. QED  BY <1>1, <1>2 DEF StrictRow

\* merge_runs depends on which records there are, and neither on the order in
\* which the driver and the batches gave them, nor on the markers among them.
THEOREM MergeIgnoresOrder ==
  ASSUME NEW a \in Seq(RecordType), NEW b \in Seq(RecordType),
         OnePerPlace(a), OnePerPlace(b), RealRecords(a) = RealRecords(b)
  PROVE  MergeRuns(a) = MergeRuns(b)
<1>1. StrictRow(Sorted(a)) /\ StrictRow(Sorted(b))
  BY SortedStrict
<1>2. ASSUME NEW k \in DOMAIN Sorted(a)
      PROVE  \E j \in DOMAIN Sorted(b) : Sorted(b)[j] = Sorted(a)[k]
  <2>1. PICK i \in Real(a) : Sorted(a)[k] = a[i]
    BY <1>2, SortedLemma
  <2>2. PICK m \in Real(b) : b[m] = a[i]
    BY DEF RealRecords
  <2>3. PICK j \in DOMAIN Sorted(b) : Sorted(b)[j] = b[m]
    BY SortedLemma
  <2>. QED  BY <2>1, <2>2, <2>3
<1>3. ASSUME NEW k \in DOMAIN Sorted(b)
      PROVE  \E j \in DOMAIN Sorted(a) : Sorted(a)[j] = Sorted(b)[k]
  <2>1. PICK i \in Real(b) : Sorted(b)[k] = b[i]
    BY <1>3, SortedLemma
  <2>2. PICK m \in Real(a) : a[m] = b[i]
    BY DEF RealRecords
  <2>3. PICK j \in DOMAIN Sorted(a) : Sorted(a)[j] = a[m]
    BY SortedLemma
  <2>. QED  BY <2>1, <2>2, <2>3
<1>4. Sorted(a) = Sorted(b)
  BY <1>1, <1>2, <1>3, OneStrictRow
<1>. QED  BY <1>4 DEF MergeRuns
=============================================================================
