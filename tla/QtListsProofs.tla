--------------------------- MODULE QtListsProofs ---------------------------
(***************************************************************************)
(* Proofs about lists from which an element is removed.                    *)
(***************************************************************************)
EXTENDS QtLists, Functions, FiniteSetTheorems, SequenceTheorems, TLAPS

-----------------------------------------------------------------------------
(* Sets of numbers in their order, and lists.                              *)

Below(S, x) == {y \in S : y < x}

LEMMA BelowGrows ==
    ASSUME NEW S, S \subseteq Int, IsFiniteSet(S), NEW x \in S, NEW z \in S, x < z
    PROVE  /\ Cardinality(Below(S, x)) \in Nat /\ Cardinality(Below(S, z)) \in Nat
           /\ Cardinality(Below(S, x)) < Cardinality(Below(S, z))
<1>1. Below(S, x) \in SUBSET Below(S, z) /\ Below(S, z) \in SUBSET S
  <2>1. ASSUME NEW y \in S, y < x
        PROVE  y < z
    <3>1. y \in Int /\ x \in Int /\ z \in Int
      OBVIOUS
    <3>2. QED
      BY <2>1, <3>1
  <2>2. QED
    BY <2>1 DEF Below
<1>2. Below(S, x) # Below(S, z)
  <2>1. x \in Below(S, z) /\ x \notin Below(S, x)
    BY DEF Below
  <2>2. QED
    BY <2>1
<1>3. IsFiniteSet(Below(S, z))
  BY <1>1, FS_Subset
<1>4. /\ IsFiniteSet(Below(S, x)) /\ Cardinality(Below(S, x)) <= Cardinality(Below(S, z))
      /\ Cardinality(Below(S, x)) # Cardinality(Below(S, z))
  BY <1>1, <1>2, <1>3, FS_Subset
<1>5. Cardinality(Below(S, x)) \in Nat /\ Cardinality(Below(S, z)) \in Nat
  BY <1>3, <1>4, FS_CardinalityType
<1>6. QED
  BY <1>4, <1>5

\* Each element has a number, and each number up to the last an element.
LEMMA Numbered ==
    ASSUME NEW S, S \subseteq Int, IsFiniteSet(S)
    PROVE  /\ Cardinality(S) \in Nat
           /\ \A i \in 1..Cardinality(S) : Nth(S, i) \in S /\ Cardinality(Below(S, Nth(S, i))) = i - 1
           /\ \A x \in S : \E i \in 1..Cardinality(S) : Nth(S, i) = x
<1> DEFINE n == Cardinality(S)
<1>1. n \in Nat
  BY FS_CardinalityType
<1>2. PICK f : f = [x \in S |-> Cardinality(Below(S, x)) + 1]
  OBVIOUS
<1>3. ASSUME NEW x \in S
      PROVE  f[x] \in 1..n
  <2>1. Below(S, x) \in SUBSET S /\ x \notin Below(S, x)
    BY DEF Below
  <2>2. /\ IsFiniteSet(Below(S, x)) /\ Cardinality(Below(S, x)) <= n
        /\ Cardinality(Below(S, x)) # n
    BY <2>1, FS_Subset
  <2>3. Cardinality(Below(S, x)) \in Nat
    BY <2>2, FS_CardinalityType
  <2>4. QED
    BY <1>1, <1>2, <2>2, <2>3
<1>4. ASSUME NEW x \in S, NEW z \in S, f[x] = f[z]
      PROVE  x = z
  <2>1. ASSUME NEW a \in S, NEW b \in S, a < b
        PROVE  f[a] # f[b]
    <3>1. /\ Cardinality(Below(S, a)) \in Nat /\ Cardinality(Below(S, b)) \in Nat
          /\ Cardinality(Below(S, a)) < Cardinality(Below(S, b))
      BY <2>1, BelowGrows
    <3>2. QED
      BY <1>2, <3>1
  <2>2. ~(x < z) /\ ~(z < x)
    BY <1>4, <2>1
  <2>3. x \in Int /\ z \in Int
    OBVIOUS
  <2>4. QED
    BY <2>2, <2>3
<1>5. f \in Injection(S, 1..n)
  BY <1>2, <1>3, <1>4 DEF Injection, IsInjective
<1>6. IsFiniteSet(1..n) /\ Cardinality(1..n) = n
  BY <1>1, FS_Interval
<1>7. f \in Surjection(S, 1..n)
  BY <1>5, <1>6, FS_Injection
<1>8. ASSUME NEW i \in 1..n
      PROVE  Nth(S, i) \in S /\ Cardinality(Below(S, Nth(S, i))) = i - 1
  <2>1. PICK x \in S : f[x] = i
    BY <1>7 DEF Surjection
  <2>2. Cardinality(Below(S, x)) = i - 1
    <3>1. Below(S, x) \in SUBSET S
      BY DEF Below
    <3>2. Cardinality(Below(S, x)) \in Nat
      BY <3>1, FS_Subset, FS_CardinalityType
    <3>3. QED
      BY <1>2, <2>1, <3>2
  <2>3. QED
    BY <2>2 DEF Nth, Below
<1>9. ASSUME NEW x \in S
      PROVE  \E i \in 1..n : Nth(S, i) = x
  <2>1. f[x] \in 1..n
    BY <1>3
  <2>2. Nth(S, f[x]) \in S /\ f[Nth(S, f[x])] = f[x]
    BY <1>1, <1>2, <1>8, <2>1
  <2>3. QED
    BY <1>4, <2>1, <2>2
<1>10. QED
  BY <1>1, <1>8, <1>9

LEMMA RemovedFromList ==
    ASSUME NEW T, NEW list \in Seq(T), NEW gone, NEW r, r = Removed(list, gone)
    PROVE  r \in Seq(T \ {gone}) /\ Range(r) = Range(list) \ {gone}
<1>1. PICK kept : kept = {i \in DOMAIN list : list[i] # gone}
  OBVIOUS
<1>2. DOMAIN list = 1..Len(list) /\ Len(list) \in Nat
  OBVIOUS
<1>3. kept \subseteq Int /\ IsFiniteSet(kept)
  <2>1. kept \in SUBSET (1..Len(list)) /\ IsFiniteSet(1..Len(list))
    BY <1>1, <1>2, FS_Interval
  <2>2. IsFiniteSet(kept)
    BY <2>1, FS_Subset
  <2>3. QED
    BY <1>2, <2>1, <2>2
<1>4. r = [i \in 1..Cardinality(kept) |-> list[Nth(kept, i)]]
  BY <1>1 DEF Removed, Only
<1>5. /\ Cardinality(kept) \in Nat
      /\ \A i \in 1..Cardinality(kept) : Nth(kept, i) \in kept
      /\ \A x \in kept : \E i \in 1..Cardinality(kept) : Nth(kept, i) = x
  BY <1>3, Numbered
<1>6. \A x \in kept : list[x] \in T \ {gone}
  BY <1>1, <1>2
<1>7. r \in Seq(T \ {gone})
  BY <1>4, <1>5, <1>6
<1>8. Range(r) = {list[x] : x \in kept}
  BY <1>4, <1>5 DEF Range
<1>9. QED
  BY <1>1, <1>7, <1>8 DEF Range

\* A list that has each element once has it once without one of them.
LEMMA RemovedDistinct ==
    ASSUME NEW T, NEW list \in Seq(T), NEW gone, NEW r, r = Removed(list, gone),
           \A m, n \in DOMAIN list : list[m] = list[n] => m = n
    PROVE  \A m, n \in DOMAIN r : r[m] = r[n] => m = n
<1>1. PICK kept : kept = {i \in DOMAIN list : list[i] # gone}
  OBVIOUS
<1>2. DOMAIN list = 1..Len(list) /\ Len(list) \in Nat
  OBVIOUS
<1>3. kept \subseteq Int /\ IsFiniteSet(kept)
  <2>1. kept \in SUBSET (1..Len(list)) /\ IsFiniteSet(1..Len(list))
    BY <1>1, <1>2, FS_Interval
  <2>2. IsFiniteSet(kept)
    BY <2>1, FS_Subset
  <2>3. QED
    BY <1>2, <2>1, <2>2
<1>4. r = [i \in 1..Cardinality(kept) |-> list[Nth(kept, i)]]
  BY <1>1 DEF Removed, Only
<1>5. /\ Cardinality(kept) \in Nat
      /\ \A i \in 1..Cardinality(kept) :
             Nth(kept, i) \in kept /\ Cardinality(Below(kept, Nth(kept, i))) = i - 1
  BY <1>3, Numbered
<1>6. ASSUME NEW m \in DOMAIN r, NEW n \in DOMAIN r, r[m] = r[n]
      PROVE  m = n
  <2>1. m \in 1..Cardinality(kept) /\ n \in 1..Cardinality(kept)
    BY <1>4
  <2>2. /\ Nth(kept, m) \in DOMAIN list /\ Nth(kept, n) \in DOMAIN list
        /\ list[Nth(kept, m)] = list[Nth(kept, n)]
    BY <1>1, <1>4, <1>5, <1>6, <2>1
  <2>3. Nth(kept, m) = Nth(kept, n)
    BY <2>2
  <2>4. m - 1 = n - 1
    BY <1>5, <2>1, <2>3
  <2>5. QED
    BY <1>5, <2>1, <2>4
<1>7. QED
  BY <1>6

\* Of a list that has each element once, one is all.
LEMMA RemovedOnce ==
    ASSUME NEW T, NEW list \in Seq(T), NEW gone,
           \A m, n \in DOMAIN list : list[m] = list[n] => m = n
    PROVE  RemovedOne(list, gone) = Removed(list, gone)
<1>1. {i \in DOMAIN list : list[i] = gone => \E j \in DOMAIN list : j < i /\ list[j] = gone}
          = {i \in DOMAIN list : list[i] # gone}
  <2>1. ASSUME NEW i \in DOMAIN list, NEW j \in DOMAIN list, j < i, list[i] = gone, list[j] = gone
        PROVE  FALSE
    <3>1. i = j
      BY <2>1
    <3>2. i \in Int /\ j \in Int
      OBVIOUS
    <3>3. QED
      BY <2>1, <3>1, <3>2
  <2>2. QED
    BY <2>1
<1>2. QED
  BY <1>1 DEF RemovedOne, Removed

=============================================================================
