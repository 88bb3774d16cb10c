----------------------------- MODULE IterProofs -----------------------------
(***************************************************************************)
(* Proofs about the iterator over constraints, for every list of parents:  *)
(* its indices stay in bounds, it returns the constraints of ConstraintsOf *)
(* by increasing Position, and conflict_set_key tells them apart.          *)
(***************************************************************************)
EXTENDS ConstraintsIter, FiniteSetTheorems, TLAPS

\* The types of the iterator's fields.
IterTypeOK ==
    /\ input \in Seq(Hash) /\ vertices \in Seq(Hash)
    /\ idx1 \in Nat /\ idx2 \in Nat
    /\ out \in Seq(Hash \X Hash)

(***************************************************************************)
(* The list is whole while there are pairs, and then a front of the input. *)
(***************************************************************************)
Cursor ==
    /\ idx1 < idx2
    /\ idx1 + 1 < Len(input) => idx2 < Len(input) /\ vertices = input
    /\ Len(vertices) <= Len(input)
    /\ \A i \in DOMAIN vertices : vertices[i] = input[i]
    /\ finished => vertices = << >> /\ idx1 + 1 >= Len(input)

\* The constraint of the i-th and the j-th parent is returned already.
Returned(i, j) ==
    \/ i = j /\ i > Len(vertices)
    \/ i < j /\ (i < idx1 + 1 \/ (i = idx1 + 1 /\ j <= idx2))

\* The output is what is returned already.
OutReturned ==
    /\ \A k \in DOMAIN out : \E i, j \in DOMAIN input :
           Returned(i, j) /\ out[k] = <<input[i], input[j]>>
    /\ \A i, j \in DOMAIN input : Returned(i, j) =>
           \E k \in DOMAIN out : out[k] = <<input[i], input[j]>>

\* The position of the constraint that comes next.
NextPlace ==
    IF idx1 + 1 < Len(input)
    THEN (idx1 + 1) * (Len(input) + 1) + (idx2 + 1)
    ELSE Len(input) * (Len(input) + 1) + (Len(input) - Len(vertices))

\* The output is in order, and before what comes next.
OutOrdered ==
    Distinct(input) =>
        /\ \A k \in DOMAIN out : Position(input, out[k]) \in 0..(NextPlace - 1)
        /\ \A k \in 1..(Len(out) - 1) :
               Position(input, out[k]) < Position(input, out[k + 1])

IterInv == IterTypeOK /\ Cursor /\ OutReturned /\ OutOrdered

-----------------------------------------------------------------------------
(***************************************************************************)
(* A list without duplicates lists each hash at one index.                 *)
(***************************************************************************)
LEMMA DistinctIndices ==
    ASSUME NEW ps \in Seq(Hash), Distinct(ps)
    PROVE  \A i, j \in DOMAIN ps : ps[i] = ps[j] => i = j
<1>1. DOMAIN ps = 1..Len(ps) /\ Len(ps) \in Nat
  OBVIOUS
<1>2. IsFiniteSet(1..Len(ps)) /\ Cardinality(1..Len(ps)) = Len(ps)
  BY <1>1, FS_Interval
<1>3. Cardinality(1..Len(ps)) = Cardinality(ToSet(ps))
  BY <1>2 DEF Distinct
<1>4. ps \in Surjection(1..Len(ps), ToSet(ps))
  BY <1>1 DEF Surjection, ToSet
<1>5. ps \in Injection(1..Len(ps), ToSet(ps))
  BY <1>2, <1>3, <1>4, FS_SurjSameCardinalityImpliesInj
<1>6. QED
  BY <1>1, <1>5 DEF Injection, IsInjective

(***************************************************************************)
(* Position, in terms of indices.                                          *)
(***************************************************************************)
LEMMA PositionOfIndices ==
    ASSUME NEW ps \in Seq(Hash), Distinct(ps),
           NEW i \in DOMAIN ps, NEW j \in DOMAIN ps
    PROVE  Position(ps, <<ps[i], ps[j]>>) =
               IF i # j THEN i * (Len(ps) + 1) + j
                        ELSE Len(ps) * (Len(ps) + 1) + (Len(ps) - i)
<1>1. \A m \in DOMAIN ps : (CHOOSE k \in DOMAIN ps : ps[k] = ps[m]) = m
  BY DistinctIndices
<1>2. (CHOOSE k \in DOMAIN ps : ps[k] = <<ps[i], ps[j]>>[1]) = i
  BY <1>1
<1>3. (CHOOSE k \in DOMAIN ps : ps[k] = <<ps[i], ps[j]>>[2]) = j
  BY <1>1
<1>4. QED
  BY <1>2, <1>3 DEF Position

(***************************************************************************)
(* The rows of the triangle of pairs follow each other.                    *)
(***************************************************************************)
LEMMA RowsFollow ==
    ASSUME NEW n \in Nat, NEW a \in Nat
    PROVE  /\ (a + 1) * (n + 1) = a * (n + 1) + n + 1
           /\ a * (n + 1) \in Nat
OBVIOUS

(***************************************************************************)
(* A constraint appended at the place that comes next keeps the order.     *)
(***************************************************************************)
LEMMA AppendKeepsOrder ==
    ASSUME IterTypeOK, OutOrdered, NEW c \in Hash \X Hash,
           UNCHANGED input, out' = Append(out, c),
           NextPlace \in Nat, NextPlace' \in Nat, NextPlace < NextPlace',
           Distinct(input) => Position(input, c) = NextPlace
    PROVE  OutOrdered'
<1> SUFFICES ASSUME Distinct(input)
             PROVE  /\ \A k \in DOMAIN out' :
                          Position(input, out'[k]) \in 0..(NextPlace' - 1)
                    /\ \A k \in 1..(Len(out') - 1) :
                          Position(input, out'[k]) < Position(input, out'[k + 1])
  BY DEF OutOrdered
<1> DEFINE P(k) == Position(input, out'[k])
<1>1. /\ Len(out) \in Nat /\ Len(out') = Len(out) + 1
      /\ DOMAIN out' = 1..(Len(out) + 1) /\ DOMAIN out = 1..Len(out)
      /\ out'[Len(out) + 1] = c
      /\ \A k \in 1..Len(out) : out'[k] = out[k]
  BY DEF IterTypeOK
<1>2. P(Len(out) + 1) = NextPlace
  BY <1>1
<1>3. \A k \in 1..Len(out) : P(k) \in 0..(NextPlace - 1)
  BY <1>1 DEF OutOrdered
<1>4. \A k \in 1..(Len(out) - 1) : P(k) < P(k + 1)
  <2> SUFFICES ASSUME NEW k \in 1..(Len(out) - 1) PROVE P(k) < P(k + 1)
    OBVIOUS
  <2>1. k \in 1..Len(out) /\ k + 1 \in 1..Len(out)
    BY <1>1
  <2>2. Position(input, out[k]) < Position(input, out[k + 1])
    BY DEF OutOrdered
  <2>3. QED
    BY <1>1, <2>1, <2>2
<1> HIDE DEF P
<1>5. \A k \in DOMAIN out' : P(k) \in 0..(NextPlace' - 1)
  BY <1>1, <1>2, <1>3
<1>6. \A k \in 1..(Len(out') - 1) : P(k) < P(k + 1)
  <2> SUFFICES ASSUME NEW k \in 1..Len(out) PROVE P(k) < P(k + 1)
    BY <1>1
  <2>1. CASE k = Len(out)
    BY <1>1, <1>2, <1>3, <2>1
  <2>2. CASE k # Len(out)
    <3> DEFINE m == Len(out)
    <3>1. m \in Nat /\ k \in 1..m /\ k # m
      BY <1>1, <2>2
    <3> HIDE DEF m
    <3>2. k \in 1..(m - 1)
      BY <3>1
    <3>3. QED
      BY <1>4, <3>2 DEF m
  <2>3. QED
    BY <2>1, <2>2
<1>7. QED
  BY <1>5, <1>6 DEF P

(***************************************************************************)
(* The pair at the indices is appended, and the indices step on.           *)
(***************************************************************************)
LEMMA NextPairKeepsInv == IterInv /\ NextPair => IterInv'
<1> SUFFICES ASSUME IterInv, NextPair PROVE IterInv'
  OBVIOUS
<1> DEFINE n == Len(input)
           i == idx1 + 1
           j == idx2 + 1
           c == <<input[i], input[j]>>
<1>1. /\ input \in Seq(Hash) /\ DOMAIN input = 1..n
      /\ out \in Seq(Hash \X Hash)
  BY DEF IterInv, IterTypeOK
<1>2. /\ n \in Nat /\ idx1 \in Nat /\ idx2 \in Nat /\ i \in Nat /\ j \in Nat
      /\ Len(vertices) \in Nat
  BY DEF IterInv, IterTypeOK
<1>3. /\ i < n /\ i < j /\ j <= n /\ vertices = input /\ ~finished
  <2>1. i < n
    BY <1>1, <1>2 DEF IterInv, Cursor, NextPair, PairsDone
  <2>2. vertices = input /\ idx1 < idx2 /\ idx2 < n /\ ~finished
    BY <2>1 DEF IterInv, Cursor, NextPair
  <2>3. QED
    BY <1>2, <2>1, <2>2
<1>4. i \in DOMAIN input /\ j \in DOMAIN input /\ c \in Hash \X Hash
  <2>1. i \in 1..n /\ j \in 1..n
    BY <1>2, <1>3
  <2>2. QED
    BY <1>1, <2>1
<1>5. /\ input' = input /\ vertices' = vertices /\ finished' = finished
      /\ out' = Append(out, c)
  BY <1>3 DEF NextPair
<1>6. \/ j = n /\ idx1' = i /\ idx2' = i + 1
      \/ j # n /\ idx1' = idx1 /\ idx2' = j
  <2>1. IF idx2 + 1 = n THEN idx1' = idx1 + 1 /\ idx2' = idx1 + 2
                        ELSE idx1' = idx1 /\ idx2' = idx2 + 1
    BY <1>3 DEF NextPair
  <2>2. idx1 + 2 = i + 1
    BY <1>2
  <2>3. QED
    BY <2>1, <2>2
<1>7. IterTypeOK' /\ Cursor'
  <2>1. idx1' \in Nat /\ idx2' \in Nat /\ idx1' < idx2'
    BY <1>2, <1>3, <1>6
  <2>2. idx1' + 1 < n => idx2' < n
    BY <1>2, <1>3, <1>6
  <2>3. out' \in Seq(Hash \X Hash)
    BY <1>1, <1>4, <1>5
  <2>4. vertices = input /\ Len(input) <= Len(input)
    BY <1>2, <1>3
  <2>5. IterTypeOK'
    BY <1>1, <1>5, <2>1, <2>3, <2>4 DEF IterTypeOK
  <2>6. Cursor'
    BY <1>3, <1>5, <2>1, <2>2, <2>4 DEF Cursor
  <2>7. QED
    BY <2>5, <2>6
<1>8. \A k, l \in DOMAIN input :
          Returned(k, l)' <=> Returned(k, l) \/ (k = i /\ l = j)
  <2> SUFFICES ASSUME NEW k \in 1..n, NEW l \in 1..n
               PROVE  Returned(k, l)' <=> Returned(k, l) \/ (k = i /\ l = j)
    BY <1>1
  <2>1. /\ Returned(k, l) <=> \/ k = l /\ k > n
                              \/ k < l /\ (k < i \/ (k = i /\ l <= idx2))
        /\ Returned(k, l)' <=> \/ k = l /\ k > n
                               \/ k < l /\ \/ k < idx1' + 1
                                           \/ k = idx1' + 1 /\ l <= idx2'
    BY <1>3, <1>5 DEF Returned
  <2> HIDE DEF n
  <2>2. QED
    BY <1>2, <1>3, <1>6, <2>1
<1>9. OutReturned'
  <2>1. /\ DOMAIN out' = DOMAIN out \cup {Len(out) + 1}
        /\ out'[Len(out) + 1] = c
        /\ \A k \in DOMAIN out : out'[k] = out[k]
    BY <1>1, <1>4, <1>5
  <2>2. UNCHANGED input
    BY <1>5
  <2>3. \A k \in DOMAIN out' : \E p, q \in DOMAIN input :
            Returned(p, q)' /\ out'[k] = <<input[p], input[q]>>
    BY <1>4, <1>8, <2>1 DEF IterInv, OutReturned
  <2>4. \A p, q \in DOMAIN input : Returned(p, q)' =>
            \E k \in DOMAIN out' : out'[k] = <<input[p], input[q]>>
    <3> SUFFICES ASSUME NEW p \in DOMAIN input, NEW q \in DOMAIN input,
                        Returned(p, q)'
                 PROVE  \E k \in DOMAIN out' : out'[k] = <<input[p], input[q]>>
      OBVIOUS
    <3>1. CASE Returned(p, q)
      BY <2>1, <3>1 DEF IterInv, OutReturned
    <3>2. CASE p = i /\ q = j
      BY <2>1, <3>2
    <3>3. QED
      BY <1>8, <3>1, <3>2
  <2>5. QED
    BY <2>2, <2>3, <2>4 DEF OutReturned
<1>10. OutOrdered'
  <2>1. NextPlace = i * (n + 1) + j
    BY <1>3 DEF NextPlace
  <2>2. NextPlace' = IF idx1' + 1 < n
                     THEN (idx1' + 1) * (n + 1) + (idx2' + 1)
                     ELSE n * (n + 1) + (n - n)
    BY <1>3, <1>5 DEF NextPlace
  <2>3. i * (n + 1) + j \in Nat
    BY <1>2, RowsFollow
  <2>4. NextPlace' \in Nat /\ i * (n + 1) + j < NextPlace'
    <3> HIDE DEF i, j, n
    <3>1. CASE j # n
      <4>1. idx1' + 1 = i /\ idx2' + 1 = j + 1
        BY <1>6, <3>1 DEF i
      <4>2. NextPlace' = i * (n + 1) + (j + 1)
        BY <1>3, <2>2, <4>1
      <4>3. i * (n + 1) \in Nat
        BY <1>2, RowsFollow
      <4>4. QED
        BY <1>2, <4>2, <4>3
    <3>2. CASE j = n
      <4>1. idx1' = i /\ idx2' = i + 1
        BY <1>6, <3>2
      <4>2. /\ (i + 1) * (n + 1) = i * (n + 1) + n + 1
            /\ i * (n + 1) \in Nat
        BY <1>2, RowsFollow
      <4>3. CASE i + 1 < n
        BY <1>2, <2>2, <3>2, <4>1, <4>2, <4>3
      <4>4. CASE ~(i + 1 < n)
        <5>1. i + 1 = n
          BY <1>2, <1>3, <4>4
        <5>2. NextPlace' = (i + 1) * (n + 1) + (n - n)
          BY <2>2, <4>1, <4>4, <5>1
        <5>3. QED
          BY <1>2, <3>2, <4>2, <5>2
      <4>5. QED
        BY <4>3, <4>4
    <3>3. QED
      BY <3>1, <3>2
  <2>5. Distinct(input) => Position(input, c) = NextPlace
    <3> SUFFICES ASSUME Distinct(input) PROVE Position(input, c) = NextPlace
      OBVIOUS
    <3>1. i # j
      BY <1>2, <1>3
    <3> HIDE DEF i, j
    <3>2. QED
      BY <1>1, <1>4, <2>1, <3>1, PositionOfIndices
  <2>6. QED
    BY <1>4, <1>5, <2>1, <2>3, <2>4, <2>5, AppendKeepsOrder DEF IterInv
<1>11. QED
  BY <1>7, <1>9, <1>10 DEF IterInv

(***************************************************************************)
(* The last of the remaining parents is popped for its unity constraint.   *)
(***************************************************************************)
LEMMA NextUnityKeepsInv == IterInv /\ NextUnity => IterInv'
<1> SUFFICES ASSUME IterInv, NextUnity PROVE IterInv'
  OBVIOUS
<1> DEFINE n == Len(input)
           m == Len(vertices)
           c == <<input[m], input[m]>>
<1>1. /\ input \in Seq(Hash) /\ n \in Nat /\ DOMAIN input = 1..n
      /\ vertices \in Seq(Hash) /\ m \in Nat /\ DOMAIN vertices = 1..m
      /\ idx1 \in Nat /\ idx2 \in Nat /\ out \in Seq(Hash \X Hash)
  BY DEF IterInv, IterTypeOK
<1>2. /\ m <= n /\ idx1 < idx2 /\ ~finished /\ vertices # << >>
      /\ \A k \in DOMAIN vertices : vertices[k] = input[k]
  BY DEF IterInv, Cursor, NextUnity
<1>3. ~(idx1 + 1 < n)
  BY <1>1, <1>2 DEF IterInv, Cursor, NextUnity, PairsDone
<1>4. m \in 1..n /\ m \in DOMAIN input /\ c \in Hash \X Hash
  BY <1>1, <1>2
<1>5. /\ UNCHANGED <<input, idx1, idx2, finished>>
      /\ vertices' = SubSeq(vertices, 1, m - 1)
      /\ out' = Append(out, c)
  <2>1. Unity(Last(vertices)) = c
    BY <1>1, <1>2, <1>4 DEF Unity, Last
  <2>2. QED
    BY <2>1 DEF NextUnity, Front
<1>6. /\ vertices' \in Seq(Hash) /\ Len(vertices') = m - 1
      /\ DOMAIN vertices' = 1..(m - 1)
      /\ \A k \in DOMAIN vertices' : vertices'[k] = input[k]
  BY <1>1, <1>2, <1>4, <1>5
<1>7. IterTypeOK'
  BY <1>1, <1>4, <1>5, <1>6 DEF IterTypeOK
<1>8. Cursor'
  <2>1. /\ idx1' < idx2' /\ ~(idx1' + 1 < Len(input')) /\ ~finished'
    BY <1>2, <1>3, <1>5
  <2>2. Len(vertices') <= Len(input')
    BY <1>1, <1>2, <1>5, <1>6
  <2>3. \A k \in DOMAIN vertices' : vertices'[k] = input'[k]
    BY <1>5, <1>6
  <2>4. QED
    BY <2>1, <2>2, <2>3 DEF Cursor
<1>9. \A p, q \in DOMAIN input :
          Returned(p, q)' <=> Returned(p, q) \/ (p = m /\ q = m)
  BY <1>1, <1>4, <1>5, <1>6 DEF Returned
<1>10. OutReturned'
  <2>1. /\ DOMAIN out' = DOMAIN out \cup {Len(out) + 1}
        /\ out'[Len(out) + 1] = c
        /\ \A k \in DOMAIN out : out'[k] = out[k]
    BY <1>1, <1>4, <1>5
  <2>2. UNCHANGED input
    BY <1>5
  <2>3. \A k \in DOMAIN out' : \E p, q \in DOMAIN input :
            Returned(p, q)' /\ out'[k] = <<input[p], input[q]>>
    BY <1>4, <1>9, <2>1 DEF IterInv, OutReturned
  <2>4. \A p, q \in DOMAIN input : Returned(p, q)' =>
            \E k \in DOMAIN out' : out'[k] = <<input[p], input[q]>>
    <3> SUFFICES ASSUME NEW p \in DOMAIN input, NEW q \in DOMAIN input,
                        Returned(p, q)'
                 PROVE  \E k \in DOMAIN out' : out'[k] = <<input[p], input[q]>>
      OBVIOUS
    <3>1. CASE Returned(p, q)
      BY <2>1, <3>1 DEF IterInv, OutReturned
    <3>2. CASE p = m /\ q = m
      BY <2>1, <3>2
    <3>3. QED
      BY <1>9, <3>1, <3>2
  <2>5. QED
    BY <2>2, <2>3, <2>4 DEF OutReturned
<1>11. OutOrdered'
  <2>1. NextPlace = n * (n + 1) + (n - m)
    BY <1>3 DEF NextPlace
  <2>2. NextPlace' = n * (n + 1) + (n - (m - 1))
    BY <1>3, <1>5, <1>6 DEF NextPlace
  <2>3. n * (n + 1) \in Nat
    BY <1>1, RowsFollow
  <2>4. Distinct(input) => Position(input, c) = NextPlace
    BY <1>1, <1>4, <2>1, PositionOfIndices
  <2>5. NextPlace \in Nat /\ NextPlace' \in Nat /\ NextPlace < NextPlace'
    BY <1>1, <1>2, <1>4, <2>1, <2>2, <2>3
  <2>6. QED
    BY <1>4, <1>5, <2>4, <2>5, AppendKeepsOrder DEF IterInv
<1>12. QED
  BY <1>7, <1>8, <1>10, <1>11 DEF IterInv

(***************************************************************************)
(* Nothing is returned at the start.                                       *)
(***************************************************************************)
LEMMA InitIterInv == Init => IterInv
<1> SUFFICES ASSUME Init PROVE IterInv
  OBVIOUS
<1>1. /\ input \in Seq(Hash) /\ vertices = input /\ idx1 = 0 /\ idx2 = 1
      /\ out = << >> /\ finished = FALSE
  BY IterAssumption DEF Init, ParentLists
<1>2. IterTypeOK /\ Cursor
  BY <1>1 DEF IterTypeOK, Cursor
<1>3. OutReturned
  BY <1>1 DEF OutReturned, Returned
<1>4. OutOrdered
  BY <1>1 DEF OutOrdered
<1>5. QED
  BY <1>2, <1>3, <1>4 DEF IterInv

(***************************************************************************)
(* Every step of the iterator keeps the invariant.                         *)
(***************************************************************************)
LEMMA NextIterInv == IterInv /\ [Next]_vars => IterInv'
<1> SUFFICES ASSUME IterInv, [Next]_vars PROVE IterInv'
  OBVIOUS
<1>1. CASE NextPair
  BY <1>1, NextPairKeepsInv
<1>2. CASE NextUnity
  BY <1>2, NextUnityKeepsInv
<1>3. CASE NoMore \/ UNCHANGED vars
  <2>1. /\ UNCHANGED <<input, vertices, idx1, idx2, out>>
        /\ finished' => finished \/ (vertices = << >> /\ PairsDone)
    BY <1>3 DEF NoMore, vars
  <2>2. IterTypeOK' /\ OutReturned' /\ OutOrdered'
    BY <2>1 DEF IterInv, IterTypeOK, OutReturned, Returned, OutOrdered, NextPlace
  <2>3. Cursor'
    BY <2>1 DEF IterInv, IterTypeOK, Cursor, PairsDone
  <2>4. QED
    BY <2>2, <2>3 DEF IterInv
<1>4. QED
  BY <1>1, <1>2, <1>3 DEF Next

-----------------------------------------------------------------------------
(***************************************************************************)
(* However many parents a vertex lists, with whatever repeats, the         *)
(* iterator never indexes outside the list.                                *)
(***************************************************************************)
THEOREM NoIndexOutOfBounds == Spec => []IndicesInBounds
<1>1. IterInv => IndicesInBounds
  BY DEF IterInv, IterTypeOK, Cursor, IndicesInBounds, PairsDone
<1>2. QED
  BY <1>1, InitIterInv, NextIterInv, PTL DEF Spec

(***************************************************************************)
(* What the iterator returned are constraints of its input.                *)
(***************************************************************************)
LEMMA ReturnsConstraints ==
    ASSUME IterInv
    PROVE  ToSet(out) \subseteq ConstraintsOf(input)
<1> SUFFICES ASSUME NEW k \in DOMAIN out PROVE out[k] \in ConstraintsOf(input)
  BY DEF ToSet
<1>1. PICK i, j \in DOMAIN input :
          Returned(i, j) /\ out[k] = <<input[i], input[j]>>
  BY DEF IterInv, OutReturned
<1>2. i <= j
  BY <1>1 DEF Returned, IterInv, IterTypeOK
<1>3. <<i, j>> \in {x \in (DOMAIN input) \X (DOMAIN input) : x[1] <= x[2]}
  BY <1>1, <1>2
<1>4. QED
  BY <1>1, <1>3 DEF ConstraintsOf

(***************************************************************************)
(* An iterator that is done has returned exactly the constraints of the    *)
(* list, and, when no parent is listed twice, each of them once, in the    *)
(* order of the code.                                                      *)
(***************************************************************************)
THEOREM IteratorIsExact == Spec => []IteratesConstraints
<1>1. IterInv => IteratesConstraints
  <2> SUFFICES ASSUME IterInv, finished
               PROVE  /\ ToSet(out) = ConstraintsOf(input)
                      /\ Distinct(input) =>
                           \A i \in 1..(Len(out) - 1) :
                              Position(input, out[i]) < Position(input, out[i + 1])
    BY DEF IteratesConstraints
  <2>1. ASSUME NEW c \in ConstraintsOf(input) PROVE c \in ToSet(out)
    <3>1. PICK x \in (DOMAIN input) \X (DOMAIN input) :
              x[1] <= x[2] /\ c = <<input[x[1]], input[x[2]]>>
      BY <2>1 DEF ConstraintsOf
    <3>2. /\ DOMAIN input = 1..Len(input) /\ Len(input) \in Nat
          /\ vertices = << >> /\ idx1 + 1 >= Len(input) /\ idx1 \in Nat
      BY DEF IterInv, IterTypeOK, Cursor
    <3>3. x[1] \in 1..Len(input) /\ x[2] \in 1..Len(input)
      BY <3>2
    <3>4. Len(vertices) = 0
      BY <3>2
    <3>5. Returned(x[1], x[2])
      BY <3>1, <3>2, <3>3, <3>4 DEF Returned
    <3>6. \E k \in DOMAIN out : out[k] = c
      BY <3>1, <3>5 DEF IterInv, OutReturned
    <3>7. QED
      BY <3>6 DEF ToSet
  <2>2. QED
    BY <2>1, ReturnsConstraints DEF IterInv, OutOrdered
<1>2. QED
  BY <1>1, InitIterInv, NextIterInv, PTL DEF Spec

(***************************************************************************)
(* conflict_set_key files a constraint with its opposite and with no       *)
(* other, whatever the hashes are.                                         *)
(***************************************************************************)
THEOREM KeysSeparateConflicts == Spec => []KeyIdentifiesConflictSet
<1>1. \A a, b, c, d \in Nat :
          SortedKey(<<a, b>>) = SortedKey(<<c, d>>)
              <=> (<<c, d>> = <<a, b>> \/ <<c, d>> = Conflict(<<a, b>>))
  BY DEF SortedKey, Conflict
<1>2. IterInv => KeyIdentifiesConflictSet
  <2> SUFFICES ASSUME IterInv, NEW c \in ToSet(out), NEW d \in ConstraintsOf(input)
               PROVE  (SortedKey(c) = SortedKey(d)) <=> (d = c \/ d = Conflict(c))
    BY DEF KeyIdentifiesConflictSet
  <2>1. \A e \in ConstraintsOf(input) : \E a, b \in Nat : e = <<a, b>>
    <3>1. \A i \in DOMAIN input : input[i] \in Nat
      <4>1. input \in Seq(Hash)
        BY DEF IterInv, IterTypeOK
      <4>2. \A i \in DOMAIN input : input[i] \in Hash
        BY <4>1
      <4>3. QED
        BY <4>2, IterAssumption
    <3>2. QED
      BY <3>1 DEF ConstraintsOf
  <2>2. c \in ConstraintsOf(input)
    BY ReturnsConstraints
  <2>3. PICK a, b \in Nat : c = <<a, b>>
    BY <2>1, <2>2
  <2>4. PICK p, q \in Nat : d = <<p, q>>
    BY <2>1
  <2>5. QED
    BY <1>1, <2>3, <2>4
<1>3. QED
  BY <1>2, InitIterInv, NextIterInv, PTL DEF Spec
=============================================================================
