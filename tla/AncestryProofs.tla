--------------------------- MODULE AncestryProofs ---------------------------
(***************************************************************************)
(* Proofs about the searches of the ancestry that check_vertex, query and  *)
(* record_query_result make: what the recursive functions of DAG and       *)
(* DAGProperties return in a set of vertices that is closed under parents  *)
(* and whose heights decrease towards genesis, as the graph is.            *)
(*                                                                         *)
(* A recursive function is some solution of its equation.  That there is   *)
(* one is shown by the least; what holds of its values is then shown on a  *)
(* vertex of least height for which it would fail.                         *)
(***************************************************************************)
EXTENDS DAGProofs, FiniteSetTheorems, WellFoundedInduction

-----------------------------------------------------------------------------
(***************************************************************************)
(* Least and greatest numbers.                                             *)
(***************************************************************************)

(***************************************************************************)
(* A finite set of heights has a highest one (the maximum check_vertex     *)
(* takes over the parents).                                                *)
(***************************************************************************)
LEMMA GreatestNumber ==
    ASSUME NEW S \in SUBSET Nat, S # {}, IsFiniteSet(S)
    PROVE  \E n \in S : \A m \in S : m <= n
<1> DEFINE Has(X) == \E n \in X : \A m \in X : m <= n
           T == {X \in FiniteSubsetsOf(S) : X # {} /\ ~Has(X)}
<1>1. SUFFICES ASSUME T # {} PROVE FALSE
  BY DEF FiniteSubsetsOf
<1>2. PICK X \in T : \A Y \in T : <<Y, X>> \notin StrictSubsetOrdering(S)
  <2>1. T \subseteq FiniteSubsetsOf(S)
    OBVIOUS
  <2>2. QED
    BY <1>1, <2>1, FS_StrictSubsetOrderingWellFounded, WFMin
<1>3. PICK x \in X : TRUE
  OBVIOUS
<1>4. X \ {x} \in FiniteSubsetsOf(S) /\ X \in SUBSET Nat
  BY FS_RemoveElement DEF FiniteSubsetsOf
<1>5. X \ {x} = {} \/ Has(X \ {x})
  <2>1. <<X \ {x}, X>> \in StrictSubsetOrdering(S)
    BY <1>4 DEF StrictSubsetOrdering, FiniteSubsetsOf
  <2>2. X \ {x} \notin T
    BY <1>2, <2>1
  <2>3. QED
    BY <1>4, <2>2
<1>6. CASE X \ {x} = {}
  <2>1. X = {x} /\ x <= x
    BY <1>3, <1>4, <1>6
  <2>2. QED
    BY <2>1
<1>7. CASE Has(X \ {x})
  <2>1. PICK n \in X \ {x} : \A m \in X \ {x} : m <= n
    BY <1>7
  <2>2. CASE x <= n
    BY <2>1, <2>2
  <2>3. CASE n < x
    <3>1. \A m \in X : m <= x
      BY <1>4, <2>1, <2>3
    <3>2. QED
      BY <3>1
  <2>4. QED
    BY <1>4, <2>1, <2>2, <2>3
<1>8. QED
  BY <1>5, <1>6, <1>7

(***************************************************************************)
(* A set of heights has a lowest one (the minima of get_active_ancestors). *)
(***************************************************************************)
LEMMA LeastNumber ==
    ASSUME NEW S \in SUBSET Nat, S # {}
    PROVE  \E n \in S : \A m \in S : n <= m
<1>1. PICK k \in S : TRUE
  OBVIOUS
<1> DEFINE below == {d \in 0..k : k - d \in S}
<1>2. PICK d \in below : \A e \in below : e <= d
  <2>1. below \in SUBSET Nat /\ k \in Nat
    OBVIOUS
  <2>2. 0 \in below
    BY <2>1
  <2>3. IsFiniteSet(below)
    BY <2>1, FS_BoundedSetOfNaturals
  <2>4. QED
    BY <2>1, <2>2, <2>3, GreatestNumber
<1>3. ASSUME NEW m \in S PROVE k - d <= m
  <2>1. k \in Nat /\ m \in Nat /\ d \in 0..k
    OBVIOUS
  <2>2. CASE m <= k
    <3>1. k - m \in 0..k /\ k - (k - m) = m
      BY <2>1, <2>2
    <3>2. k - m \in below
      BY <3>1
    <3>3. k - m <= d
      BY <1>2, <3>2
    <3>4. QED
      BY <2>1, <3>3
  <2>3. QED
    BY <2>1, <2>2
<1>4. QED
  BY <1>3

(***************************************************************************)
(* Every nonempty set of vertices has a lowest one: where a fact about     *)
(* vertices fails, it fails on a vertex below which it holds.              *)
(***************************************************************************)
LEMMA LowestVertex ==
    ASSUME NEW T \in SUBSET Hash, T # {}
    PROVE  \E v \in T : \A w \in T : Height(v) <= Height(w)
<1> DEFINE heights == {Height(v) : v \in T}
<1>1. \A v \in T : Height(v) \in Nat
  BY ContentAssumption DEF Height
<1>2. PICK n \in heights : \A m \in heights : n <= m
  <2>1. heights \in SUBSET Nat /\ heights # {}
    BY <1>1
  <2>2. QED
    BY <2>1, LeastNumber
<1>3. QED
  BY <1>2

(***************************************************************************)
(* Every nonempty set of vertices has a highest one, there being finitely  *)
(* many vertices.                                                          *)
(***************************************************************************)
LEMMA HighestVertex ==
    ASSUME NEW T \in SUBSET Hash, T # {}
    PROVE  \E v \in T : \A w \in T : Height(w) <= Height(v)
<1> DEFINE heights == {Height(v) : v \in T}
           f == [v \in T |-> Height(v)]
<1>1. \A v \in T : Height(v) \in Nat
  BY ContentAssumption DEF Height
<1>2. IsFiniteSet(T)
  BY ContentAssumption, FS_Subset
<1>3. f \in Surjection(T, heights)
  BY DEF Surjection
<1> HIDE DEF f
<1>4. IsFiniteSet(heights)
  BY <1>2, <1>3, FS_Surjection
<1>5. PICK n \in heights : \A m \in heights : m <= n
  <2>1. heights \in SUBSET Nat /\ heights # {}
    BY <1>1
  <2> HIDE DEF heights
  <2>2. QED
    BY <1>4, <2>1, GreatestNumber
<1>6. QED
  BY <1>5

-----------------------------------------------------------------------------
(***************************************************************************)
(* The equation of a search from the nodes of D that collects B along the  *)
(* edges E.                                                                *)
(***************************************************************************)
Solves(f, D, E, B) == f = [d \in D |-> B[d] \cup UNION {f[e] : e \in E[d]}]

(***************************************************************************)
(* The recursive searches have a value: what is collected solves the       *)
(* equation, even if E had cycles.                                         *)
(***************************************************************************)
LEMMA RecursionSolvable ==
    ASSUME NEW D, NEW E \in [D -> SUBSET D], NEW B
    PROVE  \E f : Solves(f, D, E, B)
<1> DEFINE Closed(d, T) == d \in T /\ \A x \in T : E[x] \subseteq T
           R == [d \in D |->
                    {a \in D : \A T \in SUBSET D : Closed(d, T) => a \in T}]
           W == [d \in D |-> UNION {B[x] : x \in R[d]}]
<1>1. ASSUME NEW d \in D PROVE R[d] = {d} \cup UNION {R[e] : e \in E[d]}
  <2> DEFINE T == {d} \cup UNION {R[e] : e \in E[d]}
  <2>1. R[d] \subseteq T
    <3>1. T \in SUBSET D
      OBVIOUS
    <3>2. ASSUME NEW e \in E[d] PROVE e \in R[e]
      OBVIOUS
    <3>3. ASSUME NEW e \in E[d], NEW x \in R[e] PROVE E[x] \subseteq R[e]
      BY <3>3
    <3>4. Closed(d, T)
      <4> HIDE DEF R
      <4>1. E[d] \subseteq T
        BY <3>2
      <4>2. ASSUME NEW e \in E[d], NEW x \in R[e] PROVE E[x] \subseteq T
        BY <3>3
      <4>3. QED
        BY <4>1, <4>2
    <3>5. QED
      BY <3>1, <3>4
  <2>2. d \in R[d]
    OBVIOUS
  <2>3. ASSUME NEW e \in E[d] PROVE R[e] \subseteq R[d]
    OBVIOUS
  <2> HIDE DEF R
  <2>4. QED
    BY <2>1, <2>2, <2>3
<1> HIDE DEF R
<1>2. \A d \in D : W[d] = B[d] \cup UNION {W[e] : e \in E[d]}
  <2>1. ASSUME NEW d \in D PROVE W[d] = B[d] \cup UNION {W[e] : e \in E[d]}
    <3>1. \A e \in E[d] : W[e] = UNION {B[x] : x \in R[e]}
      OBVIOUS
    <3>2. W[d] = UNION {B[x] : x \in R[d]}
      OBVIOUS
    <3> HIDE DEF W
    <3>3. QED
      BY <1>1, <3>1, <3>2
  <2>2. QED
    BY <2>1
<1>3. W = [d \in D |-> B[d] \cup UNION {W[e] : e \in E[d]}]
  BY <1>2
<1>4. QED
  BY <1>3 DEF Solves

-----------------------------------------------------------------------------
(***************************************************************************)
(* The ancestry.                                                           *)
(***************************************************************************)

(***************************************************************************)
(* The parents of a hash are hashes, and its height is a number.           *)
(***************************************************************************)
LEMMA HashFacts ==
    \A v \in Hash : Parents(v) \subseteq Hash /\ Height(v) \in Nat
BY ParentConstraintsOverParents, ContentAssumption DEF Height

(***************************************************************************)
(* The ancestors of a vertex are its parents and theirs.                   *)
(***************************************************************************)
LEMMA ProperAncestorsEq ==
    \A v \in Hash : ProperAncestors(v) =
                        Parents(v) \cup UNION {ProperAncestors(p) : p \in Parents(v)}
<1> DEFINE P == [h \in Hash |-> Parents(h)]
           Above == CHOOSE f : f = [h \in Hash |->
                        Parents(h) \cup UNION {f[p] : p \in Parents(h)}]
<1>1. P \in [Hash -> SUBSET Hash]
  BY HashFacts
<1> HIDE DEF P
<1>2. PICK f : Solves(f, Hash, P, P)
  BY <1>1, RecursionSolvable
<1> USE DEF P
<1>3. Above = [h \in Hash |->
                  Parents(h) \cup UNION {Above[p] : p \in Parents(h)}]
  <2>1. f = [h \in Hash |-> Parents(h) \cup UNION {f[p] : p \in Parents(h)}]
    BY <1>2 DEF Solves
  <2>2. QED
    BY <2>1
<1>4. ProperAncestorsOf = [v \in Hash |-> Above[v]]
  BY DEF ProperAncestorsOf
<1> HIDE DEF Above
<1>5. \A v \in Hash : ProperAncestors(v) = Above[v]
  BY <1>4 DEF ProperAncestors
<1>6. QED
  BY <1>3, <1>5, HashFacts

(***************************************************************************)
(* A set of vertices that is closed under parents, with heights that       *)
(* decrease towards genesis: what GraphWellFormed says of the graph.       *)
(***************************************************************************)
Grounded(S) ==
    /\ S \subseteq Hash
    /\ \A v \in S : /\ Parents(v) \subseteq S
                    /\ \A p \in Parents(v) : Height(p) < Height(v)

(***************************************************************************)
(* Where it holds of all parents in S of a vertex of S that it belongs to  *)
(* Q, every vertex of S does.                                              *)
(***************************************************************************)
LEMMA GroundedInduction ==
    ASSUME NEW S, Grounded(S), NEW Q,
           \A v \in S : Parents(v) \subseteq Q => v \in Q
    PROVE  S \subseteq Q
<1> SUFFICES ASSUME S \ Q # {} PROVE FALSE
  OBVIOUS
<1>1. S \ Q \in SUBSET Hash
  BY DEF Grounded
<1>2. PICK v \in S \ Q : \A w \in S \ Q : Height(v) <= Height(w)
  BY <1>1, LowestVertex
<1>3. ASSUME NEW p \in Parents(v) PROVE p \in Q
  <2>1. p \in S /\ Height(p) < Height(v)
    BY DEF Grounded
  <2>2. Height(p) \in Nat /\ Height(v) \in Nat
    BY <1>1, <2>1, HashFacts DEF Grounded
  <2>3. QED
    BY <1>2, <2>1, <2>2
<1>4. QED
  BY <1>2, <1>3

(***************************************************************************)
(* In a grounded set the ancestors of a vertex belong to the set and are   *)
(* lower than the vertex.                                                  *)
(***************************************************************************)
LEMMA AncestorsInside ==
    ASSUME NEW S, Grounded(S)
    PROVE  \A v \in S : /\ ProperAncestors(v) \subseteq S
                        /\ \A x \in ProperAncestors(v) : Height(x) < Height(v)
<1> DEFINE Q == {v \in S : /\ ProperAncestors(v) \subseteq S
                           /\ \A x \in ProperAncestors(v) :
                                    Height(x) < Height(v)}
<1>1. \A v \in S : Height(v) \in Nat
  BY HashFacts DEF Grounded
<1>2. ASSUME NEW v \in S, Parents(v) \subseteq Q PROVE v \in Q
  <2>1. ProperAncestors(v) = Parents(v) \cup
                UNION {ProperAncestors(p) : p \in Parents(v)}
    BY ProperAncestorsEq DEF Grounded
  <2>2. ProperAncestors(v) \subseteq S
    BY <1>2, <2>1
  <2>3. ASSUME NEW x \in ProperAncestors(v) PROVE Height(x) < Height(v)
    <3>1. \A p \in Parents(v) : p \in S /\ Height(p) < Height(v)
      BY DEF Grounded
    <3>2. CASE x \in Parents(v)
      BY <3>1, <3>2
    <3>3. ASSUME NEW p \in Parents(v), x \in ProperAncestors(p)
          PROVE  Height(x) < Height(v)
      <4>1. Height(x) < Height(p) /\ Height(p) < Height(v)
        BY <1>2, <3>1, <3>3
      <4>2. QED
        BY <1>1, <2>2, <3>1, <4>1
    <3>4. QED
      BY <2>1, <3>2, <3>3
  <2>4. QED
    BY <2>2, <2>3
<1> HIDE DEF Q
<1>3. S \subseteq Q
  BY <1>2, GroundedInduction
<1>4. QED
  BY <1>3 DEF Q

(***************************************************************************)
(* The ancestors of an ancestor are ancestors, and an ancestor is listed   *)
(* by another or by the vertex itself.                                     *)
(***************************************************************************)
LEMMA AncestorsTransitive ==
    ASSUME NEW S, Grounded(S)
    PROVE  \A v \in S : \A x \in ProperAncestors(v) :
              /\ Parents(x) \subseteq ProperAncestors(v)
              /\ ProperAncestors(x) \subseteq ProperAncestors(v)
              /\ \E y \in ProperAncestors(v) \cup {v} : x \in Parents(y)
<1> DEFINE Ok(v) == \A x \in ProperAncestors(v) :
                      /\ Parents(x) \subseteq ProperAncestors(v)
                      /\ ProperAncestors(x) \subseteq ProperAncestors(v)
                      /\ \E y \in ProperAncestors(v) \cup {v} : x \in Parents(y)
           Q == {v \in S : Ok(v)}
<1>1. ASSUME NEW v \in S, Parents(v) \subseteq Q PROVE v \in Q
  <2>1. /\ ProperAncestors(v) = Parents(v) \cup
                UNION {ProperAncestors(p) : p \in Parents(v)}
        /\ \A p \in Parents(v) : ProperAncestors(p) = Parents(p) \cup
                UNION {ProperAncestors(q) : q \in Parents(p)}
    BY ProperAncestorsEq, HashFacts DEF Grounded
  <2> SUFFICES ASSUME NEW x \in ProperAncestors(v)
               PROVE  /\ Parents(x) \subseteq ProperAncestors(v)
                      /\ ProperAncestors(x) \subseteq ProperAncestors(v)
                      /\ \E y \in ProperAncestors(v) \cup {v} : x \in Parents(y)
    OBVIOUS
  <2>2. CASE x \in Parents(v)
    <3>1. Parents(x) \subseteq ProperAncestors(x)
      BY <2>1, <2>2
    <3>2. ProperAncestors(x) \subseteq ProperAncestors(v)
      BY <2>1, <2>2
    <3>3. QED
      BY <2>2, <3>1, <3>2
  <2>3. ASSUME NEW p \in Parents(v), x \in ProperAncestors(p)
        PROVE  /\ Parents(x) \subseteq ProperAncestors(v)
               /\ ProperAncestors(x) \subseteq ProperAncestors(v)
               /\ \E y \in ProperAncestors(v) \cup {v} : x \in Parents(y)
    <3>1. Ok(p)
      BY <1>1
    <3>2. ProperAncestors(p) \cup {p} \subseteq ProperAncestors(v)
      BY <2>1
    <3>3. QED
      BY <2>3, <3>1, <3>2
  <2>4. QED
    BY <2>1, <2>2, <2>3
<1> HIDE DEF Q
<1>2. S \subseteq Q
  BY <1>1, GroundedInduction
<1>3. QED
  BY <1>2 DEF Q

-----------------------------------------------------------------------------
(***************************************************************************)
(* The first decided vertices below a vertex.                              *)
(***************************************************************************)

(***************************************************************************)
(* The equation of decided_height, for any set U of undecided vertices.    *)
(***************************************************************************)
LEMMA FirstDecidedEq ==
    ASSUME NEW U
    PROVE  \A v \in Hash : FirstDecided(U)[v] =
              IF v \in U THEN UNION {FirstDecided(U)[p] : p \in Parents(v)}
                         ELSE {v}
<1> DEFINE B == [h \in Hash |-> IF h \in U THEN {} ELSE {h}]
           E == [h \in Hash |-> IF h \in U THEN Parents(h) ELSE {}]
<1>1. E \in [Hash -> SUBSET Hash]
  BY HashFacts
<1> HIDE DEF B, E
<1>2. PICK f : Solves(f, Hash, E, B)
  BY <1>1, RecursionSolvable
<1>3. ASSUME NEW h \in Hash
      PROVE  B[h] \cup UNION {f[e] : e \in E[h]}
                = IF h \in U THEN UNION {f[p] : p \in Parents(h)} ELSE {h}
  BY DEF B, E
<1>4. f = [h \in Hash |-> IF h \in U THEN UNION {f[p] : p \in Parents(h)}
                                     ELSE {h}]
  BY <1>2, <1>3 DEF Solves
<1>5. FirstDecided(U) =
        [h \in Hash |-> IF h \in U
                        THEN UNION {FirstDecided(U)[p] : p \in Parents(h)}
                        ELSE {h}]
  BY <1>4 DEF FirstDecided
<1>6. QED
  BY <1>5

(***************************************************************************)
(* Every branch below a vertex of a grounded set ends at a decided vertex, *)
(* if the undecided ones of the set have parents.                          *)
(***************************************************************************)
LEMMA FirstDecidedFacts ==
    ASSUME NEW S, Grounded(S), NEW U, \A v \in S \cap U : Parents(v) # {}
    PROVE  \A v \in S : /\ FirstDecided(U)[v] # {}
                        /\ \A x \in FirstDecided(U)[v] :
                             /\ x \in S \ U
                             /\ x \in ProperAncestors(v) \cup {v}
                             /\ Height(x) <= Height(v)
<1> DEFINE Ok(v) == /\ FirstDecided(U)[v] # {}
                    /\ \A x \in FirstDecided(U)[v] :
                         /\ x \in S \ U
                         /\ x \in ProperAncestors(v) \cup {v}
           Q == {v \in S : Ok(v)}
<1>1. ASSUME NEW v \in S, Parents(v) \subseteq Q PROVE v \in Q
  <2>1. v \in Hash
    BY DEF Grounded
  <2>2. CASE v \notin U
    <3>1. FirstDecided(U)[v] = {v}
      BY <2>1, <2>2, FirstDecidedEq
    <3>2. QED
      BY <2>2, <3>1
  <2>3. CASE v \in U
    <3>1. FirstDecided(U)[v] = UNION {FirstDecided(U)[p] : p \in Parents(v)}
      BY <2>1, <2>3, FirstDecidedEq
    <3>2. \A p \in Parents(v) : ProperAncestors(p) \cup {p} \subseteq ProperAncestors(v)
      BY <2>1, ProperAncestorsEq
    <3>3. Parents(v) # {} /\ \A p \in Parents(v) : Ok(p)
      BY <1>1, <2>3
    <3>4. FirstDecided(U)[v] # {}
      BY <3>1, <3>3
    <3>5. ASSUME NEW x \in FirstDecided(U)[v]
          PROVE  x \in S \ U /\ x \in ProperAncestors(v) \cup {v}
      <4>1. PICK p \in Parents(v) : x \in FirstDecided(U)[p]
        BY <3>1
      <4>2. QED
        BY <3>2, <3>3, <4>1
    <3>6. QED
      BY <3>4, <3>5
  <2>4. QED
    BY <2>2, <2>3
<1> HIDE DEF Q
<1>2. S \subseteq Q
  BY <1>1, GroundedInduction
<1>3. \A v \in S : Height(v) \in Nat
  BY HashFacts DEF Grounded
<1>4. ASSUME NEW v \in S, NEW x \in FirstDecided(U)[v]
      PROVE  Height(x) <= Height(v)
  <2>1. x \in S /\ x \in ProperAncestors(v) \cup {v}
    BY <1>2 DEF Q
  <2>2. x = v \/ Height(x) < Height(v)
    BY <2>1, AncestorsInside
  <2>3. QED
    BY <1>3, <2>1, <2>2
<1>5. QED
  BY <1>2, <1>4 DEF Q

(***************************************************************************)
(* When more is decided, nothing that is met first is lower than before:   *)
(* decided_height only grows.                                              *)
(***************************************************************************)
LEMMA FirstDecidedRises ==
    ASSUME NEW S, Grounded(S), NEW U, NEW V, V \subseteq U,
           \A v \in S \cap U : Parents(v) # {}
    PROVE  \A v \in S : \A x \in FirstDecided(V)[v] :
              \E y \in FirstDecided(U)[v] : Height(y) <= Height(x)
<1> DEFINE Ok(v) == \A x \in FirstDecided(V)[v] :
                        \E y \in FirstDecided(U)[v] : Height(y) <= Height(x)
           Q == {v \in S : Ok(v)}
<1>1. ASSUME NEW v \in S, Parents(v) \subseteq Q PROVE v \in Q
  <2>1. v \in Hash
    BY DEF Grounded
  <2>2. CASE v \in V
    <3>1. /\ FirstDecided(U)[v] = UNION {FirstDecided(U)[p] : p \in Parents(v)}
          /\ FirstDecided(V)[v] = UNION {FirstDecided(V)[p] : p \in Parents(v)}
      BY <2>1, <2>2, FirstDecidedEq
    <3>2. QED
      BY <1>1, <3>1
  <2>3. CASE v \notin V
    <3>1. FirstDecided(V)[v] = {v}
      BY <2>1, <2>3, FirstDecidedEq
    <3>2. PICK y \in FirstDecided(U)[v] : Height(y) <= Height(v)
      BY FirstDecidedFacts
    <3>3. QED
      BY <3>1, <3>2
  <2>4. QED
    BY <2>2, <2>3
<1> HIDE DEF Q
<1>2. S \subseteq Q
  BY <1>1, GroundedInduction
<1>3. QED
  BY <1>2 DEF Q

-----------------------------------------------------------------------------
(***************************************************************************)
(* The gathered ancestors.                                                 *)
(***************************************************************************)

(***************************************************************************)
(* The equation of gather_ancestors.                                       *)
(***************************************************************************)
LEMMA GatherEq ==
    ASSUME NEW to
    PROVE  \A v \in Hash : Gather(to)[v] =
              IF Height(v) > to
              THEN Parents(v) \cup UNION {Gather(to)[p] : p \in Parents(v)}
              ELSE {}
<1> DEFINE E == [h \in Hash |-> IF Height(h) > to THEN Parents(h) ELSE {}]
<1>1. E \in [Hash -> SUBSET Hash]
  BY HashFacts
<1> HIDE DEF E
<1>2. PICK f : Solves(f, Hash, E, E)
  BY <1>1, RecursionSolvable
<1>3. ASSUME NEW h \in Hash
      PROVE  E[h] \cup UNION {f[e] : e \in E[h]}
                = IF Height(h) > to
                  THEN Parents(h) \cup UNION {f[p] : p \in Parents(h)}
                  ELSE {}
  BY DEF E
<1>4. f = [h \in Hash |->
                IF Height(h) > to
                THEN Parents(h) \cup UNION {f[p] : p \in Parents(h)}
                ELSE {}]
  BY <1>2, <1>3 DEF Solves
<1>5. Gather(to) =
        [h \in Hash |->
            IF Height(h) > to
            THEN Parents(h) \cup UNION {Gather(to)[p] : p \in Parents(h)}
            ELSE {}]
  BY <1>4 DEF Gather
<1>6. QED
  BY <1>5

(***************************************************************************)
(* Only ancestors are gathered, and every ancestor as high as the height   *)
(* the search goes down to.                                                *)
(***************************************************************************)
LEMMA GatherExact ==
    ASSUME NEW S, Grounded(S), NEW to \in Nat
    PROVE  \A v \in S :
              /\ Gather(to)[v] \subseteq ProperAncestors(v)
              /\ \A x \in ProperAncestors(v) :
                    Height(x) >= to => x \in Gather(to)[v]
<1> DEFINE Ok(v) == /\ Gather(to)[v] \subseteq ProperAncestors(v)
                    /\ \A x \in ProperAncestors(v) :
                          Height(x) >= to => x \in Gather(to)[v]
           Q == {v \in S : Ok(v)}
<1>1. ASSUME NEW v \in S, Parents(v) \subseteq Q PROVE v \in Q
  <2>1. v \in Hash /\ Height(v) \in Nat
    BY HashFacts DEF Grounded
  <2>2. ProperAncestors(v) = Parents(v) \cup
                UNION {ProperAncestors(p) : p \in Parents(v)}
    BY <2>1, ProperAncestorsEq
  <2>3. CASE Height(v) > to
    <3>1. Gather(to)[v] = Parents(v) \cup
                UNION {Gather(to)[p] : p \in Parents(v)}
      BY <2>1, <2>3, GatherEq
    <3>2. QED
      BY <1>1, <2>2, <3>1
  <2>4. CASE ~(Height(v) > to)
    <3>1. Gather(to)[v] = {}
      BY <2>1, <2>4, GatherEq
    <3>2. ASSUME NEW x \in ProperAncestors(v) PROVE ~(Height(x) >= to)
      <4>1. Height(x) < Height(v) /\ x \in S
        BY AncestorsInside
      <4>2. Height(x) \in Nat
        BY <4>1, HashFacts DEF Grounded
      <4>3. QED
        BY <2>1, <2>4, <4>1, <4>2
    <3>3. QED
      BY <3>1, <3>2
  <2>5. QED
    BY <2>3, <2>4
<1> HIDE DEF Q
<1>2. S \subseteq Q
  BY <1>1, GroundedInduction
<1>3. QED
  BY <1>2 DEF Q

(***************************************************************************)
(* A search that stops earlier gathers no more.                            *)
(***************************************************************************)
LEMMA GatherShrinks ==
    ASSUME NEW S, Grounded(S), NEW to \in Nat, NEW up \in Nat, to <= up
    PROVE  \A v \in S : Gather(up)[v] \subseteq Gather(to)[v]
<1> DEFINE Q == {v \in S : Gather(up)[v] \subseteq Gather(to)[v]}
<1>1. ASSUME NEW v \in S, Parents(v) \subseteq Q PROVE v \in Q
  <2>1. v \in Hash /\ Height(v) \in Nat
    BY HashFacts DEF Grounded
  <2>2. CASE Height(v) > up
    <3>1. Height(v) > to
      BY <2>1, <2>2
    <3>2. /\ Gather(to)[v] = Parents(v) \cup
                UNION {Gather(to)[p] : p \in Parents(v)}
          /\ Gather(up)[v] = Parents(v) \cup
                UNION {Gather(up)[p] : p \in Parents(v)}
      BY <2>1, <2>2, <3>1, GatherEq
    <3>3. QED
      BY <1>1, <3>2
  <2>3. CASE ~(Height(v) > up)
    <3>1. Gather(up)[v] = {}
      BY <2>1, <2>3, GatherEq
    <3>2. QED
      BY <3>1
  <2>4. QED
    BY <2>2, <2>3
<1> HIDE DEF Q
<1>2. S \subseteq Q
  BY <1>1, GroundedInduction
<1>3. QED
  BY <1>2 DEF Q

-----------------------------------------------------------------------------
(***************************************************************************)
(* The searches from a set P of vertices of the graph.                     *)
(***************************************************************************)
Undecideds == {h \in Hash : Undecided(h)}

(***************************************************************************)
(* The graph is well formed and rooted in genesis, which is decided from   *)
(* the start.                                                              *)
(***************************************************************************)
WellFormedInv == GraphWellFormed /\ Genesis \in graph /\ ~Undecided(Genesis)

(***************************************************************************)
(* The graph is grounded, and every branch of it ends at a decided vertex, *)
(* genesis at last.                                                        *)
(***************************************************************************)
LEMMA GraphGrounded ==
    ASSUME TypeOK, WellFormedInv
    PROVE  Grounded(graph) /\ \A v \in graph \cap Undecideds : Parents(v) # {}
<1>1. Parents(Genesis) = {}
  BY ContentAssumption DEF Parents, ParentsOf
<1>2. QED
  BY <1>1 DEF TypeOK, WellFormedInv, GraphWellFormed, Grounded, Undecideds

(***************************************************************************)
(* The decided vertices met first on the way down from a vertex of the     *)
(* graph.                                                                  *)
(***************************************************************************)
LEMMA FirstDecidedInGraph ==
    ASSUME TypeOK, WellFormedInv
    PROVE  \A v \in graph :
              /\ FirstDecided(Undecideds)[v] # {}
              /\ \A x \in FirstDecided(Undecideds)[v] :
                   /\ x \in graph \ Undecideds
                   /\ x \in ProperAncestors(v) \cup {v}
                   /\ Height(x) <= Height(v)
<1>1. Grounded(graph)
  BY GraphGrounded
<1>2. \A v \in graph \cap Undecideds : Parents(v) # {}
  BY GraphGrounded
<1> HIDE DEF WellFormedInv
<1>3. QED
  BY <1>1, <1>2, FirstDecidedFacts

(***************************************************************************)
(* to_height is the lowest of the decided heights, and no parent is lower. *)
(***************************************************************************)
LEMMA ToHeightFacts ==
    ASSUME TypeOK, WellFormedInv, NEW P \in SUBSET graph, P # {}
    PROVE  /\ ToHeight(P) \in Nat
           /\ \E p \in P : \E x \in FirstDecided(Undecideds)[p] :
                 ToHeight(P) = Height(x)
           /\ \A p \in P : \A x \in FirstDecided(Undecideds)[p] :
                 ToHeight(P) <= Height(x)
           /\ \A p \in P : ToHeight(P) <= Height(p)
<1> DEFINE heights == {Height(h) : h \in DecidedBelow(P)}
<1>1. DecidedBelow(P) = UNION {FirstDecided(Undecideds)[p] : p \in P}
  BY DEF DecidedBelow, Undecideds
<1>2. \A p \in P : /\ FirstDecided(Undecideds)[p] # {}
                   /\ \A x \in FirstDecided(Undecideds)[p] :
                        x \in graph /\ Height(x) <= Height(p)
  BY FirstDecidedInGraph
<1>3. heights # {} /\ heights \in SUBSET Nat
  <2>1. DecidedBelow(P) # {} /\ DecidedBelow(P) \subseteq graph
    BY <1>1, <1>2
  <2>2. \A h \in graph : Height(h) \in Nat
    BY HashFacts DEF TypeOK
  <2>3. QED
    BY <2>1, <2>2
<1>4. ToHeight(P) = CHOOSE n \in heights : \A m \in heights : n <= m
  BY DEF ToHeight
<1>5. ToHeight(P) \in heights /\ \A m \in heights : ToHeight(P) <= m
  <2> HIDE DEF heights
  <2>1. \E n \in heights : \A m \in heights : n <= m
    BY <1>3, LeastNumber
  <2>2. QED
    BY <1>4, <2>1
<1>6. \A p \in P : \A x \in FirstDecided(Undecideds)[p] :
         ToHeight(P) <= Height(x)
  BY <1>1, <1>5
<1>7. ASSUME NEW p \in P PROVE ToHeight(P) <= Height(p)
  <2>1. PICK x \in FirstDecided(Undecideds)[p] : x \in graph /\ Height(x) <= Height(p)
    BY <1>2
  <2>2. Height(x) \in Nat /\ Height(p) \in Nat
    BY <2>1, HashFacts DEF TypeOK
  <2>3. QED
    BY <1>3, <1>5, <1>6, <2>1, <2>2
<1>8. QED
  BY <1>1, <1>3, <1>5, <1>6, <1>7

(***************************************************************************)
(* The search for self-referential parents is exact: it finds one if and   *)
(* only if a parent descends from another, however much of the ancestry is *)
(* decided.                                                                *)
(***************************************************************************)
LEMMA SelfReferenceExact ==
    ASSUME TypeOK, WellFormedInv, NEW P \in SUBSET graph, P # {}
    PROVE  /\ \A x \in AncestorsOfParents(P) :
                 \E q \in P : x \in ProperAncestors(q)
           /\ SelfReferentialParent(P)
                <=> \E p, q \in P : p \in ProperAncestors(q)
<1>1. AncestorsOfParents(P) = UNION {Gather(ToHeight(P))[p] : p \in P}
  BY DEF AncestorsOfParents
<1>2. ToHeight(P) \in Nat /\ \A p \in P : ToHeight(P) <= Height(p)
  BY ToHeightFacts
<1>3. \A q \in P : /\ Gather(ToHeight(P))[q] \subseteq ProperAncestors(q)
                   /\ \A x \in ProperAncestors(q) :
                        Height(x) >= ToHeight(P) => x \in Gather(ToHeight(P))[q]
  BY <1>2, GraphGrounded, GatherExact
<1>4. \A p \in P : Height(p) \in Nat
  BY HashFacts DEF TypeOK
<1>5. \A p, q \in P :
         p \in ProperAncestors(q) => p \in Gather(ToHeight(P))[q]
  BY <1>2, <1>3, <1>4
<1>6. QED
  BY <1>1, <1>3, <1>5 DEF SelfReferentialParent

-----------------------------------------------------------------------------
(***************************************************************************)
(* The steps of the task, as the proofs take them.                         *)
(***************************************************************************)

(***************************************************************************)
(* Handlers run one after the other, and a poll is counted to its end.     *)
(***************************************************************************)
HandlerInv ==
    /\ recording = NoVertex => live = {} /\ rejecting = {}
    /\ queue # << >> => recording = NoVertex

DagInv == TypeOK /\ GraphInv /\ RejectionInv /\ HandlerInv

\* insert, for a vertex that check_vertex lets in
Inserting(v) ==
    /\ CheckVertex(v) = "Ok" /\ Insert(v)
    /\ recording = NoVertex /\ live = {} /\ rejecting = {}
    /\ UNCHANGED voteVars

\* the vote loop counts c: a constraint in live, or the last one
Counting(c) ==
    /\ recording \in graph /\ rejecting = {} /\ CountVote(c)
    /\ UNCHANGED vertexVars
    /\ \/ c \in live /\ live' = live \ {c} /\ recording' = recording
       \/ /\ c = Unity(recording) /\ live = {} /\ live' = {}
          /\ recording' = NoVertex

\* what the conflict sets do not take part in
Quiet ==
    /\ UNCHANGED <<graph, conflictVars, voteVars>>
    /\ pending_query' \subseteq pending_query

(***************************************************************************)
(* Every step inserts a vertex, records a poll, counts a vote, rejects one *)
(* generation, or leaves the conflict sets alone.                          *)
(***************************************************************************)
LEMMA StepCases ==
    ASSUME DagInv, [Next]_vars
    PROVE  \/ \E v \in Hash : Inserting(v)
           \/ \E v \in Hash : RecordAgainst(v) \/ RecordFor(v)
           \/ \E c \in Constraints : Exists(c) /\ Counting(c)
           \/ RejectStep
           \/ Quiet
<1> DEFINE Goal == \/ \E v \in Hash : Inserting(v)
                   \/ \E v \in Hash : RecordAgainst(v) \/ RecordFor(v)
                   \/ \E c \in Constraints : Exists(c) /\ Counting(c)
                   \/ RejectStep
                   \/ Quiet
<1> USE DEF DagInv
<1>1. ASSUME NEW v \in Hash, SubmitVertex(v) \/ RetryPending(v) PROVE Goal
  <2>1. /\ recording = NoVertex /\ live = {} /\ rejecting = {}
        /\ UNCHANGED voteVars
    BY <1>1 DEF SubmitVertex, RetryPending, Idle, HandlerInv
  <2>2. PICK stack : TryInsert(v, stack)
    BY <1>1 DEF SubmitVertex, RetryPending
  <2>3. CASE CheckVertex(v) = "Ok" /\ Insert(v)
    BY <2>1, <2>3 DEF Inserting
  <2>4. CASE Remember(v) \/ UNCHANGED <<vertexVars, conflictVars>>
    BY <2>1, <2>4 DEF Remember, Quiet, vertexVars, conflictVars
  <2>5. QED
    BY <2>2, <2>3, <2>4, TryInsertCases
<1>2. ASSUME NEW v \in Hash, RecordPanics(v) PROVE Goal
  BY <1>2 DEF RecordPanics, Quiet
<1>3. ASSUME NEW a \in Hash, NEW c \in Constraints, RecordStep(a, c)
      PROVE  Goal
  <2>1. a \in graph /\ c \in ParentConstraints(a) /\ c \in live
    BY <1>3 DEF RecordStep, Uncounted, GraphInv, VotersInserted
  <2>2. recording \in graph
    BY <1>3 DEF RecordStep, GraphInv, VotersInserted
  <2>3. Exists(c)
    BY <2>1 DEF RejectionInv, SetsExist
  <2>4. Counting(c)
    BY <1>3, <2>1, <2>2 DEF RecordStep, Counting
  <2>5. QED
    BY <2>3, <2>4
<1>4. CASE RecordUnity
  <2>1. recording \in graph
    BY <1>4 DEF RecordUnity, GraphInv, VotersInserted
  <2>2. Unity(recording) \in Constraints /\ Exists(Unity(recording))
    BY <2>1, ConstraintsClosed DEF TypeOK, RejectionInv, SetsExist
  <2>3. Counting(Unity(recording))
    BY <1>4, <2>1 DEF RecordUnity, Counting
  <2>4. QED
    BY <2>2, <2>3
<1>5. CASE UNCHANGED vars
  BY <1>5 DEF vars, vertexVars, conflictVars, voteVars, Quiet
<1>6. QED
  BY <1>1, <1>2, <1>3, <1>4, <1>5
     DEF Next, InsertNext, RecordStart, RecordQueryResult, VoteLoop,
         RecordIgnored

(***************************************************************************)
(* No handler starts before the one that runs has ended.                   *)
(***************************************************************************)
LEMMA NextHandlerInv ==
    TypeOK /\ HandlerInv /\ [Next]_vars => HandlerInv'
<1> SUFFICES ASSUME TypeOK, HandlerInv, [Next]_vars PROVE HandlerInv'
  OBVIOUS
<1>1. ASSUME NEW v \in Hash, SubmitVertex(v) \/ RetryPending(v)
      PROVE  HandlerInv'
  BY <1>1 DEF SubmitVertex, RetryPending, Idle, HandlerInv, voteVars
<1>2. ASSUME NEW v \in Hash, RecordAgainst(v) \/ RecordPanics(v)
      PROVE  HandlerInv'
  BY <1>2 DEF RecordAgainst, RecordPanics, Idle, HandlerInv, voteVars
<1>3. ASSUME NEW v \in Hash, RecordFor(v) PROVE HandlerInv'
  BY <1>3, ThresholdAssumption DEF RecordFor, Idle, HandlerInv
<1>4. ASSUME NEW a \in Hash, NEW c \in Constraints, RecordStep(a, c)
      PROVE  HandlerInv'
  BY <1>4 DEF RecordStep, HandlerInv
<1>5. CASE RecordUnity
  <2>1. rejecting' = {}
    BY <1>5 DEF RecordUnity, CountVote, ToReject, IsUnity, Unity
  <2>2. QED
    BY <1>5, <2>1 DEF RecordUnity, HandlerInv
<1>6. CASE RejectStep
  BY <1>6 DEF RejectStep, HandlerInv
<1>7. CASE UNCHANGED vars
  BY <1>7 DEF vars, voteVars, HandlerInv
<1>8. QED
  BY <1>1, <1>2, <1>3, <1>4, <1>5, <1>6, <1>7
     DEF Next, InsertNext, RecordStart, RecordQueryResult, VoteLoop,
         RecordIgnored

(***************************************************************************)
(* The invariants of DAGProofs and the order of handlers, together.        *)
(***************************************************************************)
LEMMA NextDagInv == DagInv /\ [Next]_vars => DagInv'
BY NextTypeOK, NextGraphInv, NextRejectionInv, NextHandlerInv DEF DagInv

(***************************************************************************)
(* They hold of the DAG with nothing but genesis (DAG::new).               *)
(***************************************************************************)
LEMMA InitDagInv == Init => DagInv
BY InitTypeOK, InitGraphInv, InitRejectionInv DEF DagInv, Init, HandlerInv

(***************************************************************************)
(* They hold at every step of every handler.                               *)
(***************************************************************************)
LEMMA DagInvariant == Spec => []DagInv
BY InitDagInv, NextDagInv, PTL DEF Spec

(***************************************************************************)
(* A new vertex has no conflict set of its own, and does not list itself.  *)
(***************************************************************************)
LEMMA InsertingNew ==
    ASSUME DagInv, NEW v \in Hash, Inserting(v)
    PROVE  /\ v \notin graph /\ graph' = graph \cup {v}
           /\ Parents(v) \subseteq graph /\ Parents(v) # {}
           /\ ~Exists(Unity(v)) /\ Unity(v) \notin ParentConstraints(v)
<1>1. /\ v \notin graph /\ Parents(v) \subseteq graph /\ Parents(v) # {}
      /\ graph' = graph \cup {v}
  BY CheckOk DEF Inserting, Insert
<1>2. ~Exists(Unity(v))
  BY <1>1 DEF DagInv, RejectionInv, SetsExist
<1>3. Unity(v) \notin ParentConstraints(v)
  <2>1. Unity(v)[1] = v
    BY DEF Unity
  <2>2. QED
    BY <1>1, <2>1, ParentConstraintsOverParents
<1>4. QED
  BY <1>1, <1>2, <1>3

(***************************************************************************)
(* What is decided stays decided, one way or the other, and the graph only *)
(* grows.                                                                  *)
(***************************************************************************)
LEMMA DecisionsGrow ==
    ASSUME DagInv, [Next]_vars
    PROVE  /\ \A c \in Constraints :
                decision[c] # "undecided" => decision'[c] # "undecided"
           /\ graph \subseteq graph'
<1> USE DEF DagInv
<1>0. decision \in [Constraints -> {"undecided", "accepted", "rejected"}]
  BY DEF TypeOK
<1>1. ASSUME NEW v \in Hash, Inserting(v)
      PROVE  /\ \A c \in Constraints :
                  decision[c] # "undecided" => decision'[c] # "undecided"
             /\ graph \subseteq graph'
  BY <1>1, InsertingNew, InsertDecision DEF Inserting
<1>2. ASSUME NEW v \in Hash, RecordAgainst(v) \/ RecordFor(v)
      PROVE  decision' = decision /\ graph' = graph
  BY <1>2 DEF RecordAgainst, RecordFor
<1>3. ASSUME NEW c \in Constraints, Counting(c)
      PROVE  /\ \A d \in Constraints :
                  decision[d] # "undecided" => decision'[d] # "undecided"
             /\ graph' = graph
  BY <1>0, <1>3 DEF Counting, CountVote, vertexVars
<1>4. CASE RejectStep
  BY <1>0, <1>4 DEF RejectStep, vertexVars
<1>5. CASE Quiet
  BY <1>5 DEF Quiet, conflictVars
<1>6. QED
  BY <1>1, <1>2, <1>3, <1>4, <1>5, StepCases

(***************************************************************************)
(* check_vertex lets in what keeps the graph well formed.                  *)
(***************************************************************************)
LEMMA InsertingWellFormed ==
    ASSUME DagInv, WellFormedInv, NEW v \in Hash, Inserting(v)
    PROVE  /\ \A p \in Parents(v) : Height(p) < Height(v)
           /\ \E p \in Parents(v) : Height(v) = Height(p) + 1
           /\ \A p, q \in Parents(v) : p \notin ProperAncestors(q)
<1>1. Parents(v) \subseteq graph /\ Parents(v) # {}
  BY InsertingNew
<1>2. ExpectedHeight(v) = Height(v) /\ ~SelfReferentialParent(Parents(v))
  BY DEF Inserting, CheckVertex
<1> DEFINE heights == {Height(p) : p \in Parents(v)}
           highest(n) == \A p \in Parents(v) : Height(p) <= n
<1>3. PICK n \in heights : highest(n) /\ Height(v) = 1 + n
  <2>1. \E n \in heights : highest(n)
    BY <1>1, HighestVertex, HashFacts
  <2>2. ExpectedHeight(v) = 1 + CHOOSE n \in heights : highest(n)
    BY DEF ExpectedHeight
  <2> HIDE DEF heights, highest
  <2>3. QED
    BY <1>2, <2>1, <2>2
<1>4. \A p \in Parents(v) : Height(p) \in Nat
  BY HashFacts
<1>5. \A p, q \in Parents(v) : p \notin ProperAncestors(q)
  BY <1>1, <1>2, SelfReferenceExact DEF DagInv
<1>6. QED
  BY <1>3, <1>4, <1>5

(***************************************************************************)
(* No step makes the graph ill-formed.                                     *)
(***************************************************************************)
LEMMA NextWellFormed == DagInv /\ WellFormedInv /\ [Next]_vars => WellFormedInv'
<1> SUFFICES ASSUME DagInv, WellFormedInv, [Next]_vars PROVE WellFormedInv'
  OBVIOUS
<1>1. Unity(Genesis) \in Constraints
  BY ContentAssumption, ConstraintsClosed
<1>2. Genesis \in graph' /\ ~Undecided(Genesis)'
  BY <1>1, DecisionsGrow DEF WellFormedInv, Undecided
<1>3. ASSUME NEW v \in Hash, Inserting(v) PROVE GraphWellFormed'
  <2>1. graph' = graph \cup {v} /\ Parents(v) \subseteq graph /\ Parents(v) # {}
    BY <1>3, InsertingNew
  <2>2. QED
    BY <1>3, <2>1, InsertingWellFormed DEF WellFormedInv, GraphWellFormed
<1>4. ASSUME graph' = graph PROVE GraphWellFormed'
  BY <1>4 DEF WellFormedInv, GraphWellFormed
<1>5. QED
  <2>1. (\E v \in Hash : Inserting(v)) \/ graph' = graph
    BY StepCases DEF RecordAgainst, RecordFor, Counting, RejectStep, Quiet,
                     vertexVars
  <2>2. QED
    BY <1>2, <1>3, <1>4, <2>1 DEF WellFormedInv

(***************************************************************************)
(* The graph of genesis alone is well formed.                              *)
(***************************************************************************)
LEMMA InitWellFormed == Init => WellFormedInv
<1>1. Unity(Genesis) \in Constraints
  BY ContentAssumption, ConstraintsClosed
<1>2. Init => decision[Unity(Genesis)] = "accepted"
  BY <1>1 DEF Init
<1>3. QED
  BY <1>2 DEF Init, WellFormedInv, GraphWellFormed, Undecided

(***************************************************************************)
(* The graph is well formed at every step.                                 *)
(***************************************************************************)
LEMMA WellFormedInvariant == Spec => []WellFormedInv
BY InitWellFormed, NextWellFormed, DagInvariant, PTL DEF Spec

(***************************************************************************)
(* The graph is closed under parents, heights count the longest path to    *)
(* genesis and no vertex lists a parent beside its descendant, although    *)
(* check_vertex searches the ancestry no further than the decided heights  *)
(* and decisions are made between any two insertions.                      *)
(***************************************************************************)
THEOREM GraphStaysWellFormed == Spec => []GraphWellFormed
<1>1. WellFormedInv => GraphWellFormed
  BY DEF WellFormedInv
<1>2. QED
  BY <1>1, WellFormedInvariant, PTL

-----------------------------------------------------------------------------
(***************************************************************************)
(* Queries.                                                                *)
(***************************************************************************)

(***************************************************************************)
(* A vertex lists the unity constraint of each of its parents.             *)
(***************************************************************************)
LEMMA UnityListed ==
    \A v \in Hash : \A p \in Parents(v) : Unity(p) \in ParentConstraints(v)
<1> SUFFICES ASSUME NEW v \in Hash, NEW p \in Parents(v)
             PROVE  Unity(p) \in ParentConstraints(v)
  OBVIOUS
<1> DEFINE ps == Content[v].parents
<1>1. PICK i \in DOMAIN ps : p = ps[i]
  BY DEF Parents, ParentsOf
<1>2. i <= i
  <2>1. ps \in Seq(Hash)
    BY ContentAssumption
  <2>2. DOMAIN ps = 1..Len(ps) /\ Len(ps) \in Nat
    BY <2>1
  <2>3. QED
    BY <1>1, <2>2
<1>3. <<ps[i], ps[i]>> \in ConstraintsOf(ps)
  <2>1. <<i, i>> \in {x \in (DOMAIN ps) \X (DOMAIN ps) : x[1] <= x[2]}
    <3>1. <<i, i>> \in (DOMAIN ps) \X (DOMAIN ps)
      BY <1>1
    <3>2. <<i, i>>[1] <= <<i, i>>[2]
      BY <1>2
    <3>3. QED
      BY <3>1, <3>2, Zenon
  <2>2. <<ps[<<i, i>>[1]], ps[<<i, i>>[2]]>> \in ConstraintsOf(ps)
    BY <2>1 DEF ConstraintsOf
  <2>3. QED
    BY <2>2
<1>4. QED
  BY <1>1, <1>3 DEF ParentConstraints, ParentConstraintsOf, Unity

(***************************************************************************)
(* Between handlers, what is met first below an undecided vertex of the    *)
(* graph is accepted.                                                      *)
(***************************************************************************)
LEMMA UndecidedOnAccepted ==
    ASSUME DagInv, WellFormedInv, rejecting = {}
    PROVE  \A v \in graph : Undecided(v) =>
              \A x \in FirstDecided(Undecideds)[v] : decision[Unity(x)] = "accepted"
<1> DEFINE Ok(v) == Undecided(v) =>
              \A x \in FirstDecided(Undecideds)[v] : decision[Unity(x)] = "accepted"
           Q == {v \in graph : Ok(v)}
<1>1. graph \subseteq Hash
  BY DEF DagInv, TypeOK
<1>2. \A h \in Hash : /\ Unity(h) \in Constraints
                      /\ decision[Unity(h)] \in {"undecided", "accepted", "rejected"}
                      /\ h \in Undecideds <=> Undecided(h)
  BY ConstraintsClosed DEF DagInv, TypeOK, Undecideds
<1>3. ASSUME NEW v \in graph, Parents(v) \subseteq Q, Undecided(v),
             NEW x \in FirstDecided(Undecideds)[v]
      PROVE  decision[Unity(x)] = "accepted"
  <2> DEFINE F == FirstDecided(Undecideds)
  <2> HIDE DEF F
  <2>0. \A h \in Hash :
            F[h] = IF h \in Undecideds THEN UNION {F[p] : p \in Parents(h)}
                                       ELSE {h}
    BY FirstDecidedEq DEF F
  <2>1. PICK p \in Parents(v) : x \in F[p]
    <3>1. v \in Hash /\ v \in Undecideds /\ x \in F[v]
      BY <1>1, <1>2, <1>3 DEF F
    <3>2. F[v] = UNION {F[p] : p \in Parents(v)}
      BY <2>0, <3>1
    <3>3. QED
      BY <3>1, <3>2
  <2>2. p \in graph /\ p \in Hash
    BY <1>1, <1>3, <2>1
  <2>3. CASE Undecided(p)
    BY <1>3, <2>1, <2>3 DEF F
  <2>4. CASE ~Undecided(p)
    <3>1. x = p
      BY <1>2, <2>0, <2>1, <2>2, <2>4
    <3>2. decision[Unity(p)] # "rejected"
      BY <1>1, <1>3, <2>1, UnityListed DEF DagInv, RejectionInv, Tainted
    <3>3. QED
      BY <1>2, <2>2, <2>4, <3>1, <3>2 DEF Undecided
  <2>5. QED
    BY <2>3, <2>4
<1>4. \A v \in graph : Parents(v) \subseteq Q => v \in Q
  BY <1>3
<1> HIDE DEF Q
<1>5. Grounded(graph)
  BY GraphGrounded DEF DagInv
<1>6. graph \subseteq Q
  BY <1>4, <1>5, GroundedInduction
<1>7. QED
  BY <1>6 DEF Q

(***************************************************************************)
(* The searches for an undecided vertex of the graph do not fail.          *)
(***************************************************************************)
LEMMA UndecidedUnwrappable ==
    ASSUME DagInv, WellFormedInv, rejecting = {}, NEW v \in graph, Undecided(v)
    PROVE  Unwrappable(v)
<1>1. v \in Hash /\ v \in Undecideds
  BY DEF DagInv, TypeOK, Undecideds
<1>2. v # Genesis /\ Parents(v) \subseteq graph /\ Parents(v) # {}
  BY DEF WellFormedInv, GraphWellFormed
<1>3. DecidedBelow(Parents(v)) = FirstDecided(Undecideds)[v]
  BY <1>1, FirstDecidedEq DEF DecidedBelow, Undecideds
<1>4. ~RejectedAncestor(Parents(v))
  BY <1>3, UndecidedOnAccepted DEF RejectedAncestor
<1>5. ~SelfReferentialParent(Parents(v))
  BY <1>2, SelfReferenceExact DEF DagInv, WellFormedInv, GraphWellFormed
<1>6. QED
  BY <1>4, <1>5 DEF Unwrappable

(***************************************************************************)
(* query never fails on a vertex of the graph, and never trips its         *)
(* assertion: the search from an undecided vertex meets no rejected        *)
(* ancestor and no self-referential parent, whatever polls were recorded.  *)
(***************************************************************************)
THEOREM QueriesSucceed == Spec => []QueryNeverFails
<1>1. DagInv /\ WellFormedInv => QueryNeverFails
  BY UndecidedUnwrappable
     DEF QueryNeverFails, QueryFails, Idle, DagInv, HandlerInv
<1>2. QED
  BY <1>1, WellFormedInvariant, DagInvariant, PTL

-----------------------------------------------------------------------------
(***************************************************************************)
(* Inheritance.                                                            *)
(***************************************************************************)

(***************************************************************************)
(* A vertex of the graph inherits from its ancestors, over its ancestors.  *)
(***************************************************************************)
LEMMA InheritedFacts ==
    ASSUME NEW S, Grounded(S), NEW v \in S
    PROVE  /\ Inherited(v) = UNION {ParentConstraints(h) :
                                        h \in ProperAncestors(v) \cup {v}}
           /\ ParentConstraints(v) \subseteq Inherited(v)
           /\ \A x \in ProperAncestors(v) : Inherited(x) \subseteq Inherited(v)
           /\ \A c \in Inherited(v) :
                 /\ c \in Constraints
                 /\ c[1] \in ProperAncestors(v) /\ c[2] \in ProperAncestors(v)
<1>1. S \subseteq Hash
  BY DEF Grounded
<1>2. \A x \in Hash : Inherited(x) = UNION {ParentConstraints(h) :
                                        h \in ProperAncestors(x) \cup {x}}
  BY DEF Inherited, InheritedOf
<1>3. \A x \in ProperAncestors(v) :
         x \in S /\ ProperAncestors(x) \subseteq ProperAncestors(v)
  BY AncestorsInside, AncestorsTransitive
<1>4. \A x \in ProperAncestors(v) : Inherited(x) \subseteq Inherited(v)
  BY <1>1, <1>2, <1>3
<1>5. ASSUME NEW h \in ProperAncestors(v) \cup {v}, NEW c \in ParentConstraints(h)
      PROVE  /\ c \in Constraints
             /\ c[1] \in ProperAncestors(v) /\ c[2] \in ProperAncestors(v)
  <2>1. h \in S /\ h \in Hash
    BY <1>1, <1>3
  <2>2. Parents(h) \subseteq ProperAncestors(v)
    BY <2>1, AncestorsTransitive, ProperAncestorsEq
  <2>3. QED
    BY <2>1, <2>2, ParentConstraintsOverParents, ConstraintsClosed
<1>6. QED
  BY <1>1, <1>2, <1>4, <1>5

(***************************************************************************)
(* The active ancestors of a set of vertices are among them and their      *)
(* ancestors.                                                              *)
(***************************************************************************)
LEMMA ActiveAncestry ==
    ASSUME TypeOK, WellFormedInv, NEW P \in SUBSET graph
    PROVE  \A h \in ActiveAncestors(P) :
              h \in graph /\ \E q \in P : h \in ProperAncestors(q) \cup {q}
<1>1. CASE P = {}
  BY <1>1 DEF ActiveAncestors, AncestorsOfParents
<1>2. CASE P # {}
  BY <1>2, SelfReferenceExact DEF ActiveAncestors
<1>3. QED
  BY <1>1, <1>2

(***************************************************************************)
(* What check_vertex finds active above the parents of a vertex, the       *)
(* vertex inherits.                                                        *)
(***************************************************************************)
LEMMA ActiveAreInherited ==
    ASSUME TypeOK, WellFormedInv, NEW v \in Hash, Parents(v) \in SUBSET graph
    PROVE  ActiveConstraintsOf(v) \subseteq Inherited(v)
<1>1. Inherited(v) = UNION {ParentConstraints(h) :
                                h \in ProperAncestors(v) \cup {v}}
  BY DEF Inherited, InheritedOf
<1>2. ProperAncestors(v) = Parents(v) \cup
                UNION {ProperAncestors(p) : p \in Parents(v)}
  BY ProperAncestorsEq
<1>3. \A h \in ActiveAncestors(Parents(v)) :
          \E q \in Parents(v) : h \in ProperAncestors(q) \cup {q}
  BY ActiveAncestry
<1>4. ActiveAncestors(Parents(v)) \subseteq ProperAncestors(v)
  BY <1>2, <1>3
<1>5. QED
  BY <1>1, <1>4 DEF ActiveConstraintsOf, ActiveConstraints

-----------------------------------------------------------------------------
(***************************************************************************)
(* Legal vertices.                                                         *)
(***************************************************************************)

\* what makes v legal above legal parents
LegalHere(v) ==
    /\ SanityChecks(v)
    /\ \A p \in Parents(v) : Height(p) < Height(v)
    /\ \E p \in Parents(v) : Height(v) = Height(p) + 1
    /\ \A p, q \in Parents(v) : p \notin ProperAncestors(q)
    /\ ~InheritsConflict(v)

(***************************************************************************)
(* A vertex is legal when it is genesis, or is fine by itself and all its  *)
(* parents are legal.                                                      *)
(***************************************************************************)
LEMMA LegalEq ==
    \A v \in Hash : v \in LegalVertices
        <=> v = Genesis \/ (LegalHere(v) /\ Parents(v) \subseteq LegalVertices)
<1> DEFINE E == [h \in Hash |-> Parents(h)]
           B == [h \in Hash |-> IF h = Genesis \/ LegalHere(h) THEN {} ELSE {0}]
           Body(f) == [v \in Hash |->
                \/ v = Genesis
                \/ /\ SanityChecks(v)
                   /\ \A p \in Parents(v) : f[p]
                   /\ \A p \in Parents(v) : Height(p) < Height(v)
                   /\ \E p \in Parents(v) : Height(v) = Height(p) + 1
                   /\ \A p, q \in Parents(v) : p \notin ProperAncestors(q)
                   /\ ~InheritsConflict(v)]
           Legal == CHOOSE f : f = Body(f)
<1>1. Parents(Genesis) = {} /\ \A h \in Hash : Parents(h) \subseteq Hash
  BY ContentAssumption, HashFacts DEF Parents, ParentsOf
<1>2. E \in [Hash -> SUBSET Hash]
  BY <1>1
<1> HIDE DEF E, B
<1>3. PICK faults : Solves(faults, Hash, E, B)
  BY <1>2, RecursionSolvable
<1>4. \A v \in Hash :
         faults[v] = B[v] \cup UNION {faults[p] : p \in Parents(v)}
  <2>1. \A v \in Hash : E[v] = Parents(v)
    BY DEF E
  <2>2. QED
    BY <1>3, <2>1 DEF Solves
<1> DEFINE f == [v \in Hash |-> faults[v] = {}]
<1>5. \A v \in Hash : f[v] <=>
            v = Genesis \/ (LegalHere(v) /\ \A p \in Parents(v) : f[p])
  <2>1. ASSUME NEW v \in Hash
        PROVE  faults[v] = {} <=> v = Genesis \/ (LegalHere(v) /\
                                    \A p \in Parents(v) : faults[p] = {})
    <3>1. faults[v] = {} <=> B[v] = {} /\ \A p \in Parents(v) : faults[p] = {}
      BY <1>4
    <3>2. B[v] = {} <=> v = Genesis \/ LegalHere(v)
      BY DEF B
    <3>3. QED
      BY <1>1, <3>1, <3>2
  <2>2. QED
    BY <1>1, <2>1
<1>6. f = Body(f)
  <2>1. \A v \in Hash : f[v] = Body(f)[v]
    BY <1>5 DEF LegalHere
  <2>2. QED
    BY <2>1
<1>7. Legal = Body(Legal)
  <2> HIDE DEF f, Body
  <2>1. QED
    BY <1>6
<1>8. LegalVertices = {v \in Hash : Legal[v]}
  BY DEF LegalVertices
<1> HIDE DEF Legal
<1>9. \A v \in Hash : Legal[v] <=>
            v = Genesis \/ (LegalHere(v) /\ \A p \in Parents(v) : Legal[p])
  BY <1>7 DEF LegalHere
<1>10. QED
  BY <1>1, <1>8, <1>9

(***************************************************************************)
(* The height that check_vertex expects is one more than the highest       *)
(* parent's.                                                               *)
(***************************************************************************)
LEMMA ExpectedHeightExact ==
    ASSUME NEW v \in Hash, Parents(v) # {},
           \A p \in Parents(v) : Height(p) < Height(v),
           \E p \in Parents(v) : Height(v) = Height(p) + 1
    PROVE  ExpectedHeight(v) = Height(v)
<1>1. Height(v) \in Nat /\ \A p \in Parents(v) : Height(p) \in Nat
  BY HashFacts
<1> DEFINE heights == {Height(p) : p \in Parents(v)}
           highest(n) == \A p \in Parents(v) : Height(p) <= n
           top == CHOOSE n \in heights : highest(n)
<1>2. \E n \in heights : highest(n)
  BY HighestVertex, HashFacts
<1>3. ExpectedHeight(v) = 1 + top
  BY DEF ExpectedHeight
<1>4. top \in heights /\ highest(top)
  <2> HIDE DEF heights, highest
  <2>1. QED
    BY <1>2
<1> HIDE DEF top
<1>5. top \in Nat /\ top + 1 <= Height(v) /\ Height(v) <= top + 1
  BY <1>1, <1>4
<1>6. QED
  BY <1>1, <1>3, <1>5

(***************************************************************************)
(* Over parents that are in the graph, check_vertex finds no fault with a  *)
(* legal vertex, whatever has been decided: the vertex may only have a     *)
(* rejected ancestor.                                                      *)
(***************************************************************************)
LEMMA LegalPasses ==
    ASSUME DagInv, WellFormedInv, NEW v \in Hash \ graph,
           Parents(v) \subseteq graph, v \in LegalVertices
    PROVE  CheckVertex(v) \in {"Ok", "RejectedAncestor"}
<1> USE DEF DagInv
<1>1. v # Genesis
  BY DEF WellFormedInv
<1>2. LegalHere(v)
  BY <1>1, LegalEq
<1>3. Parents(v) # {} /\ Parents(v) \in SUBSET graph
  BY <1>2 DEF LegalHere
<1>4. ExpectedHeight(v) = Height(v)
  BY <1>2, <1>3, ExpectedHeightExact DEF LegalHere
<1>5. ~SelfReferentialParent(Parents(v))
  BY <1>2, <1>3, SelfReferenceExact DEF LegalHere
<1>6. ~ConflictingAncestors(Parents(v), ParentConstraints(v))
  BY <1>2, <1>3, ActiveAreInherited
     DEF LegalHere, InheritsConflict, ConflictingAncestors,
         ActiveConstraintsOf
<1>7. SanityChecks(v)
  BY <1>2 DEF LegalHere
<1>8. MissingParents(v) = {} /\ WaitingOnParents(v) = {}
  BY DEF MissingParents, WaitingOnParents, GraphInv, ChildMapExact
<1>9. QED
  BY <1>4, <1>5, <1>6, <1>7, <1>8 DEF CheckVertex

(***************************************************************************)
(* Legal vertices have legal parents, of lower height.                     *)
(***************************************************************************)
LEMMA LegalGrounded == Grounded(LegalVertices)
<1>1. LegalVertices \subseteq Hash
  BY DEF LegalVertices
<1>2. Parents(Genesis) = {}
  BY ContentAssumption DEF Parents, ParentsOf
<1>3. QED
  BY <1>1, <1>2, LegalEq DEF Grounded, LegalHere

-----------------------------------------------------------------------------
(***************************************************************************)
(* Arrival: nothing but genesis is decided.                                *)
(***************************************************************************)

OnlyGenesisDecided ==
    \A c \in Constraints : decision[c] = IF c = Unity(Genesis) THEN "accepted"
                                                               ELSE "undecided"

\* vertex x is in some batch of the stack s
Stacked(x, s) == \E i \in DOMAIN s : x \in s[i]

(***************************************************************************)
(* What is known and not inserted waits for a parent, or is about to be    *)
(* retried, or is illegal.                                                 *)
(***************************************************************************)
NoneStranded ==
    \A v \in vertex \ graph :
        Parents(v) \subseteq graph /\ v \in LegalVertices => Stacked(v, queue)

ArrivalInv ==
    /\ OnlyGenesisDecided
    /\ graph \subseteq LegalVertices
    /\ NoneStranded

(***************************************************************************)
(* While nothing but genesis is decided, check_vertex searches the whole   *)
(* ancestry: what it lets in is legal.                                     *)
(***************************************************************************)
LEMMA InsertingLegal ==
    ASSUME DagInv, WellFormedInv, OnlyGenesisDecided,
           graph \subseteq LegalVertices, NEW v \in Hash, Inserting(v)
    PROVE  v \in LegalVertices
<1> USE DEF DagInv
<1> DEFINE P == Parents(v)
<1>1. /\ P \in SUBSET graph /\ P # {}
      /\ v \notin graph /\ graph \subseteq Hash
  BY InsertingNew DEF TypeOK
<1>2. SanityChecks(v) /\ ~ConflictingAncestors(P, ParentConstraints(v))
  BY DEF Inserting, CheckVertex
<1>3. ToHeight(P) = 0
  <2>1. \E p \in P : \E x \in FirstDecided(Undecideds)[p] :
           x \in graph \ Undecideds /\ ToHeight(P) = Height(x)
    <3>1. \E p \in P : \E x \in FirstDecided(Undecideds)[p] :
             ToHeight(P) = Height(x)
      BY <1>1, ToHeightFacts
    <3>2. \A p \in P : FirstDecided(Undecideds)[p] \subseteq graph \ Undecideds
      BY <1>1, FirstDecidedInGraph
    <3>3. QED
      BY <3>1, <3>2
  <2>2. \A x \in graph \ Undecideds : x = Genesis
    <3>1. ASSUME NEW x \in graph, x # Genesis PROVE x \in Undecideds
      <4>1. x \in Hash /\ Unity(x) \in Constraints /\ Unity(x) # Unity(Genesis)
        BY <1>1, <3>1, ConstraintsClosed DEF Unity
      <4>2. QED
        BY <4>1 DEF OnlyGenesisDecided, Undecideds, Undecided
    <3>2. QED
      BY <3>1
  <2>3. QED
    BY <2>1, <2>2, ContentAssumption DEF Height
<1>4. ProperAncestors(v) = P \cup UNION {ProperAncestors(p) : p \in P}
  BY ProperAncestorsEq
<1>5. ProperAncestors(v) \subseteq P \cup AncestorsOfParents(P)
  <2>1. ASSUME NEW q \in P, NEW x \in ProperAncestors(q)
        PROVE  x \in AncestorsOfParents(P)
    <3>1. Grounded(graph) /\ q \in graph
      BY <1>1, GraphGrounded
    <3>2. x \in Hash
      BY <1>1, <3>1, AncestorsInside
    <3>3. Height(x) \in Nat /\ Height(x) >= 0
      BY <3>2, HashFacts
    <3>4. x \in Gather(0)[q]
      BY <3>1, <3>3, GatherExact
    <3>5. QED
      BY <1>3, <3>4 DEF AncestorsOfParents
  <2>2. QED
    BY <1>4, <2>1
<1>6. Inherited(v) = UNION {ParentConstraints(h) :
                                h \in ProperAncestors(v) \cup {v}}
  BY DEF Inherited, InheritedOf
<1>7. ASSUME NEW c \in Inherited(v), ~IsUnity(c)
      PROVE  c \in ActiveConstraints(P, ParentConstraints(v))
  <2>1. PICK h \in ProperAncestors(v) \cup {v} : c \in ParentConstraints(h)
    BY <1>6
  <2>2. h = v \/ h \in graph
    BY <1>1, <1>4, <2>1, GraphGrounded, AncestorsInside
  <2>3. c \in Constraints /\ decision[c] = "undecided"
    <3>1. c \in Constraints
      BY <1>1, <2>1, <2>2, ConstraintsClosed
    <3>2. c # Unity(Genesis)
      BY <1>7 DEF IsUnity, Unity
    <3>3. QED
      BY <3>1, <3>2 DEF OnlyGenesisDecided
  <2>4. h # Genesis
    <3>1. c[1] \in Parents(h)
      BY <1>1, <2>1, <2>2, ParentConstraintsOverParents
    <3>2. Parents(Genesis) = {}
      BY ContentAssumption DEF Parents, ParentsOf
    <3>3. QED
      BY <3>1, <3>2
  <2>5. CASE h = v
    BY <2>1, <2>3, <2>5 DEF ActiveConstraints
  <2>6. CASE h \in graph /\ h # v
    <3>1. Unity(h) \in Constraints /\ Unity(h) # Unity(Genesis)
      BY <1>1, <2>4, <2>6, ConstraintsClosed DEF Unity
    <3>2. Undecided(h)
      BY <3>1 DEF OnlyGenesisDecided, Undecided
    <3>3. h \in ActiveAncestors(P)
      BY <1>5, <2>1, <2>6, <3>2 DEF ActiveAncestors
    <3>4. QED
      BY <2>1, <2>3, <3>3 DEF ActiveConstraints
  <2>7. QED
    BY <2>2, <2>5, <2>6
<1>8. ~InheritsConflict(v)
  <2>1. \A c \in Inherited(v) : IsUnity(Conflict(c)) <=> IsUnity(c)
    BY DEF IsUnity, Conflict
  <2>2. QED
    BY <1>2, <1>7, <2>1 DEF InheritsConflict, ConflictingAncestors
<1>9. LegalHere(v)
  BY <1>2, <1>8, InsertingWellFormed DEF LegalHere
<1>10. QED
  BY <1>1, <1>9, LegalEq

(***************************************************************************)
(* While no constraint is rejected, insert decides nothing.                *)
(***************************************************************************)
LEMMA InsertUndecided ==
    ASSUME TypeOK, OnlyGenesisDecided, NEW v \in Hash, Insert(v)
    PROVE  decision' = decision
<1>1. \A c \in Constraints : decision[c] # "rejected"
  BY DEF OnlyGenesisDecided
<1>2. /\ \A u \in Hash : ParentConstraints(u) \subseteq Constraints
      /\ \A c \in Constraints : ConstraintParents(c) \subseteq Constraints
  <2>1. \A u \in Hash : ParentConstraints(u) \subseteq Constraints
    BY ConstraintsClosed
  <2>2. \A c \in Constraints : c[1] \in Hash /\ c[2] \in Hash
    BY ConstraintsClosed
  <2>3. QED
    BY <2>1, <2>2 DEF ConstraintParents
<1> DEFINE onParents == [c \in Constraints |->
                IF /\ c \in ParentConstraints(v) /\ ~Exists(c)
                   /\ \E p \in ConstraintParents(c) : decision[p] = "rejected"
                THEN "rejected" ELSE decision[c]]
<1>3. onParents = decision
  <2>1. \A c \in Constraints : onParents[c] = decision[c]
    BY <1>1, <1>2
  <2>2. decision = [c \in Constraints |-> decision[c]]
    BY DEF TypeOK
  <2>3. QED
    BY <2>1, <2>2
<1>4. DecisionOnInsert(v) =
        IF /\ ~Exists(Unity(v))
           /\ \E p \in ParentConstraints(v) : onParents[p] = "rejected"
        THEN [onParents EXCEPT ![Unity(v)] = "rejected"]
        ELSE onParents
  BY DEF DecisionOnInsert
<1> HIDE DEF onParents
<1>5. DecisionOnInsert(v) = decision
  BY <1>1, <1>2, <1>3, <1>4
<1>6. QED
  BY <1>5 DEF Insert, NewConflictSets

(***************************************************************************)
(* The stack of retry_pending: what a new batch adds to it, and what the   *)
(* retry of one vertex takes off it.                                       *)
(***************************************************************************)
LEMMA StackFacts ==
    ASSUME NEW s \in Seq(SUBSET Hash)
    PROVE  /\ \A b \in SUBSET Hash : \A x :
                 x \in b \/ Stacked(x, s) => Stacked(x, Push(b, s))
           /\ s # << >> => \A w, x : x # w /\ Stacked(x, s)
                            => Stacked(x, Push(Head(s) \ {w}, Tail(s)))
<1>1. ASSUME NEW b \in SUBSET Hash, NEW t \in Seq(SUBSET Hash), NEW x,
             x \in b \/ Stacked(x, t)
      PROVE  Stacked(x, Push(b, t))
  <2>1. CASE b = {}
    BY <1>1, <2>1 DEF Push
  <2>2. CASE b # {}
    <3>1. /\ Push(b, t) = <<b>> \o t
          /\ DOMAIN t = 1..Len(t) /\ Len(t) \in Nat
      BY <2>2 DEF Push
    <3>2. /\ DOMAIN Push(b, t) = 1..(1 + Len(t))
          /\ Push(b, t)[1] = b
          /\ \A i \in DOMAIN t : Push(b, t)[i + 1] = t[i]
      BY <3>1
    <3>3. CASE x \in b
      BY <3>1, <3>2, <3>3 DEF Stacked
    <3>4. ASSUME NEW i \in DOMAIN t, x \in t[i] PROVE Stacked(x, Push(b, t))
      <4>1. i + 1 \in DOMAIN Push(b, t) /\ x \in Push(b, t)[i + 1]
        BY <3>1, <3>2, <3>4
      <4>2. QED
        BY <4>1 DEF Stacked
    <3>5. QED
      BY <1>1, <3>3, <3>4 DEF Stacked
  <2>3. QED
    BY <2>1, <2>2
<1>2. ASSUME s # << >>, NEW w, NEW x, x # w, Stacked(x, s)
      PROVE  Stacked(x, Push(Head(s) \ {w}, Tail(s)))
  <2>1. /\ Head(s) = s[1] /\ Head(s) \in SUBSET Hash
        /\ Tail(s) \in Seq(SUBSET Hash)
        /\ DOMAIN s = 1..Len(s) /\ Len(s) \in Nat /\ Len(s) >= 1
        /\ DOMAIN Tail(s) = 1..(Len(s) - 1)
        /\ \A i \in 1..(Len(s) - 1) : Tail(s)[i] = s[i + 1]
    BY <1>2
  <2>2. PICK i \in DOMAIN s : x \in s[i]
    BY <1>2 DEF Stacked
  <2>3. CASE i = 1
    <3>1. x \in Head(s) \ {w}
      BY <1>2, <2>1, <2>2, <2>3
    <3>2. QED
      BY <1>1, <2>1, <3>1
  <2>4. CASE i # 1
    <3>1. i - 1 \in DOMAIN Tail(s) /\ x \in Tail(s)[i - 1]
      BY <2>1, <2>2, <2>4
    <3>2. Stacked(x, Tail(s))
      BY <3>1 DEF Stacked
    <3>3. Head(s) \ {w} \in SUBSET Hash
      BY <2>1
    <3>4. QED
      BY <1>1, <2>1, <3>2, <3>3
  <2>5. QED
    BY <2>3, <2>4
<1>3. QED
  BY <1>1, <1>2

(***************************************************************************)
(* try_insert and its caller strand no vertex: v is dealt with, and what   *)
(* waited on v is put on the stack.                                        *)
(***************************************************************************)
LEMMA TryInsertStrandsNone ==
    ASSUME DagInv, DagInv', WellFormedInv, ArrivalInv, NEW v \in Hash,
           NEW stack \in Seq(SUBSET Hash), TryInsert(v, stack),
           UNCHANGED voteVars, recording = NoVertex,
           \A x : x # v /\ Stacked(x, queue) => Stacked(x, stack)
    PROVE  ArrivalInv'
<1> USE DEF DagInv
<1>1. CASE CheckVertex(v) = "Ok" /\ Insert(v) /\ queue' = Push(Waiting(v), stack)
  <2>1. Inserting(v)
    BY <1>1 DEF Inserting, HandlerInv
  <2>2. graph' = graph \cup {v} /\ vertex' = vertex \cup {v}
    BY <1>1 DEF Insert
  <2>3. OnlyGenesisDecided'
    BY <1>1, InsertUndecided DEF ArrivalInv, OnlyGenesisDecided
  <2>4. v \in LegalVertices
    BY <2>1, InsertingLegal DEF ArrivalInv
  <2>5. graph' \subseteq LegalVertices
    BY <2>2, <2>4 DEF ArrivalInv
  <2>6. ASSUME NEW x \in vertex' \ graph', Parents(x) \subseteq graph',
               x \in LegalVertices
        PROVE  Stacked(x, queue')
    <3>1. x \in Hash /\ x # v /\ x \in vertex \ graph /\ v \in Hash
      BY <2>2, <2>6 DEF TypeOK
    <3>2. Waiting(v) \in SUBSET Hash
      BY DEF Waiting, TypeOK
    <3>3. CASE v \in Parents(x)
      <4>1. x \in children'[v]
        BY <2>2, <3>1, <3>3 DEF GraphInv, ChildMapExact
      <4>2. x \in Waiting(v)
        BY <2>6, <4>1 DEF Waiting
      <4>3. QED
        BY <1>1, <3>2, <4>2, StackFacts
    <3>4. CASE v \notin Parents(x)
      <4>1. Parents(x) \subseteq graph
        BY <2>2, <2>6, <3>4
      <4>2. Stacked(x, stack)
        BY <2>6, <3>1, <4>1 DEF ArrivalInv, NoneStranded
      <4>3. QED
        BY <1>1, <3>2, <4>2, StackFacts
    <3>5. QED
      BY <3>3, <3>4
  <2>7. QED
    BY <2>3, <2>5, <2>6 DEF ArrivalInv, NoneStranded
<1>2. CASE /\ CheckVertex(v) \in {"MissingParents", "WaitingOnParents"}
           /\ Remember(v) /\ queue' = stack
  <2>1. /\ graph' = graph /\ vertex' = vertex \cup {v}
        /\ decision' = decision /\ ~(Parents(v) \subseteq graph)
    BY <1>2, CheckWaits DEF Remember, conflictVars, GraphInv, ChildMapExact
  <2>2. QED
    BY <1>2, <2>1 DEF ArrivalInv, NoneStranded, OnlyGenesisDecided
<1>3. CASE /\ CheckVertex(v) \notin {"Ok", "MissingParents", "WaitingOnParents"}
           /\ UNCHANGED <<vertexVars, conflictVars>> /\ queue' = stack
  <2>1. graph' = graph /\ vertex' = vertex /\ decision' = decision
    BY <1>3 DEF vertexVars, conflictVars
  <2>2. v \notin graph /\ Parents(v) \subseteq graph => v \notin LegalVertices
    <3>1. ASSUME v \notin graph, Parents(v) \subseteq graph,
                 v \in LegalVertices
          PROVE  FALSE
      <4>1. CheckVertex(v) = "RejectedAncestor"
        BY <1>3, <3>1, LegalPasses
      <4>2. RejectedAncestor(Parents(v))
        BY <4>1 DEF CheckVertex
      <4>3. PICK h \in DecidedBelow(Parents(v)) : decision[Unity(h)] = "rejected"
        BY <4>2 DEF RejectedAncestor
      <4>4. h \in Hash
        <5>1. DecidedBelow(Parents(v)) =
                UNION {FirstDecided(Undecideds)[p] : p \in Parents(v)}
          BY DEF DecidedBelow, Undecideds
        <5>2. QED
          BY <3>1, <4>3, <5>1, FirstDecidedInGraph DEF TypeOK
      <4>5. QED
        BY <4>3, <4>4, ConstraintsClosed DEF ArrivalInv, OnlyGenesisDecided
    <3>2. QED
      BY <3>1
  <2>3. QED
    BY <1>3, <2>1, <2>2 DEF ArrivalInv, NoneStranded, OnlyGenesisDecided
<1>4. QED
  BY <1>1, <1>2, <1>3 DEF TryInsert

(***************************************************************************)
(* Submissions and retries strand no vertex and let no illegal one in.     *)
(***************************************************************************)
LEMMA NextArrivalInv ==
    DagInv /\ DagInv' /\ WellFormedInv /\ ArrivalInv /\ [InsertNext]_vars
        => ArrivalInv'
<1> SUFFICES ASSUME DagInv, DagInv', WellFormedInv, ArrivalInv,
                    [InsertNext]_vars
             PROVE  ArrivalInv'
  OBVIOUS
<1>1. ASSUME NEW v \in Hash, SubmitVertex(v) PROVE ArrivalInv'
  <2>1. /\ << >> \in Seq(SUBSET Hash) /\ queue = << >>
        /\ TryInsert(v, << >>) /\ UNCHANGED voteVars /\ recording = NoVertex
    BY <1>1 DEF SubmitVertex, Idle
  <2>2. QED
    BY <2>1, TryInsertStrandsNone
<1>2. ASSUME NEW w \in Hash, RetryPending(w) PROVE ArrivalInv'
  <2>1. /\ queue # << >> /\ queue \in Seq(SUBSET Hash)
        /\ TryInsert(w, Pop(w)) /\ UNCHANGED voteVars /\ recording = NoVertex
    BY <1>2 DEF RetryPending, DagInv, HandlerInv, TypeOK
  <2>2. Pop(w) \in Seq(SUBSET Hash)
    <3>1. Head(queue) \in SUBSET Hash /\ Tail(queue) \in Seq(SUBSET Hash)
      BY <2>1
    <3>2. Head(queue) \ {w} \in SUBSET Hash
      BY <3>1
    <3>3. QED
      BY <3>1, <3>2, PushType DEF Pop
  <2>3. \A x : x # w /\ Stacked(x, queue) => Stacked(x, Pop(w))
    BY <2>1, StackFacts DEF Pop
  <2>4. QED
    BY <2>1, <2>2, <2>3, TryInsertStrandsNone
<1>3. CASE UNCHANGED vars
  BY <1>3 DEF vars, vertexVars, conflictVars, ArrivalInv, NoneStranded,
              OnlyGenesisDecided
<1>4. QED
  BY <1>1, <1>2, <1>3 DEF InsertNext

(***************************************************************************)
(* Genesis is decided, legal, and all that is known.                       *)
(***************************************************************************)
LEMMA InitArrivalInv == Init => ArrivalInv
BY LegalEq, ContentAssumption
   DEF Init, ArrivalInv, OnlyGenesisDecided, NoneStranded

(***************************************************************************)
(* The invariants of a DAG in which vertices only arrive.                  *)
(***************************************************************************)
LEMMA ArrivalInvariant ==
    ArrivalSpec => [](DagInv /\ WellFormedInv /\ ArrivalInv)
<1> DEFINE Inv == DagInv /\ WellFormedInv /\ ArrivalInv
<1>1. Init => Inv
  BY InitDagInv, InitWellFormed, InitArrivalInv
<1>2. Inv /\ [InsertNext]_vars => Inv'
  <2>1. [InsertNext]_vars => [Next]_vars
    BY DEF Next
  <2>2. QED
    BY <2>1, NextDagInv, NextWellFormed, NextArrivalInv
<1>3. QED
  BY <1>1, <1>2, PTL DEF ArrivalSpec

(***************************************************************************)
(* While vertices only arrive, in any order and any number of times, the   *)
(* graph is at the end of every handler exactly the set of known legal     *)
(* vertices with a known ancestry: try_insert and retry_pending strand     *)
(* none and let no illegal one in.                                         *)
(***************************************************************************)
THEOREM InsertionIsExact == ArrivalSpec => []InsertionExact
<1>1. DagInv /\ WellFormedInv /\ ArrivalInv => InsertionExact
  <2> SUFFICES ASSUME DagInv, WellFormedInv, ArrivalInv, Idle
               PROVE  graph = {v \in vertex :
                                 /\ v \in LegalVertices
                                 /\ ProperAncestors(v) \subseteq vertex}
    BY DEF InsertionExact
  <2> USE DEF DagInv
  <2>1. graph \subseteq vertex
    BY DEF GraphInv, ChildMapExact
  <2>2. \A v \in graph : ProperAncestors(v) \subseteq vertex
    BY <2>1, GraphGrounded, AncestorsInside
  <2> DEFINE Known(v) == v \in vertex /\ ProperAncestors(v) \subseteq vertex
             Q == {v \in LegalVertices : Known(v) => v \in graph}
  <2>3. ASSUME NEW v \in LegalVertices, Parents(v) \subseteq Q, Known(v)
        PROVE  v \in graph
    <3>1. ProperAncestors(v) = Parents(v) \cup
                UNION {ProperAncestors(p) : p \in Parents(v)}
      BY ProperAncestorsEq DEF LegalVertices
    <3>2. Parents(v) \subseteq graph
      BY <2>3, <3>1
    <3>3. ~Stacked(v, queue)
      BY DEF Stacked, Idle
    <3>4. QED
      BY <2>3, <3>2, <3>3 DEF ArrivalInv, NoneStranded
  <2>4. LegalVertices \subseteq Q
    <3>1. \A v \in LegalVertices : Parents(v) \subseteq Q => v \in Q
      BY <2>3
    <3> HIDE DEF Q
    <3>2. QED
      BY <3>1, LegalGrounded, GroundedInduction
  <2>5. QED
    BY <2>1, <2>2, <2>4 DEF ArrivalInv
<1>2. QED
  BY <1>1, ArrivalInvariant, PTL

=============================================================================
