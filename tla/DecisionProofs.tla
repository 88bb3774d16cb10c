--------------------------- MODULE DecisionProofs ---------------------------
(***************************************************************************)
(* Proofs about the decisions of the DAG: what is accepted is preferred,   *)
(* is backed by polls, and stays accepted once all it rests on is; for     *)
(* every universe of vertices and all thresholds.                          *)
(***************************************************************************)
EXTENDS AncestryProofs

-----------------------------------------------------------------------------
(***************************************************************************)
(* What is active above a vertex never grows.                              *)
(***************************************************************************)

(***************************************************************************)
(* The facts about to_height, as an implication that may be primed.        *)
(***************************************************************************)
LEMMA ToHeightState ==
    TypeOK /\ WellFormedInv =>
        \A P \in SUBSET graph : P # {} =>
            /\ ToHeight(P) \in Nat
            /\ \E p \in P : \E x \in FirstDecided(Undecideds)[p] :
                  ToHeight(P) = Height(x)
            /\ \A p \in P : \A x \in FirstDecided(Undecideds)[p] :
                  ToHeight(P) <= Height(x)
<1> SUFFICES ASSUME TypeOK, WellFormedInv, NEW P \in SUBSET graph, P # {}
             PROVE  /\ ToHeight(P) \in Nat
                    /\ \E p \in P : \E x \in FirstDecided(Undecideds)[p] :
                          ToHeight(P) = Height(x)
                    /\ \A p \in P : \A x \in FirstDecided(Undecideds)[p] :
                          ToHeight(P) <= Height(x)
  OBVIOUS
<1> QED
  BY ToHeightFacts

(***************************************************************************)
(* The facts about to_height hold after a step too.                        *)
(***************************************************************************)
LEMMA ToHeightNext ==
    (TypeOK /\ WellFormedInv =>
        \A P \in SUBSET graph : P # {} =>
            /\ ToHeight(P) \in Nat
            /\ \E p \in P : \E x \in FirstDecided(Undecideds)[p] :
                  ToHeight(P) = Height(x)
            /\ \A p \in P : \A x \in FirstDecided(Undecideds)[p] :
                  ToHeight(P) <= Height(x))'
BY ToHeightState, PTL

(***************************************************************************)
(* A step only decides more, so the search for active ancestors stops at   *)
(* the same height or earlier.                                             *)
(***************************************************************************)
LEMMA ToHeightRises ==
    ASSUME DagInv, WellFormedInv, TypeOK', WellFormedInv', [Next]_vars,
           NEW P \in SUBSET graph, P # {}
    PROVE  ToHeight(P) \in Nat /\ ToHeight(P)' \in Nat
           /\ ToHeight(P) <= ToHeight(P)'
<1>1. P \in SUBSET graph' /\ Undecideds' \subseteq Undecideds
  BY DecisionsGrow, ConstraintsClosed
     DEF DagInv, TypeOK, Undecideds, Undecided
<1>2. /\ ToHeight(P)' \in Nat
      /\ \E p \in P : \E x \in FirstDecided(Undecideds')[p] :
            ToHeight(P)' = Height(x)
  BY <1>1, ToHeightNext
<1>3. PICK p \in P : \E x \in FirstDecided(Undecideds')[p] :
                        ToHeight(P)' = Height(x)
  BY <1>2
<1>4. PICK x \in FirstDecided(Undecideds')[p] : ToHeight(P)' = Height(x)
  BY <1>3
<1>5. Grounded(graph) /\ \A v \in graph \cap Undecideds : Parents(v) # {}
  BY GraphGrounded DEF DagInv
<1>6. PICK y \in FirstDecided(Undecideds)[p] : Height(y) <= Height(x)
  <2> DEFINE U == Undecideds
             V == Undecideds'
  <2>1. V \subseteq U /\ \A v \in graph \cap U : Parents(v) # {}
    BY <1>1, <1>5
  <2>2. Grounded(graph) /\ p \in graph /\ x \in FirstDecided(V)[p]
    BY <1>5
  <2> HIDE DEF U, V
  <2>3. \E y \in FirstDecided(U)[p] : Height(y) <= Height(x)
    BY <2>1, <2>2, FirstDecidedRises
  <2>4. QED
    BY <2>3 DEF U
<1>7. ToHeight(P) \in Nat /\ ToHeight(P) <= Height(y)
  BY ToHeightFacts DEF DagInv
<1>8. Height(y) \in Nat
  <2>1. y \in graph
    BY <1>6, FirstDecidedInGraph DEF DagInv
  <2>2. QED
    BY <2>1, HashFacts DEF DagInv, TypeOK
<1>9. QED
  BY <1>2, <1>4, <1>6, <1>7, <1>8

(***************************************************************************)
(* No step gives a set of inserted parents a new active ancestor or a new  *)
(* active constraint.                                                      *)
(***************************************************************************)
LEMMA ActiveShrinks ==
    ASSUME DagInv, WellFormedInv, TypeOK', WellFormedInv', [Next]_vars,
           NEW P \in SUBSET graph, NEW own \in SUBSET Constraints
    PROVE  /\ ActiveAncestors(P)' \subseteq ActiveAncestors(P)
           /\ ActiveConstraints(P, own)' \subseteq ActiveConstraints(P, own)
<1>1. graph \subseteq Hash /\ graph' \subseteq Hash
  BY DEF DagInv, TypeOK
<1>2. \A c \in Constraints : decision'[c] = "undecided" => decision[c] = "undecided"
  BY DecisionsGrow
<1>3. AncestorsOfParents(P)' \subseteq AncestorsOfParents(P) \cap graph
  <2>1. CASE P = {}
    BY <2>1 DEF AncestorsOfParents
  <2>2. CASE P # {}
    <3> DEFINE low == ToHeight(P)
               up == ToHeight(P)'
    <3>1. low \in Nat /\ up \in Nat /\ low <= up
      BY <2>2, ToHeightRises
    <3>2. Grounded(graph)
      BY GraphGrounded DEF DagInv
    <3>3. /\ AncestorsOfParents(P) = UNION {Gather(low)[p] : p \in P}
          /\ AncestorsOfParents(P)' = UNION {Gather(up)[p] : p \in P}
      BY DEF AncestorsOfParents
    <3> HIDE DEF low, up
    <3>4. \A p \in P : Gather(up)[p] \subseteq Gather(low)[p]
      BY <3>1, <3>2, GatherShrinks
    <3>5. \A p \in P : Gather(low)[p] \subseteq graph
      BY <3>1, <3>2, GatherExact, AncestorsInside
    <3>6. QED
      BY <3>3, <3>4, <3>5
  <2>3. QED
    BY <2>1, <2>2
<1>4. ActiveAncestors(P)' \subseteq ActiveAncestors(P)
  BY <1>1, <1>2, <1>3, ConstraintsClosed DEF ActiveAncestors, Undecided
<1>5. \A c \in ActiveConstraints(P, own)' :
         c \in Constraints /\ c \in ActiveConstraints(P, own)
  <2>1. own \cup UNION {ParentConstraints(h) : h \in ActiveAncestors(P)}
            \subseteq Constraints
    BY <1>1, ConstraintsClosed DEF ActiveAncestors
  <2>2. ActiveConstraints(P, own)' =
          {c \in own \cup UNION {ParentConstraints(h) : h \in ActiveAncestors(P)'} :
              decision'[c] = "undecided"}
    BY DEF ActiveConstraints
  <2>3. QED
    BY <1>2, <1>4, <2>1, <2>2 DEF ActiveConstraints
<1>6. QED
  BY <1>4, <1>5

-----------------------------------------------------------------------------
(***************************************************************************)
(* What is accepted is preferred.                                          *)
(***************************************************************************)

\* the vertices of the graph, checked when they were inserted
Consistent ==
    \A v \in graph : ~ConflictingAncestors(Parents(v), ParentConstraints(v))

\* the vote loop never counts both orderings of a conflict set
LiveConsistent ==
    \A c \in live : c \in Constraints /\ (~IsUnity(c) => Conflict(c) \notin live)

\* what is accepted is preferred, and its opposite is out of the race
Winners ==
    \A c \in Constraints : decision[c] = "accepted" =>
        /\ preferred[ConflictSetKey(c)] = c
        /\ ~IsUnity(c) => /\ Conflict(c) \notin live
                          /\ \/ decision[Conflict(c)] # "undecided"
                             \/ Conflict(c) \in rejecting

PreferenceInv == Consistent /\ LiveConsistent /\ Winners

(***************************************************************************)
(* A conflict set holds a constraint and its opposite.                     *)
(***************************************************************************)
LEMMA SameSet ==
    ASSUME NEW c \in Constraints, NEW d \in Constraints
    PROVE  /\ ConflictSetKey(c) = ConflictSetKey(d) <=> d = c \/ d = Conflict(c)
           /\ Conflict(Conflict(c)) = c
           /\ IsUnity(c) => Conflict(c) = c
<1>1. c = <<c[1], c[2]>> /\ d = <<d[1], d[2]>>
  BY ConstraintsClosed
<1>2. ConflictSetKey(c) = ConflictSetKey(d)
            <=> \/ c[1] = d[1] /\ c[2] = d[2]
                \/ c[1] = d[2] /\ c[2] = d[1]
  BY DEF ConflictSetKey
<1>3. QED
  BY <1>1, <1>2 DEF Conflict, IsUnity

(***************************************************************************)
(* Vertices are let in only above consistent ancestries, and stay so.      *)
(***************************************************************************)
LEMMA NextConsistent ==
    ASSUME DagInv, WellFormedInv, TypeOK', WellFormedInv', [Next]_vars, Consistent
    PROVE  Consistent'
<1>1. ASSUME NEW v \in Hash, Parents(v) \subseteq graph,
             ~ConflictingAncestors(Parents(v), ParentConstraints(v))
      PROVE  ~ConflictingAncestors(Parents(v), ParentConstraints(v))'
  <2> DEFINE P == Parents(v)
             own == ParentConstraints(v)
  <2>1. P \in SUBSET graph /\ own \in SUBSET Constraints
    BY <1>1, ConstraintsClosed
  <2>2. ~ConflictingAncestors(P, own)
    BY <1>1
  <2> HIDE DEF P, own
  <2>3. ActiveConstraints(P, own)' \subseteq ActiveConstraints(P, own)
    BY <2>1, ActiveShrinks
  <2>4. ~ConflictingAncestors(P, own)'
    BY <2>2, <2>3 DEF ConflictingAncestors
  <2>5. QED
    BY <2>4 DEF P, own
<1>2. graph \subseteq Hash /\ \A v \in graph : Parents(v) \subseteq graph
  BY DEF DagInv, TypeOK, GraphInv, ParentClosed
<1>3. \A v \in graph : ~ConflictingAncestors(Parents(v), ParentConstraints(v))'
  BY <1>1, <1>2 DEF Consistent
<1>4. CASE graph' = graph
  BY <1>3, <1>4 DEF Consistent
<1>5. ASSUME NEW v \in Hash, Inserting(v) PROVE Consistent'
  <2>1. graph' = graph \cup {v} /\ Parents(v) \subseteq graph
    BY <1>5, InsertingNew
  <2>2. ~ConflictingAncestors(Parents(v), ParentConstraints(v))
    BY <1>5 DEF Inserting, CheckVertex
  <2>3. ~ConflictingAncestors(Parents(v), ParentConstraints(v))'
    BY <1>1, <2>1, <2>2
  <2>4. QED
    BY <1>3, <2>1, <2>3 DEF Consistent
<1>6. (\E v \in Hash : Inserting(v)) \/ graph' = graph
  BY StepCases DEF RecordAgainst, RecordFor, Counting, RejectStep, Quiet,
                   vertexVars
<1>7. QED
  BY <1>4, <1>5, <1>6

(***************************************************************************)
(* A poll is counted for consistent constraints.                           *)
(***************************************************************************)
LEMMA RecordedConsistent ==
    ASSUME DagInv, Consistent, NEW v \in Hash, RecordFor(v)
    PROVE  LiveConsistent'
<1>1. v \in graph /\ live' = ActiveConstraints(Parents(v), ParentConstraints(v))
  BY DEF DagInv, GraphInv, ChildMapExact, RecordFor, ActiveConstraintsOf
<1>2. live' \subseteq Constraints
  BY <1>1, ActiveTypes DEF DagInv, ActiveConstraintsOf
<1>3. ~ConflictingAncestors(Parents(v), ParentConstraints(v))
  BY <1>1 DEF Consistent
<1>4. QED
  BY <1>1, <1>2, <1>3 DEF LiveConsistent, ConflictingAncestors

(***************************************************************************)
(* Counting c for a poll keeps what is accepted preferred.                 *)
(***************************************************************************)
LEMMA CountingWinners ==
    ASSUME DagInv, LiveConsistent, Winners, NEW c \in Constraints, Counting(c)
    PROVE  LiveConsistent' /\ Winners'
<1> DEFINE k == ConflictSetKey(c)
<1>1. /\ preferred' = IF BecomesPreferred(c) THEN [preferred EXCEPT ![k] = c]
                                             ELSE preferred
      /\ decision' = IF Accepts(c) THEN [decision EXCEPT ![c] = "accepted"]
                                   ELSE decision
      /\ rejecting' = IF Accepts(c) THEN ToReject(c) ELSE {}
      /\ rejecting = {}
  BY DEF Counting, CountVote
<1>2. /\ preferred \in [Keys -> Constraints \cup {NoConstraint}]
      /\ decision \in [Constraints -> {"undecided", "accepted", "rejected"}]
  BY DEF DagInv, TypeOK
<1>3. live' \subseteq live /\ (~IsUnity(c) => c \in live)
  BY DEF Counting, IsUnity, Unity
<1>4. LiveConsistent'
  BY <1>3 DEF LiveConsistent
<1>5. ASSUME NEW d \in Constraints, decision'[d] = "accepted"
      PROVE  /\ preferred'[ConflictSetKey(d)] = d
             /\ ~IsUnity(d) => /\ Conflict(d) \notin live'
                               /\ \/ decision'[Conflict(d)] # "undecided"
                                  \/ Conflict(d) \in rejecting'
  <2>1. /\ ConflictSetKey(d) \in Keys /\ k \in Keys
        /\ Conflict(d) \in Constraints
    BY ConstraintsClosed
  <2>2. CASE d = c
    <3>1. CASE Accepts(c)
      <4>1. preferred'[k] = c
        BY <1>1, <1>2, <2>1, <3>1 DEF BecomesPreferred
      <4>2. ~IsUnity(c) => Conflict(c) \notin live /\ Conflict(c) \in rejecting'
        BY <1>1, <1>3, <3>1 DEF LiveConsistent, ToReject
      <4>3. QED
        BY <1>3, <2>2, <4>1, <4>2
    <3>2. CASE ~Accepts(c)
      <4>1. decision[c] = "accepted" /\ decision' = decision
        BY <1>1, <1>5, <2>2, <3>2
      <4>2. preferred[k] = c /\ preferred'[k] = c
        BY <1>1, <1>2, <2>1, <4>1 DEF Winners
      <4>3. QED
        BY <1>1, <1>3, <2>2, <4>1, <4>2 DEF Winners
    <3>3. QED
      BY <3>1, <3>2
  <2>3. CASE d # c
    <3>1. decision[d] = "accepted"
      BY <1>1, <1>2, <1>5, <2>3
    <3>2. k # ConflictSetKey(d)
      <4>1. CASE c = Conflict(d) /\ ~IsUnity(d)
        <5>1. c \notin live
          BY <3>1, <4>1 DEF Winners
        <5>2. ~IsUnity(c)
          BY <4>1 DEF IsUnity, Conflict
        <5>3. QED
          BY <1>3, <5>1, <5>2
      <4>2. QED
        BY <2>3, <4>1, SameSet
    <3>3. preferred'[ConflictSetKey(d)] = preferred[ConflictSetKey(d)]
      BY <1>1, <1>2, <2>1, <3>2
    <3>4. decision[Conflict(d)] # "undecided" => decision'[Conflict(d)] # "undecided"
      BY <1>1, <1>2, <2>1
    <3>5. QED
      BY <1>1, <1>3, <3>1, <3>3, <3>4 DEF Winners
  <2>4. QED
    BY <2>2, <2>3
<1>6. QED
  BY <1>4, <1>5 DEF Winners

(***************************************************************************)
(* insert touches no existing conflict set.                                *)
(***************************************************************************)
LEMMA InsertKeepsSets ==
    ASSUME TypeOK, NEW v \in Hash, Insert(v), NEW c \in Constraints, Exists(c)
    PROVE  /\ preferred'[ConflictSetKey(c)] = preferred[ConflictSetKey(c)]
           /\ Exists(c)'
<1> DEFINE new == {d \in ParentConstraints(v) \cup {Unity(v)} : ~Exists(d)}
           created == {ConflictSetKey(d) : d \in new}
           initial(k) == CHOOSE d \in new : ConflictSetKey(d) = k
<1>1. preferred' = [k \in Keys |-> IF k \in created THEN initial(k)
                                                    ELSE preferred[k]]
  BY DEF Insert, NewConflictSets
<1>2. ConflictSetKey(c) \in Keys /\ ConflictSetKey(c) \notin created
  BY ConstraintsClosed DEF Exists
<1> HIDE DEF new, created, initial
<1>3. QED
  BY <1>1, <1>2 DEF Exists

(***************************************************************************)
(* No step leaves an accepted constraint without the preference.           *)
(***************************************************************************)
LEMMA NextPreferenceInv ==
    ASSUME DagInv, WellFormedInv, TypeOK', WellFormedInv', [Next]_vars,
           PreferenceInv
    PROVE  PreferenceInv'
<1> USE DEF PreferenceInv
<1>1. Consistent'
  BY NextConsistent
<1>2. /\ decision \in [Constraints -> {"undecided", "accepted", "rejected"}]
      /\ \A c \in Constraints : decision[c] = "accepted" => Exists(c)
  <2>1. \A c \in Constraints : c # NoConstraint
    BY ConstraintsClosed DEF NoConstraint
  <2>2. QED
    BY <2>1 DEF DagInv, TypeOK, Winners, Exists
<1>3. \A c \in Constraints : Conflict(c) \in Constraints
  BY ConstraintsClosed
<1>4. \A c \in Constraints : decision[c] # "undecided" => decision'[c] # "undecided"
  BY DecisionsGrow
<1>5. ASSUME NEW v \in Hash, Inserting(v) PROVE LiveConsistent' /\ Winners'
  <2>1. live' = live /\ rejecting' = rejecting /\ live = {} /\ rejecting = {}
    BY <1>5 DEF Inserting, voteVars
  <2>2. \A c \in Constraints : decision'[c] = "accepted" => decision[c] = "accepted"
    BY <1>2, <1>5, InsertingNew, InsertDecision DEF Inserting, DagInv
  <2>3. \A c \in Constraints : decision[c] = "accepted" =>
            preferred'[ConflictSetKey(c)] = preferred[ConflictSetKey(c)]
    BY <1>2, <1>5, InsertKeepsSets DEF Inserting, DagInv
  <2>4. QED
    BY <1>3, <1>4, <2>1, <2>2, <2>3 DEF LiveConsistent, Winners
<1>6. ASSUME NEW v \in Hash, RecordAgainst(v) PROVE LiveConsistent' /\ Winners'
  BY <1>6 DEF RecordAgainst, voteVars, LiveConsistent, Winners
<1>7. ASSUME NEW v \in Hash, RecordFor(v) PROVE LiveConsistent' /\ Winners'
  <2>1. LiveConsistent'
    BY <1>7, RecordedConsistent
  <2>2. /\ \A c \in live' : decision[c] = "undecided"
        /\ UNCHANGED <<preferred, decision, rejecting>> /\ rejecting = {}
    BY <1>7 DEF RecordFor, Idle, DagInv, HandlerInv, ActiveConstraintsOf,
                ActiveConstraints
  <2>3. QED
    BY <1>3, <2>1, <2>2 DEF Winners
<1>8. ASSUME NEW c \in Constraints, Counting(c) PROVE LiveConsistent' /\ Winners'
  BY <1>8, CountingWinners
<1>9. CASE RejectStep
  <2>1. /\ UNCHANGED <<preferred, live>>
        /\ \A c \in Constraints : decision'[c] =
                IF c \in rejecting THEN "rejected" ELSE decision[c]
    BY <1>9 DEF RejectStep
  <2>2. \A c \in Constraints : decision'[c] = "accepted" => decision[c] = "accepted"
    BY <2>1
  <2>3. QED
    BY <1>1, <1>3, <1>4, <2>1, <2>2 DEF LiveConsistent, Winners
<1>10. CASE Quiet
  BY <1>1, <1>10 DEF Quiet, conflictVars, voteVars, LiveConsistent, Winners
<1>11. QED
  BY <1>1, <1>5, <1>6, <1>7, <1>8, <1>9, <1>10, StepCases

(***************************************************************************)
(* Only genesis is accepted at first, and nothing is counted.              *)
(***************************************************************************)
LEMMA InitPreferenceInv == Init => PreferenceInv
<1> SUFFICES ASSUME Init PROVE PreferenceInv
  OBVIOUS
<1>1. Parents(Genesis) = {} /\ ParentConstraints(Genesis) = {}
  BY ContentAssumption DEF Parents, ParentsOf, ParentConstraints,
                           ParentConstraintsOf, ConstraintsOf
<1>2. AncestorsOfParents({}) = {}
  BY DEF AncestorsOfParents
<1>3. Consistent
  BY <1>1, <1>2
     DEF Init, Consistent, ConflictingAncestors, ActiveConstraints, ActiveAncestors
<1>4. IsUnity(Unity(Genesis)) /\ ConflictSetKey(Unity(Genesis)) = {Genesis}
  BY DEF IsUnity, Unity, ConflictSetKey
<1>5. \A c \in Constraints : decision[c] = "accepted" => c = Unity(Genesis)
  BY DEF Init
<1>6. {Genesis} \in Keys
  BY <1>4, ContentAssumption, ConstraintsClosed
<1>7. preferred[{Genesis}] = Unity(Genesis)
  BY <1>6 DEF Init
<1>8. QED
  BY <1>3, <1>4, <1>5, <1>7
     DEF Init, PreferenceInv, LiveConsistent, Winners

(***************************************************************************)
(* What is accepted is preferred, at every step of every handler.          *)
(***************************************************************************)
LEMMA PreferenceInvariant == Spec => []PreferenceInv
<1>1. DagInv /\ WellFormedInv /\ DagInv' /\ WellFormedInv' /\ [Next]_vars
            /\ PreferenceInv => PreferenceInv'
  BY NextPreferenceInv DEF DagInv
<1>2. QED
  BY <1>1, InitPreferenceInv, DagInvariant, WellFormedInvariant, PTL DEF Spec

(***************************************************************************)
(* An accepted constraint is the preferred one of its conflict set, at     *)
(* every step of the vote loop, whatever is polled afterwards: no vote for *)
(* its opposite is ever counted again.                                     *)
(***************************************************************************)
THEOREM AcceptedIsPreferred == Spec => []AcceptedPreferred
<1>1. PreferenceInv => AcceptedPreferred
  BY DEF PreferenceInv, Winners, AcceptedPreferred
<1>2. QED
  BY <1>1, PreferenceInvariant, PTL

-----------------------------------------------------------------------------
(***************************************************************************)
(* What is settled is final.                                               *)
(***************************************************************************)

\* the children of a constraint rest on it, and are over inserted vertices
ChildrenRest ==
    \A c \in Constraints : \A d \in cchildren[c] :
        c \in ConstraintParents(d) /\ d[1] \in graph /\ d[2] \in graph

\* reject_progeny only reaches what is not settled
Doomed == \A d \in rejecting : ~Settled(d)

FinalityInv == ChildrenRest /\ Doomed

(***************************************************************************)
(* The parents of a constraint are among its ancestors.                    *)
(***************************************************************************)
LEMMA ConstraintParentsAbove ==
    \A c \in Constraints : ConstraintParents(c) \subseteq AncestorConstraints[c]
<1> DEFINE P == [d \in Constraints |-> ConstraintParents(d)]
           Above == CHOOSE f : f = [d \in Constraints |->
                        ConstraintParents(d)
                            \cup UNION {f[p] : p \in ConstraintParents(d)}]
<1>1. P \in [Constraints -> SUBSET Constraints]
  BY ConstraintsClosed
<1> HIDE DEF P
<1>2. PICK f : Solves(f, Constraints, P, P)
  BY <1>1, RecursionSolvable
<1> USE DEF P
<1>3. Above = [d \in Constraints |->
                  ConstraintParents(d)
                      \cup UNION {Above[p] : p \in ConstraintParents(d)}]
  <2>1. f = [d \in Constraints |->
                ConstraintParents(d)
                    \cup UNION {f[p] : p \in ConstraintParents(d)}]
    BY <1>2 DEF Solves
  <2>2. QED
    BY <2>1
<1>4. AncestorConstraints = [c \in Constraints |-> Above[c]]
  BY DEF AncestorConstraints
<1> HIDE DEF Above
<1>5. QED
  BY <1>3, <1>4

(***************************************************************************)
(* insert enters constraints under their parents only.                     *)
(***************************************************************************)
LEMMA InsertingChildren ==
    ASSUME DagInv, ChildrenRest, NEW v \in Hash, Inserting(v)
    PROVE  ChildrenRest'
<1> DEFINE registered == ParentConstraints(v) \cup {Unity(v)}
<1>1. graph' = graph \cup {v} /\ Parents(v) \subseteq graph
  BY InsertingNew
<1>2. \A c \in Constraints : cchildren'[c] =
            cchildren[c] \cup {d \in registered : c \in ConstraintParents(d)}
  BY DEF Inserting, Insert, NewConflictSets
<1>3. \A d \in registered : d[1] \in graph' /\ d[2] \in graph'
  BY <1>1, ParentConstraintsOverParents DEF Unity
<1> HIDE DEF registered
<1>4. QED
  BY <1>1, <1>2, <1>3 DEF ChildrenRest

(***************************************************************************)
(* No step breaks the invariant.                                           *)
(***************************************************************************)
LEMMA NextFinalityInv ==
    ASSUME DagInv, [Next]_vars, PreferenceInv', FinalityInv
    PROVE  FinalityInv'
<1> USE DEF FinalityInv
<1>1. ASSUME NEW v \in Hash, Inserting(v) PROVE FinalityInv'
  BY <1>1, InsertingChildren DEF Inserting, Doomed, voteVars
<1>2. ASSUME NEW v \in Hash, RecordAgainst(v) \/ RecordFor(v)
      PROVE  FinalityInv'
  BY <1>2 DEF RecordAgainst, RecordFor, Idle, DagInv, HandlerInv, voteVars,
              ChildrenRest, Doomed
<1>3. ASSUME NEW c \in Constraints, Counting(c) PROVE FinalityInv'
  <2>1. ChildrenRest'
    BY <1>3 DEF Counting, CountVote, vertexVars, ChildrenRest
  <2>2. ASSUME NEW d \in rejecting' PROVE ~Settled(d)'
    <3>1. d = Conflict(c) /\ ~IsUnity(c) /\ decision'[c] = "accepted"
      BY <1>3, <2>2 DEF Counting, CountVote, ToReject, DagInv, TypeOK
    <3>2. d \in Constraints /\ ConflictSetKey(d) = ConflictSetKey(c) /\ d # c
      <4>1. c = <<c[1], c[2]>> /\ d \in Constraints
        BY <3>1, ConstraintsClosed
      <4>2. QED
        BY <3>1, <4>1, SameSet DEF IsUnity, Conflict
    <3>3. decision'[d] # "accepted"
      BY <3>1, <3>2 DEF PreferenceInv, Winners
    <3>4. QED
      BY <3>3 DEF Settled
  <2>3. QED
    BY <2>1, <2>2 DEF Doomed
<1>4. CASE RejectStep
  <2>1. ChildrenRest'
    BY <1>4 DEF RejectStep, vertexVars, ChildrenRest
  <2>2. ASSUME NEW d \in rejecting' PROVE ~Settled(d)'
    <3>1. PICK r \in rejecting : d \in cchildren[r]
      BY <1>4 DEF RejectStep, NextGeneration
    <3>2. r \in Constraints /\ d \in Constraints /\ decision'[r] = "rejected"
      BY <1>4, <3>1 DEF RejectStep, DagInv, TypeOK
    <3>3. r \in AncestorConstraints[d]
      BY <3>1, <3>2, ConstraintParentsAbove DEF ChildrenRest
    <3>4. QED
      BY <3>2, <3>3 DEF Settled
  <2>3. QED
    BY <2>1, <2>2 DEF Doomed
<1>5. CASE Quiet
  BY <1>5 DEF Quiet, conflictVars, voteVars, ChildrenRest, Doomed, Settled
<1>6. QED
  BY <1>1, <1>2, <1>3, <1>4, <1>5, StepCases

(***************************************************************************)
(* A step that undoes an acceptance undoes one that is not settled.        *)
(***************************************************************************)
LEMMA SettledStays ==
    ASSUME DagInv, PreferenceInv, FinalityInv, [Next]_vars,
           NEW c \in Constraints, Settled(c)
    PROVE  decision'[c] = "accepted"
<1>1. decision[c] = "accepted"
  BY DEF Settled
<1>2. Exists(c)
  <2>1. c # NoConstraint
    BY ConstraintsClosed DEF NoConstraint
  <2>2. QED
    BY <1>1, <2>1 DEF PreferenceInv, Winners, Exists
<1>3. ASSUME NEW v \in Hash, Inserting(v) PROVE decision'[c] = "accepted"
  BY <1>1, <1>2, <1>3, InsertingNew, InsertDecision DEF Inserting, DagInv
<1>4. ASSUME NEW d \in Constraints, Counting(d) PROVE decision'[c] = "accepted"
  BY <1>1, <1>4 DEF Counting, CountVote, DagInv, TypeOK
<1>5. CASE RejectStep
  BY <1>1, <1>5 DEF RejectStep, FinalityInv, Doomed
<1>6. CASE decision' = decision
  BY <1>1, <1>6
<1>7. QED
  BY <1>3, <1>4, <1>5, <1>6, StepCases
     DEF RecordAgainst, RecordFor, Quiet, conflictVars

(***************************************************************************)
(* The invariant of finality, at every step.                               *)
(***************************************************************************)
LEMMA FinalityInvariant == Spec => []FinalityInv
<1>1. Init => FinalityInv
  BY DEF Init, FinalityInv, ChildrenRest, Doomed
<1>2. DagInv /\ [Next]_vars /\ PreferenceInv' /\ FinalityInv => FinalityInv'
  BY NextFinalityInv
<1>3. QED
  BY <1>1, <1>2, DagInvariant, PreferenceInvariant, PTL DEF Spec

(***************************************************************************)
(* A constraint that is accepted together with everything it rests on      *)
(* stays accepted, whatever is polled or inserted later: reject_progeny    *)
(* starts from an ordering that is not accepted and descends to what rests *)
(* on it.                                                                  *)
(***************************************************************************)
THEOREM SettledIsFinal == Spec => SettledFinal
<1>1. DagInv /\ PreferenceInv /\ FinalityInv /\ [Next]_vars
         => [\A c \in Constraints : Settled(c) => decision'[c] = "accepted"]_vars
  BY SettledStays
<1>2. QED
  BY <1>1, DagInvariant, PreferenceInvariant, FinalityInvariant, PTL
     DEF Spec, SettledFinal

-----------------------------------------------------------------------------
(***************************************************************************)
(* The progeny of a constraint.                                            *)
(***************************************************************************)

\* edges that lead from a constraint to constraints with a higher vertex
Ascends(E) ==
    /\ E \in [Constraints -> SUBSET Constraints]
    /\ \A c \in Constraints : \A d \in E[c] :
          \E x \in {d[1], d[2]} : Height(c[1]) < Height(x) /\ Height(c[2]) < Height(x)

(***************************************************************************)
(* What holds of a constraint when it holds of all it leads to holds of    *)
(* every constraint: the heights are bounded.                              *)
(***************************************************************************)
LEMMA AscendingInduction ==
    ASSUME NEW E, Ascends(E), NEW Q,
           \A c \in Constraints : E[c] \subseteq Q => c \in Q
    PROVE  Constraints \subseteq Q
<1> SUFFICES ASSUME ~(Constraints \subseteq Q) PROVE FALSE
  OBVIOUS
<1> DEFINE T == Constraints \ Q
           W == UNION {{c[1], c[2]} : c \in T}
<1>1. W \subseteq Hash /\ W # {}
  BY ConstraintsClosed
<1>2. PICK w \in W : \A x \in W : Height(x) <= Height(w)
  BY <1>1, HighestVertex
<1>3. PICK c \in T : w \in {c[1], c[2]}
  BY <1>2
<1>4. PICK d \in E[c] : d \notin Q
  BY <1>3
<1>5. d \in T
  BY <1>3, <1>4 DEF Ascends
<1>6. PICK x \in {d[1], d[2]} : Height(c[1]) < Height(x) /\ Height(c[2]) < Height(x)
  BY <1>3, <1>4 DEF Ascends
<1>7. x \in W /\ Height(w) < Height(x)
  BY <1>3, <1>5, <1>6
<1>8. Height(x) \in Nat /\ Height(w) \in Nat
  BY <1>1, <1>2, <1>7, HashFacts
<1>9. QED
  BY <1>2, <1>7, <1>8

(***************************************************************************)
(* progeny_with_chits collects the chit of a constraint and what its       *)
(* children collect.                                                       *)
(***************************************************************************)
LEMMA ProgenyEq ==
    ASSUME NEW C, NEW E \in [Constraints -> SUBSET Constraints]
    PROVE  \A c \in Constraints : Progeny(C, E)[c] =
              (C \cap {c}) \cup UNION {Progeny(C, E)[d] : d \in E[c]}
<1> DEFINE B == [c \in Constraints |-> C \cap {c}]
           Found == CHOOSE f : f = [d \in Constraints |->
                        (C \cap {d}) \cup UNION {f[e] : e \in E[d]}]
<1> HIDE DEF B
<1>1. PICK f : Solves(f, Constraints, E, B)
  BY RecursionSolvable
<1> USE DEF B
<1>2. Found = [d \in Constraints |->
                  (C \cap {d}) \cup UNION {Found[e] : e \in E[d]}]
  <2>1. f = [d \in Constraints |->
                (C \cap {d}) \cup UNION {f[e] : e \in E[d]}]
    BY <1>1 DEF Solves
  <2>2. QED
    BY <2>1
<1>3. Progeny(C, E) = Found
  BY DEF Progeny
<1> HIDE DEF Found
<1>4. QED
  BY <1>2, <1>3

(***************************************************************************)
(* Only chits are found, so finitely many.                                 *)
(***************************************************************************)
LEMMA ProgenyInside ==
    ASSUME NEW C \in SUBSET Constraints, NEW E, Ascends(E)
    PROVE  \A c \in Constraints :
              Progeny(C, E)[c] \subseteq C /\ IsFiniteSet(Progeny(C, E)[c])
<1> DEFINE G == Progeny(C, E)
           Q == {c \in Constraints : G[c] \subseteq C}
<1>1. \A c \in Constraints : G[c] = (C \cap {c}) \cup UNION {G[d] : d \in E[c]}
  BY ProgenyEq DEF Ascends
<1> HIDE DEF G
<1>2. \A c \in Constraints : E[c] \subseteq Q => c \in Q
  BY <1>1
<1> HIDE DEF Q
<1>3. Constraints \subseteq Q
  BY <1>2, AscendingInduction
<1>4. IsFiniteSet(Constraints)
  <2>1. IsFiniteSet(Hash \X Hash)
    BY ContentAssumption, FS_Product
  <2>2. Constraints \in SUBSET (Hash \X Hash)
    <3>1. \A c \in Constraints : c \in Hash \X Hash
      BY ConstraintsClosed
    <3>2. QED
      BY <3>1
  <2>3. QED
    BY <2>1, <2>2, FS_Subset
<1>5. QED
  <2>1. \A c \in Constraints : G[c] \subseteq C
    BY <1>3 DEF Q
  <2>2. ASSUME NEW c \in Constraints PROVE IsFiniteSet(G[c])
    <3>1. G[c] \in SUBSET Constraints
      BY <2>1
    <3>2. QED
      BY <1>4, <3>1, FS_Subset
  <2>3. QED
    BY <2>1, <2>2 DEF G

(***************************************************************************)
(* More chits and more children only add to what is found.                 *)
(***************************************************************************)
LEMMA ProgenyGrows ==
    ASSUME NEW C, NEW D, C \subseteq D, NEW E, Ascends(E),
           NEW F \in [Constraints -> SUBSET Constraints],
           \A c \in Constraints : E[c] \subseteq F[c]
    PROVE  \A c \in Constraints : Progeny(C, E)[c] \subseteq Progeny(D, F)[c]
<1> DEFINE G == Progeny(C, E)
           H == Progeny(D, F)
           Q == {c \in Constraints : G[c] \subseteq H[c]}
<1>1. \A c \in Constraints : G[c] = (C \cap {c}) \cup UNION {G[d] : d \in E[c]}
  BY ProgenyEq DEF Ascends
<1>2. \A c \in Constraints : H[c] = (D \cap {c}) \cup UNION {H[d] : d \in F[c]}
  BY ProgenyEq
<1> HIDE DEF G, H
<1>3. \A c \in Constraints : E[c] \subseteq Q => c \in Q
  <2>1. ASSUME NEW c \in Constraints, E[c] \subseteq Q PROVE G[c] \subseteq H[c]
    <3>1. UNION {G[d] : d \in E[c]} \subseteq UNION {H[d] : d \in F[c]}
      BY <2>1
    <3>2. QED
      BY <1>1, <1>2, <3>1
  <2>2. QED
    BY <2>1
<1> HIDE DEF Q
<1>4. Constraints \subseteq Q
  BY <1>3, AscendingInduction
<1>5. QED
  BY <1>4 DEF Q, G, H

-----------------------------------------------------------------------------
(***************************************************************************)
(* What is accepted is backed by polls.                                    *)
(***************************************************************************)

\* each chit was given by a poll that is over
ChitsRecorded == chit \subseteq {Unity(h) : h \in graph \ pending_query}

\* the vertex whose poll is counted comes last, once
RecordingLast == recording # NoVertex => Unity(recording) \notin live

\* the votes the running handler has still to count for c
Owed(c) == IF c \in live \/ (recording # NoVertex /\ c = Unity(recording))
           THEN 1 ELSE 0

\* a counter never runs ahead of the chits below its constraint
CountsBacked == \A c \in Constraints : count[c] + Owed(c) <= Confidence(c)

BackingInv ==
    ChitsRecorded /\ RecordingLast /\ CountsBacked /\ AcceptanceBacked

(***************************************************************************)
(* The children of a constraint are higher.                                *)
(***************************************************************************)
LEMMA ChildrenAscend ==
    TypeOK /\ WellFormedInv /\ ChildrenRest => Ascends(cchildren)
<1> SUFFICES ASSUME TypeOK, WellFormedInv, ChildrenRest
             PROVE  Ascends(cchildren)
  OBVIOUS
<1>1. Grounded(graph)
  BY GraphGrounded
<1>2. ASSUME NEW c \in Constraints, NEW d \in cchildren[c]
      PROVE  \E x \in {d[1], d[2]} :
                Height(c[1]) < Height(x) /\ Height(c[2]) < Height(x)
  <2>1. d[1] \in graph /\ d[2] \in graph /\ c \in ConstraintParents(d)
    BY <1>2 DEF ChildrenRest
  <2>2. PICK x \in {d[1], d[2]} : c \in ParentConstraints(x)
    BY <2>1 DEF ConstraintParents
  <2>3. x \in Hash /\ x \in graph
    BY <2>1 DEF TypeOK
  <2>4. c[1] \in Parents(x) /\ c[2] \in Parents(x)
    BY <2>2, <2>3, ParentConstraintsOverParents
  <2>5. QED
    BY <1>1, <2>3, <2>4 DEF Grounded
<1>3. QED
  BY <1>2 DEF Ascends, TypeOK

(***************************************************************************)
(* The children of a constraint are higher after a step too.               *)
(***************************************************************************)
LEMMA ChildrenAscendNext ==
    (TypeOK /\ WellFormedInv /\ ChildrenRest => Ascends(cchildren))'
BY ChildrenAscend, PTL

(***************************************************************************)
(* Chits and children are never taken away.                                *)
(***************************************************************************)
LEMMA ChitsGrow ==
    ASSUME DagInv, [Next]_vars
    PROVE  /\ chit \subseteq chit'
           /\ \A c \in Constraints : cchildren[c] \subseteq cchildren'[c]
<1>1. ASSUME NEW v \in Hash, Inserting(v)
      PROVE  /\ chit \subseteq chit'
             /\ \A c \in Constraints : cchildren[c] \subseteq cchildren'[c]
  BY <1>1 DEF Inserting, Insert, NewConflictSets
<1>2. ASSUME NEW v \in Hash, RecordAgainst(v) \/ RecordFor(v)
      PROVE  chit \subseteq chit' /\ cchildren' = cchildren
  BY <1>2 DEF RecordAgainst, RecordFor
<1>3. ASSUME NEW c \in Constraints, Counting(c)
      PROVE  chit' = chit /\ cchildren' = cchildren
  BY <1>3 DEF Counting, CountVote
<1>4. QED
  BY <1>1, <1>2, <1>3, StepCases DEF RejectStep, Quiet, conflictVars

(***************************************************************************)
(* The confidence of a constraint is a number that no step lowers.         *)
(***************************************************************************)
LEMMA ConfidenceRises ==
    ASSUME DagInv, WellFormedInv, ChildrenRest, [Next]_vars,
           TypeOK', WellFormedInv', ChildrenRest', NEW c \in Constraints
    PROVE  /\ Confidence(c) \in Nat /\ Confidence(c)' \in Nat
           /\ Confidence(c) <= Confidence(c)'
<1> DEFINE G == Progeny(chit, cchildren)[c]
           H == Progeny(chit', cchildren')[c]
<1>1. Ascends(cchildren) /\ Ascends(cchildren')
  BY ChildrenAscend, ChildrenAscendNext DEF DagInv
<1>2. G \subseteq H
  BY <1>1, ChitsGrow, ProgenyGrows DEF Ascends
<1>3. IsFiniteSet(G) /\ IsFiniteSet(H)
  BY <1>1, ProgenyInside DEF DagInv, TypeOK
<1>4. Confidence(c) = Cardinality(G) /\ Confidence(c)' = Cardinality(H)
  BY DEF Confidence, ProgenyWithChits
<1> HIDE DEF G, H
<1>5. QED
  BY <1>2, <1>3, <1>4, FS_Subset, FS_CardinalityType

(***************************************************************************)
(* What is found from a vertex is found from every constraint its ancestry *)
(* and it list.                                                            *)
(***************************************************************************)
LEMMA ProgenyBelow ==
    ASSUME DagInv, WellFormedInv, NEW C
    PROVE  \A v \in graph : \A h \in ProperAncestors(v) \cup {v} :
              \A c \in ParentConstraints(h) :
                 Progeny(C, cchildren)[Unity(v)] \subseteq Progeny(C, cchildren)[c]
<1> DEFINE G == Progeny(C, cchildren)
           Ok(v) == \A h \in ProperAncestors(v) : G[Unity(v)] \subseteq G[Unity(h)]
           Q == {v \in graph : Ok(v)}
<1>1. \A c \in Constraints :
         G[c] = (C \cap {c}) \cup UNION {G[d] : d \in cchildren[c]}
  <2>1. cchildren \in [Constraints -> SUBSET Constraints]
    BY DEF DagInv, TypeOK
  <2>2. QED
    BY <2>1, ProgenyEq
<1> HIDE DEF G
<1>2. graph \subseteq Hash /\ Grounded(graph)
  BY GraphGrounded DEF DagInv, TypeOK
<1>3. \A v \in graph : \A c \in ParentConstraints(v) : G[Unity(v)] \subseteq G[c]
  <2>1. ASSUME NEW v \in graph, NEW c \in ParentConstraints(v)
        PROVE  G[Unity(v)] \subseteq G[c]
    <3>1. Unity(v) \in cchildren[c] /\ c \in Constraints
      BY <1>2, ConstraintsClosed DEF DagInv, RejectionInv, Registered
    <3>2. QED
      BY <1>1, <3>1
  <2>2. QED
    BY <2>1
<1>4. ASSUME NEW v \in graph, Parents(v) \subseteq Q PROVE Ok(v)
  <2>1. \A p \in Parents(v) : G[Unity(v)] \subseteq G[Unity(p)]
    BY <1>2, <1>3, UnityListed
  <2>2. \A p \in Parents(v) : Ok(p)
    BY <1>4
  <2>3. ProperAncestors(v) =
            Parents(v) \cup UNION {ProperAncestors(p) : p \in Parents(v)}
    BY <1>2, ProperAncestorsEq
  <2>4. QED
    BY <2>1, <2>2, <2>3
<1>5. \A v \in graph : Parents(v) \subseteq Q => v \in Q
  BY <1>4
<1> HIDE DEF Q
<1>6. graph \subseteq Q
  BY <1>2, <1>5, GroundedInduction
<1>7. ASSUME NEW v \in graph, NEW h \in ProperAncestors(v) \cup {v},
             NEW c \in ParentConstraints(h)
      PROVE  G[Unity(v)] \subseteq G[c]
  <2>1. h \in graph
    BY <1>2, AncestorsInside
  <2>2. G[Unity(h)] \subseteq G[c]
    BY <1>3, <2>1
  <2>3. G[Unity(v)] \subseteq G[Unity(h)]
    BY <1>6 DEF Q
  <2>4. QED
    BY <2>2, <2>3
<1>8. QED
  BY <1>7 DEF G

(***************************************************************************)
(* A poll for v adds to the confidence of every constraint that its        *)
(* handler counts.                                                         *)
(***************************************************************************)
LEMMA RecordingAdds ==
    ASSUME DagInv, WellFormedInv, ChildrenRest, ChitsRecorded,
           NEW v \in Hash, RecordFor(v)
    PROVE  /\ \A c \in live' \cup {Unity(v)} : c \in Constraints
                    /\ Confidence(c) \in Nat
                    /\ Confidence(c)' \in Nat /\ Confidence(c) + 1 <= Confidence(c)'
           /\ Unity(v) \notin live'
<1>1. /\ v \in graph /\ v \in pending_query
      /\ chit' = chit \cup {Unity(v)} /\ cchildren' = cchildren
      /\ live' = ActiveConstraintsOf(v)
  BY DEF RecordFor, DagInv, GraphInv, ChildMapExact
<1>2. Grounded(graph) /\ Ascends(cchildren)
  BY GraphGrounded, ChildrenAscend DEF DagInv
<1>3. Unity(v) \notin chit
  BY <1>1 DEF ChitsRecorded, Unity
<1>4. ASSUME NEW c \in live'
      PROVE  \E h \in ProperAncestors(v) \cup {v} : c \in ParentConstraints(h)
  <2>1. Parents(v) \in SUBSET graph
    BY <1>1, <1>2 DEF Grounded
  <2>2. \A h \in ActiveAncestors(Parents(v)) : h \in ProperAncestors(v)
    BY <1>1, <2>1, ActiveAncestry, ProperAncestorsEq DEF DagInv
  <2>3. QED
    BY <1>1, <2>2 DEF ActiveConstraintsOf, ActiveConstraints
<1>5. Unity(v) \notin live'
  <2>1. SUFFICES ASSUME Unity(v) \in live' PROVE FALSE
    OBVIOUS
  <2>2. PICK h \in ProperAncestors(v) \cup {v} : Unity(v) \in ParentConstraints(h)
    BY <1>4, <2>1
  <2>3. h \in graph /\ h \in Hash /\ Height(h) <= Height(v)
    BY <1>1, <1>2, AncestorsInside, HashFacts DEF DagInv, TypeOK
  <2>4. v \in Parents(h)
    BY <2>2, <2>3, ParentConstraintsOverParents DEF Unity
  <2>5. Height(v) < Height(h)
    BY <1>2, <2>3, <2>4 DEF Grounded
  <2>6. QED
    BY <2>3, <2>5, HashFacts
<1>6. live' \subseteq Constraints /\ Unity(v) \in Constraints
  BY <1>1, ActiveTypes, ConstraintsClosed DEF DagInv
<1>7. ASSUME NEW c \in live' \cup {Unity(v)}
      PROVE  /\ Confidence(c) \in Nat
             /\ Confidence(c)' \in Nat /\ Confidence(c) + 1 <= Confidence(c)'
  <2> DEFINE S == Progeny(chit, cchildren)[c]
             C == chit \cup {Unity(v)}
             T == Progeny(C, cchildren)[c]
  <2>1. Unity(v) \in T
    <3>1. Unity(v) \in Progeny(C, cchildren)[Unity(v)]
      BY <1>2, <1>6, ProgenyEq DEF Ascends
    <3>2. CASE c = Unity(v)
      BY <3>1, <3>2
    <3>3. CASE c \in live'
      <4>1. Progeny(C, cchildren)[Unity(v)] \subseteq T
        BY <1>1, <1>4, <3>3, ProgenyBelow
      <4>2. QED
        BY <3>1, <4>1
    <3>4. QED
      BY <3>2, <3>3
  <2>2. S \subseteq chit /\ IsFiniteSet(S) /\ Unity(v) \notin S
    BY <1>2, <1>3, <1>6, ProgenyInside DEF DagInv, TypeOK
  <2>3. S \cup {Unity(v)} \subseteq T /\ IsFiniteSet(T)
    <3>1. S \subseteq T
      BY <1>2, <1>6, ProgenyGrows DEF Ascends
    <3>2. C \in SUBSET Constraints
      BY <1>6 DEF DagInv, TypeOK
    <3>3. IsFiniteSet(T)
      BY <1>2, <1>6, <3>2, ProgenyInside
    <3>4. QED
      BY <2>1, <3>1, <3>3
  <2>4. Confidence(c) = Cardinality(S) /\ Confidence(c)' = Cardinality(T)
    BY <1>1 DEF Confidence, ProgenyWithChits
  <2> HIDE DEF S, T
  <2>5. QED
    BY <2>2, <2>3, <2>4, FS_AddElement, FS_Subset, FS_CardinalityType
<1>8. QED
  BY <1>5, <1>6, <1>7

(***************************************************************************)
(* The counter of an accepted constraint has reached its threshold: only   *)
(* a unity constraint, which has no opposite, is committed early.          *)
(***************************************************************************)
LEMMA AcceptedCount ==
    ASSUME DagInv, NEW c \in Constraints, Exists(c), Accepts(c)
    PROVE  /\ NewCount(c) >= IF IsUnity(c) THEN ThreshSafeEarlyCommit
                                           ELSE ThreshAccepted
           /\ NewCount(c) <= count[c] + 1
<1>1. ~IsUnity(c) => HasConflict(c)
  <2>1. ConflictSetKey(Conflict(c)) = ConflictSetKey(c)
    BY DEF ConflictSetKey, Conflict
  <2>2. QED
    BY <2>1 DEF HasConflict, Exists
<1>2. count[c] \in Nat /\ NewCount(c) \in Nat /\ NewCount(c) <= count[c] + 1
  BY DEF NewCount, DagInv, TypeOK
<1>3. QED
  BY <1>1, <1>2, ThresholdAssumption DEF Accepts

(***************************************************************************)
(* Counting a vote keeps the counters behind the chits.                    *)
(***************************************************************************)
LEMMA CountingBacked ==
    ASSUME DagInv, BackingInv, NEW c \in Constraints, Exists(c), Counting(c),
           \A d \in Constraints : /\ Confidence(d) \in Nat
                                  /\ Confidence(d)' = Confidence(d)
    PROVE  BackingInv'
<1>1. /\ count' = [count EXCEPT ![c] = NewCount(c)]
      /\ decision' = IF Accepts(c) THEN [decision EXCEPT ![c] = "accepted"]
                                   ELSE decision
      /\ UNCHANGED <<graph, pending_query, chit>>
  BY DEF Counting, CountVote, vertexVars
<1>2. /\ count \in [Constraints -> Nat]
      /\ decision \in [Constraints -> {"undecided", "accepted", "rejected"}]
      /\ ThreshAccepted \in Nat /\ ThreshSafeEarlyCommit \in Nat
  BY ThresholdAssumption DEF DagInv, TypeOK
<1>3. /\ Owed(c) = 1 /\ Owed(c)' = 0
      /\ \A d \in Constraints \ {c} : Owed(d)' <= Owed(d)
      /\ \A d \in Constraints : Owed(d) \in {0, 1} /\ Owed(d)' \in {0, 1}
  <2>1. recording # NoVertex
    BY ThresholdAssumption DEF Counting, DagInv, TypeOK
  <2>2. CASE c \in live /\ live' = live \ {c} /\ recording' = recording
    BY <2>1, <2>2 DEF Owed, BackingInv, RecordingLast
  <2>3. CASE /\ c = Unity(recording) /\ live = {} /\ live' = {}
             /\ recording' = NoVertex
    BY <2>1, <2>3 DEF Owed
  <2>4. QED
    BY <2>2, <2>3 DEF Counting
<1>4. NewCount(c) \in Nat /\ NewCount(c) <= count[c] + 1
  BY <1>2 DEF NewCount
<1>5. CountsBacked'
  <2>1. ASSUME NEW d \in Constraints
        PROVE  count'[d] + Owed(d)' <= Confidence(d)'
    <3>1. count[d] + Owed(d) <= Confidence(d)
      BY DEF BackingInv, CountsBacked
    <3>2. CASE d = c
      BY <1>1, <1>2, <1>3, <1>4, <3>1, <3>2
    <3>3. CASE d # c
      BY <1>1, <1>2, <1>3, <3>1, <3>3
    <3>4. QED
      BY <3>2, <3>3
  <2>2. QED
    BY <2>1 DEF CountsBacked
<1>6. AcceptanceBacked'
  <2>1. ASSUME NEW d \in Constraints \ {Unity(Genesis)}, decision'[d] = "accepted"
        PROVE  Confidence(d)' >= IF IsUnity(d) THEN ThreshSafeEarlyCommit
                                               ELSE ThreshAccepted
    <3>1. CASE decision[d] = "accepted"
      BY <3>1 DEF BackingInv, AcceptanceBacked
    <3>2. CASE decision[d] # "accepted"
      <4>1. d = c /\ Accepts(c)
        BY <1>1, <1>2, <2>1, <3>2
      <4>2. NewCount(c) >= IF IsUnity(c) THEN ThreshSafeEarlyCommit
                                         ELSE ThreshAccepted
        BY <4>1, AcceptedCount
      <4>3. count[c] + 1 <= Confidence(c)
        BY <1>3 DEF BackingInv, CountsBacked
      <4>4. QED
        BY <1>2, <1>4, <4>1, <4>2, <4>3
    <3>3. QED
      BY <3>1, <3>2
  <2>2. QED
    BY <2>1 DEF AcceptanceBacked
<1>7. ChitsRecorded' /\ RecordingLast'
  <2>1. live' \subseteq live /\ (recording' = NoVertex \/ recording' = recording)
    BY DEF Counting
  <2>2. QED
    BY <1>1, <2>1 DEF BackingInv, ChitsRecorded, RecordingLast
<1>8. QED
  BY <1>5, <1>6, <1>7 DEF BackingInv

(***************************************************************************)
(* No step lets a counter or a decision run ahead of the chits.            *)
(***************************************************************************)
LEMMA NextBackingInv ==
    ASSUME DagInv, WellFormedInv, FinalityInv, PreferenceInv, BackingInv,
           TypeOK', WellFormedInv', FinalityInv', [Next]_vars
    PROVE  BackingInv'
<1> DEFINE Bound(c) == IF IsUnity(c) THEN ThreshSafeEarlyCommit ELSE ThreshAccepted
<1>1. \A c \in Constraints : /\ Confidence(c) \in Nat /\ Confidence(c)' \in Nat
                             /\ Confidence(c) <= Confidence(c)'
  BY ConfidenceRises DEF FinalityInv
<1>2. /\ count \in [Constraints -> Nat]
      /\ decision \in [Constraints -> {"undecided", "accepted", "rejected"}]
      /\ \A c \in Constraints : Bound(c) \in Nat
  BY ThresholdAssumption DEF DagInv, TypeOK
<1> HIDE DEF Bound
<1>3. ASSUME UNCHANGED <<count, live, recording>> PROVE CountsBacked'
  <2>1. ASSUME NEW c \in Constraints PROVE count'[c] + Owed(c)' <= Confidence(c)'
    <3>1. count[c] + Owed(c) <= Confidence(c)
      BY DEF BackingInv, CountsBacked
    <3>2. count'[c] = count[c] /\ Owed(c)' = Owed(c) /\ Owed(c) \in {0, 1}
      BY <1>3 DEF Owed
    <3>3. QED
      BY <1>1, <1>2, <3>1, <3>2
  <2>2. QED
    BY <2>1 DEF CountsBacked
<1>4. ASSUME \A c \in Constraints :
                decision'[c] = "accepted" => decision[c] = "accepted"
      PROVE  AcceptanceBacked'
  <2>1. ASSUME NEW c \in Constraints \ {Unity(Genesis)}, decision'[c] = "accepted"
        PROVE  Confidence(c)' >= Bound(c)
    <3>1. Confidence(c) >= Bound(c)
      BY <1>4, <2>1 DEF BackingInv, AcceptanceBacked, Bound
    <3>2. QED
      BY <1>1, <1>2, <3>1
  <2>2. QED
    BY <2>1 DEF AcceptanceBacked, Bound
<1>5. ASSUME NEW v \in Hash, Inserting(v) PROVE BackingInv'
  <2>1. /\ UNCHANGED <<count, chit, live, recording>> /\ recording = NoVertex
        /\ graph' = graph \cup {v} /\ pending_query' = pending_query \cup {v}
        /\ v \notin graph
    BY <1>5, InsertingNew DEF Inserting, Insert, NewConflictSets, voteVars
  <2>2. \A c \in Constraints : decision'[c] = "accepted" => decision[c] = "accepted"
    BY <1>2, <1>5, InsertingNew, InsertDecision DEF Inserting, DagInv
  <2>3. ChitsRecorded' /\ RecordingLast'
    BY <2>1 DEF BackingInv, ChitsRecorded, RecordingLast
  <2>4. QED
    BY <1>3, <1>4, <2>1, <2>2, <2>3 DEF BackingInv
<1>6. ASSUME NEW v \in Hash, RecordAgainst(v) PROVE BackingInv'
  <2>1. /\ UNCHANGED <<graph, chit, decision, live, recording>>
        /\ pending_query' \subseteq pending_query /\ recording = NoVertex /\ live = {}
        /\ \A c \in Constraints : count'[c] \in {0, count[c]}
    BY <1>6 DEF RecordAgainst, voteVars, Idle, DagInv, HandlerInv
  <2>2. ASSUME NEW c \in Constraints PROVE count'[c] + Owed(c)' <= Confidence(c)'
    <3>1. count[c] + Owed(c) <= Confidence(c)
      BY DEF BackingInv, CountsBacked
    <3>2. Owed(c) = 0 /\ Owed(c)' = 0
      BY <2>1 DEF Owed
    <3>3. QED
      BY <1>1, <1>2, <2>1, <3>1, <3>2
  <2>3. ChitsRecorded' /\ RecordingLast'
    BY <2>1 DEF BackingInv, ChitsRecorded, RecordingLast
  <2>4. QED
    BY <1>4, <2>1, <2>2, <2>3 DEF BackingInv, CountsBacked
<1>7. ASSUME NEW v \in Hash, RecordFor(v) PROVE BackingInv'
  <2>1. /\ UNCHANGED <<graph, decision, count>> /\ v \in graph
        /\ chit' = chit \cup {Unity(v)} /\ pending_query' = pending_query \ {v}
        /\ recording = NoVertex /\ live = {} /\ recording' = v
    BY <1>7 DEF RecordFor, Idle, DagInv, HandlerInv, GraphInv, ChildMapExact
  <2>2. /\ \A c \in live' \cup {Unity(v)} : Confidence(c) + 1 <= Confidence(c)'
        /\ Unity(v) \notin live'
    BY <1>7, RecordingAdds DEF FinalityInv, BackingInv
  <2>3. ASSUME NEW c \in Constraints PROVE count'[c] + Owed(c)' <= Confidence(c)'
    <3>1. count[c] <= Confidence(c)
      <4>1. Owed(c) = 0
        BY <2>1 DEF Owed
      <4>2. count[c] + Owed(c) <= Confidence(c)
        BY DEF BackingInv, CountsBacked
      <4>3. QED
        BY <1>2, <4>1, <4>2
    <3>2. CASE c \in live' \cup {Unity(v)}
      BY <1>1, <1>2, <2>1, <2>2, <3>1, <3>2 DEF Owed
    <3>3. CASE c \notin live' \cup {Unity(v)}
      BY <1>1, <1>2, <2>1, <3>1, <3>3 DEF Owed
    <3>4. QED
      BY <3>2, <3>3
  <2>4. ChitsRecorded' /\ RecordingLast'
    BY <2>1, <2>2 DEF BackingInv, ChitsRecorded, RecordingLast
  <2>5. QED
    BY <1>4, <2>1, <2>3, <2>4 DEF BackingInv, CountsBacked
<1>8. ASSUME NEW c \in Constraints, Exists(c), Counting(c) PROVE BackingInv'
  <2>1. \A d \in Constraints : Confidence(d)' = Confidence(d)
    BY <1>8 DEF Counting, CountVote, Confidence, ProgenyWithChits
  <2>2. QED
    BY <1>1, <1>8, <2>1, CountingBacked
<1>9. CASE RejectStep
  <2>1. \A c \in Constraints : decision'[c] = "accepted" => decision[c] = "accepted"
    BY <1>9 DEF RejectStep
  <2>2. ChitsRecorded' /\ RecordingLast'
    BY <1>9 DEF RejectStep, vertexVars, BackingInv, ChitsRecorded, RecordingLast
  <2>3. QED
    BY <1>3, <1>4, <1>9, <2>1, <2>2 DEF RejectStep, BackingInv
<1>10. CASE Quiet
  <2>1. ChitsRecorded' /\ RecordingLast'
    BY <1>10 DEF Quiet, conflictVars, voteVars, BackingInv, ChitsRecorded,
                 RecordingLast
  <2>2. QED
    BY <1>3, <1>4, <1>10, <2>1 DEF Quiet, conflictVars, voteVars, BackingInv
<1>11. QED
  BY <1>5, <1>6, <1>7, <1>8, <1>9, <1>10, StepCases

(***************************************************************************)
(* At first no chit is given, nothing is counted, and only genesis is      *)
(* accepted.                                                               *)
(***************************************************************************)
LEMMA InitBackingInv == Init => BackingInv
<1> SUFFICES ASSUME Init PROVE BackingInv
  OBVIOUS
<1>1. ChitsRecorded /\ RecordingLast
  BY DEF Init, ChitsRecorded, RecordingLast
<1>2. ASSUME NEW c \in Constraints PROVE count[c] + Owed(c) <= Confidence(c)
  <2>1. TypeOK /\ WellFormedInv /\ ChildrenRest
    BY InitTypeOK, InitWellFormed DEF Init, ChildrenRest
  <2>2. IsFiniteSet(Progeny(chit, cchildren)[c])
    BY <2>1, ChildrenAscend, ProgenyInside DEF TypeOK
  <2>3. Confidence(c) \in Nat
    BY <2>2, FS_CardinalityType DEF Confidence, ProgenyWithChits
  <2>4. count[c] = 0 /\ Owed(c) = 0
    BY DEF Init, Owed
  <2>5. QED
    BY <2>3, <2>4
<1>3. AcceptanceBacked
  BY DEF Init, AcceptanceBacked
<1>4. QED
  BY <1>1, <1>2, <1>3 DEF BackingInv, CountsBacked

(***************************************************************************)
(* An accepted constraint has as many distinct polled vertices in its      *)
(* progeny as the rule that accepted it asks for: the counter of a         *)
(* constraint never passes its number of chits, whatever polls reset it,   *)
(* and an ordering is never committed early.                               *)
(***************************************************************************)
THEOREM AcceptanceIsBacked == Spec => []AcceptanceBacked
<1>1. DagInv /\ WellFormedInv /\ FinalityInv /\ PreferenceInv /\ BackingInv
            /\ DagInv' /\ WellFormedInv' /\ FinalityInv' /\ [Next]_vars
         => BackingInv'
  BY NextBackingInv DEF DagInv
<1>2. BackingInv => AcceptanceBacked
  BY DEF BackingInv
<1>3. QED
  BY <1>1, <1>2, InitBackingInv, DagInvariant, WellFormedInvariant,
     FinalityInvariant, PreferenceInvariant, PTL DEF Spec

-----------------------------------------------------------------------------
(***************************************************************************)
(* Early commitment.                                                       *)
(***************************************************************************)

\* an inserted vertex rests on what it lists
ParentsKept == \A h \in graph : cparents[Unity(h)] = ParentConstraints(h)

\* the vote loop works upwards from the lowest vertices
LowestFirst ==
    /\ recording = NoVertex => owner = NoVertex
    /\ recording # NoVertex =>
          /\ \A a \in ancestors : Height(a) <= Height(recording)
          /\ owner # NoVertex =>
                \A b \in ancestors : Uncounted(b) # {} =>
                    ~(Height(b) < Height(owner))

\* something v rests on has been counted, and was not accepted
HeldBack(v) ==
    \E d \in ParentConstraints(v) : d \notin live /\ decision[d] # "accepted"

\* what has been counted and could be committed early is held back for good
NoneOverdue ==
    recording # NoVertex =>
        \A a \in ancestors : \A p \in Parents(a) \cap ancestors :
            Undecided(p) /\ count[Unity(p)] >= ThreshSafeEarlyCommit
                => Unity(p) \in live \/ HeldBack(p)

CommitInv == ParentsKept /\ LowestFirst /\ NoneOverdue

(***************************************************************************)
(* insert gives the unity constraint of a vertex its parents, once.        *)
(***************************************************************************)
LEMMA NextParentsKept ==
    ASSUME DagInv, ParentsKept, [Next]_vars
    PROVE  ParentsKept'
<1>1. ASSUME NEW v \in Hash, Inserting(v) PROVE ParentsKept'
  <2> DEFINE registered == ParentConstraints(v) \cup {Unity(v)}
             new == {c \in registered : ~Exists(c)}
  <2>1. graph' = graph \cup {v} /\ ~Exists(Unity(v))
    BY <1>1, InsertingNew
  <2>2. \A c \in Constraints : cparents'[c] =
            IF c \in new THEN ConstraintParents(c) ELSE cparents[c]
    BY <1>1 DEF Inserting, Insert, NewConflictSets
  <2>3. Unity(v) \in new /\ ConstraintParents(Unity(v)) = ParentConstraints(v)
    BY <2>1, UnityFacts
  <2>4. \A h \in graph : h \in Hash /\ Unity(h) \notin new
    BY DEF DagInv, TypeOK, RejectionInv, SetsExist
  <2> HIDE DEF new
  <2>5. QED
    BY <2>1, <2>2, <2>3, <2>4, ConstraintsClosed DEF ParentsKept
<1>2. CASE UNCHANGED <<graph, cparents>>
  BY <1>2 DEF ParentsKept
<1>3. QED
  BY <1>1, <1>2, StepCases
     DEF RecordAgainst, RecordFor, Counting, CountVote, RejectStep, Quiet,
         vertexVars, conflictVars

(***************************************************************************)
(* A poll starts with all counting ahead of it, at no vertex in            *)
(* particular, and with no vertex above the recorded one.                  *)
(***************************************************************************)
LEMMA RecordingOrdered ==
    ASSUME DagInv, WellFormedInv, LowestFirst, NEW v \in Hash, RecordFor(v)
    PROVE  LowestFirst' /\ NoneOverdue'
<1>1. /\ v \in graph /\ v # NoVertex
      /\ recording = NoVertex /\ recording' = v /\ owner' = owner
      /\ ancestors' = ActiveAncestors(Parents(v)) \cup {v}
      /\ live' = ActiveConstraintsOf(v) /\ decision' = decision
  BY ThresholdAssumption
     DEF RecordFor, Idle, DagInv, GraphInv, ChildMapExact
<1>2. Grounded(graph)
  BY GraphGrounded DEF DagInv
<1>3. \A a \in ancestors' : a \in Hash /\ Height(a) <= Height(v)
  <2>1. Parents(v) \in SUBSET graph
    BY <1>1, <1>2 DEF Grounded
  <2>2. \A h \in ActiveAncestors(Parents(v)) :
            h \in graph /\ h \in ProperAncestors(v)
    BY <1>1, <2>1, ActiveAncestry, ProperAncestorsEq DEF DagInv
  <2>3. QED
    BY <1>1, <1>2, <2>2, AncestorsInside, HashFacts DEF DagInv, TypeOK
<1>4. owner' = NoVertex
  BY <1>1 DEF LowestFirst
<1>5. LowestFirst'
  BY <1>1, <1>3, <1>4 DEF LowestFirst
<1>6. ASSUME NEW a \in ancestors', NEW p \in Parents(a), Undecided(p)'
      PROVE  Unity(p) \in live'
  <2>1. /\ Unity(p) \in ParentConstraints(a)
        /\ decision[Unity(p)] = "undecided"
    BY <1>1, <1>3, <1>6, UnityListed DEF Undecided
  <2>2. QED
    BY <1>1, <2>1 DEF ActiveConstraintsOf, ActiveConstraints
<1>7. NoneOverdue'
  <2> SUFFICES ASSUME recording' # NoVertex,
                      NEW b \in ancestors', NEW p \in Parents(b) \cap ancestors',
                      Unity(p) \notin live', Undecided(p)',
                      count'[Unity(p)] >= ThreshSafeEarlyCommit
               PROVE  HeldBack(p)'
    BY DEF NoneOverdue, Undecided, HeldBack
  <2>1. QED
    BY <1>6
<1>8. QED
  BY <1>5, <1>7

(***************************************************************************)
(* A constraint is counted after all that its vertex rests on: where these *)
(* are accepted, and enough votes are counted, it is accepted too.         *)
(***************************************************************************)
LEMMA CountingOrdered ==
    ASSUME DagInv, WellFormedInv, CommitInv,
           NEW a \in Hash, NEW c \in Constraints, RecordStep(a, c)
    PROVE  LowestFirst' /\ NoneOverdue'
<1>1. /\ recording # NoVertex /\ recording' = recording
      /\ ancestors' = ancestors /\ a \in ancestors /\ owner' = a
      /\ c \in Uncounted(a) /\ c \in live /\ live' = live \ {c}
      /\ NextAncestor(a)
  BY DEF RecordStep, Uncounted
<1>2. /\ count' = [count EXCEPT ![c] = NewCount(c)]
      /\ decision' = IF Accepts(c) THEN [decision EXCEPT ![c] = "accepted"]
                                   ELSE decision
      /\ count \in [Constraints -> Nat]
      /\ decision \in [Constraints -> {"undecided", "accepted", "rejected"}]
  BY DEF RecordStep, CountVote, DagInv, TypeOK
<1>3. \A b \in ancestors : Uncounted(b)' \subseteq Uncounted(b)
  BY <1>1 DEF Uncounted
<1>4. \A b \in ancestors : Uncounted(b) # {} => ~(Height(b) < Height(a))
  BY <1>1 DEF NextAncestor, SortedBefore, CommitInv, LowestFirst
<1>5. LowestFirst'
  BY <1>1, <1>3, <1>4 DEF CommitInv, LowestFirst
<1>6. /\ ancestors \subseteq graph /\ graph \subseteq Hash
      /\ \A b \in graph : \A p \in Parents(b) : Height(p) < Height(b)
  BY GraphGrounded DEF Grounded, DagInv, GraphInv, VotersInserted
<1>7. ASSUME NEW b \in ancestors, NEW p \in Parents(b) \cap ancestors,
             Unity(p) \notin live', Undecided(p)',
             count'[Unity(p)] >= ThreshSafeEarlyCommit
      PROVE  HeldBack(p)'
  <2>1. p \in graph /\ p \in Hash /\ Unity(p) \in Constraints
    BY <1>6, ConstraintsClosed
  <2>2. CASE Unity(p) # c
    <3>1. /\ Unity(p) \notin live /\ Undecided(p)
          /\ count[Unity(p)] >= ThreshSafeEarlyCommit
      BY <1>1, <1>2, <1>7, <2>1, <2>2 DEF Undecided
    <3>2. PICK d \in ParentConstraints(p) :
                   d \notin live /\ decision[d] # "accepted"
      BY <1>1, <1>7, <3>1 DEF CommitInv, NoneOverdue, HeldBack
    <3>3. d \notin live' /\ decision'[d] # "accepted"
      BY <1>1, <1>2, <3>2
    <3>4. QED
      BY <3>2, <3>3 DEF HeldBack
  <2>3. CASE Unity(p) = c
    <3>1. ~Accepts(c) /\ decision' = decision
      BY <1>2, <1>7, <2>3 DEF Undecided
    <3>2. NewCount(c) >= ThreshSafeEarlyCommit /\ ~HasConflict(c)
      BY <1>2, <1>7, <2>3 DEF HasConflict, IsUnity, Unity
    <3>3. PICK d \in ParentConstraints(p) : decision[d] # "accepted"
      BY <2>1, <2>3, <3>1, <3>2 DEF Accepts, CommitInv, ParentsKept
    <3>4. Height(p) < Height(a)
      <4>1. Unity(p) \in ParentConstraints(a)
        BY <1>1, <2>3 DEF Uncounted
      <4>2. p \in Parents(a)
        BY <4>1, ParentConstraintsOverParents DEF Unity
      <4>3. QED
        BY <1>1, <1>6, <4>2
    <3>5. d \notin live
      BY <1>4, <1>7, <3>3, <3>4 DEF Uncounted
    <3>6. QED
      BY <1>1, <3>1, <3>3, <3>5 DEF HeldBack
  <2>4. QED
    BY <2>2, <2>3
<1>8. NoneOverdue'
  <2> SUFFICES ASSUME recording' # NoVertex,
                      NEW b \in ancestors', NEW p \in Parents(b) \cap ancestors',
                      Unity(p) \notin live', Undecided(p)',
                      count'[Unity(p)] >= ThreshSafeEarlyCommit
               PROVE  HeldBack(p)'
    BY DEF NoneOverdue, Undecided, HeldBack
  <2>1. QED
    BY <1>1, <1>7
<1>9. QED
  BY <1>5, <1>8

(***************************************************************************)
(* reject_progeny accepts nothing and counts nothing.                      *)
(***************************************************************************)
LEMMA RejectingOrdered ==
    ASSUME TypeOK, LowestFirst, NoneOverdue, RejectStep
    PROVE  LowestFirst' /\ NoneOverdue'
<1>1. /\ UNCHANGED <<recording, ancestors, owner, live, count>>
      /\ \A d \in Constraints :
            /\ decision'[d] = "accepted" => decision[d] = "accepted"
            /\ decision'[d] = "undecided" => decision[d] = "undecided"
  BY DEF RejectStep, TypeOK
<1>2. LowestFirst'
  BY <1>1 DEF LowestFirst, Uncounted
<1>3. \A p \in ancestors : Undecided(p)' => Undecided(p)
  BY <1>1, ConstraintsClosed DEF TypeOK, Undecided
<1>4. \A p \in ancestors : HeldBack(p) => HeldBack(p)'
  BY <1>1, ConstraintsClosed DEF TypeOK, HeldBack
<1>5. NoneOverdue'
  <2> SUFFICES ASSUME recording' # NoVertex,
                      NEW b \in ancestors', NEW p \in Parents(b) \cap ancestors',
                      Unity(p) \notin live', Undecided(p)',
                      count'[Unity(p)] >= ThreshSafeEarlyCommit
               PROVE  HeldBack(p)'
    BY DEF NoneOverdue, Undecided, HeldBack
  <2>1. Undecided(p) /\ (HeldBack(p) => HeldBack(p)')
    BY <1>1, <1>3, <1>4
  <2>2. QED
    BY <1>1, <2>1 DEF NoneOverdue
<1>6. QED
  BY <1>2, <1>5

(***************************************************************************)
(* No step breaks the order of the vote loop.                              *)
(***************************************************************************)
LEMMA NextCommitInv ==
    ASSUME DagInv, WellFormedInv, CommitInv, [Next]_vars
    PROVE  CommitInv'
<1> USE DEF CommitInv
<1>1. ParentsKept'
  BY NextParentsKept
<1>2. CASE recording = NoVertex /\ UNCHANGED voteVars
  BY <1>1, <1>2 DEF voteVars, LowestFirst, NoneOverdue
<1>3. ASSUME NEW v \in Hash, SubmitVertex(v) \/ RetryPending(v)
      PROVE  recording = NoVertex /\ UNCHANGED voteVars
  BY <1>3 DEF SubmitVertex, RetryPending, Idle, DagInv, HandlerInv
<1>4. ASSUME NEW v \in Hash, RecordAgainst(v) \/ RecordPanics(v)
      PROVE  recording = NoVertex /\ UNCHANGED voteVars
  BY <1>4 DEF RecordAgainst, RecordPanics, Idle
<1>5. ASSUME NEW v \in Hash, RecordFor(v) PROVE CommitInv'
  BY <1>1, <1>5, RecordingOrdered
<1>6. ASSUME NEW a \in Hash, NEW c \in Constraints, RecordStep(a, c)
      PROVE  CommitInv'
  BY <1>1, <1>6, CountingOrdered
<1>7. CASE RecordUnity
  BY <1>1, <1>7 DEF RecordUnity, LowestFirst, NoneOverdue
<1>8. CASE RejectStep
  BY <1>1, <1>8, RejectingOrdered DEF DagInv
<1>9. CASE UNCHANGED vars
  BY <1>1, <1>9 DEF vars, conflictVars, voteVars, LowestFirst, NoneOverdue,
                    Uncounted, HeldBack, Undecided
<1>10. QED
  BY <1>2, <1>3, <1>4, <1>5, <1>6, <1>7, <1>8, <1>9
     DEF Next, InsertNext, RecordStart, RecordQueryResult, VoteLoop,
         RecordIgnored

(***************************************************************************)
(* The order of the vote loop, at every step.                              *)
(***************************************************************************)
LEMMA CommitInvariant == Spec => []CommitInv
<1>1. Init => CommitInv
  <2> SUFFICES ASSUME Init PROVE CommitInv
    OBVIOUS
  <2>1. ParentConstraints(Genesis) = {}
    <3>1. Parents(Genesis) = {}
      BY ContentAssumption DEF Parents, ParentsOf
    <3>2. QED
      BY <3>1, ContentAssumption, ParentConstraintsOverParents
  <2>2. QED
    BY <2>1, ContentAssumption, ConstraintsClosed
       DEF Init, CommitInv, ParentsKept, LowestFirst, NoneOverdue
<1>2. DagInv /\ WellFormedInv /\ CommitInv /\ [Next]_vars => CommitInv'
  BY NextCommitInv
<1>3. QED
  BY <1>1, <1>2, DagInvariant, WellFormedInvariant, PTL DEF Spec

(***************************************************************************)
(* When the vote loop ends, every vertex it counted that can be committed  *)
(* early is decided.                                                       *)
(***************************************************************************)
LEMMA VoteEnds ==
    ASSUME DagInv, WellFormedInv, CommitInv, RecordUnity,
           NEW a \in ancestors,
           NEW p \in (Parents(a) \cap ancestors) \cup {recording},
           CommitsEarly(p)
    PROVE  decision'[Unity(p)] # "undecided"
<1> DEFINE c == Unity(recording)
<1>1. /\ recording # NoVertex /\ live = {}
      /\ count' = [count EXCEPT ![c] = NewCount(c)]
      /\ decision' = IF Accepts(c) THEN [decision EXCEPT ![c] = "accepted"]
                                   ELSE decision
  BY DEF RecordUnity, CountVote
<1>2. /\ recording \in graph /\ ancestors \subseteq graph /\ graph \subseteq Hash
      /\ \A b \in graph : \A q \in Parents(b) : Height(q) < Height(b)
      /\ \A b \in ancestors : Height(b) <= Height(recording)
  BY <1>1, GraphGrounded
     DEF Grounded, DagInv, GraphInv, VotersInserted, CommitInv, LowestFirst
<1>3. /\ c \in Constraints
      /\ count \in [Constraints -> Nat]
      /\ decision \in [Constraints -> {"undecided", "accepted", "rejected"}]
  BY <1>2, ConstraintsClosed DEF DagInv, TypeOK
<1>4. p \in graph /\ p \in Hash /\ Height(p) <= Height(recording)
  BY <1>2, HashFacts
<1>5. c \notin ParentConstraints(p)
  <2>1. SUFFICES ASSUME recording \in Parents(p) PROVE FALSE
    BY <1>4, ParentConstraintsOverParents DEF Unity
  <2>2. Height(recording) < Height(p)
    BY <1>2, <1>4, <2>1
  <2>3. QED
    BY <1>2, <1>4, <2>2, HashFacts
<1>6. \A d \in ParentConstraints(p) : decision[d] = "accepted"
  BY <1>1, <1>5 DEF CommitsEarly
<1>7. CASE p = recording
  <2>1. NewCount(c) >= ThreshSafeEarlyCommit
    BY <1>1, <1>3, <1>7 DEF CommitsEarly
  <2>2. Accepts(c)
    BY <1>2, <1>6, <1>7, <2>1
       DEF Accepts, HasConflict, IsUnity, Unity, CommitInv, ParentsKept
  <2>3. QED
    BY <1>1, <1>3, <1>7, <2>2
<1>8. CASE p # recording
  <2>1. Unity(p) # c /\ Unity(p) \in Constraints
    BY <1>4, <1>8, ConstraintsClosed DEF Unity
  <2>2. /\ decision'[Unity(p)] = decision[Unity(p)]
        /\ count'[Unity(p)] = count[Unity(p)]
    BY <1>1, <1>3, <2>1
  <2>3. ~HeldBack(p)
    BY <1>6 DEF HeldBack
  <2>4. ~Undecided(p)
    BY <1>1, <1>8, <2>2, <2>3 DEF CommitInv, NoneOverdue, CommitsEarly
  <2>5. QED
    BY <2>2, <2>4 DEF Undecided
<1>9. QED
  BY <1>7, <1>8

(***************************************************************************)
(* Commitment is never late: when a vote has been counted, no vertex of    *)
(* the active ancestry that may be committed early is undecided, whatever  *)
(* polls, rejections and insertions came before.                           *)
(***************************************************************************)
THEOREM EarlyCommitsAreTaken == Spec => EarlyCommitTaken
<1> DEFINE Taken ==
        recording # NoVertex /\ recording' = NoVertex =>
            \A a \in ancestors :
                \A p \in (Parents(a) \cap ancestors) \cup {recording} :
                    CommitsEarly(p) => decision'[Unity(p)] # "undecided"
<1>1. DagInv /\ WellFormedInv /\ CommitInv /\ [Next]_vars => [Taken]_vars
  <2> SUFFICES ASSUME DagInv, WellFormedInv, CommitInv, [Next]_vars,
                      recording # NoVertex, recording' = NoVertex
               PROVE  RecordUnity
    BY VoteEnds
  <2>1. QED
    BY ThresholdAssumption
       DEF Next, InsertNext, RecordStart, RecordQueryResult, VoteLoop, vars,
           voteVars, SubmitVertex, RetryPending, RecordAgainst, RecordFor,
           RecordPanics, RecordIgnored, RecordStep, RejectStep
<1> HIDE DEF Taken
<1>2. Spec => [][Taken]_vars
  BY <1>1, DagInvariant, WellFormedInvariant, CommitInvariant, PTL DEF Spec
<1>3. QED
  BY <1>2 DEF Taken, EarlyCommitTaken

=============================================================================
