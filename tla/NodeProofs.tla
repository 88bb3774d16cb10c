----------------------------- MODULE NodeProofs -----------------------------
(***************************************************************************)
(* Proofs about a node that polls its own frontier, and about a sequencer  *)
(* that builds on it, for every universe of vertices, all thresholds and   *)
(* all answers of the peers.                                               *)
(***************************************************************************)
EXTENDS Sequencer, DecisionProofs

-----------------------------------------------------------------------------
(***************************************************************************)
(* The DAG of a node is a DAG.                                             *)
(***************************************************************************)

GraphFacts == DagInv /\ WellFormedInv /\ PreferenceInv /\ FinalityInv

(***************************************************************************)
(* Every step of a node is a step of its DAG.                              *)
(***************************************************************************)
LEMMA NodeStep == [NodeNext]_nodeVars => [Next]_vars
BY DEF NodeNext, nodeVars, EnoughValidators, Submit, Retry, Record, Count,
       Next, InsertNext, RecordStart

(***************************************************************************)
(* What is proved of every step of the DAG is kept by the steps of a node. *)
(***************************************************************************)
LEMMA NextGraphFacts == GraphFacts /\ [NodeNext]_nodeVars => GraphFacts'
<1>1. GraphFacts /\ [Next]_vars => DagInv' /\ WellFormedInv'
  BY NextDagInv, NextWellFormed DEF GraphFacts
<1>2. GraphFacts /\ [Next]_vars => PreferenceInv'
  BY <1>1, NextPreferenceInv DEF GraphFacts, DagInv
<1>3. GraphFacts /\ [Next]_vars => FinalityInv'
  BY <1>2, NextFinalityInv DEF GraphFacts
<1>4. QED
  BY <1>1, <1>2, <1>3, NodeStep DEF GraphFacts

(***************************************************************************)
(* It holds when a node starts.                                            *)
(***************************************************************************)
LEMMA InitGraphFacts == NodeInit => GraphFacts
<1>1. Init => FinalityInv
  BY DEF Init, FinalityInv, ChildrenRest, Doomed
<1>2. QED
  BY <1>1, InitDagInv, InitWellFormed, InitPreferenceInv
     DEF NodeInit, GraphFacts

(***************************************************************************)
(* What is proved of every step of the DAG holds for a node.               *)
(***************************************************************************)
LEMMA GraphFactsInvariant == NodeSpec => []GraphFacts
BY InitGraphFacts, NextGraphFacts, PTL DEF NodeSpec

-----------------------------------------------------------------------------
(***************************************************************************)
(* What query reports as preferred.                                        *)
(***************************************************************************)

\* a constraint preferred with all that its vertices inherit
Endorsed(c) ==
    /\ preferred[ConflictSetKey(c)] = c
    /\ c[1] \in graph /\ Favours(c[1])
    /\ c[2] \in graph /\ Favours(c[2])

AcceptedEndorsed ==
    \A c \in Constraints : decision[c] = "accepted" => Endorsed(c)

(***************************************************************************)
(* What is active above an undecided parent is active above its child.     *)
(***************************************************************************)
LEMMA ActiveInherited ==
    ASSUME GraphFacts, NEW v \in graph, Undecided(v),
           NEW p \in Parents(v), Undecided(p)
    PROVE  ActiveConstraintsOf(p) \subseteq ActiveConstraintsOf(v)
<1> USE DEF GraphFacts, DagInv
<1>1. /\ graph \subseteq Hash /\ Grounded(graph)
      /\ p \in graph /\ v \in Hash /\ p \in Hash
      /\ Parents(v) \in SUBSET graph /\ Parents(p) \in SUBSET graph
  BY GraphGrounded DEF TypeOK, Grounded
<1>2. Parents(p) # {} /\ Parents(v) # {}
  BY <1>1, GraphGrounded DEF Undecideds
<1> DEFINE low == ToHeight(Parents(v))
           up == ToHeight(Parents(p))
           F == FirstDecided(Undecideds)
<1>3. /\ low \in Nat /\ \A q \in Parents(v) : \A x \in F[q] : low <= Height(x)
      /\ up \in Nat /\ \E q \in Parents(p) : \E x \in F[q] : up = Height(x)
  BY <1>1, <1>2, ToHeightFacts
<1>4. F[p] = UNION {F[q] : q \in Parents(p)}
  <2>1. p \in Undecideds
    BY <1>1 DEF Undecideds
  <2>2. QED
    BY <1>1, <2>1, FirstDecidedEq
<1>5. \A x \in F[p] : x \in graph /\ x \in ProperAncestors(p)
  <2>1. \A x \in F[p] : x \in graph \ Undecideds /\ x \in ProperAncestors(p) \cup {p}
    BY <1>1, FirstDecidedInGraph
  <2>2. p \in Undecideds
    BY <1>1 DEF Undecideds
  <2>3. QED
    BY <2>1, <2>2
<1> HIDE DEF low, up, F
<1>6. PICK x \in F[p] : up = Height(x)
  BY <1>3, <1>4
<1>7. low <= up
  BY <1>3, <1>6
<1>8. low < Height(p)
  <2>1. Height(x) < Height(p)
    BY <1>1, <1>5, AncestorsInside
  <2>2. Height(p) \in Nat
    BY <1>1, HashFacts
  <2>3. QED
    BY <1>3, <1>6, <1>7, <2>1, <2>2
<1>9. Gather(low)[p] = Parents(p) \cup UNION {Gather(low)[q] : q \in Parents(p)}
  <2>1. Height(p) > low
    BY <1>1, <1>3, <1>8, HashFacts
  <2>2. QED
    BY <1>1, <2>1, GatherEq
<1>10. \A q \in Parents(p) : Gather(up)[q] \subseteq Gather(low)[q]
  BY <1>1, <1>3, <1>7, GatherShrinks
<1>11. /\ AncestorsOfParents(Parents(p)) = UNION {Gather(up)[q] : q \in Parents(p)}
       /\ AncestorsOfParents(Parents(v)) = UNION {Gather(low)[q] : q \in Parents(v)}
  BY DEF AncestorsOfParents, low, up
<1>12. Parents(p) \cup AncestorsOfParents(Parents(p))
            \subseteq AncestorsOfParents(Parents(v))
  BY <1>9, <1>10, <1>11
<1>13. ActiveAncestors(Parents(p)) \cup {p} \subseteq ActiveAncestors(Parents(v))
  BY <1>1, <1>12 DEF ActiveAncestors
<1>14. QED
  BY <1>13 DEF ActiveConstraintsOf, ActiveConstraints

(***************************************************************************)
(* Between handlers, a vertex that query reports as preferred inherits     *)
(* preferred orderings only, although query looks no further than the      *)
(* undecided part of its ancestry.                                         *)
(***************************************************************************)
LEMMA QueryFavours ==
    GraphFacts /\ AcceptedEndorsed /\ rejecting = {} =>
        \A v \in graph : QueryPreferred(v) => Favours(v)
<1> SUFFICES ASSUME GraphFacts, AcceptedEndorsed, rejecting = {}
             PROVE  \A v \in graph : QueryPreferred(v) => Favours(v)
  OBVIOUS
<1> DEFINE Q == {v \in graph : QueryPreferred(v) => Favours(v)}
<1>1. graph \subseteq Hash /\ Grounded(graph)
  BY GraphGrounded DEF GraphFacts, DagInv, TypeOK
<1>2. ASSUME NEW v \in graph, Parents(v) \subseteq Q, QueryPreferred(v)
      PROVE  Favours(v)
  <2>1. v \in Hash /\ Unity(v) \in Constraints /\ Unity(v)[1] = v
        /\ Parents(v) \subseteq graph
    BY <1>1, ConstraintsClosed DEF Unity, Grounded
  <2>2. CASE decision[Unity(v)] = "accepted"
    BY <2>1, <2>2 DEF AcceptedEndorsed, Endorsed
  <2>3. CASE Undecided(v) /\ StronglyPreferred(v)
    <3>1. \A c \in ParentConstraints(v) :
              c \in Constraints /\ decision[c] \in {"undecided", "accepted"}
      <4>1. \A c \in ParentConstraints(v) : decision[c] # "rejected"
        BY <2>3 DEF GraphFacts, DagInv, RejectionInv, Tainted
      <4>2. QED
        BY <2>1, <4>1, ConstraintsClosed DEF GraphFacts, DagInv, TypeOK
    <3>2. ASSUME NEW c \in ParentConstraints(v)
          PROVE  preferred[ConflictSetKey(c)] = c
      <4>1. CASE decision[c] = "undecided"
        BY <2>3, <4>1
           DEF StronglyPreferred, ActiveConstraintsOf, ActiveConstraints
      <4>2. CASE decision[c] = "accepted"
        BY <3>1, <4>2 DEF AcceptedEndorsed, Endorsed
      <4>3. QED
        BY <3>1, <4>1, <4>2
    <3>3. ASSUME NEW p \in Parents(v) PROVE Favours(p)
      <4>1. p \in graph /\ p \in Q /\ Unity(p) \in ParentConstraints(v)
        BY <1>2, <2>1, UnityListed
      <4>2. QueryPreferred(p)
        <5>1. CASE Undecided(p)
          <6>1. Unwrappable(p)
            BY <4>1, <5>1, UndecidedUnwrappable DEF GraphFacts
          <6>2. StronglyPreferred(p)
            BY <2>3, <5>1, ActiveInherited DEF StronglyPreferred
          <6>3. QED
            BY <5>1, <6>1, <6>2 DEF QueryPreferred
        <5>2. CASE ~Undecided(p)
          BY <3>1, <4>1, <5>2 DEF Undecided, QueryPreferred
        <5>3. QED
          BY <5>1, <5>2
      <4>3. QED
        BY <4>1, <4>2
    <3>4. ASSUME NEW c \in Inherited(v) PROVE preferred[ConflictSetKey(c)] = c
      <4>1. PICK h \in ProperAncestors(v) \cup {v} : c \in ParentConstraints(h)
        BY <1>1, InheritedFacts
      <4>2. CASE h = v
        BY <3>2, <4>1, <4>2
      <4>3. CASE h \in ProperAncestors(v)
        <5>1. PICK p \in Parents(v) : h \in ProperAncestors(p) \cup {p}
          BY <2>1, <4>3, ProperAncestorsEq
        <5>2. p \in graph
          BY <2>1
        <5>3. Inherited(p) = UNION {ParentConstraints(x) :
                                        x \in ProperAncestors(p) \cup {p}}
          BY <1>1, <5>2, InheritedFacts
        <5>4. c \in Inherited(p)
          BY <4>1, <5>1, <5>3
        <5>5. QED
          BY <3>3, <5>4 DEF Favours
      <4>4. QED
        BY <4>1, <4>2, <4>3
    <3>5. QED
      BY <3>4 DEF Favours
  <2>4. QED
    BY <1>2, <2>2, <2>3 DEF QueryPreferred
<1>3. \A v \in graph : Parents(v) \subseteq Q => v \in Q
  BY <1>2
<1> HIDE DEF Q
<1>4. graph \subseteq Q
  BY <1>1, <1>3, GroundedInduction
<1>5. QED
  BY <1>4 DEF Q

(***************************************************************************)
(* The same of the state after a step.                                     *)
(***************************************************************************)
LEMMA QueryFavoursNext ==
    (GraphFacts /\ AcceptedEndorsed /\ rejecting = {} =>
        \A v \in graph : QueryPreferred(v) => Favours(v))'
BY QueryFavours, PTL

-----------------------------------------------------------------------------
(***************************************************************************)
(* The ordering seen first wins.                                           *)
(***************************************************************************)

\* a conflict set prefers one of its two orderings
SetsKeyed ==
    \A c \in Constraints :
        preferred[ConflictSetKey(c)] \in {NoConstraint, c, Conflict(c)}

\* polls are about vertices that inherit preferred orderings only
PolledFavoured ==
    /\ \A v \in polled : v \in graph /\ Favours(v)
    /\ \A c \in live : Endorsed(c)
    /\ recording \in polled \cup {NoVertex}

\* and rejections about constraints that rest on another one
RejectedUnendorsed ==
    \A c \in Constraints : decision[c] = "rejected" \/ c \in rejecting =>
        /\ Exists(c) /\ c[1] \in graph /\ c[2] \in graph
        /\ ~Endorsed(c)

\* the constraints that rest on another one have a conflict set
ChildrenExist == \A c \in Constraints : \A d \in cchildren[c] : Exists(d)

SeenFirstInv ==
    /\ SetsKeyed /\ ChildrenExist
    /\ PolledFavoured /\ AcceptedEndorsed /\ RejectedUnendorsed

\* no conflict set changes its preference
PreferencesKept ==
    \A k \in Keys : preferred[k] # NoConstraint => preferred'[k] = preferred[k]

(***************************************************************************)
(* A poll that is recorded was started.                                    *)
(***************************************************************************)
LEMMA RecordedPolled ==
    ASSUME GraphFacts, [NodeNext]_nodeVars, NEW v \in Hash, RecordFor(v)
    PROVE  v \in polled
<1>1. /\ v # NoVertex /\ recording = NoVertex /\ recording' = v /\ rejecting = {}
  BY ThresholdAssumption DEF RecordFor, Idle, GraphFacts, DagInv, HandlerInv
<1>2. ~Count /\ ~UNCHANGED voteVars
  BY <1>1 DEF Count, VoteLoop, RecordStep, RecordUnity, RejectStep, voteVars
<1>3. PICK w \in Hash : Record(w)
  BY <1>2 DEF NodeNext, nodeVars, vars, EnoughValidators, Submit, Retry,
              SubmitVertex, RetryPending
<1>4. RecordFor(w)
  BY <1>2, <1>3 DEF Record, RecordQueryResult, RecordAgainst, RecordPanics,
                    RecordIgnored, vars
<1>5. w = v
  BY <1>1, <1>4 DEF RecordFor
<1>6. QED
  BY <1>3, <1>5 DEF Record

(***************************************************************************)
(* Polls are started between two handlers.                                 *)
(***************************************************************************)
LEMMA PolledCases ==
    ASSUME GraphFacts, [NodeNext]_nodeVars
    PROVE  \/ polled' = polled
           \/ polled' = PolledAfter /\ recording' = NoVertex /\ rejecting' = {}
<1>1. ASSUME NEW v \in Hash, Submit(v) \/ Retry(v)
      PROVE  recording' = NoVertex /\ rejecting' = {}
  BY <1>1 DEF Submit, Retry, SubmitVertex, RetryPending, Idle, GraphFacts,
              DagInv, HandlerInv, voteVars
<1>2. QED
  BY <1>1 DEF NodeNext, nodeVars, EnoughValidators, Submit, Retry,
              StartPollsters, Record, Count

(***************************************************************************)
(* A unity constraint is its own conflict set.                             *)
(***************************************************************************)
LEMMA UnityPreferred ==
    ASSUME GraphFacts, SetsKeyed, NEW v \in graph
    PROVE  /\ Unity(v) \in Constraints
           /\ preferred[ConflictSetKey(Unity(v))] = Unity(v)
<1>1. v \in Hash /\ Unity(v) \in Constraints
  BY ConstraintsClosed DEF GraphFacts, DagInv, TypeOK
<1>2. Conflict(Unity(v)) = Unity(v)
  BY DEF Conflict, Unity
<1>3. preferred[ConflictSetKey(Unity(v))] # NoConstraint
  BY DEF GraphFacts, DagInv, RejectionInv, SetsExist, Exists
<1>4. QED
  BY <1>1, <1>2, <1>3 DEF SetsKeyed

(***************************************************************************)
(* What the vote loop counts is endorsed.                                  *)
(***************************************************************************)
LEMMA CountedEndorsed ==
    ASSUME GraphFacts, SetsKeyed, PolledFavoured, NEW c \in Constraints, Counting(c)
    PROVE  Endorsed(c)
<1>1. CASE c \in live
  BY <1>1 DEF PolledFavoured
<1>2. CASE c = Unity(recording)
  <2>1. recording # NoVertex /\ recording \in graph
    BY ThresholdAssumption DEF Counting, GraphFacts, DagInv, TypeOK
  <2>2. recording \in polled /\ Favours(recording)
    BY <2>1 DEF PolledFavoured
  <2>3. c[1] = recording /\ c[2] = recording
    BY <1>2 DEF Unity
  <2>4. QED
    BY <1>2, <2>1, <2>2, <2>3, UnityPreferred DEF Endorsed
<1>3. QED
  BY <1>1, <1>2 DEF Counting

(***************************************************************************)
(* No step changes a preference, and the sets prefer one of their own.     *)
(***************************************************************************)
LEMMA NextPreferences ==
    ASSUME GraphFacts, SeenFirstInv, [NodeNext]_nodeVars
    PROVE  PreferencesKept /\ SetsKeyed'
<1> USE DEF GraphFacts, DagInv, SeenFirstInv
<1>1. preferred \in [Keys -> Constraints \cup {NoConstraint}]
  BY DEF TypeOK
<1>2. CASE preferred' = preferred
  BY <1>2 DEF PreferencesKept, SetsKeyed
<1>3. ASSUME NEW v \in Hash, Insert(v) PROVE PreferencesKept /\ SetsKeyed'
  <2> DEFINE new == {d \in ParentConstraints(v) \cup {Unity(v)} : ~Exists(d)}
             created == {ConflictSetKey(d) : d \in new}
             initial(k) == CHOOSE d \in new : ConflictSetKey(d) = k
  <2>1. preferred' = [k \in Keys |-> IF k \in created THEN initial(k)
                                                      ELSE preferred[k]]
    BY <1>3 DEF Insert, NewConflictSets
  <2>2. new \subseteq Constraints
    BY ConstraintsClosed
  <2>3. \A k \in created : initial(k) \in new /\ ConflictSetKey(initial(k)) = k
    OBVIOUS
  <2>4. \A k \in created : preferred[k] = NoConstraint
    BY DEF Exists
  <2>5. PreferencesKept
    <3> HIDE DEF created, initial
    <3> QED
      BY <2>1, <2>4 DEF PreferencesKept
  <2>6. ASSUME NEW c \in Constraints
        PROVE  preferred'[ConflictSetKey(c)] \in {NoConstraint, c, Conflict(c)}
    <3> DEFINE k == ConflictSetKey(c)
    <3>1. k \in Keys
      BY ConstraintsClosed
    <3>2. CASE k \in created
      <4>1. preferred'[k] = initial(k)
        <5> HIDE DEF created, initial, k
        <5> QED
          BY <2>1, <3>1, <3>2
      <4>2. initial(k) \in Constraints /\ ConflictSetKey(c) = ConflictSetKey(initial(k))
        BY <2>2, <2>3, <3>2
      <4> HIDE DEF initial
      <4>3. QED
        BY <4>1, <4>2, SameSet
    <3>3. CASE k \notin created
      <4>1. preferred'[k] = preferred[k]
        <5> HIDE DEF created, initial, k
        <5> QED
          BY <2>1, <3>1, <3>3
      <4>2. QED
        BY <4>1 DEF SetsKeyed
    <3>4. QED
      BY <3>2, <3>3
  <2>7. QED
    BY <2>5, <2>6 DEF SetsKeyed
<1>4. ASSUME NEW c \in Constraints, Counting(c) PROVE preferred' = preferred
  <2>1. preferred[ConflictSetKey(c)] = c
    BY <1>4, CountedEndorsed DEF Endorsed
  <2>2. QED
    BY <1>1, <1>4, <2>1, ConstraintsClosed DEF Counting, CountVote
<1>5. QED
  BY <1>2, <1>3, <1>4, NodeStep, StepCases
     DEF Inserting, RecordAgainst, RecordFor, RejectStep, Quiet, conflictVars

(***************************************************************************)
(* What a vertex of the graph favours, and what is endorsed, stays so.     *)
(***************************************************************************)
LEMMA EndorsementKept ==
    ASSUME GraphFacts, PreferencesKept, graph \subseteq graph'
    PROVE  /\ \A v \in graph : Favours(v)' <=> Favours(v)
           /\ \A c \in Constraints : Exists(c) /\ c[1] \in graph /\ c[2] \in graph
                => Exists(c)' /\ (Endorsed(c)' <=> Endorsed(c))
           /\ \A c \in Constraints : Endorsed(c)
                => Endorsed(c)' /\ Exists(c) /\ Exists(c)'
<1> USE DEF GraphFacts, DagInv
<1>1. Grounded(graph)
  BY GraphGrounded
<1>2. \A c \in Constraints : ConflictSetKey(c) \in Keys /\ c # NoConstraint
  BY ConstraintsClosed DEF NoConstraint
<1>3. ASSUME NEW v \in graph, NEW c \in Inherited(v)
      PROVE  preferred'[ConflictSetKey(c)] = preferred[ConflictSetKey(c)]
  <2>1. PICK h \in ProperAncestors(v) \cup {v} : c \in ParentConstraints(h)
    BY <1>1, InheritedFacts
  <2>2. h \in graph
    BY <1>1, AncestorsInside
  <2>3. Exists(c) /\ c \in Constraints
    BY <1>1, <2>1, <2>2, InheritedFacts DEF RejectionInv, SetsExist
  <2>4. QED
    BY <1>2, <2>3 DEF PreferencesKept, Exists
<1>4. ASSUME NEW v \in graph PROVE Favours(v)' <=> Favours(v)
  BY <1>3 DEF Favours
<1>5. ASSUME NEW c \in Constraints, Exists(c)
      PROVE  preferred'[ConflictSetKey(c)] = preferred[ConflictSetKey(c)]
  BY <1>2, <1>5 DEF PreferencesKept, Exists
<1>6. \A c \in Constraints : Exists(c) /\ c[1] \in graph /\ c[2] \in graph
                => Exists(c)' /\ (Endorsed(c)' <=> Endorsed(c))
  BY <1>4, <1>5 DEF Endorsed, Exists
<1>7. \A c \in Constraints : Endorsed(c) =>
            Exists(c) /\ c[1] \in graph /\ c[2] \in graph
  BY <1>2 DEF Endorsed, Exists
<1>8. QED
  BY <1>4, <1>6, <1>7

(***************************************************************************)
(* What a constraint rests on is endorsed with it.                         *)
(***************************************************************************)
LEMMA EndorsedParents ==
    GraphFacts => \A c \in Constraints : Endorsed(c) =>
                    \A p \in ConstraintParents(c) : Endorsed(p)
<1> SUFFICES ASSUME GraphFacts, NEW c \in Constraints, Endorsed(c),
                    NEW p \in ConstraintParents(c)
             PROVE  Endorsed(p)
  OBVIOUS
<1>1. Grounded(graph)
  BY GraphGrounded DEF GraphFacts, DagInv
<1>2. PICK x \in {c[1], c[2]} : p \in ParentConstraints(x)
  BY DEF ConstraintParents
<1>3. x \in graph /\ Favours(x)
  BY DEF Endorsed
<1>4. /\ p \in Inherited(x)
      /\ \A y \in ProperAncestors(x) : y \in graph /\ Inherited(y) \subseteq Inherited(x)
      /\ p[1] \in ProperAncestors(x) /\ p[2] \in ProperAncestors(x)
  BY <1>1, <1>2, <1>3, InheritedFacts, AncestorsInside
<1>5. QED
  BY <1>3, <1>4 DEF Endorsed, Favours

(***************************************************************************)
(* The same of the state after a step.                                     *)
(***************************************************************************)
LEMMA EndorsedParentsNext ==
    (GraphFacts => \A c \in Constraints : Endorsed(c) =>
                    \A p \in ConstraintParents(c) : Endorsed(p))'
BY EndorsedParents, PTL

(***************************************************************************)
(* insert only rejects what rests on a rejected constraint.                *)
(***************************************************************************)
LEMMA InsertReason ==
    ASSUME TypeOK, NEW v \in Hash, Insert(v), ~Exists(Unity(v)),
           Unity(v) \notin ParentConstraints(v),
           NEW c \in Constraints, decision'[c] = "rejected", decision[c] # "rejected"
    PROVE  \/ /\ c \in ParentConstraints(v)
              /\ \E p \in ConstraintParents(c) :
                    p \in Constraints /\ decision[p] = "rejected"
           \/ /\ c = Unity(v)
              /\ \E p \in ParentConstraints(v) : decision'[p] = "rejected"
<1> DEFINE onParents == [d \in Constraints |->
                IF /\ d \in ParentConstraints(v) /\ ~Exists(d)
                   /\ \E p \in ConstraintParents(d) : decision[p] = "rejected"
                THEN "rejected" ELSE decision[d]]
<1>1. decision' =
        IF \E p \in ParentConstraints(v) : onParents[p] = "rejected"
        THEN [onParents EXCEPT ![Unity(v)] = "rejected"]
        ELSE onParents
  BY DEF Insert, NewConflictSets, DecisionOnInsert
<1>2. ParentConstraints(v) \subseteq Constraints
  BY ConstraintsClosed
<1>3. DOMAIN onParents = Constraints
  OBVIOUS
<1>4. onParents[c] = "rejected" =>
         /\ c \in ParentConstraints(v)
         /\ \E p \in ConstraintParents(c) :
                p \in Constraints /\ decision[p] = "rejected"
  BY ConstraintsClosed
<1> HIDE DEF onParents
<1>5. CASE c = Unity(v)
  BY <1>1, <1>2, <1>3, <1>4, <1>5
<1>6. CASE c # Unity(v)
  BY <1>1, <1>3, <1>4, <1>6
<1>7. QED
  BY <1>5, <1>6

(***************************************************************************)
(* The children that insert enters have their conflict sets.               *)
(***************************************************************************)
LEMMA NextChildrenExist ==
    ASSUME GraphFacts, DagInv', PreferencesKept, ChildrenExist, [Next]_vars
    PROVE  ChildrenExist'
<1> USE DEF GraphFacts, DagInv
<1>1. \A c \in Constraints : Exists(c) => Exists(c)'
  BY ConstraintsClosed DEF PreferencesKept, Exists
<1>2. CASE cchildren' = cchildren
  BY <1>1, <1>2 DEF ChildrenExist, TypeOK
<1>3. ASSUME NEW v \in Hash, Inserting(v) PROVE ChildrenExist'
  <2>1. \A c \in Constraints : \A d \in cchildren'[c] :
            d \in cchildren[c] \/ d \in ParentConstraints(v) \cup {Unity(v)}
    BY <1>3 DEF Inserting, Insert, NewConflictSets
  <2>2. v \in graph'
    BY <1>3, InsertingNew
  <2>3. \A d \in ParentConstraints(v) \cup {Unity(v)} : Exists(d)'
    BY <2>2 DEF RejectionInv, SetsExist
  <2>4. QED
    BY <1>1, <2>1, <2>3 DEF ChildrenExist, TypeOK
<1>4. QED
  BY <1>2, <1>3, StepCases
     DEF RecordAgainst, RecordFor, Counting, CountVote, RejectStep, Quiet,
         conflictVars

(***************************************************************************)
(* What a poll in favour of v has counted is endorsed.                     *)
(***************************************************************************)
LEMMA RecordedEndorsed ==
    ASSUME GraphFacts, NEW v \in graph, Favours(v)
    PROVE  \A c \in ActiveConstraintsOf(v) : Endorsed(c)
<1>1. Grounded(graph) /\ Parents(v) \in SUBSET graph
  BY GraphGrounded DEF GraphFacts, DagInv, Grounded
<1>2. ASSUME NEW c \in ActiveConstraintsOf(v) PROVE Endorsed(c)
  <2>1. \A h \in ActiveAncestors(Parents(v)) : h \in ProperAncestors(v)
    <3>1. v \in Hash
      BY <1>1 DEF Grounded
    <3>2. QED
      BY <1>1, <3>1, ActiveAncestry, ProperAncestorsEq DEF GraphFacts, DagInv
  <2>2. c \in Inherited(v)
    BY <1>1, <2>1, InheritedFacts DEF ActiveConstraintsOf, ActiveConstraints
  <2>3. /\ c[1] \in ProperAncestors(v) /\ c[2] \in ProperAncestors(v)
        /\ \A x \in ProperAncestors(v) :
                x \in graph /\ Inherited(x) \subseteq Inherited(v)
    BY <1>1, <2>2, InheritedFacts, AncestorsInside
  <2>4. QED
    BY <2>2, <2>3 DEF Favours, Endorsed
<1>3. QED
  BY <1>2

(***************************************************************************)
(* What is accepted and what is counted is endorsed after each step.       *)
(***************************************************************************)
LEMMA NextEndorsed ==
    ASSUME GraphFacts, SeenFirstInv, PreferencesKept, graph \subseteq graph',
           [NodeNext]_nodeVars
    PROVE  AcceptedEndorsed' /\ \A c \in live' : Endorsed(c)'
<1> USE DEF GraphFacts, DagInv, SeenFirstInv
<1>1. \A c \in Constraints : Endorsed(c) => Endorsed(c)'
  BY EndorsementKept
<1>2. /\ live \subseteq Constraints /\ \A c \in live : Endorsed(c)
      /\ \A c \in Constraints : decision[c] = "accepted" => Endorsed(c)
      /\ decision \in [Constraints -> {"undecided", "accepted", "rejected"}]
  BY DEF TypeOK, PolledFavoured, AcceptedEndorsed
<1>3. ASSUME \A c \in Constraints :
                decision'[c] = "accepted" => decision[c] = "accepted"
      PROVE  AcceptedEndorsed'
  BY <1>1, <1>2, <1>3 DEF AcceptedEndorsed
<1>4. ASSUME live' \subseteq live PROVE \A c \in live' : Endorsed(c)'
  BY <1>1, <1>2, <1>4
<1>5. ASSUME NEW v \in Hash, Inserting(v)
      PROVE  AcceptedEndorsed' /\ \A c \in live' : Endorsed(c)'
  <2>1. \A c \in Constraints : decision'[c] = "accepted" => decision[c] = "accepted"
    BY <1>2, <1>5, InsertingNew, InsertDecision DEF Inserting
  <2>2. QED
    BY <1>3, <1>4, <1>5, <2>1 DEF Inserting, voteVars
<1>6. ASSUME NEW v \in Hash, RecordAgainst(v)
      PROVE  AcceptedEndorsed' /\ \A c \in live' : Endorsed(c)'
  BY <1>3, <1>4, <1>6 DEF RecordAgainst, voteVars
<1>7. ASSUME NEW v \in Hash, RecordFor(v)
      PROVE  AcceptedEndorsed' /\ \A c \in live' : Endorsed(c)'
  <2>1. v \in graph /\ Favours(v)
    BY <1>7, RecordedPolled DEF PolledFavoured
  <2>2. live' = ActiveConstraintsOf(v) /\ live' \subseteq Constraints
    BY <1>7, ActiveTypes DEF RecordFor
  <2>3. QED
    BY <1>1, <1>3, <1>7, <2>1, <2>2, RecordedEndorsed DEF RecordFor
<1>8. ASSUME NEW c \in Constraints, Counting(c)
      PROVE  AcceptedEndorsed' /\ \A d \in live' : Endorsed(d)'
  <2>1. Endorsed(c)'
    BY <1>1, <1>8, CountedEndorsed
  <2>2. \A d \in Constraints \ {c} : decision'[d] = decision[d]
    BY <1>2, <1>8 DEF Counting, CountVote
  <2>3. AcceptedEndorsed'
    BY <1>1, <1>2, <2>1, <2>2 DEF AcceptedEndorsed
  <2>4. QED
    BY <1>4, <1>8, <2>3 DEF Counting
<1>9. CASE RejectStep
  <2>1. \A c \in Constraints : decision'[c] = "accepted" => decision[c] = "accepted"
    BY <1>9 DEF RejectStep
  <2>2. QED
    BY <1>3, <1>4, <1>9, <2>1 DEF RejectStep
<1>10. CASE Quiet
  BY <1>3, <1>4, <1>10 DEF Quiet, conflictVars, voteVars
<1>11. QED
  BY <1>5, <1>6, <1>7, <1>8, <1>9, <1>10, NodeStep, StepCases

(***************************************************************************)
(* What is rejected, or about to be, is unendorsed after each step.        *)
(***************************************************************************)
LEMMA NextRejected ==
    ASSUME GraphFacts, GraphFacts', SeenFirstInv, PreferencesKept, SetsKeyed',
           graph \subseteq graph', [Next]_vars
    PROVE  RejectedUnendorsed'
<1> USE DEF GraphFacts, DagInv, SeenFirstInv
<1> DEFINE Out(c) == /\ Exists(c)' /\ c[1] \in graph' /\ c[2] \in graph'
                     /\ ~Endorsed(c)'
<1>1. \A c \in Constraints : decision[c] = "rejected" \/ c \in rejecting => Out(c)
  BY EndorsementKept DEF RejectedUnendorsed
<1>2. decision \in [Constraints -> {"undecided", "accepted", "rejected"}]
      /\ rejecting' \subseteq Constraints
  BY DEF TypeOK
<1>3. \A c \in Constraints : \A p \in ConstraintParents(c) :
            p \in Constraints /\ (Endorsed(c)' => Endorsed(p)')
  BY EndorsedParentsNext, ConstraintsClosed
<1>4. ASSUME \A c \in Constraints : decision'[c] = "rejected"
                    => decision[c] = "rejected" \/ c \in rejecting \/ Out(c),
             \A c \in rejecting' : c \in rejecting \/ Out(c)
      PROVE  RejectedUnendorsed'
  BY <1>1, <1>2, <1>4 DEF RejectedUnendorsed
<1> HIDE DEF Out
<1>5. ASSUME NEW v \in Hash, Inserting(v) PROVE RejectedUnendorsed'
  <2>1. /\ Unity(v) \notin ParentConstraints(v) /\ ~Exists(Unity(v)) /\ v \in graph'
        /\ Unity(v) \in Constraints /\ ParentConstraints(v) \subseteq Constraints
        /\ Parents(v) \subseteq graph
    BY <1>5, InsertingNew, ConstraintsClosed
  <2>2. \A c \in ParentConstraints(v) \cup {Unity(v)} :
            Exists(c)' /\ c[1] \in graph' /\ c[2] \in graph'
    <3>1. \A c \in ParentConstraints(v) \cup {Unity(v)} : Exists(c)'
      BY <2>1 DEF RejectionInv, SetsExist
    <3>2. QED
      BY <2>1, <3>1, ParentConstraintsOverParents DEF Unity
  <2>3. ASSUME NEW c \in ParentConstraints(v), decision'[c] = "rejected"
        PROVE  Out(c)
    <3>1. CASE decision[c] = "rejected"
      BY <1>1, <2>1, <3>1
    <3>2. CASE decision[c] # "rejected"
      <4>1. PICK p \in ConstraintParents(c) :
                p \in Constraints /\ decision[p] = "rejected"
        BY <1>5, <2>1, <2>3, <3>2, InsertReason DEF Inserting
      <4>2. ~Endorsed(p)'
        BY <1>1, <4>1 DEF Out
      <4>3. ~Endorsed(c)'
        BY <1>3, <2>1, <4>1, <4>2
      <4>4. QED
        BY <2>2, <4>3 DEF Out
    <3>3. QED
      BY <3>1, <3>2
  <2>4. ASSUME NEW c \in Constraints, decision'[c] = "rejected",
               decision[c] # "rejected"
        PROVE  Out(c)
    <3>1. CASE c \in ParentConstraints(v)
      BY <2>3, <2>4, <3>1
    <3>2. CASE c \notin ParentConstraints(v)
      <4>1. c = Unity(v) /\ \E p \in ParentConstraints(v) : decision'[p] = "rejected"
        BY <1>5, <2>1, <2>4, <3>2, InsertReason DEF Inserting
      <4>2. PICK p \in ParentConstraints(v) : decision'[p] = "rejected"
        BY <4>1
      <4>3. ~Endorsed(p)' /\ p \in ConstraintParents(c)
        BY <2>3, <4>1, <4>2, UnityFacts DEF Out
      <4>4. ~Endorsed(c)'
        BY <1>3, <4>3
      <4>5. QED
        BY <2>2, <4>1, <4>4 DEF Out
    <3>3. QED
      BY <3>1, <3>2
  <2>5. rejecting' = rejecting
    BY <1>5 DEF Inserting, voteVars
  <2>6. QED
    BY <1>4, <2>4, <2>5
<1>6. ASSUME NEW c \in Constraints, Counting(c) PROVE RejectedUnendorsed'
  <2>1. Endorsed(c)' /\ Endorsed(c)
    BY <1>6, CountedEndorsed, EndorsementKept
  <2>2. ASSUME NEW d \in rejecting' PROVE Out(d)
    <3>1. d = Conflict(c) /\ ~IsUnity(c)
      BY <1>6, <2>2 DEF Counting, CountVote, ToReject
    <3>2. /\ ConflictSetKey(d) = ConflictSetKey(c) /\ d # c
          /\ d[1] = c[2] /\ d[2] = c[1]
      <4>1. c = <<c[1], c[2]>>
        BY ConstraintsClosed
      <4>2. QED
        BY <3>1, <4>1 DEF IsUnity, Conflict, ConflictSetKey
    <3>3. Exists(c)'
      BY <2>1, EndorsementKept
    <3>4. QED
      BY <2>1, <3>2, <3>3 DEF Out, Endorsed, Exists
  <2>3. \A d \in Constraints : decision'[d] = "rejected" => decision[d] = "rejected"
    BY <1>2, <1>6 DEF Counting, CountVote
  <2>4. QED
    BY <1>4, <2>2, <2>3
<1>7. CASE RejectStep
  <2>1. \A c \in Constraints : decision'[c] = "rejected"
                    => decision[c] = "rejected" \/ c \in rejecting
    BY <1>7 DEF RejectStep
  <2>2. ASSUME NEW d \in rejecting' PROVE Out(d)
    <3>1. PICK r \in rejecting : d \in cchildren[r]
      BY <1>7, <2>2 DEF RejectStep, NextGeneration
    <3>2. r \in Constraints /\ d \in Constraints
      BY <1>2, <3>1 DEF TypeOK
    <3>3. /\ Exists(d) /\ d[1] \in graph /\ d[2] \in graph
          /\ r \in ConstraintParents(d)
      BY <3>1, <3>2 DEF ChildrenExist, FinalityInv, ChildrenRest
    <3>4. ~Endorsed(r)'
      BY <1>1, <3>1, <3>2 DEF Out
    <3>5. ~Endorsed(d)'
      BY <1>3, <3>2, <3>3, <3>4
    <3>6. QED
      BY <3>2, <3>3, <3>5, EndorsementKept DEF Out
  <2>3. QED
    BY <1>4, <2>1, <2>2
<1>8. CASE decision' = decision /\ rejecting' = rejecting
  BY <1>4, <1>8
<1>9. QED
  BY <1>5, <1>6, <1>7, <1>8, StepCases
     DEF RecordAgainst, RecordFor, Quiet, conflictVars, voteVars

(***************************************************************************)
(* No step of a node breaks the invariant.                                 *)
(***************************************************************************)
LEMMA NextSeenFirst ==
    ASSUME GraphFacts, GraphFacts', SeenFirstInv, [NodeNext]_nodeVars
    PROVE  SeenFirstInv'
<1>1. graph \subseteq graph' /\ [Next]_vars
  BY NodeStep, DecisionsGrow DEF GraphFacts
<1>2. PreferencesKept /\ SetsKeyed'
  BY NextPreferences
<1>3. ChildrenExist'
  BY <1>1, <1>2, NextChildrenExist DEF GraphFacts, SeenFirstInv
<1>4. AcceptedEndorsed' /\ \A c \in live' : Endorsed(c)'
  BY <1>1, <1>2, NextEndorsed
<1>5. RejectedUnendorsed'
  BY <1>1, <1>2, NextRejected
<1>6. \A v \in polled' : v \in graph' /\ Favours(v)'
  <2>1. \A v \in polled : v \in graph' /\ Favours(v)'
    BY <1>1, <1>2, EndorsementKept DEF SeenFirstInv, PolledFavoured
  <2>2. CASE polled' = polled
    BY <2>1, <2>2
  <2>3. CASE polled' = PolledAfter /\ rejecting' = {}
    <3>1. polled' = polled \cup {v \in frontier' : QueryPreferred(v)'}
      BY <2>3 DEF PolledAfter, GetFrontier
    <3>2. frontier' \subseteq graph'
      BY DEF GraphFacts, DagInv, GraphInv, ChildMapExact
    <3>3. \A v \in graph' : QueryPreferred(v)' => Favours(v)'
      BY <1>4, <2>3, QueryFavoursNext
    <3>4. QED
      BY <2>1, <3>1, <3>2, <3>3
  <2>4. QED
    BY <2>2, <2>3, PolledCases
<1>7. recording' \in polled' \cup {NoVertex}
  <2>1. polled \subseteq polled'
    BY PolledCases DEF PolledAfter
  <2>2. recording \in polled' \cup {NoVertex}
    BY <2>1 DEF SeenFirstInv, PolledFavoured
  <2>3. ASSUME NEW v \in Hash, RecordFor(v) PROVE recording' \in polled'
    BY <2>1, <2>3, RecordedPolled DEF RecordFor
  <2>4. recording' \in {recording, NoVertex} \/ \E v \in Hash : RecordFor(v)
    BY <1>1, StepCases DEF GraphFacts, Inserting, RecordAgainst, Counting,
                           RejectStep, Quiet, voteVars
  <2>5. QED
    BY <2>2, <2>3, <2>4
<1>8. QED
  BY <1>2, <1>3, <1>4, <1>5, <1>6, <1>7 DEF SeenFirstInv, PolledFavoured

(***************************************************************************)
(* At first only genesis, which inherits nothing, is accepted.             *)
(***************************************************************************)
LEMMA InitSeenFirst == NodeInit => SeenFirstInv
<1> SUFFICES ASSUME Init, polled = {} PROVE SeenFirstInv
  BY DEF NodeInit
<1>1. Genesis \in Hash /\ Unity(Genesis) \in Constraints
      /\ Parents(Genesis) = {} /\ ParentConstraints(Genesis) = {}
  BY ContentAssumption, ConstraintsClosed
     DEF Parents, ParentsOf, ParentConstraints, ParentConstraintsOf, ConstraintsOf
<1>2. ConflictSetKey(Unity(Genesis)) = {Genesis} /\ {Genesis} \in Keys
  <2>1. ConflictSetKey(Unity(Genesis)) = {Genesis}
    BY DEF ConflictSetKey, Unity
  <2>2. QED
    BY <1>1, <2>1, ConstraintsClosed
<1>3. SetsKeyed
  <2>1. ASSUME NEW c \in Constraints
        PROVE  preferred[ConflictSetKey(c)] \in {NoConstraint, c, Conflict(c)}
    <3>1. ConflictSetKey(c) \in Keys
      BY ConstraintsClosed
    <3>2. CASE ConflictSetKey(c) = {Genesis}
      <4>1. c = Unity(Genesis)
        BY <1>1, <1>2, <3>2, UnityFacts
      <4>2. QED
        BY <3>1, <3>2, <4>1 DEF Init
    <3>3. CASE ConflictSetKey(c) # {Genesis}
      BY <3>1, <3>3 DEF Init
    <3>4. QED
      BY <3>2, <3>3
  <2>2. QED
    BY <2>1 DEF SetsKeyed
<1>4. Endorsed(Unity(Genesis))
  <2>1. ProperAncestors(Genesis) = {}
    BY <1>1, ProperAncestorsEq
  <2>2. Inherited(Genesis) = {}
    BY <1>1, <2>1 DEF Inherited, InheritedOf
  <2>3. preferred[{Genesis}] = Unity(Genesis)
    BY <1>2 DEF Init
  <2>4. Unity(Genesis)[1] = Genesis /\ Unity(Genesis)[2] = Genesis
    BY DEF Unity
  <2>5. QED
    BY <1>2, <2>2, <2>3, <2>4 DEF Endorsed, Favours, Init
<1>5. \A c \in Constraints : /\ decision[c] # "rejected"
                             /\ decision[c] = "accepted" => c = Unity(Genesis)
                             /\ cchildren[c] = {}
  BY DEF Init
<1>6. QED
  BY <1>3, <1>4, <1>5
     DEF Init, SeenFirstInv, ChildrenExist, PolledFavoured, AcceptedEndorsed,
         RejectedUnendorsed

(***************************************************************************)
(* The invariant of a node, at every step of every handler.                *)
(***************************************************************************)
LEMMA SeenFirstInvariant == NodeSpec => []SeenFirstInv
<1>1. GraphFacts /\ GraphFacts' /\ SeenFirstInv /\ [NodeNext]_nodeVars
            => SeenFirstInv'
  BY NextSeenFirst
<1>2. QED
  BY <1>1, InitSeenFirst, GraphFactsInvariant, PTL DEF NodeSpec

(***************************************************************************)
(* The preferred ordering of a conflict set is the one that was inserted   *)
(* first, for ever: every poll of a node is about vertices that inherit    *)
(* the preferred orderings, so it can only confirm them.                   *)
(***************************************************************************)
THEOREM FirstSeenStays == NodeSpec => FirstSeenPreferred
<1>1. GraphFacts /\ SeenFirstInv /\ [NodeNext]_nodeVars
         => [\A k \in Keys : preferred[k] # NoConstraint
                                => preferred'[k] = preferred[k]]_nodeVars
  BY NextPreferences DEF PreferencesKept
<1>2. QED
  BY <1>1, GraphFactsInvariant, SeenFirstInvariant, PTL
     DEF NodeSpec, FirstSeenPreferred

(***************************************************************************)
(* Whatever query reports as preferred, hence whatever a node accepts,     *)
(* polls or builds on, inherits no ordering but the preferred one of its   *)
(* conflict set.                                                           *)
(***************************************************************************)
THEOREM PreferredIsFavoured == NodeSpec => []PreferredThroughout
<1>1. GraphFacts /\ SeenFirstInv => PreferredThroughout
  <2>1. SUFFICES ASSUME GraphFacts, SeenFirstInv, Idle
                 PROVE  \A v \in graph : QueryPreferred(v) => Favours(v)
    BY DEF PreferredThroughout
  <2>2. rejecting = {} /\ AcceptedEndorsed
    BY <2>1 DEF Idle, GraphFacts, DagInv, HandlerInv, SeenFirstInv
  <2>3. QED
    BY <2>1, <2>2, QueryFavours
<1>2. QED
  BY <1>1, GraphFactsInvariant, SeenFirstInvariant, PTL

-----------------------------------------------------------------------------
(***************************************************************************)
(* Decisions are final.                                                    *)
(***************************************************************************)

(***************************************************************************)
(* A step decides only what is undecided.                                  *)
(***************************************************************************)
LEMMA DecidedStays ==
    ASSUME GraphFacts, SeenFirstInv, [NodeNext]_nodeVars,
           NEW v \in Hash, ~Undecided(v)
    PROVE  decision'[Unity(v)] = decision[Unity(v)]
<1> USE DEF GraphFacts, DagInv, SeenFirstInv
<1> DEFINE c == Unity(v)
<1>1. /\ c \in Constraints
      /\ decision \in [Constraints -> {"undecided", "accepted", "rejected"}]
  BY ConstraintsClosed DEF TypeOK
<1>2. \/ decision[c] = "accepted" /\ Endorsed(c)
      \/ decision[c] = "rejected" /\ ~Endorsed(c)
  BY <1>1 DEF Undecided, AcceptedEndorsed, RejectedUnendorsed
<1>3. Exists(c)
  <2>1. CASE Endorsed(c)
    <3>1. c # NoConstraint
      BY <1>1, ConstraintsClosed DEF NoConstraint
    <3>2. QED
      BY <2>1, <3>1 DEF Endorsed, Exists
  <2>2. CASE decision[c] = "rejected"
    BY <1>1, <2>2 DEF RejectedUnendorsed
  <2>3. QED
    BY <1>2, <2>1, <2>2
<1> HIDE DEF c
<1>4. ASSUME NEW w \in Hash, Inserting(w) PROVE decision'[c] = decision[c]
  BY <1>1, <1>3, <1>4, InsertingNew, InsertDecision DEF Inserting
<1>5. ASSUME NEW d \in Constraints, Counting(d) PROVE decision'[c] = decision[c]
  <2>1. Endorsed(d)
    BY <1>5, CountedEndorsed
  <2>2. \/ decision' = decision
        \/ decision' = [decision EXCEPT ![d] = "accepted"]
    BY <1>5 DEF Counting, CountVote
  <2>3. QED
    BY <1>1, <1>2, <2>1, <2>2
<1>6. ASSUME RejectStep PROVE decision'[c] = decision[c]
  <2>1. decision'[c] = IF c \in rejecting THEN "rejected" ELSE decision[c]
    BY <1>1, <1>6 DEF RejectStep
  <2>2. QED
    BY <1>1, <1>2, <2>1 DEF RejectedUnendorsed
<1>7. decision'[c] = decision[c]
  BY <1>4, <1>5, <1>6, NodeStep, StepCases
     DEF RecordAgainst, RecordFor, Quiet, conflictVars
<1>8. QED
  BY <1>7 DEF c

(***************************************************************************)
(* What a node has decided about a vertex is final, as query's second      *)
(* result says, although reject_progeny marks whatever it reaches.         *)
(***************************************************************************)
THEOREM DecisionsAreFinal == NodeSpec => DecisionFinal
<1>1. GraphFacts /\ SeenFirstInv /\ [NodeNext]_nodeVars
         => [\A v \in Hash : ~Undecided(v) =>
                decision'[Unity(v)] = decision[Unity(v)]]_vars
  BY DecidedStays
<1>2. QED
  BY <1>1, GraphFactsInvariant, SeenFirstInvariant, PTL
     DEF NodeSpec, DecisionFinal

-----------------------------------------------------------------------------
(***************************************************************************)
(* Searches that are unwrapped.                                            *)
(***************************************************************************)

(***************************************************************************)
(* Below vertices that favour all they inherit, nothing is rejected.       *)
(***************************************************************************)
LEMMA FavouredUnrejected ==
    ASSUME GraphFacts, SeenFirstInv, NEW P \in SUBSET graph,
           \A p \in P : \A h \in ProperAncestors(p) \cup {p} : Favours(h)
    PROVE  ~RejectedAncestor(P)
<1> SUFFICES ASSUME RejectedAncestor(P) PROVE FALSE
  OBVIOUS
<1>1. PICK h \in DecidedBelow(P) : decision[Unity(h)] = "rejected"
  BY DEF RejectedAncestor
<1>2. DecidedBelow(P) = UNION {FirstDecided(Undecideds)[p] : p \in P}
  BY DEF DecidedBelow, Undecideds
<1>3. PICK p \in P : h \in FirstDecided(Undecideds)[p]
  BY <1>1, <1>2
<1>4. h \in graph /\ h \in ProperAncestors(p) \cup {p}
  BY <1>3, FirstDecidedInGraph DEF GraphFacts, DagInv
<1>5. Favours(h)
  BY <1>4
<1>6. Unity(h) \in Constraints /\ preferred[ConflictSetKey(Unity(h))] = Unity(h)
  BY <1>4, UnityPreferred DEF SeenFirstInv
<1>7. Endorsed(Unity(h))
  BY <1>4, <1>5, <1>6 DEF Endorsed, Unity
<1>8. QED
  BY <1>1, <1>6, <1>7 DEF SeenFirstInv, RejectedUnendorsed

(***************************************************************************)
(* A vertex that favours all it inherits has ancestors that do.            *)
(***************************************************************************)
LEMMA FavouredAncestry ==
    ASSUME GraphFacts, NEW v \in graph, Favours(v)
    PROVE  \A h \in ProperAncestors(v) \cup {v} : h \in graph /\ Favours(h)
<1>1. Grounded(graph)
  BY GraphGrounded DEF GraphFacts, DagInv
<1>2. QED
  BY <1>1, InheritedFacts, AncestorsInside DEF Favours

(***************************************************************************)
(* The polls of a node are about vertices whose searches succeed.          *)
(***************************************************************************)
LEMMA PolledUnwrappable ==
    ASSUME GraphFacts, SeenFirstInv, NEW v \in polled
    PROVE  Unwrappable(v)
<1> USE DEF GraphFacts, DagInv
<1>1. v \in graph /\ Favours(v) /\ v \in Hash
  BY DEF SeenFirstInv, PolledFavoured, TypeOK
<1>2. Parents(v) \in SUBSET graph /\ Parents(v) \subseteq ProperAncestors(v)
  BY <1>1, ProperAncestorsEq DEF GraphInv, ParentClosed
<1>3. ~RejectedAncestor(Parents(v))
  <2>1. \A h \in ProperAncestors(v) \cup {v} : h \in graph /\ Favours(h)
    BY <1>1, FavouredAncestry
  <2>2. \A p \in Parents(v) : \A h \in ProperAncestors(p) \cup {p} : Favours(h)
    BY <1>2, <2>1, FavouredAncestry
  <2>3. QED
    BY <1>2, <2>2, FavouredUnrejected
<1>4. ~SelfReferentialParent(Parents(v))
  <2>1. CASE Parents(v) = {}
    BY <2>1 DEF SelfReferentialParent
  <2>2. CASE Parents(v) # {}
    <3>1. Parents(Genesis) = {}
      BY ContentAssumption DEF Parents, ParentsOf
    <3>2. \A p, q \in Parents(v) : p \notin ProperAncestors(q)
      BY <1>1, <2>2, <3>1 DEF WellFormedInv, GraphWellFormed
    <3>3. QED
      BY <1>2, <2>2, <3>2, SelfReferenceExact
  <2>3. QED
    BY <2>1, <2>2
<1>5. QED
  BY <1>3, <1>4 DEF Unwrappable

(***************************************************************************)
(* The task of a node never stops on the unwrap of record_query_result:    *)
(* none of its polls comes back for a vertex with a rejected ancestor,     *)
(* however late the answers are.                                           *)
(***************************************************************************)
THEOREM NodeNeverPanics == NodeSpec => []NoPanic
<1>1. NodeInit => NoPanic
  BY DEF NodeInit, Init, NoPanic
<1>2. GraphFacts /\ SeenFirstInv /\ NoPanic /\ [NodeNext]_nodeVars => NoPanic'
  <2> SUFFICES ASSUME GraphFacts, SeenFirstInv, NoPanic, [NodeNext]_nodeVars
               PROVE  panicked' = FALSE
    BY DEF NoPanic
  <2>1. panicked = FALSE
    BY DEF NoPanic, GraphFacts, DagInv, TypeOK
  <2>2. ASSUME NEW v \in Hash, Record(v) PROVE panicked' = panicked
    BY <2>2, PolledUnwrappable
       DEF Record, RecordQueryResult, RecordAgainst, RecordFor, RecordPanics,
           RecordIgnored, vars
  <2>3. ASSUME NEW v \in Hash, Submit(v) \/ Retry(v) PROVE panicked' = panicked
    BY <2>3 DEF Submit, Retry, SubmitVertex, RetryPending
  <2>4. ASSUME Count PROVE panicked' = panicked
    BY <2>4 DEF Count, VoteLoop, RecordStep, RecordUnity, RejectStep
  <2>5. QED
    BY <2>1, <2>2, <2>3, <2>4 DEF NodeNext, EnoughValidators, nodeVars, vars
<1>3. QED
  BY <1>1, <1>2, GraphFactsInvariant, SeenFirstInvariant, PTL DEF NodeSpec

-----------------------------------------------------------------------------
(***************************************************************************)
(* The frontier as the parents of a new vertex.                            *)
(***************************************************************************)

(***************************************************************************)
(* Vertices of the frontier do not descend from each other.                *)
(***************************************************************************)
LEMMA FrontierUnrelated ==
    ASSUME GraphFacts
    PROVE  \A p, q \in frontier : p \notin ProperAncestors(q)
<1> USE DEF GraphFacts, DagInv
<1> SUFFICES ASSUME NEW p \in frontier, NEW q \in frontier, p \in ProperAncestors(q)
             PROVE  FALSE
  OBVIOUS
<1>1. Grounded(graph) /\ p \in graph /\ q \in graph /\ p \in Hash
  BY GraphGrounded DEF GraphInv, ChildMapExact, TypeOK
<1>2. PICK y \in ProperAncestors(q) \cup {q} : p \in Parents(y)
  BY <1>1, AncestorsTransitive
<1>3. y \in graph
  BY <1>1, <1>2, AncestorsInside
<1>4. y \in children[p]
  BY <1>1, <1>2, <1>3 DEF GraphInv, ChildMapExact
<1>5. QED
  BY <1>3, <1>4 DEF GraphInv, ChildMapExact

(***************************************************************************)
(* The reported frontier favours whatever it inherits.                     *)
(***************************************************************************)
LEMMA FrontierFavoured ==
    ASSUME GraphFacts, SeenFirstInv, Idle
    PROVE  /\ GetFrontier \in SUBSET graph /\ GetFrontier \subseteq frontier
           /\ \A p \in GetFrontier : Favours(p)
<1> USE DEF GraphFacts, DagInv
<1>1. GetFrontier \in SUBSET graph /\ GetFrontier \subseteq frontier
  BY DEF GetFrontier, GraphInv, ChildMapExact
<1>2. rejecting = {} /\ AcceptedEndorsed
  BY DEF Idle, HandlerInv, SeenFirstInv
<1>3. QED
  BY <1>1, <1>2, QueryFavours DEF GetFrontier

(***************************************************************************)
(* A new vertex on the reported frontier passes the ancestry checks of     *)
(* check_vertex, whatever has been decided so far: no parent is an         *)
(* ancestor of another, and none brings a rejected or an opposite ordering.*)
(***************************************************************************)
THEOREM FrontierIsExtendable == NodeSpec => []FrontierExtendable
<1>1. GraphFacts /\ SeenFirstInv => FrontierExtendable
  <2> SUFFICES ASSUME GraphFacts, SeenFirstInv, Idle, GetFrontier # {}
               PROVE  /\ ~RejectedAncestor(GetFrontier)
                      /\ ~SelfReferentialParent(GetFrontier)
                      /\ ~ConflictingAncestors(GetFrontier, {})
    BY DEF FrontierExtendable
  <2> DEFINE P == GetFrontier
  <2> USE DEF GraphFacts, DagInv
  <2>1. P \in SUBSET graph /\ P \subseteq frontier /\ P # {}
    BY FrontierFavoured
  <2>2. \A p \in P : Favours(p)
    BY FrontierFavoured
  <2> HIDE DEF P
  <2>3. \A p \in P : \A h \in ProperAncestors(p) \cup {p} : h \in graph /\ Favours(h)
    BY <2>1, <2>2, FavouredAncestry
  <2>4. ~RejectedAncestor(P)
    BY <2>1, <2>3, FavouredUnrejected
  <2>5. ~SelfReferentialParent(P)
    BY <2>1, FrontierUnrelated, SelfReferenceExact
  <2>6. ~ConflictingAncestors(P, {})
    <3>1. ASSUME NEW c \in ActiveConstraints(P, {})
          PROVE  c \in Constraints /\ preferred[ConflictSetKey(c)] = c
      <4>1. PICK h \in ActiveAncestors(P) : c \in ParentConstraints(h)
        BY DEF ActiveConstraints
      <4>2. h \in graph /\ Favours(h)
        BY <2>1, <2>3, ActiveAncestry
      <4>3. c \in Inherited(h) /\ c \in Constraints
        BY <4>1, <4>2, GraphGrounded, InheritedFacts
      <4>4. QED
        BY <4>2, <4>3 DEF Favours
    <3>2. SUFFICES ASSUME NEW c \in ActiveConstraints(P, {}), ~IsUnity(c),
                          Conflict(c) \in ActiveConstraints(P, {})
                   PROVE  FALSE
      BY DEF ConflictingAncestors
    <3>3. ConflictSetKey(Conflict(c)) = ConflictSetKey(c)
      BY DEF ConflictSetKey, Conflict
    <3>4. Conflict(c) = c
      BY <3>1, <3>2, <3>3
    <3>5. c = <<c[1], c[2]>>
      BY <3>1, ConstraintsClosed
    <3>6. QED
      BY <3>2, <3>4, <3>5 DEF IsUnity, Conflict
  <2>7. QED
    BY <2>4, <2>5, <2>6 DEF P
<1>2. QED
  BY <1>1, GraphFactsInvariant, SeenFirstInvariant, PTL

-----------------------------------------------------------------------------
(***************************************************************************)
(* Legal vertices.                                                         *)
(***************************************************************************)

(***************************************************************************)
(* No sender of a legal vertex is punished: whatever has been decided, and *)
(* whatever else is in the graph, check_vertex has a legal vertex inserted *)
(* or refuses it for a rejected ancestor only.                             *)
(***************************************************************************)
THEOREM LegalUnpunished == NodeSpec => []LegalNotPunished
<1>1. GraphFacts => LegalNotPunished
  BY LegalPasses DEF LegalNotPunished, Punitive, GraphFacts
<1>2. QED
  BY <1>1, GraphFactsInvariant, PTL

-----------------------------------------------------------------------------
(***************************************************************************)
(* The sequencer.                                                          *)
(***************************************************************************)

\* what a new vertex can have for its parents, now and later
Proposable(F) ==
    /\ F \subseteq graph /\ F # {}
    /\ \A p \in F : Favours(p)
    /\ \A p, q \in F : p \notin ProperAncestors(q)

SequencerInv ==
    /\ phase = "building" =>
          \E F \in SUBSET Hash : Proposable(F) /\ frontierMeta \in Listings(F)
    /\ \A v \in submitting :
          /\ v \in Built /\ Height(v) = ProposalHeight(Content[v].parents)
          /\ \E F \in SUBSET Hash :
                Proposable(F) /\ Content[v].parents \in Listings(F)

(***************************************************************************)
(* Every step of the system is a step of the node, or none.                *)
(***************************************************************************)
LEMMA SequencerStep ==
    SequencerInv /\ [SequencerNext]_<<nodeVars, seqVars>> => [NodeNext]_nodeVars
<1> SUFFICES ASSUME SequencerInv, [SequencerNext]_<<nodeVars, seqVars>>
             PROVE  [NodeNext]_nodeVars
  OBVIOUS
<1>1. \A v \in submitting : v \in Hash
  BY SequencerAssumption DEF SequencerInv
<1>2. ASSUME NEW v \in submitting, Submit(v) PROVE NodeNext
  BY <1>1, <1>2 DEF NodeNext
<1>3. ProposalHandled => NodeNext
  BY <1>2 DEF ProposalHandled
<1>4. QED
  BY <1>3 DEF SequencerNext, GetFrontierMeta, SubmitProposal, CallFails

(***************************************************************************)
(* The parents of a listed set are the set, without duplicates, and the    *)
(* height the sequencer gives its vertex is the one check_vertex expects.  *)
(***************************************************************************)
LEMMA ListedParents ==
    ASSUME NEW v \in Hash, NEW F \in SUBSET Hash, F # {},
           Content[v].parents \in Listings(F)
    PROVE  /\ Parents(v) = F /\ ~DuplicateParents(v)
           /\ Content[v].parents # << >>
           /\ \A i, j \in DOMAIN Content[v].parents :
                 Content[v].parents[i] = Content[v].parents[j] => i = j
           /\ ProposalHeight(Content[v].parents) = ExpectedHeight(v)
<1> DEFINE ps == Content[v].parents
<1>1. IsFiniteSet(F)
  BY ContentAssumption, FS_Subset
<1>2. Cardinality(F) \in Nat
  BY <1>1, FS_CardinalityType
<1>3. /\ ps \in [1..Cardinality(F) -> F]
      /\ \A p \in F : \E i \in DOMAIN ps : ps[i] = p
  BY DEF Listings
<1>4. ps \in Seq(Hash)
  BY ContentAssumption
<1>5. DOMAIN ps = 1..Cardinality(F) /\ DOMAIN ps = 1..Len(ps) /\ Len(ps) \in Nat
  BY <1>3, <1>4
<1>6. Len(ps) = Cardinality(F)
  BY <1>2, <1>5
<1>7. Parents(v) = {ps[i] : i \in DOMAIN ps}
  BY DEF Parents, ParentsOf
<1>8. Parents(v) = F
  BY <1>3, <1>7
<1>9. ps # << >>
  <2>1. PICK p \in F : TRUE
    OBVIOUS
  <2>2. \E i \in DOMAIN ps : TRUE
    BY <1>3, <2>1
  <2>3. QED
    BY <2>2
<1>10. ProposalHeight(ps) = ExpectedHeight(v)
  <2> DEFINE heights == {Height(p) : p \in F}
             top(n) == \A p \in F : Height(p) <= n
             topListed(n) == \A i \in DOMAIN ps : n >= Height(ps[i])
  <2>1. {Height(ps[i]) : i \in DOMAIN ps} = heights
    BY <1>3
  <2>2. \E n \in heights : top(n)
    BY HighestVertex
  <2>3. \A n \in heights : topListed(n) <=> top(n)
    <3>1. \A p \in F : Height(p) \in Nat
      BY HashFacts
    <3>2. \A i \in DOMAIN ps : ps[i] \in F
      BY <1>3
    <3>3. ASSUME NEW n \in heights PROVE topListed(n) <=> top(n)
      <4>1. n \in Nat
        BY <3>1
      <4>2. ASSUME topListed(n), NEW p \in F PROVE Height(p) <= n
        BY <1>3, <3>1, <4>1, <4>2
      <4>3. ASSUME top(n), NEW i \in DOMAIN ps PROVE n >= Height(ps[i])
        BY <3>1, <3>2, <4>1, <4>3
      <4>4. QED
        BY <4>2, <4>3
    <3>4. QED
      BY <3>3
  <2>4. \A m, n \in heights : top(m) /\ top(n) => m = n
    <3>1. \A p \in F : Height(p) \in Nat
      BY HashFacts
    <3>2. QED
      BY <3>1
  <2>5. ExpectedHeight(v) = 1 + CHOOSE n \in heights : top(n)
    BY <1>8 DEF ExpectedHeight
  <2>6. ProposalHeight(ps) = 1 + CHOOSE n \in heights : topListed(n)
    BY <2>1 DEF ProposalHeight
  <2> HIDE DEF heights, top, topListed
  <2>7. QED
    BY <2>2, <2>3, <2>4, <2>5, <2>6
<1>11. \A i, j \in DOMAIN ps : ps[i] = ps[j] => i = j
  <2>1. ps \in Surjection(1..Cardinality(F), F)
    BY <1>3, <1>5 DEF Surjection
  <2>2. /\ IsFiniteSet(1..Cardinality(F))
        /\ Cardinality(1..Cardinality(F)) = Cardinality(F)
    BY <1>2, FS_Interval
  <2>3. ps \in Injection(1..Cardinality(F), F)
    BY <2>1, <2>2, FS_SurjSameCardinalityImpliesInj
  <2>4. QED
    BY <1>5, <2>3 DEF Injection, IsInjective
<1>12. QED
  BY <1>6, <1>8, <1>9, <1>10, <1>11 DEF DuplicateParents

(***************************************************************************)
(* A proposal does not go stale: what is inserted and decided later gives  *)
(* check_vertex no reason to refuse it.                                    *)
(***************************************************************************)
LEMMA ProposalPasses ==
    ASSUME GraphFacts, SeenFirstInv, NEW v \in Built, NEW F \in SUBSET Hash,
           Proposable(F), Content[v].parents \in Listings(F),
           Height(v) = ProposalHeight(Content[v].parents)
    PROVE  CheckVertex(v) \in {"Ok", "AlreadyInserted"}
<1> USE DEF GraphFacts, DagInv
<1>1. v \in Hash /\ Content[v].version = VERSION
  BY SequencerAssumption
<1>2. F \in SUBSET graph /\ F # {}
  BY DEF Proposable
<1>3. /\ Parents(v) = F /\ SanityChecks(v)
      /\ ExpectedHeight(v) = Height(v)
  BY <1>1, <1>2, ListedParents DEF SanityChecks
<1>4. MissingParents(v) = {} /\ WaitingOnParents(v) = {}
  BY <1>2, <1>3
     DEF MissingParents, WaitingOnParents, GraphInv, ChildMapExact
<1>5. \A p \in F : \A h \in ProperAncestors(p) \cup {p} : h \in graph /\ Favours(h)
  BY <1>2, FavouredAncestry DEF Proposable
<1>6. ~RejectedAncestor(F)
  BY <1>2, <1>5, FavouredUnrejected
<1>7. ~SelfReferentialParent(F)
  BY <1>2, SelfReferenceExact DEF Proposable
<1>8. ~ConflictingAncestors(F, ParentConstraints(v))
  <2> DEFINE Above == UNION {ParentConstraints(h) : h \in ActiveAncestors(F)}
             Own == ParentConstraints(v)
  <2>1. ASSUME NEW c \in Above
        PROVE  /\ c \in Constraints /\ preferred[ConflictSetKey(c)] = c
               /\ \E q \in F : c[1] \in ProperAncestors(q)
    <3>1. PICK h \in ActiveAncestors(F) : c \in ParentConstraints(h)
      OBVIOUS
    <3>2. PICK q \in F : h \in graph /\ h \in ProperAncestors(q) \cup {q}
      BY <1>2, ActiveAncestry
    <3>3. Favours(h) /\ c \in Inherited(h) /\ c \in Constraints
      BY <1>5, <3>1, <3>2, GraphGrounded, InheritedFacts
    <3>4. c[1] \in ProperAncestors(q)
      <4>1. q \in graph /\ Grounded(graph)
        BY <1>2, GraphGrounded
      <4>2. c[1] \in Parents(h)
        BY <3>1, <3>2, ParentConstraintsOverParents DEF TypeOK
      <4>3. Parents(h) \subseteq ProperAncestors(q)
        BY <3>2, <4>1, AncestorsTransitive, ProperAncestorsEq DEF TypeOK
      <4>4. QED
        BY <4>2, <4>3
    <3>5. QED
      BY <3>2, <3>3, <3>4 DEF Favours
  <2>2. ASSUME NEW c \in Own PROVE c[1] \in F /\ c[2] \in F /\ c \in Constraints
    BY <1>1, <1>3, ParentConstraintsOverParents, ConstraintsClosed
  <2>3. ASSUME NEW c \in Own, ~IsUnity(c) PROVE Conflict(c) \notin Own
    <3> DEFINE ps == Content[v].parents
    <3>1. ps \in Seq(Hash)
      BY <1>1, ContentAssumption
    <3>2. \A i, j \in DOMAIN ps : ps[i] = ps[j] => i = j
      BY <1>1, <1>2, ListedParents
    <3>3. Own = ConstraintsOf(ps)
      BY <1>1 DEF ParentConstraints, ParentConstraintsOf
    <3>4. PICK i, j \in DOMAIN ps : i <= j /\ c = <<ps[i], ps[j]>>
      BY <3>3 DEF ConstraintsOf
    <3>5. SUFFICES ASSUME Conflict(c) \in Own PROVE FALSE
      OBVIOUS
    <3>6. PICK k, l \in DOMAIN ps : k <= l /\ Conflict(c) = <<ps[k], ps[l]>>
      BY <3>3, <3>5 DEF ConstraintsOf
    <3>7. ps[k] = ps[j] /\ ps[l] = ps[i]
      BY <3>4, <3>6 DEF Conflict
    <3>8. k = j /\ l = i
      BY <3>2, <3>7
    <3>9. i \in Nat /\ j \in Nat
      BY <3>1
    <3>10. i = j
      BY <3>4, <3>6, <3>8, <3>9
    <3>11. QED
      BY <2>3, <3>4, <3>10 DEF IsUnity
  <2>4. \A c : c \in ActiveConstraints(F, Own) => c \in Own \/ c \in Above
    BY DEF ActiveConstraints
  <2> HIDE DEF Above, Own
  <2>5. SUFFICES ASSUME NEW c \in ActiveConstraints(F, Own), ~IsUnity(c),
                        Conflict(c) \in ActiveConstraints(F, Own)
                 PROVE  FALSE
    BY DEF ConflictingAncestors, Own
  <2>6. ~IsUnity(Conflict(c)) /\ Conflict(c)[1] = c[2] /\ Conflict(c)[2] = c[1]
    BY <2>5 DEF IsUnity, Conflict
  <2>7. c \in Constraints
    BY <2>1, <2>2, <2>4, <2>5
  <2>8. Conflict(Conflict(c)) = c
    <3>1. c = <<c[1], c[2]>>
      BY <2>7, ConstraintsClosed
    <3>2. QED
      BY <3>1 DEF Conflict
  <2>9. CASE c \in Own /\ Conflict(c) \in Own
    BY <2>3, <2>5, <2>9
  <2>10. CASE c \in Own /\ Conflict(c) \in Above
    <3>1. \E q \in F : c[2] \in ProperAncestors(q)
      BY <2>1, <2>6, <2>10
    <3>2. QED
      BY <2>2, <2>10, <3>1 DEF Proposable
  <2>11. CASE c \in Above /\ Conflict(c) \in Own
    <3>1. Conflict(c)[2] \in F /\ \E q \in F : c[1] \in ProperAncestors(q)
      BY <2>1, <2>2, <2>11
    <3>2. QED
      BY <2>6, <3>1 DEF Proposable
  <2>12. CASE c \in Above /\ Conflict(c) \in Above
    <3>1. /\ preferred[ConflictSetKey(c)] = c
          /\ preferred[ConflictSetKey(Conflict(c))] = Conflict(c)
      BY <2>1, <2>12
    <3>2. ConflictSetKey(Conflict(c)) = ConflictSetKey(c)
      BY DEF ConflictSetKey, Conflict
    <3>3. Conflict(c) = c
      BY <3>1, <3>2
    <3>4. QED
      BY <2>5, <2>6, <3>3 DEF IsUnity
  <2>13. QED
    BY <2>4, <2>5, <2>9, <2>10, <2>11, <2>12
<1>9. QED
  BY <1>3, <1>4, <1>6, <1>7, <1>8 DEF CheckVertex

(***************************************************************************)
(* What can be a vertex's parents can be so later: the node only inserts   *)
(* vertices and keeps what it prefers.                                     *)
(***************************************************************************)
LEMMA ProposableStays ==
    ASSUME GraphFacts, SeenFirstInv, [NodeNext]_nodeVars,
           NEW F \in SUBSET Hash, Proposable(F)
    PROVE  Proposable(F)'
<1>1. graph \subseteq graph'
  BY NodeStep, DecisionsGrow DEF GraphFacts
<1>2. PreferencesKept
  BY NextPreferences
<1>3. \A v \in graph : Favours(v) => Favours(v)'
  BY <1>1, <1>2, EndorsementKept
<1>4. QED
  BY <1>1, <1>3 DEF Proposable

(***************************************************************************)
(* The sequencer holds proposable parents from the moment it is told the   *)
(* frontier.                                                               *)
(***************************************************************************)
LEMMA NextSequencerInv ==
    ASSUME GraphFacts, SeenFirstInv, SequencerInv,
           [SequencerNext]_<<nodeVars, seqVars>>
    PROVE  SequencerInv'
<1>1. [NodeNext]_nodeVars
  BY SequencerStep
<1>2. \A F \in SUBSET Hash : Proposable(F) => Proposable(F)'
  BY <1>1, ProposableStays
<1>3. CASE UNCHANGED seqVars
  BY <1>2, <1>3 DEF SequencerInv, seqVars
<1>4. CASE GetFrontierMeta
  <2>1. submitting' = submitting
    BY <1>4 DEF GetFrontierMeta
  <2>2. ASSUME phase' = "building"
        PROVE  \E F \in SUBSET Hash : Proposable(F)' /\ frontierMeta' \in Listings(F)
    <3>1. /\ Idle /\ GetFrontier # {} /\ frontierMeta' \in Listings(GetFrontier)
      BY <1>4, <2>2 DEF GetFrontierMeta, FrontierReported
    <3>2. /\ GetFrontier \in SUBSET graph /\ GetFrontier \subseteq frontier
          /\ \A p \in GetFrontier : Favours(p)
      BY <3>1, FrontierFavoured
    <3>3. Proposable(GetFrontier) /\ GetFrontier \in SUBSET Hash
      BY <3>1, <3>2, FrontierUnrelated DEF Proposable, GraphFacts, DagInv, TypeOK
    <3>4. QED
      BY <1>2, <3>1, <3>3
  <2>3. \A v \in submitting' :
          /\ v \in Built /\ Height(v) = ProposalHeight(Content[v].parents)
          /\ \E F \in SUBSET Hash :
                Proposable(F)' /\ Content[v].parents \in Listings(F)
    BY <1>2, <2>1 DEF SequencerInv
  <2>4. QED
    BY <2>2, <2>3 DEF SequencerInv
<1>5. CASE SubmitProposal
  BY <1>2, <1>5 DEF SubmitProposal, SequencerInv
<1>6. CASE ProposalHandled
  BY <1>2, <1>6 DEF ProposalHandled, SequencerInv
<1>7. CASE CallFails
  BY <1>2, <1>7 DEF CallFails, SequencerInv
<1>8. QED
  BY <1>3, <1>4, <1>5, <1>6, <1>7 DEF SequencerNext, seqVars

(***************************************************************************)
(* Whatever the node inserts and decides between the two calls of the      *)
(* sequencer, and while the second one is queued, the proposal passes      *)
(* check_vertex or has been inserted: the frontier does not go stale, and  *)
(* RPC broadcasts no vertex that its own node then refuses.                *)
(***************************************************************************)
THEOREM ProposalsUsable == SequencerSpec => []ProposalUsable
<1> DEFINE Inv == GraphFacts /\ SeenFirstInv /\ SequencerInv
<1>1. SequencerInit => Inv
  BY InitGraphFacts, InitSeenFirst DEF SequencerInit, SequencerInv
<1>2. Inv /\ [SequencerNext]_<<nodeVars, seqVars>> => Inv'
  BY SequencerStep, NextGraphFacts, NextSeenFirst, NextSequencerInv
<1>3. Inv => ProposalUsable
  BY ProposalPasses DEF SequencerInv, ProposalUsable
<1>4. QED
  BY <1>1, <1>2, <1>3, PTL DEF SequencerSpec

=============================================================================
