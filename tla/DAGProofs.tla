----------------------------- MODULE DAGProofs ------------------------------
(***************************************************************************)
(* Proofs about the DAG, for every universe of vertices and all            *)
(* thresholds.                                                             *)
(***************************************************************************)
EXTENDS DAGProperties, SequenceTheorems, TLAPS

-----------------------------------------------------------------------------
(***************************************************************************)
(* Vertices and constraints.                                               *)
(***************************************************************************)

(***************************************************************************)
(* The constraints a vertex commits to are over its parents, which are     *)
(* hashes (Vertex::parent_constraints).                                    *)
(***************************************************************************)
LEMMA ParentConstraintsOverParents ==
    ASSUME NEW v \in Hash
    PROVE  /\ Parents(v) \subseteq Hash
           /\ \A c \in ParentConstraints(v) :
                /\ c = <<c[1], c[2]>>
                /\ c[1] \in Parents(v) /\ c[2] \in Parents(v)
<1>1. Content[v].parents \in Seq(Hash)
  BY ContentAssumption
<1>2. Parents(v) = {Content[v].parents[i] : i \in DOMAIN Content[v].parents}
  BY DEF Parents, ParentsOf
<1>3. ParentConstraints(v) = ConstraintsOf(Content[v].parents)
  BY DEF ParentConstraints, ParentConstraintsOf
<1>4. Parents(v) \subseteq Hash
  BY <1>1, <1>2
<1>5. ASSUME NEW c \in ParentConstraints(v)
      PROVE  /\ c = <<c[1], c[2]>>
             /\ c[1] \in Parents(v) /\ c[2] \in Parents(v)
  <2>1. PICK i \in DOMAIN Content[v].parents, j \in DOMAIN Content[v].parents :
            c = <<Content[v].parents[i], Content[v].parents[j]>>
    BY <1>3, <1>5 DEF ConstraintsOf
  <2>2. QED
    BY <2>1, <1>2
<1>6. QED
  BY <1>4, <1>5

(***************************************************************************)
(* Constraints is closed: it holds the unity constraint of every hash, all *)
(* constraints on parents, and the opposite of each of its members.        *)
(***************************************************************************)
LEMMA ConstraintsClosed ==
    /\ \A v \in Hash : Unity(v) \in Constraints
    /\ \A v \in Hash : ParentConstraints(v) \subseteq Constraints
    /\ \A c \in Constraints : /\ c = <<c[1], c[2]>>
                              /\ c[1] \in Hash /\ c[2] \in Hash
                              /\ Conflict(c) \in Constraints
                              /\ ConflictSetKey(c) \in Keys
                              /\ ConstraintParents(c) \subseteq Constraints
<1> DEFINE listed == {Unity(v) : v \in Hash}
                        \cup UNION {ParentConstraints(v) : v \in Hash}
<1>1. Constraints = listed \cup {Conflict(c) : c \in listed}
  BY DEF Constraints
<1>2. \A v \in Hash : Unity(v) \in Constraints
  BY <1>1
<1>3. \A v \in Hash : ParentConstraints(v) \subseteq Constraints
  BY <1>1
<1>4. \A c \in listed : c = <<c[1], c[2]>> /\ c[1] \in Hash /\ c[2] \in Hash
  <2>1. \A v \in Hash : \A c \in ParentConstraints(v) :
            c = <<c[1], c[2]>> /\ c[1] \in Hash /\ c[2] \in Hash
    BY ParentConstraintsOverParents
  <2>2. \A v \in Hash : LET c == Unity(v) IN
            c = <<c[1], c[2]>> /\ c[1] \in Hash /\ c[2] \in Hash
    BY DEF Unity
  <2>3. QED
    BY <2>1, <2>2
<1>5. ASSUME NEW c \in Constraints
      PROVE  /\ c = <<c[1], c[2]>>
             /\ c[1] \in Hash /\ c[2] \in Hash
             /\ Conflict(c) \in Constraints
  <2>1. CASE c \in listed
    BY <2>1, <1>1, <1>4
  <2>2. CASE \E d \in listed : c = Conflict(d)
    <3>1. PICK d \in listed : c = Conflict(d)
      BY <2>2
    <3>2. Conflict(c) = d
      BY <3>1, <1>4 DEF Conflict
    <3>3. QED
      BY <3>1, <3>2, <1>1, <1>4 DEF Conflict
  <2>3. QED
    BY <1>1, <2>1, <2>2
<1>6. ASSUME NEW c \in Constraints
      PROVE  /\ ConflictSetKey(c) \in Keys
             /\ ConstraintParents(c) \subseteq Constraints
  BY <1>3, <1>5 DEF Keys, ConstraintParents
<1>7. QED
  BY <1>2, <1>3, <1>5, <1>6

-----------------------------------------------------------------------------
(***************************************************************************)
(* Types.                                                                  *)
(***************************************************************************)

(***************************************************************************)
(* The initial state of DAG::new has the declared types.                   *)
(***************************************************************************)
LEMMA InitTypeOK == Init => TypeOK
<1> SUFFICES ASSUME Init PROVE TypeOK
  OBVIOUS
<1>1. Genesis \in Hash /\ Unity(Genesis) \in Constraints
  BY ContentAssumption, ConstraintsClosed
<1>2. preferred \in [Keys -> Constraints \cup {NoConstraint}]
  BY <1>1 DEF Init
<1>3. last \in [Keys -> Constraints \cup {NoConstraint}]
  BY <1>2 DEF Init
<1>4. decision \in [Constraints -> {"undecided", "accepted", "rejected"}]
  BY DEF Init
<1>5. queue \in Seq(SUBSET Hash)
  BY DEF Init
<1>6. QED
  BY <1>1, <1>2, <1>3, <1>4, <1>5 DEF Init, TypeOK

(***************************************************************************)
(* get_active_ancestor_constraints returns constraints.                    *)
(***************************************************************************)
LEMMA ActiveTypes ==
    ASSUME TypeOK, NEW v \in Hash
    PROVE  /\ ActiveAncestors(Parents(v)) \subseteq graph
           /\ ActiveConstraintsOf(v) \subseteq Constraints
<1>1. ActiveAncestors(Parents(v)) \subseteq graph
  BY DEF ActiveAncestors
<1>2. graph \subseteq Hash
  BY DEF TypeOK
<1>3. QED
  BY <1>1, <1>2, ConstraintsClosed DEF ActiveConstraintsOf, ActiveConstraints

(***************************************************************************)
(* insert keeps the types of the vertex maps and of the conflict sets.     *)
(***************************************************************************)
LEMMA InsertTypes ==
    ASSUME TypeOK, NEW v \in Hash, Insert(v)
    PROVE  /\ vertex' \subseteq Hash /\ graph' \subseteq Hash
           /\ pending_query' \subseteq Hash /\ frontier' \subseteq Hash
           /\ children' \in [Hash -> SUBSET Hash]
           /\ preferred' \in [Keys -> Constraints \cup {NoConstraint}]
           /\ last' \in [Keys -> Constraints \cup {NoConstraint}]
           /\ chit' \subseteq Constraints
           /\ count' \in [Constraints -> Nat]
           /\ cparents' \in [Constraints -> SUBSET Constraints]
           /\ cchildren' \in [Constraints -> SUBSET Constraints]
           /\ decision' \in
                [Constraints -> {"undecided", "accepted", "rejected"}]
<1> DEFINE registered == ParentConstraints(v) \cup {Unity(v)}
           new == {c \in registered : ~Exists(c)}
           created == {ConflictSetKey(c) : c \in new}
           initial(k) == CHOOSE c \in new : ConflictSetKey(c) = k
<1>1. registered \subseteq Constraints
  BY ConstraintsClosed
<1>2. \A k \in created : initial(k) \in Constraints
  BY <1>1
<1>3. /\ preferred' = [k \in Keys |-> IF k \in created THEN initial(k)
                                                      ELSE preferred[k]]
      /\ last' = [k \in Keys |-> IF k \in created THEN initial(k) ELSE last[k]]
      /\ cparents' = [c \in Constraints |->
                IF c \in new THEN ConstraintParents(c) ELSE cparents[c]]
      /\ cchildren' = [c \in Constraints |->
                cchildren[c] \cup {d \in registered : c \in ConstraintParents(d)}]
      /\ decision' = DecisionOnInsert(v)
      /\ UNCHANGED <<chit, count>>
  BY DEF Insert, NewConflictSets
<1>4. /\ preferred' \in [Keys -> Constraints \cup {NoConstraint}]
      /\ last' \in [Keys -> Constraints \cup {NoConstraint}]
  <2> HIDE DEF initial, created
  <2> QED
    BY <1>2, <1>3 DEF TypeOK
<1>5. cparents' \in [Constraints -> SUBSET Constraints]
  BY <1>3, ConstraintsClosed DEF TypeOK
<1>6. cchildren' \in [Constraints -> SUBSET Constraints]
  BY <1>1, <1>3 DEF TypeOK
<1>7. decision' \in [Constraints -> {"undecided", "accepted", "rejected"}]
  BY <1>3 DEF TypeOK, DecisionOnInsert
<1>8. children' \in [Hash -> SUBSET Hash]
  BY DEF TypeOK, Insert, MapChild
<1>9. QED
  BY <1>3, <1>4, <1>5, <1>6, <1>7, <1>8
     DEF TypeOK, Insert, FrontierAfter

(***************************************************************************)
(* The stack of retry_pending keeps its type.                              *)
(***************************************************************************)
LEMMA PushType ==
    ASSUME NEW batch \in SUBSET Hash, NEW stack \in Seq(SUBSET Hash)
    PROVE  Push(batch, stack) \in Seq(SUBSET Hash)
<1>1. <<batch>> \in Seq(SUBSET Hash)
  OBVIOUS
<1>2. <<batch>> \o stack \in Seq(SUBSET Hash)
  BY <1>1, ConcatProperties
<1>3. QED
  BY <1>2 DEF Push

(***************************************************************************)
(* try_insert keeps the types, whatever check_vertex answers.              *)
(***************************************************************************)
LEMMA TryInsertTypes ==
    ASSUME TypeOK, NEW v \in Hash, NEW stack \in Seq(SUBSET Hash),
           TryInsert(v, stack), UNCHANGED <<voteVars, panicked>>
    PROVE  TypeOK'
<1>1. CASE Insert(v) /\ queue' = Push(Waiting(v), stack)
  <2>1. Waiting(v) \in SUBSET Hash
    BY <1>1, InsertTypes DEF Waiting
  <2>2. queue' \in Seq(SUBSET Hash)
    BY <1>1, <2>1, PushType
  <2>3. QED
    BY <1>1, <2>2, InsertTypes DEF TypeOK, voteVars
<1>2. CASE Remember(v) /\ queue' = stack
  <2>1. children' \in [Hash -> SUBSET Hash]
    BY <1>2 DEF TypeOK, Remember, MapChild
  <2>2. QED
    BY <1>2, <2>1 DEF TypeOK, Remember, conflictVars, voteVars
<1>3. CASE queue' = stack /\ UNCHANGED <<vertexVars, conflictVars>>
  BY <1>3 DEF TypeOK, vertexVars, conflictVars, voteVars
<1>4. QED
  BY <1>1, <1>2, <1>3 DEF TryInsert

(***************************************************************************)
(* Counting a vote for one constraint keeps the types.                     *)
(***************************************************************************)
LEMMA CountVoteTypes ==
    ASSUME TypeOK, NEW c \in Constraints, CountVote(c)
    PROVE  /\ preferred' \in [Keys -> Constraints \cup {NoConstraint}]
           /\ last' \in [Keys -> Constraints \cup {NoConstraint}]
           /\ count' \in [Constraints -> Nat]
           /\ decision' \in
                [Constraints -> {"undecided", "accepted", "rejected"}]
           /\ rejecting' \subseteq Constraints
           /\ UNCHANGED <<chit, cparents, cchildren>>
<1>1. ConflictSetKey(c) \in Keys /\ Conflict(c) \in Constraints
  BY ConstraintsClosed
<1>2. NewCount(c) \in Nat
  BY DEF NewCount, TypeOK
<1>3. count' \in [Constraints -> Nat]
  BY <1>2 DEF CountVote, TypeOK
<1>4. /\ preferred' \in [Keys -> Constraints \cup {NoConstraint}]
      /\ last' \in [Keys -> Constraints \cup {NoConstraint}]
  BY <1>1 DEF CountVote, TypeOK
<1>5. decision' \in [Constraints -> {"undecided", "accepted", "rejected"}]
  BY DEF CountVote, TypeOK
<1>6. rejecting' \subseteq Constraints
  BY <1>1 DEF CountVote, ToReject
<1>7. QED
  BY <1>3, <1>4, <1>5, <1>6 DEF CountVote

(***************************************************************************)
(* Every step of the task keeps the types.                                 *)
(***************************************************************************)
LEMMA NextTypeOK == TypeOK /\ [Next]_vars => TypeOK'
<1> SUFFICES ASSUME TypeOK, [Next]_vars PROVE TypeOK'
  OBVIOUS
<1>1. ASSUME NEW v \in Hash, SubmitVertex(v) PROVE TypeOK'
  <2>1. << >> \in Seq(SUBSET Hash)
    OBVIOUS
  <2>2. QED
    BY <1>1, <2>1, TryInsertTypes DEF SubmitVertex
<1>2. ASSUME NEW w \in Hash, RetryPending(w) PROVE TypeOK'
  <2>1. queue \in Seq(SUBSET Hash) /\ queue # << >>
    BY <1>2 DEF RetryPending, TypeOK
  <2>2. Head(queue) \in SUBSET Hash /\ Tail(queue) \in Seq(SUBSET Hash)
    BY <2>1
  <2>3. Head(queue) \ {w} \in SUBSET Hash
    BY <2>2
  <2>4. Pop(w) \in Seq(SUBSET Hash)
    BY <2>2, <2>3, PushType DEF Pop
  <2>5. QED
    BY <1>2, <2>4, TryInsertTypes DEF RetryPending
<1>3. ASSUME NEW v \in Hash, RecordAgainst(v) PROVE TypeOK'
  <2>1. count' \in [Constraints -> Nat]
    BY <1>3 DEF RecordAgainst, TypeOK
  <2>2. QED
    BY <1>3, <2>1 DEF RecordAgainst, TypeOK, voteVars
<1>4. ASSUME NEW v \in Hash, RecordFor(v) PROVE TypeOK'
  <2>1. /\ chit' \subseteq Constraints
        /\ live' \subseteq Constraints
        /\ ancestors' \subseteq Hash
        /\ recording' \in Hash
    BY <1>4, ActiveTypes, ConstraintsClosed DEF RecordFor, TypeOK
  <2>2. QED
    BY <1>4, <2>1 DEF RecordFor, TypeOK
<1>5. ASSUME NEW v \in Hash, RecordPanics(v) PROVE TypeOK'
  BY <1>5 DEF RecordPanics, TypeOK, conflictVars, voteVars
<1>6. CASE UNCHANGED vars
  BY <1>6 DEF vars, vertexVars, conflictVars, voteVars, TypeOK
<1>7. ASSUME NEW a \in Hash, NEW c \in Constraints, RecordStep(a, c)
      PROVE  TypeOK'
  <2>1. CountVote(c)
    BY <1>7 DEF RecordStep
  <2>2. QED
    BY <1>7, <2>1, CountVoteTypes DEF RecordStep, TypeOK, vertexVars
<1>8. CASE RecordUnity
  <2>1. Unity(recording) \in Constraints /\ CountVote(Unity(recording))
    BY <1>8, ConstraintsClosed DEF RecordUnity, TypeOK
  <2>2. QED
    BY <1>8, <2>1, CountVoteTypes DEF RecordUnity, TypeOK, vertexVars
<1>9. CASE RejectStep
  <2>1. decision' \in [Constraints -> {"undecided", "accepted", "rejected"}]
    BY <1>9 DEF RejectStep, TypeOK
  <2>2. rejecting' \subseteq Constraints
    BY <1>9 DEF RejectStep, NextGeneration, TypeOK
  <2>3. QED
    BY <1>9, <2>1, <2>2 DEF RejectStep, TypeOK, vertexVars
<1>10. ASSUME NEW v \in Hash, RecordIgnored(v) PROVE TypeOK'
  BY <1>6, <1>10 DEF RecordIgnored
<1>11. QED
  BY <1>1, <1>2, <1>3, <1>4, <1>5, <1>6, <1>7, <1>8, <1>9, <1>10
     DEF Next, InsertNext, RecordStart, RecordQueryResult, VoteLoop

(***************************************************************************)
(* The fields of the DAG and the locals of its handlers keep their types.  *)
(***************************************************************************)
THEOREM TypeCorrect == Spec => []TypeOK
<1>1. Init => TypeOK
  BY InitTypeOK
<1>2. TypeOK /\ [Next]_vars => TypeOK'
  BY NextTypeOK
<1>3. QED
  BY <1>1, <1>2, PTL DEF Spec

-----------------------------------------------------------------------------
(***************************************************************************)
(* The shape of the graph.                                                 *)
(***************************************************************************)

ParentClosed == \A v \in graph : Parents(v) \subseteq graph

VotersInserted == /\ ancestors \subseteq graph
                  /\ recording \in graph \cup {NoVertex}

GraphInv == ChildMapExact /\ ParentClosed /\ VotersInserted

(***************************************************************************)
(* check_vertex lets a vertex in once, after all its parents, of which it  *)
(* has one at least.                                                       *)
(***************************************************************************)
LEMMA CheckOk ==
    ASSUME NEW v \in Hash, CheckVertex(v) = "Ok"
    PROVE  v \notin graph /\ Parents(v) \subseteq graph /\ Parents(v) # {}
<1>1. SanityChecks(v) /\ v \notin graph /\ WaitingOnParents(v) = {}
  BY DEF CheckVertex
<1>2. Parents(v) \subseteq graph
  BY <1>1 DEF WaitingOnParents
<1>3. Content[v].parents \in Seq(Hash) /\ Content[v].parents # << >>
  BY <1>1, ContentAssumption DEF SanityChecks
<1>4. 1 \in DOMAIN Content[v].parents
  BY <1>3
<1>5. Content[v].parents[1] \in Parents(v)
  BY <1>4 DEF Parents, ParentsOf
<1>6. QED
  BY <1>1, <1>2, <1>5

(***************************************************************************)
(* A vertex is kept aside only while it is not inserted and one of its     *)
(* parents is not.                                                         *)
(***************************************************************************)
LEMMA CheckWaits ==
    ASSUME NEW v \in Hash, graph \subseteq vertex,
           CheckVertex(v) \in {"MissingParents", "WaitingOnParents"}
    PROVE  v \notin graph /\ ~(Parents(v) \subseteq graph)
<1>1. v \notin graph /\ (MissingParents(v) # {} \/ WaitingOnParents(v) # {})
  BY DEF CheckVertex
<1>2. QED
  BY <1>1 DEF MissingParents, WaitingOnParents

(***************************************************************************)
(* What try_insert may do, for the case splits below.                      *)
(***************************************************************************)
LEMMA TryInsertCases ==
    ASSUME NEW v, NEW stack, TryInsert(v, stack)
    PROVE  \/ CheckVertex(v) = "Ok" /\ Insert(v)
           \/ /\ CheckVertex(v) \in {"MissingParents", "WaitingOnParents"}
              /\ Remember(v)
           \/ UNCHANGED <<vertexVars, conflictVars>>
BY DEF TryInsert

(***************************************************************************)
(* insert keeps the child map, the frontier and the closure under parents. *)
(***************************************************************************)
LEMMA InsertGraphInv ==
    ASSUME TypeOK, GraphInv, NEW v \in Hash, CheckVertex(v) = "Ok",
           Insert(v), UNCHANGED voteVars
    PROVE  GraphInv'
<1>1. v \notin graph /\ Parents(v) \subseteq graph
  BY CheckOk
<1>2. /\ vertex' = vertex \cup {v}
      /\ graph' = graph \cup {v}
      /\ pending_query' = pending_query \cup {v}
      /\ frontier' = (frontier \ Parents(v)) \cup {v}
      /\ children' = [p \in Hash |-> IF p \in Parents(v)
                                      THEN children[p] \cup {v} ELSE children[p]]
  BY DEF Insert, MapChild, FrontierAfter
<1>3. ParentClosed'
  BY <1>1, <1>2 DEF GraphInv, ParentClosed
<1>4. VotersInserted'
  BY <1>2 DEF GraphInv, VotersInserted, voteVars
<1>5. \A p \in Hash : children'[p] = {w \in vertex' : p \in Parents(w)}
  BY <1>2 DEF GraphInv, ChildMapExact
<1>6. children'[v] \cap graph' = {}
  <2>1. v \notin Parents(v)
    BY <1>1
  <2>2. \A w \in graph : v \notin Parents(w)
    BY <1>1 DEF GraphInv, ParentClosed
  <2>3. QED
    BY <1>2, <1>5, <2>1, <2>2
<1>7. \A w \in graph : children'[w] \cap graph' = {}
                        <=> children[w] \cap graph = {} /\ w \notin Parents(v)
  <2> TAKE w \in graph
  <2>1. w \in Hash /\ children[w] = {u \in vertex : w \in Parents(u)}
    BY DEF TypeOK, GraphInv, ChildMapExact
  <2>2. children'[w] = IF w \in Parents(v) THEN children[w] \cup {v}
                                            ELSE children[w]
    BY <1>2, <2>1
  <2>3. CASE w \in Parents(v)
    BY <1>2, <2>2, <2>3
  <2>4. CASE w \notin Parents(v)
    <3>1. v \notin children'[w]
      BY <1>2, <1>5, <2>1, <2>4
    <3>2. QED
      BY <1>2, <2>2, <2>4, <3>1
  <2>5. QED
    BY <2>3, <2>4
<1>8. frontier' = {w \in graph' : children'[w] \cap graph' = {}}
  <2>1. frontier = {w \in graph : children[w] \cap graph = {}}
    BY DEF GraphInv, ChildMapExact
  <2>2. QED
    BY <1>1, <1>2, <1>6, <1>7, <2>1
<1>9. pending_query' \subseteq graph' /\ graph' \subseteq vertex'
  BY <1>2 DEF GraphInv, ChildMapExact
<1>10. QED
  BY <1>3, <1>4, <1>5, <1>8, <1>9 DEF GraphInv, ChildMapExact

(***************************************************************************)
(* Keeping a vertex aside keeps the child map and leaves the frontier be.  *)
(***************************************************************************)
LEMMA RememberGraphInv ==
    ASSUME TypeOK, GraphInv, NEW v \in Hash,
           CheckVertex(v) \in {"MissingParents", "WaitingOnParents"},
           Remember(v), UNCHANGED voteVars
    PROVE  GraphInv'
<1>1. v \notin graph
  BY CheckWaits DEF GraphInv, ChildMapExact
<1>2. /\ vertex' = vertex \cup {v}
      /\ UNCHANGED <<graph, pending_query, frontier>>
      /\ children' = [p \in Hash |-> IF p \in Parents(v)
                                      THEN children[p] \cup {v} ELSE children[p]]
  BY DEF Remember, MapChild
<1>3. \A p \in Hash : children'[p] = {w \in vertex' : p \in Parents(w)}
  BY <1>2 DEF GraphInv, ChildMapExact
<1>4. \A w \in graph : children'[w] \cap graph = children[w] \cap graph
  BY <1>1, <1>2 DEF TypeOK
<1>5. ChildMapExact'
  BY <1>2, <1>3, <1>4 DEF GraphInv, ChildMapExact
<1>6. QED
  BY <1>2, <1>5 DEF GraphInv, ParentClosed, VotersInserted, voteVars

(***************************************************************************)
(* A handler that leaves the maps alone, except that it may take a vertex  *)
(* off pending_query, keeps the shape of the graph.                        *)
(***************************************************************************)
LEMMA SameGraphInv ==
    ASSUME GraphInv, UNCHANGED <<vertex, graph, children, frontier>>,
           pending_query' \subseteq pending_query, VotersInserted'
    PROVE  GraphInv'
BY DEF GraphInv, ChildMapExact, ParentClosed

(***************************************************************************)
(* Every step of the task keeps the shape of the graph.                    *)
(***************************************************************************)
LEMMA NextGraphInv == TypeOK /\ GraphInv /\ [Next]_vars => GraphInv'
<1> SUFFICES ASSUME TypeOK, GraphInv, [Next]_vars PROVE GraphInv'
  OBVIOUS
<1>1. ASSUME NEW v \in Hash, NEW stack, TryInsert(v, stack),
             UNCHANGED voteVars
      PROVE  GraphInv'
  <2>1. CASE UNCHANGED <<vertexVars, conflictVars>>
    BY <1>1, <2>1, SameGraphInv
       DEF vertexVars, voteVars, GraphInv, VotersInserted
  <2>2. QED
    BY <1>1, <2>1, TryInsertCases, InsertGraphInv, RememberGraphInv
<1>2. ASSUME NEW v \in Hash, SubmitVertex(v) \/ RetryPending(v)
      PROVE  GraphInv'
  BY <1>1, <1>2 DEF SubmitVertex, RetryPending
<1>3. ASSUME NEW v \in Hash, RecordAgainst(v) \/ RecordPanics(v)
      PROVE  GraphInv'
  <2>1. VotersInserted'
    BY <1>3 DEF RecordAgainst, RecordPanics, voteVars, GraphInv, VotersInserted
  <2>2. QED
    BY <1>3, <2>1, SameGraphInv DEF RecordAgainst, RecordPanics
<1>4. ASSUME NEW v \in Hash, RecordFor(v) PROVE GraphInv'
  <2>1. v \in graph
    BY <1>4 DEF RecordFor, GraphInv, ChildMapExact
  <2>2. VotersInserted'
    BY <1>4, <2>1, ActiveTypes DEF RecordFor, VotersInserted
  <2>3. QED
    BY <1>4, <2>2, SameGraphInv DEF RecordFor
<1>5. ASSUME NEW a \in Hash, NEW c \in Constraints, RecordStep(a, c)
      PROVE  GraphInv'
  BY <1>5, SameGraphInv DEF RecordStep, vertexVars, GraphInv, VotersInserted
<1>6. CASE RecordUnity
  BY <1>6, SameGraphInv DEF RecordUnity, vertexVars, GraphInv, VotersInserted
<1>7. CASE RejectStep
  BY <1>7, SameGraphInv DEF RejectStep, vertexVars, GraphInv, VotersInserted
<1>8. CASE UNCHANGED vars
  BY <1>8, SameGraphInv DEF vars, vertexVars, voteVars, GraphInv, VotersInserted
<1>9. QED
  BY <1>2, <1>3, <1>4, <1>5, <1>6, <1>7, <1>8
     DEF Next, InsertNext, RecordStart, RecordQueryResult, VoteLoop, RecordIgnored

(***************************************************************************)
(* The graph starts with genesis alone.                                    *)
(***************************************************************************)
LEMMA InitGraphInv == Init => GraphInv
<1> SUFFICES ASSUME Init PROVE GraphInv
  OBVIOUS
<1>1. Parents(Genesis) = {}
  BY ContentAssumption DEF Parents, ParentsOf
<1>2. ChildMapExact
  BY <1>1, ContentAssumption DEF Init, ChildMapExact
<1>3. QED
  BY <1>1, <1>2 DEF Init, GraphInv, ParentClosed, VotersInserted

(***************************************************************************)
(* The child map and the frontier agree with the vertices, in every order  *)
(* of submissions, retries and polls.                                      *)
(***************************************************************************)
THEOREM ChildMapCorrect == Spec => []ChildMapExact
<1>1. Init => GraphInv
  BY InitGraphInv
<1>2. TypeOK /\ GraphInv /\ [Next]_vars => GraphInv'
  BY NextGraphInv
<1>3. GraphInv => ChildMapExact
  BY DEF GraphInv
<1>4. QED
  BY <1>1, <1>2, <1>3, TypeCorrect, PTL DEF Spec

-----------------------------------------------------------------------------
(***************************************************************************)
(* Conflict sets and decisions.                                            *)
(***************************************************************************)

\* the conflict sets a vertex takes part in exist from its insertion on
SetsExist ==
    /\ \A v \in graph : \A c \in ParentConstraints(v) \cup {Unity(v)} : Exists(c)
    /\ \A h \in Hash : Exists(Unity(h)) => h \in graph

\* reject_progeny finds every inserted vertex under each of its constraints
Registered ==
    \A v \in graph : \A c \in ParentConstraints(v) : Unity(v) \in cchildren[c]

\* while reject_progeny runs, what it still owes is in rejecting
Tainted ==
    \A v \in graph : \A c \in ParentConstraints(v) :
        decision[c] = "rejected" => ~Undecided(v) \/ Unity(v) \in rejecting

RejectionInv == SetsExist /\ Registered /\ Tainted

(***************************************************************************)
(* Unity constraints, their conflict sets and their parents.               *)
(***************************************************************************)
LEMMA UnityFacts ==
    ASSUME NEW v \in Hash
    PROVE  /\ ConstraintParents(Unity(v)) = ParentConstraints(v)
           /\ \A c \in Constraints : ConflictSetKey(c) = ConflictSetKey(Unity(v))
                                        <=> c = Unity(v)
<1>1. ConstraintParents(Unity(v)) = ParentConstraints(v)
  BY DEF ConstraintParents, Unity
<1>2. \A c \in Constraints : c = <<c[1], c[2]>>
  BY ConstraintsClosed
<1>3. ASSUME NEW c \in Constraints,
             ConflictSetKey(c) = ConflictSetKey(Unity(v))
      PROVE  c = Unity(v)
  <2>1. {c[1], c[2]} = {v}
    BY <1>3 DEF ConflictSetKey, Unity
  <2>2. c[1] = v /\ c[2] = v
    BY <2>1
  <2>3. QED
    BY <1>2, <2>2 DEF Unity
<1>4. QED
  BY <1>1, <1>3

(***************************************************************************)
(* insert creates the conflict sets that are missing, and no other, and    *)
(* removes none.                                                           *)
(***************************************************************************)
LEMMA InsertSets ==
    ASSUME TypeOK, NEW v \in Hash, Insert(v)
    PROVE  \A c \in Constraints :
              Exists(c)' <=> \/ Exists(c)
                             \/ \E d \in ParentConstraints(v) \cup {Unity(v)} :
                                    ConflictSetKey(d) = ConflictSetKey(c)
<1> DEFINE registered == ParentConstraints(v) \cup {Unity(v)}
           new == {c \in registered : ~Exists(c)}
           created == {ConflictSetKey(c) : c \in new}
           initial(k) == CHOOSE c \in new : ConflictSetKey(c) = k
<1>1. registered \subseteq Constraints
  BY ConstraintsClosed
<1>2. preferred' = [k \in Keys |-> IF k \in created THEN initial(k)
                                                    ELSE preferred[k]]
  BY DEF Insert, NewConflictSets
<1>3. \A k \in created : initial(k) \in Constraints
  BY <1>1
<1>4. \A c \in Constraints : c # NoConstraint
  BY ConstraintsClosed DEF NoConstraint
<1> SUFFICES ASSUME NEW c \in Constraints
             PROVE  Exists(c)' <=> \/ Exists(c)
                                   \/ \E d \in registered :
                                        ConflictSetKey(d) = ConflictSetKey(c)
  OBVIOUS
<1>5. ConflictSetKey(c) \in Keys
  BY ConstraintsClosed
<1>6. CASE ConflictSetKey(c) \in created
  <2>1. preferred'[ConflictSetKey(c)] \in Constraints
    <3> HIDE DEF created, initial
    <3> QED
      BY <1>2, <1>3, <1>5, <1>6
  <2>2. Exists(c)'
    BY <2>1, <1>4 DEF Exists
  <2>3. QED
    BY <1>6, <2>2
<1>7. CASE ConflictSetKey(c) \notin created
  <2>1. preferred'[ConflictSetKey(c)] = preferred[ConflictSetKey(c)]
    <3> HIDE DEF created, initial
    <3> QED
      BY <1>2, <1>5, <1>7
  <2>2. \A d \in registered :
            ConflictSetKey(d) = ConflictSetKey(c) => Exists(c)
    BY <1>7 DEF Exists
  <2>3. QED
    BY <2>1, <2>2 DEF Exists
<1>8. QED
  BY <1>6, <1>7

(***************************************************************************)
(* Counting a vote creates no conflict set of its own and removes none.    *)
(***************************************************************************)
LEMMA CountVoteSets ==
    ASSUME TypeOK, NEW c \in Constraints, CountVote(c), Exists(c)
    PROVE  \A d \in Constraints : Exists(d)' <=> Exists(d)
<1>1. c # NoConstraint
  BY ConstraintsClosed DEF NoConstraint
<1>2. \A d \in Constraints : ConflictSetKey(d) \in Keys
  BY ConstraintsClosed
<1>3. \/ preferred' = [preferred EXCEPT ![ConflictSetKey(c)] = c]
      \/ preferred' = preferred
  BY DEF CountVote
<1>4. preferred \in [Keys -> Constraints \cup {NoConstraint}]
  BY DEF TypeOK
<1>5. ASSUME NEW d \in Constraints PROVE Exists(d)' <=> Exists(d)
  <2>1. CASE ConflictSetKey(d) = ConflictSetKey(c)
    BY <1>1, <1>2, <1>3, <1>4, <2>1 DEF Exists
  <2>2. CASE ConflictSetKey(d) # ConflictSetKey(c)
    BY <1>2, <1>3, <1>4, <2>2 DEF Exists
  <2>3. QED
    BY <2>1, <2>2
<1>6. QED
  BY <1>5

(***************************************************************************)
(* What insert does to decisions: it only rejects, only constraints that   *)
(* had no conflict set, and the new vertex with them if it lists a         *)
(* rejected one.                                                           *)
(***************************************************************************)
LEMMA InsertDecision ==
    ASSUME TypeOK, NEW v \in Hash, Insert(v), ~Exists(Unity(v)),
           Unity(v) \notin ParentConstraints(v)
    PROVE  /\ \A d \in Constraints :
                \/ decision'[d] = decision[d]
                \/ /\ decision'[d] = "rejected"
                   /\ d \in ParentConstraints(v) \cup {Unity(v)}
                   /\ ~Exists(d)
           /\ (\E c \in ParentConstraints(v) : decision'[c] = "rejected")
                    => decision'[Unity(v)] = "rejected"
<1> DEFINE onParents == [c \in Constraints |->
                IF /\ c \in ParentConstraints(v) /\ ~Exists(c)
                   /\ \E p \in ConstraintParents(c) : decision[p] = "rejected"
                THEN "rejected" ELSE decision[c]]
<1>1. decision' =
        IF \E p \in ParentConstraints(v) : onParents[p] = "rejected"
        THEN [onParents EXCEPT ![Unity(v)] = "rejected"]
        ELSE onParents
  BY DEF Insert, NewConflictSets, DecisionOnInsert
<1>2. \A d \in Constraints :
            \/ onParents[d] = decision[d]
            \/ /\ onParents[d] = "rejected"
               /\ d \in ParentConstraints(v) /\ ~Exists(d)
  OBVIOUS
<1>3. /\ ParentConstraints(v) \subseteq Constraints
      /\ Unity(v) \in Constraints
  BY ConstraintsClosed
<1>4. DOMAIN onParents = Constraints
  OBVIOUS
<1> HIDE DEF onParents
<1>5. CASE \E p \in ParentConstraints(v) : onParents[p] = "rejected"
  <2>1. decision' = [onParents EXCEPT ![Unity(v)] = "rejected"]
    BY <1>1, <1>5
  <2>2. /\ decision'[Unity(v)] = "rejected"
        /\ \A d \in Constraints \ {Unity(v)} : decision'[d] = onParents[d]
    BY <2>1, <1>3, <1>4
  <2>3. QED
    BY <2>2, <1>2
<1>6. CASE ~\E p \in ParentConstraints(v) : onParents[p] = "rejected"
  BY <1>1, <1>2, <1>6
<1>7. QED
  BY <1>5, <1>6

(***************************************************************************)
(* A late vertex under a rejected constraint is rejected as it is          *)
(* inserted, and no other vertex is touched.                               *)
(***************************************************************************)
LEMMA InsertRejectionInv ==
    ASSUME TypeOK, GraphInv, RejectionInv, NEW v \in Hash,
           CheckVertex(v) = "Ok", Insert(v), UNCHANGED voteVars
    PROVE  RejectionInv'
<1>1. v \notin graph /\ Parents(v) \subseteq graph /\ graph' = graph \cup {v}
  BY CheckOk DEF Insert
<1>2. graph \subseteq Hash
  BY DEF TypeOK
<1>3. ~Exists(Unity(v))
  BY <1>1 DEF RejectionInv, SetsExist
<1>4. \A w \in graph \cup {v} : /\ Unity(v) \notin ParentConstraints(w)
                                /\ ParentConstraints(w) \subseteq Constraints
                                /\ Unity(w) \in Constraints
  <2>1. \A w \in graph \cup {v} : v \notin Parents(w)
    BY <1>1 DEF GraphInv, ParentClosed
  <2>2. \A w \in graph \cup {v} : Unity(v) \in ParentConstraints(w)
                                        => v \in Parents(w)
    BY <1>2, ParentConstraintsOverParents DEF Unity
  <2>3. QED
    BY <1>2, <2>1, <2>2, ConstraintsClosed
<1>5. SetsExist'
  <2>1. \A w \in graph' : \A c \in ParentConstraints(w) \cup {Unity(w)} : Exists(c)'
    BY <1>1, <1>4, InsertSets DEF RejectionInv, SetsExist
  <2>2. ASSUME NEW h \in Hash, Exists(Unity(h))' PROVE h \in graph'
    <3>1. CASE Exists(Unity(h))
      BY <1>1, <3>1 DEF RejectionInv, SetsExist
    <3>2. CASE \E d \in ParentConstraints(v) \cup {Unity(v)} :
                    ConflictSetKey(d) = ConflictSetKey(Unity(h))
      <4>1. Unity(h) \in ParentConstraints(v) \cup {Unity(v)}
        BY <1>4, <3>2, UnityFacts
      <4>2. h \in Parents(v) \cup {v}
        BY <4>1, ParentConstraintsOverParents DEF Unity
      <4>3. QED
        BY <1>1, <4>2
    <3>3. QED
      BY <2>2, <3>1, <3>2, InsertSets, ConstraintsClosed
  <2>3. QED
    BY <2>1, <2>2 DEF SetsExist
<1>6. Registered'
  <2>1. cchildren' = [c \in Constraints |-> cchildren[c] \cup
                        {d \in ParentConstraints(v) \cup {Unity(v)} :
                            c \in ConstraintParents(d)}]
    BY DEF Insert, NewConflictSets
  <2>2. \A w \in graph : \A c \in ParentConstraints(w) :
            Unity(w) \in cchildren'[c]
    BY <1>4, <2>1 DEF RejectionInv, Registered
  <2>3. \A c \in ParentConstraints(v) : Unity(v) \in cchildren'[c]
    BY <1>4, <2>1, UnityFacts
  <2>4. QED
    BY <1>1, <2>2, <2>3 DEF Registered
<1>7. Tainted'
  <2>1. ASSUME NEW w \in graph, NEW c \in ParentConstraints(w),
               decision'[c] = "rejected"
        PROVE  (~Undecided(w) \/ Unity(w) \in rejecting)'
    <3>1. Exists(c) /\ Exists(Unity(w))
      BY DEF RejectionInv, SetsExist
    <3>2. decision'[c] = decision[c] /\ decision'[Unity(w)] = decision[Unity(w)]
      BY <1>3, <1>4, <3>1, InsertDecision
    <3>3. ~Undecided(w) \/ Unity(w) \in rejecting
      BY <2>1, <3>2 DEF RejectionInv, Tainted
    <3>4. QED
      BY <3>2, <3>3 DEF Undecided, voteVars
  <2>2. ASSUME NEW c \in ParentConstraints(v), decision'[c] = "rejected"
        PROVE  (~Undecided(v))'
    BY <1>3, <1>4, <2>2, InsertDecision DEF Undecided
  <2>3. QED
    BY <1>1, <2>1, <2>2 DEF Tainted
<1>8. QED
  BY <1>5, <1>6, <1>7 DEF RejectionInv

(***************************************************************************)
(* Counting a vote decides one constraint in its favour: nothing becomes   *)
(* undecided or rejected.                                                  *)
(***************************************************************************)
LEMMA CountVoteRejectionInv ==
    ASSUME TypeOK, RejectionInv, NEW c \in Constraints, Exists(c),
           CountVote(c), rejecting = {}, UNCHANGED graph
    PROVE  RejectionInv'
<1>1. graph \subseteq Hash
  BY DEF TypeOK
<1>2. \A v \in Hash : /\ ParentConstraints(v) \subseteq Constraints
                      /\ Unity(v) \in Constraints
  BY ConstraintsClosed
<1>3. SetsExist'
  <2>1. \A d \in Constraints : Exists(d)' <=> Exists(d)
    BY CountVoteSets
  <2>2. \A v \in graph : \A d \in ParentConstraints(v) \cup {Unity(v)} : Exists(d)'
    BY <1>1, <1>2, <2>1 DEF RejectionInv, SetsExist
  <2>3. \A h \in Hash : Exists(Unity(h))' => h \in graph
    BY <1>2, <2>1 DEF RejectionInv, SetsExist
  <2>4. QED
    BY <2>2, <2>3 DEF SetsExist
<1>4. Registered'
  BY DEF CountVote, RejectionInv, Registered
<1>5. Tainted'
  <2>1. \A d \in Constraints : \/ decision'[d] = decision[d]
                               \/ decision'[d] = "accepted"
    BY DEF CountVote, TypeOK
  <2>2. ASSUME NEW v \in graph, NEW d \in ParentConstraints(v),
               decision'[d] = "rejected"
        PROVE  (~Undecided(v))'
    <3>1. decision[d] = "rejected"
      BY <1>1, <1>2, <2>1, <2>2
    <3>2. ~Undecided(v)
      BY <3>1 DEF RejectionInv, Tainted
    <3>3. QED
      BY <1>1, <1>2, <2>1, <3>2 DEF Undecided
  <2>3. QED
    BY <2>2 DEF Tainted
<1>6. QED
  BY <1>3, <1>4, <1>5 DEF RejectionInv

(***************************************************************************)
(* A generation of reject_progeny: what is rejected now has its inserted   *)
(* vertices in the next generation.                                        *)
(***************************************************************************)
LEMMA RejectStepRejectionInv ==
    ASSUME TypeOK, RejectionInv, RejectStep
    PROVE  RejectionInv'
<1>1. graph \subseteq Hash /\ UNCHANGED <<graph, preferred, cchildren>>
  BY DEF TypeOK, RejectStep, vertexVars
<1>2. \A v \in graph : /\ ParentConstraints(v) \subseteq Constraints
                       /\ Unity(v) \in Constraints
  BY <1>1, ConstraintsClosed
<1>3. SetsExist' /\ Registered'
  BY <1>1 DEF RejectionInv, SetsExist, Registered, Exists
<1>4. Tainted'
  <2>1. /\ decision' = [c \in Constraints |->
                    IF c \in rejecting THEN "rejected" ELSE decision[c]]
        /\ rejecting' = UNION {cchildren[c] : c \in rejecting}
    BY DEF RejectStep, NextGeneration
  <2>2. ASSUME NEW v \in graph, NEW c \in ParentConstraints(v),
               decision'[c] = "rejected"
        PROVE  (~Undecided(v) \/ Unity(v) \in rejecting)'
    <3>1. CASE c \in rejecting
      <4>1. Unity(v) \in cchildren[c]
        BY DEF RejectionInv, Registered
      <4>2. QED
        BY <2>1, <3>1, <4>1
    <3>2. CASE c \notin rejecting
      <4>1. decision[c] = "rejected"
        BY <1>2, <2>1, <2>2, <3>2
      <4>2. ~Undecided(v) \/ Unity(v) \in rejecting
        BY <4>1 DEF RejectionInv, Tainted
      <4>3. QED
        BY <1>2, <2>1, <4>2 DEF Undecided
    <3>3. QED
      BY <3>1, <3>2
  <2>3. QED
    BY <1>1, <2>2 DEF Tainted
<1>5. QED
  BY <1>3, <1>4 DEF RejectionInv

(***************************************************************************)
(* A step that leaves the graph, the conflict sets and reject_progeny      *)
(* alone keeps the invariant.                                              *)
(***************************************************************************)
LEMMA SameRejectionInv ==
    ASSUME RejectionInv,
           UNCHANGED <<graph, preferred, cchildren, decision, rejecting>>
    PROVE  RejectionInv'
BY DEF RejectionInv, SetsExist, Registered, Tainted, Exists, Undecided

(***************************************************************************)
(* Every step of the task keeps the rejections complete.                   *)
(***************************************************************************)
LEMMA NextRejectionInv ==
    TypeOK /\ GraphInv /\ RejectionInv /\ [Next]_vars => RejectionInv'
<1> SUFFICES ASSUME TypeOK, GraphInv, RejectionInv, [Next]_vars
             PROVE  RejectionInv'
  OBVIOUS
<1>1. ASSUME NEW v \in Hash, NEW stack, TryInsert(v, stack),
             UNCHANGED voteVars
      PROVE  RejectionInv'
  <2>1. CASE UNCHANGED <<vertexVars, conflictVars>>
    BY <1>1, <2>1, SameRejectionInv DEF vertexVars, conflictVars, voteVars
  <2>2. CASE Remember(v)
    BY <1>1, <2>2, SameRejectionInv DEF Remember, conflictVars, voteVars
  <2>3. QED
    BY <1>1, <2>1, <2>2, TryInsertCases, InsertRejectionInv
<1>2. ASSUME NEW v \in Hash, SubmitVertex(v) \/ RetryPending(v)
      PROVE  RejectionInv'
  BY <1>1, <1>2 DEF SubmitVertex, RetryPending
<1>3. ASSUME NEW v \in Hash,
             RecordAgainst(v) \/ RecordPanics(v) \/ RecordFor(v)
      PROVE  RejectionInv'
  BY <1>3, SameRejectionInv
     DEF RecordAgainst, RecordPanics, RecordFor, conflictVars, voteVars
<1>4. ASSUME NEW a \in Hash, NEW c \in Constraints, RecordStep(a, c)
      PROVE  RejectionInv'
  <2>1. a \in graph /\ c \in ParentConstraints(a)
    BY <1>4 DEF RecordStep, Uncounted, GraphInv, VotersInserted
  <2>2. Exists(c)
    BY <2>1 DEF RejectionInv, SetsExist
  <2>3. QED
    BY <1>4, <2>2, CountVoteRejectionInv DEF RecordStep, vertexVars
<1>5. CASE RecordUnity
  <2>1. recording \in graph
    BY <1>5 DEF RecordUnity, GraphInv, VotersInserted
  <2>2. Unity(recording) \in Constraints /\ Exists(Unity(recording))
    BY <2>1, ConstraintsClosed DEF TypeOK, RejectionInv, SetsExist
  <2>3. QED
    BY <1>5, <2>2, CountVoteRejectionInv DEF RecordUnity, vertexVars
<1>6. CASE RejectStep
  BY <1>6, RejectStepRejectionInv
<1>7. CASE UNCHANGED vars
  BY <1>7, SameRejectionInv DEF vars, vertexVars, conflictVars, voteVars
<1>8. QED
  BY <1>2, <1>3, <1>4, <1>5, <1>6, <1>7
     DEF Next, InsertNext, RecordStart, RecordQueryResult, VoteLoop, RecordIgnored

(***************************************************************************)
(* Nothing is rejected at the start.                                       *)
(***************************************************************************)
LEMMA InitRejectionInv == Init => RejectionInv
<1> SUFFICES ASSUME Init PROVE RejectionInv
  OBVIOUS
<1>1. ParentConstraints(Genesis) = {}
  BY ContentAssumption DEF ParentConstraints, ParentConstraintsOf, ConstraintsOf
<1>2. \A h \in Hash : ConflictSetKey(Unity(h)) = {h} /\ {h} \in Keys
  BY ConstraintsClosed DEF ConflictSetKey, Unity
<1>3. \A h \in Hash : Exists(Unity(h)) <=> h = Genesis
  BY <1>2 DEF Init, Exists, Unity, NoConstraint
<1>4. QED
  BY <1>1, <1>3, ContentAssumption
     DEF Init, RejectionInv, SetsExist, Registered, Tainted

(***************************************************************************)
(* reject_progeny is complete: when it is through, no undecided vertex of  *)
(* the graph lists a rejected constraint, however insertions, polls and    *)
(* rejections follow each other.                                           *)
(***************************************************************************)
THEOREM RejectionComplete == Spec => []UndecidedUntainted
<1>1. Init => GraphInv /\ RejectionInv
  BY InitGraphInv, InitRejectionInv
<1>2. TypeOK /\ GraphInv /\ RejectionInv /\ [Next]_vars
            => GraphInv' /\ RejectionInv'
  BY NextGraphInv, NextRejectionInv
<1>3. RejectionInv => UndecidedUntainted
  BY DEF RejectionInv, Tainted, UndecidedUntainted
<1>4. QED
  BY <1>1, <1>2, <1>3, TypeCorrect, PTL DEF Spec

-----------------------------------------------------------------------------
(***************************************************************************)
(* Opposite orderings.                                                     *)
(***************************************************************************)

\* two accepted opposites exist only until reject_progeny reaches one of them
OppositesInv ==
    \A c \in Constraints :
        ~IsUnity(c) /\ decision[c] = "accepted"
                    /\ decision[Conflict(c)] = "accepted"
            => c \in rejecting \/ Conflict(c) \in rejecting

(***************************************************************************)
(* A constraint is accepted together with the rejection of its opposite.   *)
(***************************************************************************)
LEMMA CountVoteOpposites ==
    ASSUME TypeOK, OppositesInv, NEW c \in Constraints, CountVote(c),
           rejecting = {}
    PROVE  OppositesInv'
<1>1. CASE ~Accepts(c)
  BY <1>1 DEF CountVote, OppositesInv
<1>2. CASE Accepts(c)
  <2>1. /\ decision' = [decision EXCEPT ![c] = "accepted"]
        /\ rejecting' = IF IsUnity(c) THEN {} ELSE {Conflict(c)}
    BY <1>2 DEF CountVote, ToReject
  <2>2. ASSUME NEW d \in Constraints, ~IsUnity(d), decision'[d] = "accepted",
               decision'[Conflict(d)] = "accepted"
        PROVE  d \in rejecting' \/ Conflict(d) \in rejecting'
    <3>1. Conflict(d) \in Constraints /\ d = <<d[1], d[2]>>
      BY ConstraintsClosed
    <3>2. d = c \/ Conflict(d) = c
      BY <2>1, <2>2, <3>1 DEF OppositesInv, TypeOK
    <3>3. ~IsUnity(c) /\ (d = c \/ Conflict(c) = d)
      BY <2>2, <3>1, <3>2 DEF IsUnity, Conflict
    <3>4. QED
      BY <2>1, <3>3
  <2>3. QED
    BY <2>2 DEF OppositesInv
<1>3. QED
  BY <1>1, <1>2

(***************************************************************************)
(* Every step of the task keeps opposites apart.                           *)
(***************************************************************************)
LEMMA NextOpposites == TypeOK /\ OppositesInv /\ [Next]_vars => OppositesInv'
<1> SUFFICES ASSUME TypeOK, OppositesInv, [Next]_vars PROVE OppositesInv'
  OBVIOUS
<1>1. CASE UNCHANGED <<decision, rejecting>>
  BY <1>1 DEF OppositesInv
<1>2. ASSUME NEW v \in Hash, NEW stack, TryInsert(v, stack),
             UNCHANGED voteVars
      PROVE  OppositesInv'
  <2>1. CASE Insert(v)
    <3>1. \A d \in Constraints :
                decision'[d] \in {decision[d], "rejected"}
      BY <2>1, ConstraintsClosed
         DEF Insert, NewConflictSets, DecisionOnInsert, TypeOK
    <3>2. \A d \in Constraints : decision'[d] = "accepted"
                                    => decision[d] = "accepted"
      BY <3>1
    <3>3. QED
      BY <1>2, <3>2, ConstraintsClosed DEF OppositesInv, voteVars
  <2>2. CASE UNCHANGED conflictVars
    BY <1>1, <1>2, <2>2 DEF conflictVars, voteVars
  <2>3. QED
    BY <1>2, <2>1, <2>2, TryInsertCases DEF Remember, conflictVars
<1>3. ASSUME NEW v \in Hash, SubmitVertex(v) \/ RetryPending(v)
      PROVE  OppositesInv'
  BY <1>2, <1>3 DEF SubmitVertex, RetryPending
<1>4. ASSUME NEW v \in Hash,
             RecordAgainst(v) \/ RecordPanics(v) \/ RecordFor(v)
      PROVE  OppositesInv'
  BY <1>1, <1>4
     DEF RecordAgainst, RecordPanics, RecordFor, conflictVars, voteVars
<1>5. ASSUME NEW a \in Hash, NEW c \in Constraints, RecordStep(a, c)
      PROVE  OppositesInv'
  BY <1>5, CountVoteOpposites DEF RecordStep
<1>6. CASE RecordUnity
  <2>1. Unity(recording) \in Constraints
    BY <1>6, ConstraintsClosed DEF RecordUnity, TypeOK
  <2>2. QED
    BY <1>6, <2>1, CountVoteOpposites DEF RecordUnity
<1>7. CASE RejectStep
  <2>1. \A d \in Constraints : decision'[d] =
                    IF d \in rejecting THEN "rejected" ELSE decision[d]
    BY <1>7 DEF RejectStep
  <2>2. \A d \in Constraints : decision'[d] = "accepted" =>
                    d \notin rejecting /\ decision[d] = "accepted"
    BY <2>1
  <2>3. QED
    BY <2>2, ConstraintsClosed DEF OppositesInv
<1>8. CASE UNCHANGED vars
  BY <1>1, <1>8 DEF vars, conflictVars, voteVars
<1>9. QED
  BY <1>3, <1>4, <1>5, <1>6, <1>7, <1>8
     DEF Next, InsertNext, RecordStart, RecordQueryResult, VoteLoop, RecordIgnored

(***************************************************************************)
(* Two opposite orderings are never both accepted once reject_progeny is   *)
(* through, whatever the thresholds and the order of the polls.            *)
(***************************************************************************)
THEOREM OppositesExclusive == Spec => []NeverBothAccepted
<1>1. Init => OppositesInv
  <2>1. IsUnity(Unity(Genesis)) /\ Conflict(Unity(Genesis)) = Unity(Genesis)
    BY DEF IsUnity, Unity, Conflict
  <2>2. QED
    BY <2>1 DEF Init, OppositesInv
<1>2. TypeOK /\ OppositesInv /\ [Next]_vars => OppositesInv'
  BY NextOpposites
<1>3. OppositesInv => NeverBothAccepted
  BY DEF OppositesInv, NeverBothAccepted
<1>4. QED
  BY <1>1, <1>2, <1>3, TypeCorrect, PTL DEF Spec

-----------------------------------------------------------------------------
(***************************************************************************)
(* Refinement of VertexLifecycle.                                          *)
(***************************************************************************)

(***************************************************************************)
(* Under the mapping, the inserted vertices are those of the graph.        *)
(***************************************************************************)
LEMMA InsertedIsGraph ==
    ASSUME TypeOK, ChildMapExact
    PROVE  Lifecycle!Inserted = graph
BY DEF TypeOK, ChildMapExact, Lifecycle!Inserted, VertexStatus

(***************************************************************************)
(* Recording a poll, whatever it said, is one step of the life of the      *)
(* vertex.                                                                 *)
(***************************************************************************)
LEMMA RecordLifecycle ==
    ASSUME ChildMapExact, NEW v \in Hash, v \in pending_query,
           pending_query' = pending_query \ {v}, UNCHANGED <<vertex, graph>>
    PROVE  Lifecycle!Record(v)
<1>1. v \in graph /\ v \in vertex
  BY DEF ChildMapExact
<1>2. VertexStatus[v] = "pending"
  BY <1>1 DEF VertexStatus
<1>3. VertexStatus' = [VertexStatus EXCEPT ![v] = "recorded"]
  BY <1>1 DEF VertexStatus
<1>4. QED
  BY <1>2, <1>3 DEF Lifecycle!Record

(***************************************************************************)
(* try_insert admits a vertex, makes it wait, or changes nothing.          *)
(***************************************************************************)
LEMMA TryInsertLifecycle ==
    ASSUME TypeOK, ChildMapExact, NEW v \in Hash, NEW stack,
           TryInsert(v, stack)
    PROVE  Lifecycle!Admit(v) \/ Lifecycle!Wait(v) \/ UNCHANGED VertexStatus
<1>1. /\ pending_query \subseteq graph /\ graph \subseteq vertex
      /\ Lifecycle!Inserted = graph
  BY InsertedIsGraph DEF ChildMapExact
<1>2. [w \in Hash |-> Parents(w)][v] = Parents(v)
  OBVIOUS
<1>3. CASE CheckVertex(v) = "Ok" /\ Insert(v)
  <2>1. v \notin graph /\ Parents(v) \subseteq graph /\ Parents(v) # {}
    BY <1>3, CheckOk
  <2>2. VertexStatus[v] \in {"unknown", "waiting"}
    BY <2>1 DEF VertexStatus
  <2>3. VertexStatus' = [VertexStatus EXCEPT ![v] = "pending"]
    BY <1>3, <2>1 DEF Insert, VertexStatus
  <2>4. QED
    BY <1>1, <1>2, <2>1, <2>2, <2>3 DEF Lifecycle!Admit
<1>4. CASE /\ CheckVertex(v) \in {"MissingParents", "WaitingOnParents"}
           /\ Remember(v)
  <2>1. v \notin graph /\ ~(Parents(v) \subseteq graph)
    BY <1>1, <1>4, CheckWaits
  <2>2. CASE v \in vertex
    BY <1>4, <2>2 DEF Remember, VertexStatus
  <2>3. CASE v \notin vertex
    <3>1. VertexStatus[v] = "unknown"
      BY <2>3 DEF VertexStatus
    <3>2. VertexStatus' = [VertexStatus EXCEPT ![v] = "waiting"]
      BY <1>4, <2>1 DEF Remember, VertexStatus
    <3>3. QED
      BY <1>1, <1>2, <2>1, <3>1, <3>2 DEF Lifecycle!Wait
  <2>4. QED
    BY <2>2, <2>3
<1>5. CASE UNCHANGED <<vertexVars, conflictVars>>
  BY <1>5 DEF vertexVars, VertexStatus
<1>6. QED
  BY <1>3, <1>4, <1>5, TryInsertCases

(***************************************************************************)
(* Every step of the task is a step of the life of a vertex or none.       *)
(***************************************************************************)
LEMMA NextLifecycle ==
    TypeOK /\ ChildMapExact /\ [Next]_vars
        => [Lifecycle!Next]_VertexStatus
<1> SUFFICES ASSUME TypeOK, ChildMapExact, [Next]_vars
             PROVE  Lifecycle!Next \/ UNCHANGED VertexStatus
  OBVIOUS
<1>1. ASSUME NEW v \in Hash, SubmitVertex(v) \/ RetryPending(v)
      PROVE  Lifecycle!Next \/ UNCHANGED VertexStatus
  BY <1>1, TryInsertLifecycle DEF SubmitVertex, RetryPending, Lifecycle!Next
<1>2. ASSUME NEW v \in Hash,
             RecordAgainst(v) \/ RecordPanics(v) \/ RecordFor(v)
      PROVE  Lifecycle!Next
  BY <1>2, RecordLifecycle
     DEF RecordAgainst, RecordPanics, RecordFor, Lifecycle!Next
<1>3. CASE UNCHANGED vertexVars
  BY <1>3 DEF vertexVars, VertexStatus
<1>4. CASE VoteLoop
  BY <1>3, <1>4 DEF VoteLoop, RecordStep, RecordUnity, RejectStep
<1>5. CASE UNCHANGED vars
  BY <1>3, <1>5 DEF vars
<1>6. QED
  BY <1>1, <1>2, <1>4, <1>5 DEF Next, InsertNext, RecordStart, RecordQueryResult,
        RecordIgnored

(***************************************************************************)
(* The DAG implements VertexLifecycle: no order of submissions, retries    *)
(* and polls inserts a vertex before its parents, records it twice or      *)
(* forgets it.                                                             *)
(***************************************************************************)
THEOREM DAGImplementsLifecycle == Spec => RefinesLifecycle
<1>1. Init => Lifecycle!Init
  BY DEF Init, Lifecycle!Init, VertexStatus
<1>2. TypeOK /\ ChildMapExact /\ [Next]_vars => [Lifecycle!Next]_VertexStatus
  BY NextLifecycle
<1>3. QED
  BY <1>1, <1>2, TypeCorrect, ChildMapCorrect, PTL
     DEF Spec, RefinesLifecycle, Lifecycle!Spec
=============================================================================
