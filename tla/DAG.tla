-------------------------------- MODULE DAG ---------------------------------
(***************************************************************************)
(* The DAG of one node (src/consensus/dag.rs), driven by the two actions   *)
(* of the consensus task that change it: SubmitVertex and                  *)
(* RecordPeerPreference (src/consensus/task.rs).  Both come from any user  *)
(* of the public interface: here any vertex is submitted, and any inserted *)
(* one has a poll result recorded, at any time.  Module Node restricts     *)
(* this to the polls the consensus task itself starts.                     *)
(*                                                                         *)
(* The task owns the DAG and runs one handler at a time.  Handlers that    *)
(* loop (retry_pending, the vote loop of record_query_result,              *)
(* reject_progeny) take one step per iteration; while such a loop runs no  *)
(* other handler may start, so every loop is finished before the next      *)
(* action is received.                                                     *)
(***************************************************************************)
EXTENDS Vertex

CONSTANTS ThreshAccepted,         \* Config.thresh_accepted
          ThreshSafeEarlyCommit,  \* Config.thresh_safe_early_commit
          NoVertex                \* no handler is recording a vote

\* Config::check refuses thresh_accepted < thresh_safe_early_commit.
ASSUME ThresholdAssumption ==
    /\ ThreshAccepted \in Nat
    /\ ThreshSafeEarlyCommit \in Nat
    /\ ThreshSafeEarlyCommit <= ThreshAccepted
    /\ NoVertex \notin Hash

NoConstraint == << >>

VARIABLES
    \* the vertex maps of struct DAG
    vertex,         \* every known vertex
    graph,          \* vertices inserted in the graph
    pending_query,  \* inserted vertices whose poll has not been recorded
    children,       \* known children of each vertex
    frontier,       \* inserted vertices without inserted children
    \* the map of conflict sets, one function per field of ConflictSet
    preferred,      \* by key; NoConstraint: the set does not exist
    last,           \* by key
    chit,           \* the constraints that hold a chit
    count,          \* by constraint
    cparents,       \* by constraint: field parents
    cchildren,      \* by constraint: field children
    decision,       \* by constraint
    \* the handler that is running
    queue,          \* retry_pending's stack, as batches of waiting vertices
    recording,      \* vertex whose positive poll is being counted
    ancestors,      \* its active ancestors and itself
    owner,          \* the ancestor whose constraints are being counted
    live,           \* constraints the vote loop has still to count
    rejecting,      \* constraints reject_progeny has still to mark
    panicked        \* the task has stopped on a failed unwrap

vertexVars == <<vertex, graph, pending_query, children, frontier>>
conflictVars == <<preferred, last, chit, count, cparents, cchildren, decision>>
voteVars == <<recording, ancestors, owner, live, rejecting>>
vars == <<vertexVars, conflictVars, queue, voteVars, panicked>>

Idle == queue = << >> /\ recording = NoVertex /\ ~panicked

-----------------------------------------------------------------------------
(***************************************************************************)
(* DAG::new with the genesis vertex: inserted, accepted, nothing to poll.  *)
(***************************************************************************)
Init ==
    /\ vertex = {Genesis}
    /\ graph = {Genesis}
    /\ pending_query = {}
    /\ children = [v \in Hash |-> {}]
    /\ frontier = {Genesis}
    /\ preferred = [k \in Keys |-> IF k = {Genesis} THEN Unity(Genesis)
                                                    ELSE NoConstraint]
    /\ last = preferred
    /\ chit = {}
    /\ count = [c \in Constraints |-> 0]
    /\ cparents = [c \in Constraints |-> {}]
    /\ cchildren = [c \in Constraints |-> {}]
    /\ decision = [c \in Constraints |-> IF c = Unity(Genesis)
                                         THEN "accepted" ELSE "undecided"]
    /\ queue = << >>
    /\ recording = NoVertex
    /\ ancestors = {}
    /\ owner = NoVertex
    /\ live = {}
    /\ rejecting = {}
    /\ panicked = FALSE

-----------------------------------------------------------------------------
(***************************************************************************)
(* get_active_ancestors, of a vertex with the set of parents P.            *)
(***************************************************************************)
Undecided(v) == decision[Unity(v)] = "undecided"

\* the decided vertices met first on every branch down from each vertex, where
\* the vertices of U are the undecided ones
FirstDecided(U) ==
    LET walk[h \in Hash] ==
            IF h \in U THEN UNION {walk[p] : p \in Parents(h)} ELSE {h}
    IN  walk

\* the vertices whose heights are decided_height, from a set of parents P
DecidedBelow(P) ==
    LET first == FirstDecided({h \in Hash : Undecided(h)})
    IN  UNION {first[p] : p \in P}

\* Mutant: a rejected ancestor is passed over like an accepted one.
RejectedAncestorMissed(P) == FALSE

RejectedAncestor(P) ==
    \E h \in DecidedBelow(P) : decision[Unity(h)] = "rejected"

\* Mutant: the highest of the decided heights.
ToHeightMax(P) ==
    LET heights == {Height(h) : h \in DecidedBelow(P)}
    IN  CHOOSE n \in heights : \A m \in heights : n >= m

\* The lowest of the decided heights: itertools::min of decided_height.
ToHeight(P) ==
    LET heights == {Height(h) : h \in DecidedBelow(P)}
    IN  CHOOSE n \in heights : \A m \in heights : n <= m

\* gather_ancestors, down to height to
Gather(to) ==
    LET gather[h \in Hash] ==
            IF Height(h) > to
            THEN Parents(h) \cup UNION {gather[p] : p \in Parents(h)}
            ELSE {}
    IN  gather

AncestorsOfParents(P) ==
    LET gathered == Gather(ToHeight(P))
    IN  UNION {gathered[p] : p \in P}

SelfReferentialParent(P) == P \cap AncestorsOfParents(P) # {}

\* the parents are in the graph wherever this is used, and so is all above
ActiveAncestors(P) ==
    {h \in graph : h \in P \cup AncestorsOfParents(P) /\ Undecided(h)}

\* Mutant: only the constraints of the vertex itself.
ActiveConstraintsOwn(P, own) == {c \in own : decision[c] = "undecided"}

\* get_active_ancestor_constraints, as a set, for parents P that commit to own
ActiveConstraints(P, own) ==
    {c \in own \cup UNION {ParentConstraints(h) : h \in ActiveAncestors(P)} :
        decision[c] = "undecided"}

ActiveConstraintsOf(v) == ActiveConstraints(Parents(v), ParentConstraints(v))

\* Mutant: a unity constraint, which is its own conflict, counts as one.
ConflictingAncestorsUnity(P, own) ==
    \E c \in ActiveConstraints(P, own) : Conflict(c) \in ActiveConstraints(P, own)

ConflictingAncestors(P, own) ==
    \E c \in ActiveConstraints(P, own) :
        ~IsUnity(c) /\ Conflict(c) \in ActiveConstraints(P, own)

MissingParents(v) == Parents(v) \ vertex

\* Mutant: a parent that is known counts as inserted.
WaitingOnParentsNever(v) == {}

WaitingOnParents(v) == Parents(v) \ graph

ExpectedHeight(v) ==
    1 + (CHOOSE n \in {Height(p) : p \in Parents(v)} :
            \A p \in Parents(v) : Height(p) <= n)

\* check_vertex: the outcome, the checks made in this order
CheckVertex(v) ==
    IF ~SanityChecks(v) THEN "Vertex"
    ELSE IF v \in graph THEN "AlreadyInserted"
    ELSE IF MissingParents(v) # {} THEN "MissingParents"
    ELSE IF WaitingOnParents(v) # {} THEN "WaitingOnParents"
    ELSE IF ExpectedHeight(v) # Height(v) THEN "BadHeight"
    ELSE IF RejectedAncestor(Parents(v)) THEN "RejectedAncestor"
    ELSE IF SelfReferentialParent(Parents(v)) THEN "SelfReferentialParent"
    ELSE IF ConflictingAncestors(Parents(v), ParentConstraints(v))
         THEN "ConflictingAncestors"
    ELSE "Ok"

-----------------------------------------------------------------------------
(***************************************************************************)
(* Insertion.                                                              *)
(***************************************************************************)
MapChild(v) ==
    children' = [p \in Hash |-> IF p \in Parents(v) THEN children[p] \cup {v}
                                                    ELSE children[p]]

Exists(c) == preferred[ConflictSetKey(c)] # NoConstraint

ConstraintParents(c) == ParentConstraints(c[1]) \cup ParentConstraints(c[2])

\* Mutant: a constraint under a rejected one is left undecided.
DecisionOnInsertKept(v) == decision

(***************************************************************************)
(* The conflict set entries insert creates for v: the constraints on its   *)
(* parents that have no set yet, then its unity constraint.  An entry      *)
(* starts rejected when one of the parents of its constraint is rejected.  *)
(***************************************************************************)
DecisionOnInsert(v) ==
    LET onParents == [c \in Constraints |->
                IF /\ c \in ParentConstraints(v) /\ ~Exists(c)
                   /\ \E p \in ConstraintParents(c) : decision[p] = "rejected"
                THEN "rejected" ELSE decision[c]]
    IN  IF /\ ~Exists(Unity(v))
           /\ \E p \in ParentConstraints(v) : onParents[p] = "rejected"
        THEN [onParents EXCEPT ![Unity(v)] = "rejected"]
        ELSE onParents

NewConflictSets(v) ==
    LET registered == ParentConstraints(v) \cup {Unity(v)}
        new == {c \in registered : ~Exists(c)}
        initial(k) == CHOOSE c \in new : ConflictSetKey(c) = k
        created == {ConflictSetKey(c) : c \in new}
    IN  /\ preferred' = [k \in Keys |-> IF k \in created THEN initial(k)
                                                         ELSE preferred[k]]
        /\ last' = [k \in Keys |-> IF k \in created THEN initial(k)
                                                    ELSE last[k]]
        /\ cparents' = [c \in Constraints |->
                IF c \in new THEN ConstraintParents(c) ELSE cparents[c]]
        /\ cchildren' = [c \in Constraints |->
                cchildren[c]
                    \cup {d \in registered : c \in ConstraintParents(d)}]
        /\ decision' = DecisionOnInsert(v)
        /\ UNCHANGED <<chit, count>>

\* Mutant: the parents stay in the frontier.
FrontierAfterGrows(v) == frontier \cup {v}

FrontierAfter(v) == (frontier \ Parents(v)) \cup {v}

\* insert
Insert(v) ==
    /\ vertex' = vertex \cup {v}
    /\ NewConflictSets(v)
    /\ MapChild(v)
    /\ graph' = graph \cup {v}
    /\ pending_query' = pending_query \cup {v}
    /\ frontier' = FrontierAfter(v)

\* Mutant: the vertex is not entered in the child map of its parents.
RememberOnly(v) ==
    /\ vertex' = vertex \cup {v}
    /\ UNCHANGED <<graph, pending_query, children, frontier, conflictVars>>

\* try_insert when check_vertex misses a parent: remember the vertex
Remember(v) ==
    /\ MapChild(v)
    /\ vertex' = vertex \cup {v}
    /\ UNCHANGED <<graph, pending_query, frontier, conflictVars>>

Waiting(v) == {w \in children'[v] : w \notin graph'}

\* Mutant: a new batch replaces what was left of the stack.
PushOver(batch, stack) == IF batch = {} THEN stack ELSE <<batch>>

Push(batch, stack) == IF batch = {} THEN stack ELSE <<batch>> \o stack

(***************************************************************************)
(* try_insert, followed by what its caller does with the children that     *)
(* wait on v: they are retried before the rest of the stack.               *)
(***************************************************************************)
TryInsert(v, stack) ==
    LET outcome == CheckVertex(v)
    IN  \/ /\ outcome = "Ok"
           /\ Insert(v)
           /\ queue' = Push(Waiting(v), stack)
        \/ /\ outcome \in {"MissingParents", "WaitingOnParents"}
           /\ Remember(v)
           /\ queue' = stack
        \/ /\ outcome \notin {"Ok", "MissingParents", "WaitingOnParents"}
           /\ queue' = stack
           /\ UNCHANGED <<vertexVars, conflictVars>>

\* Action::SubmitVertex
SubmitVertex(v) ==
    /\ Idle
    /\ TryInsert(v, << >>)
    /\ UNCHANGED <<voteVars, panicked>>

\* Mutant: a retried vertex is not taken off the stack.
PopNothing(w) == queue

Pop(w) == Push(Head(queue) \ {w}, Tail(queue))

\* one iteration of retry_pending; w is any vertex of the batch on top, since
\* the batch comes from a hash set
RetryPending(w) ==
    /\ queue # << >>
    /\ w \in Head(queue)
    /\ w \in vertex
    /\ TryInsert(w, Pop(w))
    /\ UNCHANGED <<voteVars, panicked>>

-----------------------------------------------------------------------------
(***************************************************************************)
(* record_query_result.                                                    *)
(***************************************************************************)

\* unwrap() of get_active_ancestor_constraints
Unwrappable(v) == /\ ~RejectedAncestor(Parents(v))
                  /\ ~SelfReferentialParent(Parents(v))

\* a poll against v resets the counter of every active constraint above it
RecordAgainst(v) ==
    /\ Idle
    /\ v \in pending_query
    /\ Unwrappable(v)
    /\ pending_query' = pending_query \ {v}
    /\ count' = [c \in Constraints |->
            IF c \in ActiveConstraintsOf(v) \cup {Unity(v)} THEN 0 ELSE count[c]]
    /\ UNCHANGED <<vertex, graph, children, frontier, preferred, last, chit,
                   cparents, cchildren, decision, queue, voteVars, panicked>>

\* a poll for v gives it a chit and starts the vote loop
RecordFor(v) ==
    /\ Idle
    /\ v \in pending_query
    /\ Unwrappable(v)
    /\ pending_query' = pending_query \ {v}
    /\ chit' = chit \cup {Unity(v)}
    /\ recording' = v
    /\ ancestors' = ActiveAncestors(Parents(v)) \cup {v}
    /\ live' = ActiveConstraintsOf(v)
    /\ UNCHANGED <<vertex, graph, children, frontier, preferred, last, count,
                   cparents, cchildren, decision, queue, owner, rejecting,
                   panicked>>

\* the unwrap fails: the task is gone, whatever the poll said
RecordPanics(v) ==
    /\ Idle
    /\ v \in pending_query
    /\ ~Unwrappable(v)
    /\ pending_query' = pending_query \ {v}
    /\ panicked' = TRUE
    /\ UNCHANGED <<vertex, graph, children, frontier, conflictVars, queue,
                   voteVars>>

\* AlreadyRecorded, WaitingOnInsert or NotFound: the result is dropped
RecordIgnored(v) ==
    /\ Idle
    /\ v \notin pending_query
    /\ UNCHANGED vars

\* progeny_with_chits, without its duplicates: what of the set C of chits is
\* found from each constraint along the children given by E
Progeny(C, E) ==
    LET progeny[d \in Constraints] ==
            (C \cap {d}) \cup UNION {progeny[e] : e \in E[d]}
    IN  progeny

ProgenyWithChits(c) == Progeny(chit, cchildren)[c]

Confidence(c) == Cardinality(ProgenyWithChits(c))

ConflictConfidence(c) == IF IsUnity(c) THEN 0 ELSE Confidence(Conflict(c))

HasConflict(c) == ~IsUnity(c) /\ Exists(Conflict(c))

\* Mutant: a change of preference lowers the counter instead of restarting it.
NewCountDecays(c) ==
    IF last[ConflictSetKey(c)] = c THEN count[c] + 1 ELSE count[c] - 1

\* the counter restarts when the previous vote of the set was for the conflict
NewCount(c) == IF last[ConflictSetKey(c)] = c THEN count[c] + 1 ELSE 1

\* Mutant: early commitment of contested constraints.
AcceptsContested(c) ==
    \/ NewCount(c) >= ThreshAccepted
    \/ /\ \A p \in cparents[c] : decision[p] = "accepted"
       /\ NewCount(c) >= ThreshSafeEarlyCommit

\* Mutant: early commitment one vote late.
AcceptsLate(c) ==
    \/ NewCount(c) >= ThreshAccepted
    \/ /\ \A p \in cparents[c] : decision[p] = "accepted"
       /\ ~HasConflict(c)
       /\ NewCount(c) > ThreshSafeEarlyCommit

\* the acceptance rule, on the incremented counter
Accepts(c) ==
    \/ NewCount(c) >= ThreshAccepted
    \/ /\ \A p \in cparents[c] : decision[p] = "accepted"
       /\ ~HasConflict(c)
       /\ NewCount(c) >= ThreshSafeEarlyCommit

BecomesPreferred(c) == Accepts(c) \/ Confidence(c) > ConflictConfidence(c)

\* Mutant: accepting a constraint leaves its conflict alone.
ToRejectNothing(c) == {}

\* Mutant: reject_progeny is given the constraint that was accepted.
ToRejectSelf(c) == IF IsUnity(c) THEN {} ELSE {c}

\* what accepting c has reject_progeny start from
ToReject(c) == IF IsUnity(c) THEN {} ELSE {Conflict(c)}

\* the body of the vote loop for one constraint
CountVote(c) ==
    LET k == ConflictSetKey(c)
    IN  /\ preferred' =
             IF BecomesPreferred(c) THEN [preferred EXCEPT ![k] = c]
                                    ELSE preferred
        /\ last' = [last EXCEPT ![k] = c]
        /\ count' = [count EXCEPT ![c] = NewCount(c)]
        /\ decision' = IF Accepts(c) THEN [decision EXCEPT ![c] = "accepted"]
                                     ELSE decision
        /\ rejecting' = IF Accepts(c) THEN ToReject(c) ELSE {}
        /\ UNCHANGED <<chit, cparents, cchildren>>

\* what is left to count of the constraints listed by ancestor a
Uncounted(a) == ParentConstraints(a) \cap live

\* Mutant: the highest ancestors first.
SortedBeforeHighest(b, a) == Height(b) > Height(a)

(***************************************************************************)
(* The stable sort by height: at the same height the gathered ancestors    *)
(* come in any order, and before the parents of the recorded vertex, which *)
(* keep their listed order.                                                *)
(***************************************************************************)
SortedBefore(b, a) ==
    LET ps == Content[recording].parents
        index(v) == CHOOSE i \in DOMAIN ps : ps[i] = v
    IN  \/ Height(b) < Height(a)
        \/ /\ Height(b) = Height(a)
           /\ a \in Parents(recording)
           /\ b \in Parents(recording) => index(b) < index(a)

\* an ancestor that is started is finished before the next
NextAncestor(a) ==
    IF owner # NoVertex /\ Uncounted(owner) # {} THEN a = owner
    ELSE \A b \in ancestors : Uncounted(b) # {} => ~SortedBefore(b, a)

RecordStep(a, c) ==
    /\ recording # NoVertex /\ rejecting = {}
    /\ a \in ancestors
    /\ NextAncestor(a)
    /\ c \in Uncounted(a)
    /\ \A d \in Uncounted(a) : Position(Content[a].parents, c)
                                 <= Position(Content[a].parents, d)
    /\ CountVote(c)
    /\ owner' = a
    /\ live' = live \ {c}
    /\ UNCHANGED <<vertexVars, queue, recording, ancestors, panicked>>

\* the loop ends with the unity constraint of the recorded vertex
RecordUnity ==
    /\ recording # NoVertex /\ rejecting = {}
    /\ live = {}
    /\ CountVote(Unity(recording))
    /\ recording' = NoVertex
    /\ ancestors' = {}
    /\ owner' = NoVertex
    /\ UNCHANGED <<vertexVars, queue, live, panicked>>

\* Mutant: the progeny of a rejected vertex is left alone.
NextGenerationOfOrderings(R) ==
    UNION {cchildren[c] : c \in {d \in R : ~IsUnity(d)}}

NextGeneration(R) == UNION {cchildren[c] : c \in R}

\* reject_progeny: mark one generation, go on with its children
RejectStep ==
    /\ rejecting # {}
    /\ decision' = [c \in Constraints |->
                        IF c \in rejecting THEN "rejected" ELSE decision[c]]
    /\ rejecting' = NextGeneration(rejecting)
    /\ UNCHANGED <<vertexVars, preferred, last, chit, count, cparents,
                   cchildren, queue, recording, ancestors, owner, live,
                   panicked>>

-----------------------------------------------------------------------------
InsertNext == \/ \E v \in Hash : SubmitVertex(v)
              \/ \E w \in Hash : RetryPending(w)

\* Action::RecordPeerPreference, whatever the poll said
RecordQueryResult(v) == \/ RecordAgainst(v)
                        \/ RecordFor(v)
                        \/ RecordPanics(v)
                        \/ RecordIgnored(v)

RecordStart == \E v \in Hash : RecordQueryResult(v)

VoteLoop == \/ \E a \in Hash, c \in Constraints : RecordStep(a, c)
            \/ RecordUnity
            \/ RejectStep

Next == InsertNext \/ RecordStart \/ VoteLoop

(***************************************************************************)
(* The tokio task that runs a handler is never abandoned half-way: what a  *)
(* handler has begun it finishes.  Nothing obliges a peer to submit or to  *)
(* answer anything.                                                        *)
(***************************************************************************)
Fairness == /\ WF_vars(\E w \in Hash : RetryPending(w))
            /\ WF_vars(VoteLoop)

Spec == Init /\ [][Next]_vars /\ Fairness

-----------------------------------------------------------------------------
(***************************************************************************)
(* query and get_frontier.                                                 *)
(***************************************************************************)
StronglyPreferred(v) ==
    \A c \in ActiveConstraintsOf(v) : preferred[ConflictSetKey(c)] = c

QueryFails(v) == Undecided(v) /\ ~Unwrappable(v)

\* the first component of query's result, for a vertex of the graph
QueryPreferred(v) == \/ decision[Unity(v)] = "accepted"
                     \/ /\ Undecided(v)
                        /\ Unwrappable(v)
                        /\ StronglyPreferred(v)

GetFrontier == {v \in frontier : QueryPreferred(v)}
=============================================================================
