-------------------------------- MODULE Node --------------------------------
(***************************************************************************)
(* The DAG as the consensus task uses it (src/consensus/task.rs): polls    *)
(* are started at the end of the handler of a successful submission, for   *)
(* the vertices of the frontier that are strongly preferred at that        *)
(* moment, and only these may have a poll recorded.                        *)
(*                                                                         *)
(* A pollster takes any time to answer (module Poll), so the results of    *)
(* the polls that were started are recorded in any order, or never.        *)
(***************************************************************************)
EXTENDS DAGProperties

CONSTANT Favoured   \* the vertices a quorum of peers prefers, where the
                    \* peers are steady (SteadyPeers)

VARIABLES polled,   \* vertices for which a pollster was started
          ready     \* there are query_count validators

nodeVars == <<vars, polled, ready>>

NodeInit == Init /\ polled = {} /\ ready = FALSE

\* Action::AddValidator, when it adds the last one that was missing
EnoughValidators ==
    /\ Idle /\ ~ready
    /\ ready' = TRUE
    /\ UNCHANGED <<vars, polled>>

\* Mutant: the whole frontier is polled, preferred or not.
PolledAfterAll == polled \cup frontier'

PolledAfter == polled \cup GetFrontier'

\* what the handler of a submission does after try_insert and retry_pending
StartPollsters ==
    polled' = IF queue' = << >> /\ ready THEN PolledAfter ELSE polled

Submit(v) ==
    /\ SubmitVertex(v)
    /\ IF graph' # graph THEN StartPollsters ELSE UNCHANGED polled
    /\ UNCHANGED ready

Retry(w) == RetryPending(w) /\ StartPollsters /\ UNCHANGED ready

\* a pollster reports
Record(v) ==
    /\ v \in polled
    /\ RecordQueryResult(v)
    /\ UNCHANGED <<polled, ready>>

Count == VoteLoop /\ UNCHANGED <<polled, ready>>

NodeNext == \/ EnoughValidators
            \/ \E v \in Hash : Submit(v) \/ Retry(v) \/ Record(v)
            \/ Count

NodeSpec == NodeInit /\ [][NodeNext]_nodeVars

(***************************************************************************)
(* Peers whose preferences do not change: a poll comes out in favour of    *)
(* the vertices of Favoured and against all others.                        *)
(***************************************************************************)
RecordSteady(v) ==
    /\ Record(v)
    /\ recording' = v => v \in Favoured
    /\ RecordAgainst(v) => v \notin Favoured

(***************************************************************************)
(* Every vertex arrives, every pollster reports, and the task keeps        *)
(* running.                                                                *)
(***************************************************************************)
SteadyPeers ==
    /\ NodeInit
    /\ [][\/ EnoughValidators \/ Count
          \/ \E v \in Hash : Submit(v) \/ Retry(v) \/ RecordSteady(v)]_nodeVars
    /\ WF_nodeVars(EnoughValidators)
    /\ WF_nodeVars(Count)
    /\ \A v \in Hash : /\ WF_nodeVars(Submit(v))
                       /\ WF_nodeVars(Retry(v))
                       /\ WF_nodeVars(RecordSteady(v))

-----------------------------------------------------------------------------
(***************************************************************************)
(* The preferred ordering of a conflict set is the one that was inserted   *)
(* first, for ever: a vertex whose ancestry holds the other one is not     *)
(* reported by get_frontier, so it is never polled and never earns a chit. *)
(***************************************************************************)
FirstSeenPreferred ==
    [][\A k \in Keys : preferred[k] # NoConstraint
                            => preferred'[k] = preferred[k]]_nodeVars

(***************************************************************************)
(* query looks at the undecided part of the ancestry only, and at nothing  *)
(* above an accepted vertex.  Still a vertex that it reports as preferred, *)
(* so whatever is accepted, polled or built on, inherits no ordering but   *)
(* the one its conflict set prefers, hence saw first, and never two        *)
(* opposite ones, although such vertices do get into the graph             *)
(* (NoConflictingAncestry fails).                                          *)
(***************************************************************************)
Favours(v) == \A c \in Inherited(v) : preferred[ConflictSetKey(c)] = c

PreferredThroughout ==
    Idle => \A v \in graph : QueryPreferred(v) => Favours(v)

(***************************************************************************)
(* The errors for which the handler of the daemon has the sender of a      *)
(* vertex punished.                                                        *)
(***************************************************************************)
Punitive == {"Vertex", "BadHeight", "SelfReferentialParent",
             "ConflictingAncestors"}

(***************************************************************************)
(* Whatever has been decided, check_vertex finds no fault with a legal     *)
(* vertex: where nodes differ over one, one of them has rejected an        *)
(* ancestor of it, and no sender of a legal vertex is ever punished.       *)
(***************************************************************************)
LegalNotPunished ==
    Idle => \A v \in Hash \ graph :
        Parents(v) \subseteq graph /\ CheckVertex(v) \in Punitive
            => v \notin LegalVertices

(***************************************************************************)
(* Avalanche reaches agreement with peers: in the end the node prefers     *)
(* every vertex that they steadily prefer.                                 *)
(***************************************************************************)
FollowsPeers ==
    \A v \in Favoured : <>[](v \in graph => QueryPreferred(v))
=============================================================================
