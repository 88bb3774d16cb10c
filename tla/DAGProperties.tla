--------------------------- MODULE DAGProperties ----------------------------
(***************************************************************************)
(* What is asked of the DAG of module DAG.                                 *)
(***************************************************************************)
EXTENDS DAG

(***************************************************************************)
(* The types of the fields of struct DAG and of ConflictSet, and of the    *)
(* locals of the running handler.                                          *)
(***************************************************************************)
TypeOK ==
    /\ vertex \subseteq Hash
    /\ graph \subseteq Hash
    /\ pending_query \subseteq Hash
    /\ children \in [Hash -> SUBSET Hash]
    /\ frontier \subseteq Hash
    /\ preferred \in [Keys -> Constraints \cup {NoConstraint}]
    /\ last \in [Keys -> Constraints \cup {NoConstraint}]
    /\ chit \subseteq Constraints
    /\ count \in [Constraints -> Nat]
    /\ cparents \in [Constraints -> SUBSET Constraints]
    /\ cchildren \in [Constraints -> SUBSET Constraints]
    /\ decision \in [Constraints -> {"undecided", "accepted", "rejected"}]
    /\ queue \in Seq(SUBSET Hash)
    /\ recording \in Hash \cup {NoVertex}
    /\ ancestors \subseteq Hash
    /\ owner \in Hash \cup {NoVertex}
    /\ live \subseteq Constraints
    /\ rejecting \subseteq Constraints
    /\ panicked \in BOOLEAN

-----------------------------------------------------------------------------
(***************************************************************************)
(* The shape of the graph.                                                 *)
(***************************************************************************)
ProperAncestorsOf ==
    LET above[h \in Hash] ==
            Parents(h) \cup UNION {above[p] : p \in Parents(h)}
    IN  [v \in Hash |-> above[v]]

ProperAncestors(v) == ProperAncestorsOf[v]

\* the constraints a vertex commits to, itself or through its ancestry
InheritedOf == [v \in Hash |-> UNION {ParentConstraints(h) :
                                        h \in ProperAncestors(v) \cup {v}}]

Inherited(v) == InheritedOf[v]

InheritsConflict(v) ==
    \E c \in Inherited(v) : ~IsUnity(c) /\ Conflict(c) \in Inherited(v)

(***************************************************************************)
(* The graph is closed under parents, heights count the longest path to    *)
(* genesis, and no vertex lists two parents of which one descends from the *)
(* other.  check_vertex only searches the ancestry down to the lowest      *)
(* decided height, and decisions are made between any two insertions.      *)
(***************************************************************************)
GraphWellFormed ==
    \A v \in graph \ {Genesis} :
        /\ Parents(v) # {} /\ Parents(v) \subseteq graph
        /\ \A p \in Parents(v) : Height(p) < Height(v)
        /\ \E p \in Parents(v) : Height(v) = Height(p) + 1
        /\ \A p, q \in Parents(v) : p \notin ProperAncestors(q)

(***************************************************************************)
(* The child map holds exactly the known children of every vertex, seen or *)
(* unseen, and the frontier is the set of inserted vertices with no        *)
(* inserted child, in whatever order vertices were submitted and retried.  *)
(***************************************************************************)
ChildMapExact ==
    /\ pending_query \subseteq graph /\ graph \subseteq vertex
    /\ \A p \in Hash : children[p] = {v \in vertex : p \in Parents(v)}
    /\ frontier = {v \in graph : children[v] \cap graph = {}}

(***************************************************************************)
(* Reference for check_vertex while nothing but genesis is decided: a      *)
(* vertex is legal when it is sane, its parents are legal, its height is   *)
(* right, no parent descends from another, and no two of the orderings it  *)
(* inherits or commits to are opposite.                                    *)
(***************************************************************************)
LegalVertices ==
    LET legal[v \in Hash] ==
            \/ v = Genesis
            \/ /\ SanityChecks(v)
               /\ \A p \in Parents(v) : legal[p]
               /\ \A p \in Parents(v) : Height(p) < Height(v)
               /\ \E p \in Parents(v) : Height(v) = Height(p) + 1
               /\ \A p, q \in Parents(v) : p \notin ProperAncestors(q)
               /\ ~InheritsConflict(v)
    IN  {v \in Hash : legal[v]}

\* A node with too few validators starts no polls: vertices only arrive.
ArrivalSpec == Init /\ [][InsertNext]_vars /\ Fairness

(***************************************************************************)
(* Between handlers, while no poll has decided anything, the graph is      *)
(* exactly the set of known legal vertices whose whole ancestry is known.  *)
(* No order of submission strands a vertex that waited on its parents, and *)
(* none lets an illegal one in (try_insert, retry_pending).                *)
(***************************************************************************)
InsertionExact ==
    Idle => graph = {v \in vertex : /\ v \in LegalVertices
                                    /\ ProperAncestors(v) \subseteq vertex}

-----------------------------------------------------------------------------
(***************************************************************************)
(* Decisions.                                                              *)
(***************************************************************************)

(***************************************************************************)
(* No undecided vertex of the graph lists a rejected constraint, once      *)
(* reject_progeny is through: rejection reaches every inserted descendant, *)
(* and insert rejects the late ones.                                       *)
(***************************************************************************)
UndecidedUntainted ==
    rejecting = {} =>
        \A v \in graph : Undecided(v) =>
            \A c \in ParentConstraints(v) : decision[c] # "rejected"

(***************************************************************************)
(* query never fails, and never trips its assertion, on a vertex of the    *)
(* graph: an undecided vertex has no rejected ancestor and no              *)
(* self-referential parent.                                                *)
(***************************************************************************)
QueryNeverFails == Idle => \A v \in graph : ~QueryFails(v)

(***************************************************************************)
(* The two orderings of a conflict set are never both accepted once        *)
(* reject_progeny is through.                                              *)
(***************************************************************************)
NeverBothAccepted ==
    rejecting = {} =>
        \A c \in Constraints :
            ~IsUnity(c) /\ decision[c] = "accepted"
                => decision[Conflict(c)] # "accepted"

(***************************************************************************)
(* An accepted ordering is the preferred one of its conflict set, through  *)
(* all later votes: is_preferred and query agree about it.                 *)
(***************************************************************************)
AcceptedPreferred ==
    \A c \in Constraints :
        decision[c] = "accepted" => preferred[ConflictSetKey(c)] = c

(***************************************************************************)
(* An accepted constraint has as many distinct polled vertices in its      *)
(* progeny as the rule that accepted it asks for.                          *)
(***************************************************************************)
AcceptanceBacked ==
    \A c \in Constraints \ {Unity(Genesis)} :
        decision[c] = "accepted" =>
            Confidence(c) >= IF IsUnity(c) THEN ThreshSafeEarlyCommit
                                           ELSE ThreshAccepted

(***************************************************************************)
(* The sort of get_active_ancestor_constraints: lower vertices are counted *)
(* first.  Once a vote is counted, nothing it counted is kept waiting by   *)
(* the order: a vertex of the active ancestry whose counter has come to    *)
(* the early-commit threshold, and all of whose parent constraints are     *)
(* accepted, some perhaps by this very vote, is not undecided any more.    *)
(***************************************************************************)
CommitsEarly(v) ==
    /\ count'[Unity(v)] >= ThreshSafeEarlyCommit
    /\ \A c \in ParentConstraints(v) : decision'[c] = "accepted"

EarlyCommitTaken ==
    [][recording # NoVertex /\ recording' = NoVertex =>
        \A a \in ancestors : \A p \in (Parents(a) \cap ancestors) \cup {recording} :
            CommitsEarly(p) => decision'[Unity(p)] # "undecided"]_vars

AncestorConstraints ==
    LET above[d \in Constraints] ==
            ConstraintParents(d)
                \cup UNION {above[p] : p \in ConstraintParents(d)}
    IN  [c \in Constraints |-> above[c]]

Settled(c) ==
    \A d \in AncestorConstraints[c] \cup {c} : decision[d] = "accepted"

(***************************************************************************)
(* A constraint that is accepted together with everything it rests on      *)
(* stays accepted.                                                         *)
(***************************************************************************)
SettledFinal ==
    [][\A c \in Constraints : Settled(c) => decision'[c] = "accepted"]_vars

(***************************************************************************)
(* Every handler returns: retry_pending and reject_progeny run out of      *)
(* work, unless the task panicked.                                         *)
(***************************************************************************)
HandlersFinish == []<>(Idle \/ panicked)

-----------------------------------------------------------------------------
(***************************************************************************)
(* The DAG implements the life of a vertex of VertexLifecycle.             *)
(***************************************************************************)
VertexStatus ==
    [v \in Hash |-> IF v \notin vertex THEN "unknown"
                    ELSE IF v \notin graph THEN "waiting"
                    ELSE IF v \in pending_query THEN "pending"
                    ELSE "recorded"]

Lifecycle == INSTANCE VertexLifecycle
                WITH status <- VertexStatus,
                     ParentsOf <- [v \in Hash |-> Parents(v)]

(***************************************************************************)
(* Whatever the order of submissions and poll results, a vertex only moves *)
(* unknown -> waiting -> pending -> recorded, after its parents.           *)
(***************************************************************************)
RefinesLifecycle == Lifecycle!Spec

-----------------------------------------------------------------------------
(***************************************************************************)
(* What the repository's comments say of the DAG.  FrontierNonEmpty and    *)
(* NoConflictingAncestry do not hold.  The others hold for the polls that  *)
(* a node starts (module Node), not when any inserted vertex may have a    *)
(* poll recorded (Spec).                                                   *)
(***************************************************************************)

(***************************************************************************)
(* The comment in the vote loop has a poll in favour of a vertex with a    *)
(* rejected ancestor reported as a hard fork: the handler would go on.     *)
(***************************************************************************)
NoPanic == ~panicked

(***************************************************************************)
(* query's second result says whether the decision on a vertex is final.   *)
(***************************************************************************)
DecisionFinal ==
    [][\A v \in Hash : ~Undecided(v) =>
            decision'[Unity(v)] = decision[Unity(v)]]_vars

(***************************************************************************)
(* A new vertex that takes the reported frontier for its parents, as the   *)
(* sequencer's does, passes the ancestry checks of check_vertex, whatever  *)
(* has been decided so far.                                                *)
(***************************************************************************)
FrontierExtendable ==
    Idle /\ GetFrontier # {} =>
        /\ ~RejectedAncestor(GetFrontier)
        /\ ~SelfReferentialParent(GetFrontier)
        /\ ~ConflictingAncestors(GetFrontier, {})

(***************************************************************************)
(* The reported frontier can be used for the parents of a new vertex, so   *)
(* it is never empty.                                                      *)
(***************************************************************************)
FrontierNonEmpty == Idle => GetFrontier # {}

(***************************************************************************)
(* check_vertex confirms that a vertex is a legal extension of the graph:  *)
(* its ancestry holds no two opposite orderings.                           *)
(***************************************************************************)
NoConflictingAncestry == \A v \in graph : ~InheritsConflict(v)
=============================================================================
