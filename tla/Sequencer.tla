----------------------------- MODULE Sequencer ------------------------------
(***************************************************************************)
(* The sequencer (src/sequencer/mod.rs, taurseq): on every tick it asks    *)
(* the node for its frontier over RPC, builds a vertex on it and submits   *)
(* that, also over RPC (src/rpc/handlers.rs).  Between its two calls, and  *)
(* while the second one is under way, the node inserts other vertices and  *)
(* records polls.                                                          *)
(***************************************************************************)
EXTENDS Node

CONSTANT Built   \* the vertices with the namespace and root of Vertex::empty

ASSUME SequencerAssumption ==
    /\ Built \subseteq Hash
    /\ \A v, w \in Built : Content[v] = Content[w] => v = w
    /\ \A v \in Built : Content[v].version = VERSION

VARIABLES
    phase,       \* "idle", "building", "submitted", "exited" or "panicked"
    frontierMeta,\* the hashes get_frontier_meta returned
    submitting   \* {the vertex of the submission in the task's queue}, or {}

seqVars == <<phase, frontierMeta, submitting>>

SequencerInit ==
    /\ NodeInit
    /\ phase = "idle" /\ frontierMeta = << >>
    /\ submitting = {}

\* the frontier in the order of local timestamps, which may be any
Listings(S) ==
    {ps \in [1..Cardinality(S) -> S] :
        \A v \in S : \E i \in DOMAIN ps : ps[i] = v}

\* Mutant: the sequencer extends every childless vertex.
FrontierReportedAll == frontier

FrontierReported == GetFrontier

\* get_frontier_meta is answered; max().unwrap() over no vertices panics
GetFrontierMeta ==
    /\ phase = "idle" /\ Idle
    /\ \E ps \in Listings(FrontierReported) : frontierMeta' = ps
    /\ phase' = IF FrontierReported = {} THEN "panicked" ELSE "building"
    /\ UNCHANGED <<nodeVars, submitting>>

ProposalHeight(ps) ==
    1 + (CHOOSE n \in {Height(ps[i]) : i \in DOMAIN ps} :
            \A i \in DOMAIN ps : n >= Height(ps[i]))

\* RPC's submit_vertex broadcasts the proposal and queues its submission
SubmitProposal ==
    /\ phase = "building"
    /\ \E v \in Built :
          /\ Content[v].parents = frontierMeta
          /\ Height(v) = ProposalHeight(frontierMeta)
          /\ submitting' = {v}
    /\ phase' = "submitted"
    /\ frontierMeta' = << >>
    /\ UNCHANGED nodeVars

\* the task handles the submission: its error ends the sequencer
ProposalHandled ==
    /\ \E v \in submitting :
          /\ Submit(v)
          /\ phase' = CASE phase # "submitted" -> phase
                        [] CheckVertex(v) = "Ok" -> "idle"
                        [] OTHER -> "exited"
    /\ submitting' = {}
    /\ UNCHANGED frontierMeta

\* a call takes longer than it may; a submission stays queued
CallFails ==
    /\ phase \in {"idle", "submitted"}
    /\ phase' = "exited"
    /\ UNCHANGED <<nodeVars, frontierMeta, submitting>>

SequencerNext ==
    \/ NodeNext /\ UNCHANGED seqVars
    \/ GetFrontierMeta \/ SubmitProposal \/ ProposalHandled \/ CallFails

SequencerSpec == SequencerInit /\ [][SequencerNext]_<<nodeVars, seqVars>>

-----------------------------------------------------------------------------
(***************************************************************************)
(* However many vertices and polls the node handles in between, a proposal *)
(* stays acceptable, or has come in from somebody else: the frontier does  *)
(* not go stale under the sequencer, and RPC, which broadcasts a vertex    *)
(* before it is checked, sends none that its own node then refuses.        *)
(***************************************************************************)
ProposalUsable ==
    Idle => \A v \in submitting : CheckVertex(v) \in {"Ok", "AlreadyInserted"}
=============================================================================
