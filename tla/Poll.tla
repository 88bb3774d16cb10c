-------------------------------- MODULE Poll --------------------------------
(***************************************************************************)
(* Polling peers about one vertex (src/consensus/pollster.rs), with the    *)
(* parts that carry a poll: the consensus task that starts pollsters and   *)
(* records their results (src/consensus/task.rs), the p2p task that keeps  *)
(* pending_requests (src/p2p/task.rs), and the peers' request handlers     *)
(* (src/app/taurusd/handler.rs).                                           *)
(*                                                                         *)
(* Every frontier vertex is polled again whenever any vertex is inserted,  *)
(* so several pollsters may be at work on the same vertex.                 *)
(***************************************************************************)
EXTENDS Integers, Sequences, FiniteSets

CONSTANTS Peer,         \* peers that may become validators
          Pollster,     \* bound: the pollsters that may be started
          QueryCount,   \* Config.query_count
          QuorumSize    \* Config.quorum_size

\* task::Config::check refuses query_count < quorum_size.
ASSUME PollAssumption ==
    /\ IsFiniteSet(Peer)
    /\ QueryCount \in Nat /\ QuorumSize \in Nat
    /\ QuorumSize <= QueryCount

Preference == {"for", "against"}

VARIABLES
    validators,        \* peers known to the consensus task
    phase,             \* of each pollster: "new", "running" or "done"
    count_for, count_against,
    responses,         \* the channel of each pollster
    p2p_actions,       \* requests the p2p task has not sent yet; a set, since
                       \* the network may reorder them anyway
    network,           \* requests whose answers have not arrived
    pending_requests,  \* <<pollster, peer>> with a response channel
    actions,           \* RecordPeerPreference actions for the consensus task
    answered,          \* history: every answer a peer has given
    pending_query,     \* the vertex is in the pending_query of the DAG
    result             \* history: what the DAG has recorded, or "none"

vars == <<validators, phase, count_for, count_against, responses, p2p_actions,
          network, pending_requests, actions, answered, pending_query, result>>

Init ==
    /\ validators = {}
    /\ phase = [p \in Pollster |-> "new"]
    /\ count_for = [p \in Pollster |-> 0]
    /\ count_against = [p \in Pollster |-> 0]
    /\ responses = [p \in Pollster |-> << >>]
    /\ p2p_actions = {}
    /\ network = {}
    /\ pending_requests = {}
    /\ actions = << >>
    /\ answered = {}
    /\ pending_query = TRUE
    /\ result = "none"

\* Action::AddValidator
AddValidator(peer) ==
    /\ validators' = validators \cup {peer}
    /\ UNCHANGED <<phase, count_for, count_against, responses, p2p_actions,
                   network, pending_requests, actions, answered, pending_query,
                   result>>

(***************************************************************************)
(* get_validators_for_query draws QueryCount distinct validators, and the  *)
(* pollster asks each of them before it waits for anything.                *)
(***************************************************************************)
StartPollster(p, peers) ==
    /\ phase[p] = "new"
    /\ peers \subseteq validators /\ Cardinality(peers) = QueryCount
    /\ phase' = [phase EXCEPT ![p] = "running"]
    /\ p2p_actions' = p2p_actions \cup {<<p, peer>> : peer \in peers}
    /\ UNCHANGED <<validators, count_for, count_against, responses, network,
                   pending_requests, actions, answered, pending_query, result>>

\* handle_inbound_action, Action::Request: the p2p task sends the request
SendRequest(r) ==
    /\ r \in p2p_actions
    /\ p2p_actions' = p2p_actions \ {r}
    /\ network' = network \cup {r}
    /\ pending_requests' = pending_requests \cup {r}
    /\ UNCHANGED <<validators, phase, count_for, count_against, responses,
                   actions, answered, pending_query, result>>

\* the request or its answer is lost; OutboundFailure is not handled, and
\* the entry of pending_requests stays
LoseRequest(r) ==
    /\ r \in network
    /\ network' = network \ {r}
    /\ UNCHANGED <<validators, phase, count_for, count_against, responses,
                   p2p_actions, pending_requests, actions, answered,
                   pending_query, result>>

\* Mutant: the response channel stays in pending_requests.
RemovePendingNot(r) == pending_requests

RemovePending(r) == pending_requests \ {r}

(***************************************************************************)
(* handle_request_response, Message::Response: the channel is used once; a *)
(* pollster that is done has dropped its receiver.  The peer's handler has *)
(* answered with its preference of some moment, or with an error when it   *)
(* did not have the vertex: "against" stands for either of the two that a  *)
(* pollster counts as against.                                             *)
(***************************************************************************)
ReceiveResponse(r, pref) ==
    /\ r \in network
    /\ network' = network \ {r}
    /\ answered' = answered \cup {<<r[1], r[2], pref>>}
    /\ pending_requests' = RemovePending(r)
    /\ responses' = IF r \in pending_requests /\ phase[r[1]] = "running"
                    THEN [responses EXCEPT ![r[1]] = Append(@, pref)]
                    ELSE responses
    /\ UNCHANGED <<validators, phase, count_for, count_against, p2p_actions,
                   actions, pending_query, result>>

\* Mutant: an answer against the vertex is taken for nothing.
AgainstIgnored(p) == 0

Against(p) == IF Head(responses[p]) = "against" THEN 1 ELSE 0

\* Mutant: one response short of a quorum.
QuorumReachedEarly(p) == \/ count_for[p] + 1 >= QuorumSize
                         \/ count_against[p] + 1 >= QuorumSize

\* Mutant: a quorum against the vertex does not end the loop.
QuorumReachedFor(p) == count_for[p] >= QuorumSize

QuorumReached(p) == \/ count_for[p] >= QuorumSize
                    \/ count_against[p] >= QuorumSize

\* one iteration of Pollster::run's loop
CountResponse(p) ==
    /\ phase[p] = "running"
    /\ ~QuorumReached(p)
    /\ responses[p] # << >>
    /\ responses' = [responses EXCEPT ![p] = Tail(@)]
    /\ count_for' = [count_for EXCEPT ![p] =
                        @ + IF Head(responses[p]) = "for" THEN 1 ELSE 0]
    /\ count_against' = [count_against EXCEPT ![p] = @ + Against(p)]
    /\ UNCHANGED <<validators, phase, p2p_actions, network,
                   pending_requests, actions, answered, pending_query, result>>

Verdict(p) == IF count_for[p] >= QuorumSize THEN "for" ELSE "against"

\* the end of Pollster::run: record_peer_preference
Finish(p) ==
    /\ phase[p] = "running"
    /\ QuorumReached(p)
    /\ phase' = [phase EXCEPT ![p] = "done"]
    /\ actions' = Append(actions, Verdict(p))
    /\ responses' = [responses EXCEPT ![p] = << >>]
    /\ UNCHANGED <<validators, count_for, count_against, p2p_actions, network,
                   pending_requests, answered, pending_query, result>>

(***************************************************************************)
(* Action::RecordPeerPreference: record_query_result takes the vertex out  *)
(* of pending_query, and refuses it (AlreadyRecorded) when it is not there *)
(* any more.                                                               *)
(***************************************************************************)
RecordPeerPreference ==
    /\ actions # << >>
    /\ actions' = Tail(actions)
    /\ \/ /\ pending_query
          /\ pending_query' = FALSE
          /\ result' = Head(actions)
       \/ /\ ~pending_query
          /\ UNCHANGED <<pending_query, result>>
    /\ UNCHANGED <<validators, phase, count_for, count_against, responses,
                   p2p_actions, network, pending_requests, answered>>

-----------------------------------------------------------------------------
Start == \/ \E peer \in Peer : AddValidator(peer)
         \/ \E p \in Pollster, peers \in SUBSET Peer : StartPollster(p, peers)

Lose == \E r \in network : LoseRequest(r)

Answer == \E r \in network, pref \in Preference : ReceiveResponse(r, pref)

\* the steps of this node's own tasks
Work == \/ \E r \in p2p_actions : SendRequest(r)
        \/ \E p \in Pollster : CountResponse(p) \/ Finish(p)
        \/ RecordPeerPreference

Next == Start \/ Lose \/ Answer \/ Work

(***************************************************************************)
(* The runtime keeps scheduling each of the node's tasks: weak fairness of *)
(* each.  A peer answers the requests that reach it; any request may be    *)
(* lost instead, with its answer.                                          *)
(***************************************************************************)
Fairness ==
    /\ WF_vars(\E r \in p2p_actions : SendRequest(r))
    /\ \A p \in Pollster : WF_vars(CountResponse(p) \/ Finish(p))
    /\ WF_vars(RecordPeerPreference)
    /\ WF_vars(Answer)

Spec == Init /\ [][Next]_vars /\ Fairness

-----------------------------------------------------------------------------
\* The types of the channels and of the pollsters' counters.
TypeOK ==
    /\ validators \subseteq Peer
    /\ phase \in [Pollster -> {"new", "running", "done"}]
    /\ count_for \in [Pollster -> 0..QuorumSize]
    /\ count_against \in [Pollster -> 0..QuorumSize]
    /\ responses \in [Pollster -> Seq(Preference)]
    /\ p2p_actions \subseteq Pollster \X Peer
    /\ network \subseteq Pollster \X Peer
    /\ pending_requests \subseteq Pollster \X Peer
    /\ actions \in Seq(Preference)
    /\ answered \subseteq Pollster \X Peer \X Preference
    /\ pending_query \in BOOLEAN
    /\ result \in Preference \cup {"none"}

Voters(p, pref) == {peer \in Peer : <<p, peer, pref>> \in answered}

(***************************************************************************)
(* What the DAG records was said by a quorum: some one pollster got the    *)
(* recorded preference from QuorumSize different peers, however answers    *)
(* are delayed or lost and however many pollsters run at once.             *)
(***************************************************************************)
ResultHasQuorum ==
    result # "none" =>
        \E p \in Pollster : Cardinality(Voters(p, result)) >= QuorumSize

\* a request that was sent and will never be answered
Lost(r) == /\ r \in pending_requests \ network
           /\ \A pref \in Preference : <<r[1], r[2], pref>> \notin answered

(***************************************************************************)
(* A pollster that was started finishes and its result is recorded, unless *)
(* one of its requests is lost: nothing else keeps it waiting, when a      *)
(* split vote still has a majority (2 * QuorumSize - 1 <= QueryCount).     *)
(***************************************************************************)
PollsFinish ==
    \A p \in Pollster :
        (phase[p] = "running") ~> \/ phase[p] = "done" /\ result # "none"
                                  \/ \E peer \in Peer : Lost(<<p, peer>>)

(***************************************************************************)
(* Only lost requests stay in pending_requests, also of a pollster that    *)
(* stopped listening once it had a quorum.                                 *)
(***************************************************************************)
Outstanding(p) == \E peer \in Peer : /\ <<p, peer>> \in pending_requests
                                     /\ ~Lost(<<p, peer>>)

RequestsDrained == \A p \in Pollster : Outstanding(p) ~> ~Outstanding(p)
=============================================================================
