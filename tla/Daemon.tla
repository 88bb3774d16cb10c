------------------------------- MODULE Daemon -------------------------------
(***************************************************************************)
(* A daemon as its peers see it (src/app/taurusd): the p2p task            *)
(* (src/p2p/task.rs), the event handler (handler.rs), the RPC method       *)
(* submit_vertex (src/rpc/handlers.rs) and the consensus task, composed.   *)
(*                                                                         *)
(* The p2p task turns what arrives from peers into events on a bounded     *)
(* broadcast channel; the handler takes them one by one, awaits the        *)
(* consensus task on each, and sends the outcome back to the p2p task as   *)
(* an action.  Messages are protobufs (Wire).  What the DAG makes of a     *)
(* call is the subject of DAG and Node; here it is any answer of the       *)
(* call's type.  Requests this node makes itself are those of Poll and     *)
(* Fetcher.                                                                *)
(***************************************************************************)
EXTENDS ConsensusTask, Wire

CONSTANTS
    RequestId, GossipId, NewPeer,   \* what may arrive, each once
    RequestWire, GossipWire,        \* the messages each of them may carry
    SubmissionId, Submitted,        \* calls of submit_vertex, their vertices
    Refusal,       \* errors of try_insert, some of each class
    P2pCapacity,   \* P2P_EVENT_CHAN_CAPACITY
    MaxArrivals,   \* bound: requests, messages, peers and submissions
    MaxTimeOuts    \* bound: calls that time out

\* The errors of check_vertex the handler rejects a message for.
Punitive == {"BadHeight", "ConflictingAncestors", "SelfReferentialParent",
             "Vertex"}

ASSUME DaemonAssumption ==
    /\ Caller = {"handler", "rpc"}
    /\ RequestId \cap GossipId = {} /\ RequestId \cap NewPeer = {}
    /\ RequestId \cap SubmissionId = {} /\ GossipId \cap NewPeer = {}
    /\ GossipId \cap SubmissionId = {} /\ NewPeer \cap SubmissionId = {}
    /\ P2pCapacity \in Nat \ {0}
    /\ \A s \in SubmissionId : Submitted[s] \in Hash
    /\ "Vertex" \in Refusal

VARIABLES
    listening,          \* the handler has subscribed to p2p events
    arrived,            \* for each id, {the message it carried}, or {}
    p2p_events,         \* events the handler has not received
    lost,               \* ids whose event was dropped from that channel
    handling,           \* {the event the handler is busy with}, or {}
    reply,              \* {what ConsensusApi returned for it}, or {}
    p2p_actions,        \* Respond, ReportMessageValidity and Broadcast
    pending_responses,  \* requests whose response channel is kept
    answer,             \* {what the peer that made a request got}, or {}
    verdict,            \* what gossipsub is told of a message
    timeOuts,           \* how many calls timed out
    outcome,            \* history: <<message, result of try_insert>>
    published           \* protobufs published on behalf of RPC clients

peerVars == <<answer, verdict, published>>
queueVars == <<listening, p2p_events, lost>>
p2pVars == <<arrived, queueVars, pending_responses, peerVars>>
handlerVars == <<handling, reply>>
daemonVars == <<vars, p2pVars, handlerVars, p2p_actions, timeOuts, outcome>>

Id == RequestId \cup GossipId \cup NewPeer \cup SubmissionId

DaemonInit ==
    /\ Init /\ listening = FALSE
    /\ arrived = [i \in Id |-> {}] /\ p2p_events = << >> /\ lost = {}
    /\ handling = {} /\ reply = {}
    /\ p2p_actions = << >> /\ pending_responses = {}
    /\ answer = [r \in RequestId |-> {}]
    /\ verdict = [g \in GossipId |-> {}]
    /\ outcome = {} /\ published = {} /\ timeOuts = 0

\* main has not returned: its tasks live as long as the runtime
Alive == status # "exited"

-----------------------------------------------------------------------------
(***************************************************************************)
(* The p2p task.  It spins until the handler, its only subscriber, listens *)
(* and then serves the swarm and its actions in any order.                 *)
(***************************************************************************)
Listening == Alive /\ listening

HandlerSubscribes ==
    /\ Alive /\ ~listening
    /\ listening' = TRUE
    /\ UNCHANGED <<vars, handlerVars, p2p_actions, arrived, p2p_events, lost,
                   pending_responses, peerVars, timeOuts, outcome>>

Arrives(i, message) ==
    /\ arrived[i] = {}
    /\ Cardinality({j \in Id : arrived[j] # {}}) < MaxArrivals
    /\ arrived' = [arrived EXCEPT ![i] = {message}]

\* handle_request_response, of a request that read_request decodes; the
\* stream of any other fails
ReceiveRequest(r, wire) ==
    /\ Listening /\ Arrives(r, wire)
    /\ IF RequestDecodes(wire)
       THEN /\ pending_responses' = pending_responses \cup {r}
            /\ p2p_events' = Append(p2p_events, [kind |-> wire.kind, id |-> r,
                                                 about |-> wire.hash])
            /\ UNCHANGED answer
       ELSE /\ answer' = [answer EXCEPT ![r] = {[kind |-> "failure"]}]
            /\ UNCHANGED <<pending_responses, p2p_events>>
    /\ UNCHANGED <<vars, handlerVars, p2p_actions, listening, lost, verdict,
                   timeOuts, outcome, published>>

\* handle_gossipsub: what does not decode makes no event
ReceiveGossip(g, wire) ==
    /\ Listening /\ Arrives(g, wire)
    /\ p2p_events' = IF BroadcastDecodes(wire)
                     THEN Append(p2p_events, [kind |-> "gossip", id |-> g,
                                              about |-> BroadcastFromProto(wire)])
                     ELSE p2p_events
    /\ UNCHANGED <<vars, handlerVars, p2p_actions, listening, lost,
                   pending_responses, peerVars, timeOuts, outcome>>

\* handle_identify
ReceiveIdentity(peer) ==
    /\ Listening /\ Arrives(peer, "identify")
    /\ p2p_events' = Append(p2p_events,
                            [kind |-> "new_peer", id |-> peer, about |-> peer])
    /\ UNCHANGED <<vars, handlerVars, p2p_actions, listening, lost,
                   pending_responses, peerVars, timeOuts, outcome>>

\* what a peer makes of a response that is sent to it while it waits
Delivered(response) ==
    IF ResponseEncodes(response) /\ ResponseDecodes(ResponseToProto(response))
    THEN ResponseFromProto(ResponseToProto(response))
    ELSE [kind |-> "failure"]

\* Mutant: the response channel of an answered request is kept.
TakeResponseChannelNot(r) == pending_responses

TakeResponseChannel(r) == pending_responses \ {r}

\* Mutant: a broadcast is not checked before it is encoded.
PublishedUnchecked(v) == {BroadcastToProto(v)}

\* BroadcastData::to_wire(true), and publish unless that fails
Published(v) == IF Sane(v) THEN {BroadcastToProto(v)} ELSE {}

\* handle_inbound_action; the peer may have given up on its request.  Requests
\* are sent in Poll and Fetcher, BlockPeer by a fetcher (IllegalResponse there).
TakeAction ==
    LET action == Head(p2p_actions)
    IN  /\ Listening /\ p2p_actions # << >>
        /\ p2p_actions' = Tail(p2p_actions)
        /\ \/ /\ action.kind = "respond"
              /\ pending_responses' = TakeResponseChannel(action.id)
              /\ \E got \in {Delivered(action.value), [kind |-> "failure"]} :
                    answer' = [answer EXCEPT ![action.id] = {got}]
              /\ UNCHANGED <<verdict, published>>
           \/ /\ action.kind = "report"
              /\ verdict' =
                    [verdict EXCEPT ![action.id] = @ \cup {action.value}]
              /\ UNCHANGED <<pending_responses, answer, published>>
           \/ /\ action.kind = "broadcast"
              /\ published' = published \cup Published(action.value)
              /\ UNCHANGED <<pending_responses, answer, verdict>>
        /\ UNCHANGED <<vars, handlerVars, queueVars, arrived, timeOuts,
                       outcome>>

-----------------------------------------------------------------------------
(***************************************************************************)
(* The handler takes p2p events one at a time.  It also subscribes to the  *)
(* consensus events, drops them and survives a lag; ConsensusTask has that *)
(* subscription.                                                           *)
(***************************************************************************)
Closed == [kind |-> "closed"]   \* Err(_) of ConsensusApi: closed or elapsed

ReadsQueue == Listening /\ handling = {} /\ p2p_events # << >>

\* a call of ConsensusApi; its error, when the task has stopped
HandlerCalls(event) ==
    /\ handling' = {event}
    /\ \/ /\ Call("handler",
                  IF event.kind = "gossip" THEN "submit" ELSE "read", event)
          /\ UNCHANGED reply
       \/ /\ status = "stopped"
          /\ reply' = {Closed}
          /\ UNCHANGED vars

\* add_validator, whose error the handler drops
HandlerNotifies(event) ==
    /\ \/ Notify(event)
       \/ status = "stopped" /\ UNCHANGED vars
    /\ UNCHANGED handlerVars

HandlerTakes ==
    LET event == Head(p2p_events)
    IN  /\ ReadsQueue /\ Len(p2p_events) <= P2pCapacity
        /\ p2p_events' = Tail(p2p_events)
        /\ \/ event.kind = "new_peer" /\ HandlerNotifies(event)
           \/ event.kind # "new_peer" /\ HandlerCalls(event)
        /\ UNCHANGED <<p2p_actions, listening, arrived, lost,
                       pending_responses, peerVars, timeOuts, outcome>>

\* Mutant: the handler subscribes anew when it lagged.
RetainedNothing == << >>

Retained ==
    SubSeq(p2p_events, Len(p2p_events) - P2pCapacity + 1, Len(p2p_events))

\* RecvError::Lagged: the events beyond the capacity are gone
HandlerLagged ==
    /\ ReadsQueue /\ Len(p2p_events) > P2pCapacity
    /\ p2p_events' = Retained
    /\ lost' = lost \cup {p2p_events[i].id :
                              i \in 1..(Len(p2p_events) - P2pCapacity)}
    /\ UNCHANGED <<vars, handlerVars, p2p_actions, listening, arrived,
                   pending_responses, peerVars, timeOuts, outcome>>

\* handle_request_response
ResponseFor(r) ==
    CASE r.kind \in {"vertex", "preference"} -> r
      [] r.kind = "none" -> [kind |-> "error", value |-> "NotFound"]
      [] OTHER -> [kind |-> "error", value |-> "Unknown"]

\* Mutant: a message that could not be judged is rejected.
ReportForHarsh(r) ==
    CASE r.kind = "inserted" -> "accept"
      [] r.kind = "refused" /\ r.value = "MissingParents" -> "accept"
      [] OTHER -> "reject"

\* handle_gossipsub
ReportFor(r) ==
    CASE r.kind = "inserted" -> "accept"
      [] r.kind = "refused" /\ r.value = "MissingParents" -> "accept"
      [] r.kind = "refused" /\ r.value \in Punitive -> "reject"
      [] OTHER -> "ignore"

HandlerDone ==
    /\ Alive
    /\ \E event \in handling, r \in reply :
          p2p_actions' = Append(p2p_actions,
              IF event.kind = "gossip"
              THEN [kind |-> "report", id |-> event.id, value |-> ReportFor(r)]
              ELSE [kind |-> "respond", id |-> event.id,
                    value |-> ResponseFor(r)])
    /\ handling' = {} /\ reply' = {}
    /\ UNCHANGED <<vars, p2pVars, timeOuts, outcome>>

-----------------------------------------------------------------------------
(***************************************************************************)
(* The consensus task answers; only what the handler waits for is kept.    *)
(***************************************************************************)
Answers(r) ==
    reply' = IF "handler" \in waiting \ waiting' THEN {r} ELSE reply

Vertices(h) == {[kind |-> "none"], [kind |-> "vertex", value |-> VertexOf(h)]}

Preferences == {[kind |-> "none"]} \cup
               {[kind |-> "preference", value |-> p] : p \in BOOLEAN}

AnswerRead ==
    /\ HandleSilently /\ Head(actions)[2] # "submit"
    /\ LET about == Head(actions)[3]
       IN  \/ /\ about.kind = "get_vertex"
              /\ \E r \in Vertices(about.about) : Answers(r)
           \/ /\ about.kind = "get_preference"
              /\ \E r \in Preferences : Answers(r)
           \/ about.kind = "new_peer" /\ UNCHANGED reply
    /\ UNCHANGED <<p2pVars, handling, p2p_actions, timeOuts, outcome>>

\* for the history: what is said of a gossiped message
Told(result) == ({Head(actions)[3].id} \cap GossipId) \X {result}

Inserts ==
    /\ HandleInsertion
    /\ Sane(Head(actions)[3].about)
    /\ Answers([kind |-> "inserted"])
    /\ outcome' = outcome \cup Told("Ok")
    /\ UNCHANGED <<p2pVars, handling, p2p_actions, timeOuts>>

\* sanity_checks come first; a sane vertex may be refused for any other reason
Refuses ==
    /\ HandleSilently /\ Head(actions)[2] = "submit"
    /\ \E error \in Refusal :
          /\ error = "Vertex" <=> ~Sane(Head(actions)[3].about)
          /\ Answers([kind |-> "refused", value |-> error])
          /\ outcome' = outcome \cup Told(error)
    /\ UNCHANGED <<p2pVars, handling, p2p_actions, timeOuts>>

\* the task ends, and a call of the handler's fails
TaskStops ==
    /\ OwnLagged /\ Answers(Closed)
    /\ UNCHANGED <<p2pVars, handling, p2p_actions, timeOuts, outcome>>

CallTimesOut(c) ==
    /\ Alive /\ TimeOut(c) /\ Answers(Closed)
    /\ timeOuts < MaxTimeOuts /\ timeOuts' = timeOuts + 1
    /\ UNCHANGED <<p2pVars, handling, p2p_actions, outcome>>

(***************************************************************************)
(* RPC: submit_vertex broadcasts the vertex and then submits it, with      *)
(* nothing awaited in between.  One such call is under way at a time.      *)
(***************************************************************************)
RpcSubmits(s) ==
    /\ Alive /\ Arrives(s, "submit_vertex")
    /\ \/ Call("rpc", "submit", [kind |-> "rpc", id |-> s,
                                 about |-> VertexOf(Submitted[s])])
       \/ status = "stopped" /\ UNCHANGED vars
    /\ p2p_actions' = Append(p2p_actions, [kind |-> "broadcast", id |-> s,
                                           value |-> VertexOf(Submitted[s])])
    /\ UNCHANGED <<handlerVars, queueVars, pending_responses, peerVars,
                   timeOuts, outcome>>

-----------------------------------------------------------------------------
Arrivals ==
    \/ \E r \in RequestId :
          \E wire \in RequestWire[r] : ReceiveRequest(r, wire)
    \/ \E g \in GossipId :
          \E wire \in GossipWire[g] : ReceiveGossip(g, wire)
    \/ \E peer \in NewPeer : ReceiveIdentity(peer)
    \/ \E s \in SubmissionId : RpcSubmits(s)

HandlerStep ==
    HandlerSubscribes \/ HandlerTakes \/ HandlerLagged \/ HandlerDone

TaskStep == AnswerRead \/ Inserts \/ Refuses

\* steps of ConsensusTask that answer no call of the handler
Rest == UNCHANGED <<p2pVars, handlerVars, p2p_actions, timeOuts, outcome>>

DaemonNext ==
    \/ Arrivals \/ TakeAction \/ HandlerStep \/ TaskStep \/ TaskStops
    \/ \E c \in Caller : CallTimesOut(c)
    \/ (\E s \in Subscriber : Subscribe(s)) /\ Rest
    \/ Start /\ Rest
    \/ ReceiveOwn /\ Rest
    \/ MainLagged /\ Rest
    \/ (\E s \in Subscriber : Receive(s)) /\ Rest

(***************************************************************************)
(* The runtime polls every task that is ready, and select! puts no branch  *)
(* off for ever.  Nothing need arrive and no time limit need pass.         *)
(***************************************************************************)
DaemonFairness ==
    /\ WF_daemonVars((\E s \in Subscriber : Subscribe(s)) /\ Rest)
    /\ WF_daemonVars(Start /\ Rest)
    /\ WF_daemonVars(TaskStep)
    /\ WF_daemonVars((ReceiveOwn /\ Rest) \/ TaskStops)
    /\ WF_daemonVars((Receive(Main) /\ Rest) \/ (MainLagged /\ Rest))
    /\ WF_daemonVars(HandlerStep)
    /\ WF_daemonVars(TakeAction)

DaemonSpec == DaemonInit /\ [][DaemonNext]_daemonVars /\ DaemonFairness

-----------------------------------------------------------------------------
(***************************************************************************)
(* The p2p task keeps the channels of exactly the requests that will still *)
(* be answered, and of those whose event was lost, which it never frees:   *)
(* the only leak is that of a lagging handler.                             *)
(***************************************************************************)
Unanswered ==
    {p2p_events[i].id : i \in DOMAIN p2p_events}
        \cup {event.id : event \in handling}
        \cup {p2p_actions[i].id : i \in DOMAIN p2p_actions}

PendingResponsesExact ==
    Alive => pending_responses = (Unanswered \cup lost) \cap RequestId

(***************************************************************************)
(* What a peer receives answers its own request: the vertex it asked for,  *)
(* hash by hash, or a preference, an error, or nothing; never the late     *)
(* answer to an earlier call that timed out.                               *)
(***************************************************************************)
AnswersMatch ==
    \A r \in RequestId : \A wire \in arrived[r], a \in answer[r] :
        \/ a.kind \in {"failure", "error"}
        \/ /\ wire.kind = "get_vertex" /\ a.kind = "vertex"
           /\ HashesTo(a.value, wire.hash)
        \/ wire.kind = "get_preference" /\ a.kind = "preference"

(***************************************************************************)
(* Gossipsub is told at most once about a message, and its sender is       *)
(* punished only for what the consensus task said of this very message;    *)
(* a message is passed on only when it was inserted or waits for parents.  *)
(***************************************************************************)
VerdictsMatch ==
    \A g \in GossipId :
        /\ Cardinality(verdict[g]) <= 1
        /\ "reject" \in verdict[g] =>
               \E error \in Punitive : <<g, error>> \in outcome
        /\ "accept" \in verdict[g] =>
               outcome \cap {<<g, "Ok">>, <<g, "MissingParents">>} # {}

(***************************************************************************)
(* Whatever is published on behalf of a client decodes at every peer, to   *)
(* the vertex with the hash the client was told.                           *)
(***************************************************************************)
PublishedDecodes ==
    \A p \in published :
        /\ BroadcastDecodes(p)
        /\ \E s \in SubmissionId :
               HashesTo(BroadcastFromProto(p), Submitted[s])

(***************************************************************************)
(* Every request and every message that decodes is answered or judged      *)
(* unless its event is lost or the process ends: also after the consensus  *)
(* task has stopped, and without the help of any time limit.               *)
(***************************************************************************)
EventsServed ==
    /\ \A r \in RequestId :
           r \in pending_responses
               ~> (r \notin pending_responses \/ r \in lost \/ ~Alive)
    /\ \A g \in GossipId :
           (\E wire \in arrived[g] : BroadcastDecodes(wire))
               ~> (verdict[g] # {} \/ g \in lost \/ ~Alive)
=============================================================================
