------------------------------ MODULE Fetcher -------------------------------
(***************************************************************************)
(* Fetching missing ancestors (src/fetcher/task.rs): a fetcher is started  *)
(* by the handler of a gossiped vertex with missing parents                *)
(* (src/app/taurusd/handler.rs), asks the peer that sent it for them,      *)
(* submits what it receives and goes on with the parents that misses.      *)
(* Fetchers and gossiped vertices interleave at the consensus task.        *)
(*                                                                         *)
(* The vertices here are legal.  The consensus task is represented by the  *)
(* set of vertices it knows: what is inserted then follows, as checked by  *)
(* InsertionExact of DAGProperties.  An illegal vertex is refused and      *)
(* leaves nothing behind once its parents are known, and until then is     *)
(* remembered unchecked like any other.                                    *)
(***************************************************************************)
EXTENDS Integers, Sequences, FiniteSets

CONSTANTS Hash, Genesis,
          ParentsOf,    \* set of parents of each hash
          Message,      \* bound: the messages gossip may deliver
          Carried,      \* the vertex in each message
          MaxFailed,    \* bound: the hashes failures may concern
          Peer

ASSUME FetcherAssumption ==
    /\ Genesis \in Hash
    /\ ParentsOf \in [Hash -> SUBSET Hash]
    /\ ParentsOf[Genesis] = {}
    /\ Carried \in [Message -> Hash]

(***************************************************************************)
(* Gossipsub delivers a message once.  A message is told by its publisher  *)
(* and a sequence number, so a vertex that is published twice is delivered *)
(* twice.  The fetcher the handler may start is named after the message.   *)
(***************************************************************************)
VARIABLES
    known,       \* the vertex map of the DAG
    gossip,      \* <<message, source>> waiting for the handler
    gossiped,    \* messages delivered by gossip so far
    handling,    \* {<<message, source, missing parents>>}, the call of
                 \* submit_vertex the handler awaits, or {}
    running,     \* <<fetcher, its peer>>
    returned,    \* fetchers that have returned
    requested,   \* the hashes each fetcher has asked for
    asked,       \* history: how often each fetcher asked for each hash
    submitted,   \* history: the vertices each fetcher has submitted
    network,     \* <<fetcher, hash>> not answered yet
    responses,   \* channel of each fetcher: <<kind, the vertex in a vertex
                 \* response, the hash that was asked for in the others>>
    reply,       \* {missing parents} of a fetcher's last submission, or {}
    blocked,     \* peers blocked after an illegal response
    failed       \* history: the hashes a failure has kept a fetcher from
                 \* asking for, or from being given

gossipVars == <<gossip, gossiped, handling>>
fetchVars == <<running, returned, requested, asked, submitted, network,
               responses, reply, blocked>>
vars == <<known, gossipVars, fetchVars, failed>>

Init ==
    /\ known = {Genesis}
    /\ gossip = {} /\ gossiped = {} /\ handling = {}
    /\ running = {} /\ returned = {}
    /\ requested = [f \in Message |-> {}]
    /\ asked = [f \in Message |-> [h \in Hash |-> 0]]
    /\ submitted = [f \in Message |-> {}]
    /\ network = {}
    /\ responses = [f \in Message |-> << >>]
    /\ reply = [f \in Message |-> {}]
    /\ blocked = {}
    /\ failed = {}

-----------------------------------------------------------------------------
\* the MissingParents error of the consensus task; none if all are known
Missing(v) == ParentsOf[v] \ known

\* a peer delivers a message; handle_gossipsub of the p2p task
Gossip(m, src) ==
    /\ m \notin gossiped /\ src \notin blocked
    /\ gossip' = gossip \cup {<<m, src>>}
    /\ gossiped' = gossiped \cup {m}
    /\ UNCHANGED <<known, handling, fetchVars, failed>>

\* Mutant: a vertex with missing parents is not kept.
HandleGossipForgets(m, src) ==
    /\ <<m, src>> \in gossip /\ handling = {}
    /\ gossip' = gossip \ {<<m, src>>}
    /\ handling' = {<<m, src, Missing(Carried[m])>>}
    /\ known' = IF Missing(Carried[m]) = {} THEN known \cup {Carried[m]}
                                           ELSE known
    /\ UNCHANGED <<gossiped, fetchVars, failed>>

\* handle_gossipsub submits the vertex, and waits for the outcome
HandleGossip(m, src) ==
    /\ <<m, src>> \in gossip /\ handling = {}
    /\ gossip' = gossip \ {<<m, src>>}
    /\ handling' = {<<m, src, Missing(Carried[m])>>}
    /\ known' = known \cup {Carried[m]}
    /\ UNCHANGED <<gossiped, fetchVars, failed>>

\* Mutant: the hashes already requested are requested again.
NewHashesAll(f, hashes) == hashes

\* request_hashes: the hashes that were not requested before
NewHashes(f, hashes) == hashes \ requested[f]

RequestHashes(f, hashes) ==
    LET new == NewHashes(f, hashes)
    IN  /\ requested' = [requested EXCEPT ![f] = @ \cup new]
        /\ asked' = [asked EXCEPT ![f] =
                        [h \in Hash |-> @[h] + IF h \in new THEN 1 ELSE 0]]
        /\ network' = network \cup {<<f, h>> : h \in new}

\* the handler starts a fetcher when parents are missing
GossipHandled ==
    \E m \in handling :
        /\ handling' = {}
        /\ \/ /\ m[3] # {}
              /\ running' = running \cup {<<m[1], m[2]>>}
              /\ RequestHashes(m[1], m[3])
           \/ /\ m[3] = {}
              /\ UNCHANGED <<running, requested, asked, network>>
        /\ UNCHANGED <<known, gossip, gossiped, returned, submitted, responses,
                       reply, blocked, failed>>

(***************************************************************************)
(* A peer answers request r with a vertex, an error code, or something     *)
(* else.  handle_request_response passes on whatever has been decoded, and *)
(* nobody compares the hash of the vertex with the one asked for.          *)
(***************************************************************************)
Answer(r, response) ==
    /\ r \in network
    /\ network' = network \ {r}
    /\ responses' = IF r[1] \in returned THEN responses
                    ELSE [responses EXCEPT ![r[1]] = Append(@, response)]
    /\ UNCHANGED <<known, gossipVars, running, returned, requested, asked,
                   submitted, reply, blocked>>

Receives(f, kind) ==
    /\ \E src \in Peer : <<f, src>> \in running
    /\ reply[f] = {}
    /\ responses[f] # << >>
    /\ Head(responses[f])[1] = kind

\* Response::Vertex: the fetcher submits it, and waits for the outcome
SubmitFetched(f) ==
    LET v == Head(responses[f])[2]
    IN  /\ Receives(f, "vertex")
        /\ responses' = [responses EXCEPT ![f] = Tail(@)]
        /\ reply' = [reply EXCEPT ![f] = {Missing(v)}]
        /\ known' = known \cup {v}
        /\ submitted' = [submitted EXCEPT ![f] = @ \cup {v}]
        /\ UNCHANGED <<gossipVars, running, returned, requested, asked,
                       network, blocked, failed>>


\* MissingParents: the fetcher requests these; any other outcome is dropped
FollowUp(f) ==
    \E missing \in reply[f] :
        /\ reply' = [reply EXCEPT ![f] = {}]
        /\ RequestHashes(f, missing)
        /\ UNCHANGED <<known, gossipVars, running, returned, submitted,
                       responses, blocked, failed>>

\* Response::Error is logged
DropError(f) ==
    /\ Receives(f, "error")
    /\ responses' = [responses EXCEPT ![f] = Tail(@)]
    /\ UNCHANGED <<known, gossipVars, running, returned, requested, asked,
                   submitted, network, reply, blocked, failed>>

\* any other response: block the peer and return, whatever else is under way
IllegalResponse(f) ==
    /\ Receives(f, "illegal")
    /\ blocked' = blocked \cup {src \in Peer : <<f, src>> \in running}
    /\ running' = {t \in running : t[1] # f}
    /\ returned' = returned \cup {f}
    /\ responses' = [responses EXCEPT ![f] = << >>]
    /\ failed' = failed \cup requested[f]
    /\ UNCHANGED <<known, gossipVars, requested, asked, submitted, network,
                   reply>>

-----------------------------------------------------------------------------
(***************************************************************************)
(* What can go wrong: a request or answer is lost, a peer does not have    *)
(* the vertex, sends another one or answers out of protocol, and the 60 s  *)
(* limit of ConsensusApi::submit_vertex passes, though the task has the    *)
(* vertex: then nobody asks for the parents that it misses.                *)
(***************************************************************************)
Lose(r) ==
    /\ r \in network
    /\ network' = network \ {r}
    /\ failed' = failed \cup {r[2]}
    /\ UNCHANGED <<known, gossipVars, running, returned, requested, asked,
                   submitted, responses, reply, blocked>>

AnswerOtherwise(r) ==
    /\ failed' = failed \cup {r[2]}
    /\ \/ \E v \in Hash \ {Genesis, r[2]} : Answer(r, <<"vertex", v>>)
       \/ \E kind \in {"error", "illegal"} : Answer(r, <<kind, r[2]>>)

GossipTimesOut ==
    \E m \in handling :
        /\ handling' = {}
        /\ failed' = failed \cup m[3]
        /\ UNCHANGED <<known, gossip, gossiped, fetchVars>>

FetchTimesOut(f) ==
    \E missing \in reply[f] :
        /\ reply' = [reply EXCEPT ![f] = {}]
        /\ failed' = failed \cup missing
        /\ UNCHANGED <<known, gossipVars, running, returned, requested, asked,
                       submitted, network, responses, blocked>>

Failure ==
    /\ Cardinality(failed) < MaxFailed
    /\ \/ \E r \in network : Lose(r) \/ AnswerOtherwise(r)
       \/ GossipTimesOut
       \/ \E f \in Message : FetchTimesOut(f)

Arrive == \E m \in Message, src \in Peer : Gossip(m, src)

\* an honest peer sends what it was asked for
Serve == /\ \E r \in network : Answer(r, <<"vertex", r[2]>>)
         /\ UNCHANGED failed

Handler == \/ \E m \in Message, src \in Peer : HandleGossip(m, src)
           \/ GossipHandled

FetchStep(f) ==
    SubmitFetched(f) \/ FollowUp(f) \/ DropError(f) \/ IllegalResponse(f)

Next == \/ Arrive \/ Serve \/ Handler \/ Failure
        \/ \E f \in Message : FetchStep(f)

(***************************************************************************)
(* The runtime keeps scheduling the handler and each fetcher; a peer has   *)
(* what it gossips and its ancestry, and serves it unless there is a       *)
(* Failure.                                                                *)
(***************************************************************************)
Fairness == /\ WF_vars(Serve)
            /\ WF_vars(Handler)
            /\ \A f \in Message : WF_vars(FetchStep(f))

Spec == Init /\ [][Next]_vars /\ Fairness

-----------------------------------------------------------------------------
\* the least set with a vertex's parents and the parents of all its members
Ancestry ==
    [h \in Hash |->
        {a \in Hash : \A S \in SUBSET Hash :
            /\ ParentsOf[h] \subseteq S
            /\ \A v \in S : ParentsOf[v] \subseteq S
            => a \in S}]

\* the vertices of the graph: known, with a known ancestry
Inserted == {v \in known : Ancestry[v] \subseteq known}

(***************************************************************************)
(* A fetcher asks its peer for a hash once at most, however often the hash *)
(* is reported missing.                                                    *)
(***************************************************************************)
AskedOnce == \A f \in Message, h \in Hash : asked[f][h] <= 1

(***************************************************************************)
(* A fetcher asks only for parents of the vertex it was started for and of *)
(* vertices it was sent itself and has submitted, and these are known:     *)
(* what other fetchers and gossip find missing, it leaves to them.  These  *)
(* need not be ancestors of the vertex it was started for: a peer may have *)
(* sent it any vertex.                                                     *)
(***************************************************************************)
RequestsTraced ==
    \A f \in Message : \A h \in requested[f] :
        \E v \in ({Carried[f]} \cup submitted[f]) \cap known : h \in ParentsOf[v]

=============================================================================
