---------------------------- MODULE DaemonProofs ----------------------------
(***************************************************************************)
(* Proofs about the consensus task and the daemon around it, for queues of *)
(* any length, any capacities, any messages and vertices, and every order  *)
(* in which tasks run, time limits pass and channels lag.                  *)
(***************************************************************************)
EXTENDS Daemon, FiniteSetTheorems, TLAPS

-----------------------------------------------------------------------------
(***************************************************************************)
(* Queues.                                                                 *)
(***************************************************************************)

Elements(s) == {s[i] : i \in DOMAIN s}

IdsOf(s) == {s[i].id : i \in DOMAIN s}

FrontIds(s, n) == {s[i].id : i \in 1..n}

DistinctIds(s) == \A i, j \in DOMAIN s : s[i].id = s[j].id => i = j

(***************************************************************************)
(* A queue that is extended has one element more, under an id of its own   *)
(* if that id was not in the queue.                                        *)
(***************************************************************************)
LEMMA QueueAppend ==
    ASSUME NEW S, NEW s \in Seq(S), NEW x \in S
    PROVE  /\ Append(s, x) \in Seq(S)
           /\ Elements(Append(s, x)) = Elements(s) \cup {x}
           /\ IdsOf(Append(s, x)) = IdsOf(s) \cup {x.id}
           /\ DistinctIds(s) /\ x.id \notin IdsOf(s)
                => DistinctIds(Append(s, x))
<1> DEFINE t == Append(s, x)
<1>1. /\ t \in Seq(S)
      /\ DOMAIN t = DOMAIN s \cup {Len(s) + 1} /\ Len(s) + 1 \notin DOMAIN s
      /\ t[Len(s) + 1] = x
      /\ \A i \in DOMAIN s : t[i] = s[i]
  OBVIOUS
<1> HIDE DEF t
<1>2. Elements(t) = Elements(s) \cup {x}
  BY <1>1 DEF Elements
<1>3. IdsOf(t) = IdsOf(s) \cup {x.id}
  BY <1>1 DEF IdsOf
<1>4. DistinctIds(s) /\ x.id \notin IdsOf(s) => DistinctIds(t)
  BY <1>1 DEF DistinctIds, IdsOf
<1>5. QED
  BY <1>1, <1>2, <1>3, <1>4 DEF t

(***************************************************************************)
(* What is left of a queue after a front of n elements is dropped.         *)
(***************************************************************************)
LEMMA QueueDrop ==
    ASSUME NEW S, NEW s \in Seq(S), NEW n \in 0..Len(s),
           NEW t \in Seq(S), Len(t) = Len(s) - n,
           \A i \in DOMAIN t : t[i] = s[i + n]
    PROVE  /\ Elements(t) \subseteq Elements(s)
           /\ IdsOf(s) = IdsOf(t) \cup FrontIds(s, n)
           /\ DistinctIds(s) =>
                 /\ DistinctIds(t)
                 /\ IdsOf(t) \cap FrontIds(s, n) = {}
<1>1. /\ DOMAIN s = 1..Len(s) /\ Len(s) \in Nat
      /\ DOMAIN t = 1..(Len(s) - n)
      /\ \A i \in DOMAIN t : i + n \in DOMAIN s /\ i + n \notin 1..n
      /\ \A i \in DOMAIN s : i \in 1..n \/ i - n \in DOMAIN t
      /\ \A i \in 1..n : i \in DOMAIN s
  OBVIOUS
<1>2. \A i \in DOMAIN s : i \in 1..n \/ s[i] = t[i - n]
  BY <1>1
<1>3. Elements(t) \subseteq Elements(s)
  BY <1>1 DEF Elements
<1>4. IdsOf(s) = IdsOf(t) \cup FrontIds(s, n)
  <2>1. IdsOf(t) \subseteq IdsOf(s) /\ FrontIds(s, n) \subseteq IdsOf(s)
    BY <1>1 DEF IdsOf, FrontIds
  <2>2. IdsOf(s) \subseteq IdsOf(t) \cup FrontIds(s, n)
    BY <1>1, <1>2 DEF IdsOf, FrontIds
  <2>3. QED
    BY <2>1, <2>2
<1>5. ASSUME DistinctIds(s) PROVE DistinctIds(t)
  BY <1>1, <1>5 DEF DistinctIds
<1>6. ASSUME DistinctIds(s) PROVE IdsOf(t) \cap FrontIds(s, n) = {}
  BY <1>1, <1>6 DEF DistinctIds, IdsOf, FrontIds
<1>7. QED
  BY <1>3, <1>4, <1>5, <1>6

(***************************************************************************)
(* Taking the head off a queue.                                            *)
(***************************************************************************)
LEMMA QueueTail ==
    ASSUME NEW S, NEW s \in Seq(S), s # << >>
    PROVE  /\ Tail(s) \in Seq(S) /\ Head(s) \in S /\ Head(s) \in Elements(s)
           /\ Elements(Tail(s)) \subseteq Elements(s)
           /\ IdsOf(s) = IdsOf(Tail(s)) \cup {Head(s).id}
           /\ DistinctIds(s) =>
                 DistinctIds(Tail(s)) /\ Head(s).id \notin IdsOf(Tail(s))
<1> DEFINE t == Tail(s)
<1>1. /\ t \in Seq(S) /\ Len(t) = Len(s) - 1 /\ 1 \in 0..Len(s)
      /\ \A i \in DOMAIN t : t[i] = s[i + 1]
      /\ Head(s) = s[1] /\ 1 \in DOMAIN s /\ s[1] \in S
  OBVIOUS
<1> HIDE DEF t
<1>2. FrontIds(s, 1) = {s[1].id}
  BY DEF FrontIds
<1>3. /\ Elements(t) \subseteq Elements(s)
      /\ IdsOf(s) = IdsOf(t) \cup {s[1].id}
      /\ DistinctIds(s) => DistinctIds(t) /\ IdsOf(t) \cap {s[1].id} = {}
  <2>1. /\ Elements(t) \subseteq Elements(s)
        /\ IdsOf(s) = IdsOf(t) \cup FrontIds(s, 1)
        /\ DistinctIds(s) =>
              DistinctIds(t) /\ IdsOf(t) \cap FrontIds(s, 1) = {}
    BY <1>1, QueueDrop
  <2>2. QED
    BY <1>2, <2>1
<1>4. QED
  BY <1>1, <1>3 DEF Elements, t

(***************************************************************************)
(* ... moves every other element to the front by one.                      *)
(***************************************************************************)
LEMMA TailShifts ==
    ASSUME NEW S, NEW s \in Seq(S), s # << >>
    PROVE  /\ Head(s) = s[1] /\ 1 \in DOMAIN s
           /\ \A i \in DOMAIN Tail(s) :
                 i + 1 \in DOMAIN s /\ Tail(s)[i] = s[i + 1] /\ i + 1 # 1
           /\ \A i \in DOMAIN s : i # 1 =>
                 i - 1 \in DOMAIN Tail(s) /\ Tail(s)[i - 1] = s[i]
           /\ DOMAIN Tail(s) = 1..(Len(s) - 1)
<1>1. /\ Head(s) = s[1] /\ DOMAIN s = 1..Len(s) /\ Len(s) \in Nat /\ Len(s) >= 1
      /\ Tail(s) \in Seq(S) /\ Len(Tail(s)) = Len(s) - 1
      /\ \A i \in 1..(Len(s) - 1) : Tail(s)[i] = s[i + 1]
  OBVIOUS
<1>2. DOMAIN Tail(s) = 1..(Len(s) - 1)
  BY <1>1
<1>3. \A i \in DOMAIN s : i # 1 =>
          i - 1 \in 1..(Len(s) - 1) /\ (i - 1) + 1 = i
  BY <1>1
<1>4. QED
  BY <1>1, <1>2, <1>3

-----------------------------------------------------------------------------
(***************************************************************************)
(* Callers and their actions.                                              *)
(***************************************************************************)

(***************************************************************************)
(* Each caller that waits has one action in the queue, and nobody else     *)
(* has one: a call that timed out leaves an action of Nobody behind.       *)
(***************************************************************************)
OneActionEach ==
    /\ waiting \subseteq Caller
    /\ \A i \in DOMAIN actions : actions[i][1] \in waiting \cup {Nobody}
    /\ \A c \in waiting : \E i \in DOMAIN actions : actions[i][1] = c
    /\ \A i, j \in DOMAIN actions :
          actions[i][1] = actions[j][1] /\ actions[i][1] # Nobody => i = j

\* the steps that change the queue or who waits
TaskMoves(S) ==
    \/ \E c \in Caller : \E kind, x : <<c, kind, x>> \in S /\ Call(c, kind, x)
    \/ \E x : <<Nobody, "notify", x>> \in S /\ Notify(x)
    \/ \E c \in Caller : TimeOut(c)
    \/ HandleSilently \/ HandleInsertion \/ OwnLagged \/ MainLagged
    \/ UNCHANGED <<actions, waiting>>

(***************************************************************************)
(* The queue holds actions.                                                *)
(***************************************************************************)
LEMMA TaskKeepsType ==
    ASSUME NEW K, NEW X, NEW S, S = (Caller \cup {Nobody}) \X K \X X,
           actions \in Seq(S), TaskMoves(S)
    PROVE  actions' \in Seq(S)
<1>1. ASSUME NEW x \in S, actions' = Append(actions, x)
      PROVE  actions' \in Seq(S)
  BY <1>1
<1>2. ASSUME NEW c \in Caller, TimeOut(c) PROVE actions' \in Seq(S)
  <2>1. actions' = [i \in 1..Len(actions) |->
                       IF actions[i][1] = c
                       THEN [actions[i] EXCEPT ![1] = Nobody]
                       ELSE actions[i]]
    BY <1>2 DEF TimeOut, Abandoned
  <2>2. \A x \in S : [x EXCEPT ![1] = Nobody] \in S
    OBVIOUS
  <2>3. \A i \in 1..Len(actions) : actions[i] \in S
    OBVIOUS
  <2>4. actions' \in [1..Len(actions) -> S]
    BY <2>1, <2>2, <2>3
  <2>5. QED
    BY <2>4
<1>3. ASSUME actions # << >>, actions' = Tail(actions) PROVE actions' \in Seq(S)
  BY <1>3
<1>4. CASE actions' = << >>
  BY <1>4
<1>5. CASE actions' = actions
  BY <1>5
<1>6. QED
  BY <1>1, <1>2, <1>3, <1>4, <1>5
     DEF TaskMoves, Call, Notify, HandleSilently, HandleInsertion, OwnLagged,
         MainLagged

(***************************************************************************)
(* A caller sends one action per call and waits for it; whatever takes the *)
(* action off the queue, or the call off the list, does both.              *)
(***************************************************************************)
LEMMA TaskKeepsOneEach ==
    ASSUME NEW K, NEW X, NEW S, S = (Caller \cup {Nobody}) \X K \X X,
           actions \in Seq(S), OneActionEach, TaskMoves(S)
    PROVE  OneActionEach'
<1> USE DEF OneActionEach
<1>1. Nobody \notin Caller
  BY TaskAssumption
<1>2. DOMAIN actions = 1..Len(actions) /\ Len(actions) \in Nat
  OBVIOUS
<1>3. ASSUME NEW x \in S, actions' = Append(actions, x)
      PROVE  /\ DOMAIN actions' = DOMAIN actions \cup {Len(actions) + 1}
             /\ Len(actions) + 1 \notin DOMAIN actions
             /\ \A i \in DOMAIN actions : actions'[i] = actions[i]
             /\ actions'[Len(actions) + 1] = x
  BY <1>3
<1>4. ASSUME NEW c \in Caller, NEW kind, NEW x, <<c, kind, x>> \in S,
             Call(c, kind, x)
      PROVE  OneActionEach'
  <2>1. /\ c \notin waiting /\ waiting' = waiting \cup {c}
        /\ actions' = Append(actions, <<c, kind, x>>)
    BY <1>4 DEF Call
  <2>2. /\ DOMAIN actions' = DOMAIN actions \cup {Len(actions) + 1}
        /\ Len(actions) + 1 \notin DOMAIN actions
        /\ \A i \in DOMAIN actions : actions'[i] = actions[i]
        /\ actions'[Len(actions) + 1][1] = c
    BY <1>3, <1>4, <2>1
  <2>3. \A i \in DOMAIN actions : actions[i][1] # c
    BY <1>1, <2>1
  <2>4. QED
    BY <1>1, <2>1, <2>2, <2>3
<1>5. ASSUME NEW x, <<Nobody, "notify", x>> \in S, Notify(x)
      PROVE  OneActionEach'
  <2>1. waiting' = waiting /\ actions' = Append(actions, <<Nobody, "notify", x>>)
    BY <1>5 DEF Notify
  <2>2. /\ DOMAIN actions' = DOMAIN actions \cup {Len(actions) + 1}
        /\ \A i \in DOMAIN actions : actions'[i] = actions[i]
        /\ actions'[Len(actions) + 1][1] = Nobody
    BY <1>3, <1>5, <2>1
  <2>3. QED
    BY <2>1, <2>2
<1>6. ASSUME NEW c \in Caller, TimeOut(c) PROVE OneActionEach'
  <2>1. /\ waiting' = waiting \ {c}
        /\ DOMAIN actions' = DOMAIN actions
        /\ \A i \in DOMAIN actions :
              actions'[i] = IF actions[i][1] = c
                            THEN [actions[i] EXCEPT ![1] = Nobody]
                            ELSE actions[i]
    BY <1>6 DEF TimeOut, Abandoned
  <2>4. \A i \in DOMAIN actions : [actions[i] EXCEPT ![1] = Nobody][1] = Nobody
    <3>1. \A i \in DOMAIN actions : actions[i] \in (Caller \cup {Nobody}) \X K \X X
      OBVIOUS
    <3>2. \A x \in (Caller \cup {Nobody}) \X K \X X :
              [x EXCEPT ![1] = Nobody][1] = Nobody
      OBVIOUS
    <3>3. QED
      BY <3>1, <3>2
  <2>2. /\ \A i \in DOMAIN actions :
              actions[i][1] # c => actions'[i][1] = actions[i][1]
        /\ \A i \in DOMAIN actions :
              actions[i][1] = c => actions'[i][1] = Nobody
    BY <2>1, <2>4
  <2>3. QED
    BY <1>1, <2>1, <2>2
<1>7. ASSUME actions # << >>, actions' = Tail(actions),
             waiting' = Answered(Head(actions)[1])
      PROVE  OneActionEach'
  <2>1. /\ Head(actions) = actions[1] /\ 1 \in DOMAIN actions
        /\ \A i \in DOMAIN actions' :
              /\ i + 1 \in DOMAIN actions /\ actions'[i] = actions[i + 1]
              /\ i + 1 # 1
        /\ \A i \in DOMAIN actions : i # 1 =>
              i - 1 \in DOMAIN actions' /\ actions'[i - 1] = actions[i]
        /\ DOMAIN actions' = 1..(Len(actions) - 1)
    BY <1>7, TailShifts
  <2>2. waiting' = waiting \ {actions[1][1]}
    BY <1>7, <2>1 DEF Answered
  <2>3. \A i \in DOMAIN actions' : actions'[i][1] \in waiting' \cup {Nobody}
    BY <2>1, <2>2
  <2>4. \A c \in waiting' : \E i \in DOMAIN actions' : actions'[i][1] = c
    BY <2>1, <2>2
  <2>5. \A i, j \in DOMAIN actions' :
          actions'[i][1] = actions'[j][1] /\ actions'[i][1] # Nobody => i = j
    <3> SUFFICES ASSUME NEW i \in DOMAIN actions', NEW j \in DOMAIN actions',
                        actions'[i][1] = actions'[j][1], actions'[i][1] # Nobody
                 PROVE  i = j
      OBVIOUS
    <3>1. i + 1 = j + 1
      <4>1. /\ i + 1 \in DOMAIN actions /\ j + 1 \in DOMAIN actions
            /\ actions[i + 1][1] = actions[j + 1][1]
            /\ actions[i + 1][1] # Nobody
        BY <2>1
      <4>2. QED
        BY <4>1
    <3>2. i \in Nat /\ j \in Nat
      BY <1>2, <2>1
    <3>3. QED
      BY <3>1, <3>2
  <2>6. QED
    BY <2>2, <2>3, <2>4, <2>5
<1>8. ASSUME actions' = << >>, waiting' = {} PROVE OneActionEach'
  BY <1>8
<1>9. QED
  BY <1>4, <1>5, <1>6, <1>7, <1>8
     DEF TaskMoves, HandleSilently, HandleInsertion, OwnLagged, MainLagged,
         CallsLeft

(***************************************************************************)
(* So the callers are as many as their actions.                            *)
(***************************************************************************)
LEMMA OneEachCounts ==
    ASSUME NEW S, actions \in Seq(S), OneActionEach
    PROVE  WaitingHaveActions
<1> DEFINE f == [i \in Answerable |-> actions[i][1]]
<1>1. waiting = {actions[i][1] : i \in Answerable}
  BY TaskAssumption DEF OneActionEach, Answerable
<1>2. IsFiniteSet(Answerable)
  <2>1. Answerable \subseteq 1..Len(actions) /\ Len(actions) \in Nat
    BY DEF Answerable
  <2>2. IsFiniteSet(1..Len(actions))
    BY <2>1, FS_Interval
  <2>3. QED
    BY <2>1, <2>2, FS_Subset
<1>3. f \in Bijection(Answerable, waiting)
  BY <1>1
     DEF OneActionEach, Answerable, Bijection, Injection, Surjection, IsInjective
<1> HIDE DEF f
<1>4. Cardinality(waiting) = Cardinality(Answerable)
  BY <1>2, <1>3, FS_Bijection DEF ExistsBijection
<1>5. QED
  BY <1>1, <1>4 DEF WaitingHaveActions

(***************************************************************************)
(* No caller waits for an action that is gone and none is answered by an   *)
(* action of an earlier call: in the consensus task with any callers, also *)
(* when their time limits pass, and when the task or the process stops.    *)
(***************************************************************************)
THEOREM CallersHaveActions == Spec => []WaitingHaveActions
<1> DEFINE S == (Caller \cup {Nobody}) \X {"read", "submit", "notify"} \X Subject
           I == actions \in Seq(S) /\ OneActionEach
<1>1. Init => I
  BY DEF Init, OneActionEach
<1>2. I /\ [Next]_vars => I'
  <2> SUFFICES ASSUME I, [Next]_vars PROVE I'
    OBVIOUS
  <2>1. TaskMoves(S)
    BY DEF TaskMoves, Next, vars, Outside, Handle, Subscribe, Start, ReceiveOwn,
           Receive
  <2>2. OneActionEach'
    BY <2>1, TaskKeepsOneEach
  <2>3. actions' \in Seq(S)
    BY <2>1, TaskKeepsType
  <2>4. QED
    BY <2>2, <2>3
<1>3. I => WaitingHaveActions
  BY OneEachCounts
<1>4. QED
  BY <1>1, <1>2, <1>3, PTL DEF Spec

-----------------------------------------------------------------------------
(***************************************************************************)
(* The inductive invariant of the daemon.                                  *)
(***************************************************************************)

Asked == [kind : {"get_vertex", "get_preference"}, id : RequestId, about : Hash]

Gossiped == [kind : {"gossip"}, id : GossipId,
             about : {BroadcastFromProto(wire) :
                         wire \in UNION {GossipWire[g] : g \in GossipId}}]

Identified == [kind : {"new_peer"}, id : NewPeer, about : NewPeer]

Event == Asked \cup Gossiped \cup Identified

RpcCall == {[kind |-> "rpc", id |-> s, about |-> VertexOf(Submitted[s])] :
               s \in SubmissionId}

TaskAction == (Caller \cup {Nobody}) \X {"read", "submit", "notify"}
                 \X (Event \cup RpcCall)

Response == [kind : {"vertex"}, value : {VertexOf(h) : h \in Hash}]
              \cup [kind : {"preference"}, value : BOOLEAN]
              \cup [kind : {"error"}, value : ErrorCode]

Report == {"accept", "reject", "ignore"}

Broadcast == {[kind |-> "broadcast", id |-> s, value |-> VertexOf(Submitted[s])] :
                 s \in SubmissionId}

P2pAction == [kind : {"respond"}, id : RequestId, value : Response]
               \cup [kind : {"report"}, id : GossipId, value : Report]
               \cup Broadcast

Failed == [kind |-> "failure"]

\* The types of the queues and of what passes through them.
DaemonTypeOK ==
    /\ actions \in Seq(TaskAction)
    /\ DOMAIN arrived = Id
    /\ p2p_events \in Seq(Event) /\ lost \subseteq Id
    /\ handling \subseteq Asked \cup Gossiped
    /\ p2p_actions \in Seq(P2pAction)
    /\ pending_responses \subseteq RequestId
    /\ answer \in [RequestId -> SUBSET (Response \cup {Failed})]
    /\ verdict \in [GossipId -> SUBSET Report]

(***************************************************************************)
(* Each id is under way once: in the queue of events, with the handler, in *)
(* the queue of actions or lost.  A message that was judged is not any     *)
(* more, so it is judged once.                                             *)
(***************************************************************************)
Handling == {event.id : event \in handling}

OutstandingOnce ==
    /\ DistinctIds(p2p_events) /\ DistinctIds(p2p_actions)
    /\ \A e, f \in handling : e = f
    /\ IdsOf(p2p_events) \cap Handling = {}
    /\ IdsOf(p2p_events) \cap IdsOf(p2p_actions) = {}
    /\ Handling \cap IdsOf(p2p_actions) = {}
    /\ lost \cap Unanswered = {}
    /\ \A i \in Unanswered \cup lost : arrived[i] # {}
    /\ \A g \in GossipId : verdict[g] # {} =>
          /\ g \notin Unanswered /\ arrived[g] # {}
          /\ \A x, y \in verdict[g] : x = y
    /\ pending_responses = (Unanswered \cup lost) \cap RequestId

\* r is what the consensus task may say of event e, and has said of a message
ReplyFits(e, r) ==
    \/ r = Closed
    \/ e.kind = "gossip" /\ r = [kind |-> "inserted"] /\ <<e.id, "Ok">> \in outcome
    \/ /\ e.kind = "gossip"
       /\ \E error \in Refusal : /\ r = [kind |-> "refused", value |-> error]
                                 /\ <<e.id, error>> \in outcome
    \/ e.kind = "get_vertex" /\ r \in Vertices(e.about)
    \/ e.kind = "get_preference" /\ r \in Preferences

(***************************************************************************)
(* The handler waits while it handles an event and has no reply, its one   *)
(* action is about that event, and so is the reply.                        *)
(***************************************************************************)
HandlerWaits ==
    Alive =>
        /\ "handler" \in waiting <=> handling # {} /\ reply = {}
        /\ handling = {} => reply = {}
        /\ \A a \in Elements(actions) : a[1] = "handler" =>
              /\ a[3] \in handling
              /\ a[2] = "submit" <=> a[3].kind = "gossip"
        /\ \A e \in handling, r \in reply : ReplyFits(e, r)

\* a answers the request in wire
Fits(wire, a) ==
    \/ a.kind \in {"failure", "error"}
    \/ /\ wire.kind = "get_vertex" /\ a.kind = "vertex"
       /\ HashesTo(a.value, wire.hash)
    \/ wire.kind = "get_preference" /\ a.kind = "preference"

\* x is a verdict the consensus task has given reason for
Founded(g, x) ==
    /\ x = "reject" => \E error \in Punitive : <<g, error>> \in outcome
    /\ x = "accept" => outcome \cap {<<g, "Ok">>, <<g, "MissingParents">>} # {}

(***************************************************************************)
(* Events carry what arrived under their id, and actions what follows from *)
(* it.                                                                     *)
(***************************************************************************)
Traced ==
    /\ \A e \in (Elements(p2p_events) \cup handling) \cap Asked :
          \A wire \in arrived[e.id] : e.kind = wire.kind /\ e.about = wire.hash
    /\ \A a \in Elements(p2p_actions) :
          /\ a.kind = "respond" => \A wire \in arrived[a.id] : Fits(wire, a.value)
          /\ a.kind = "report" => Founded(a.id, a.value)
    /\ \A r \in RequestId :
          /\ arrived[r] = {} => answer[r] = {}
          /\ \A wire \in arrived[r], a \in answer[r] : Fits(wire, a)
    /\ \A g \in GossipId : \A x \in verdict[g] : Founded(g, x)

DaemonInv == /\ DaemonTypeOK /\ OneActionEach
             /\ OutstandingOnce /\ HandlerWaits /\ Traced

-----------------------------------------------------------------------------
(***************************************************************************)
(* Messages.                                                               *)
(***************************************************************************)

(***************************************************************************)
(* A vertex that is encoded and decoded is the vertex it was.              *)
(***************************************************************************)
LEMMA VertexIntact ==
    \A h \in Hash : VertexFromProto(VertexToProto(VertexOf(h))) = VertexOf(h)
<1>1. \A x : (CHOOSE y \in {x} : TRUE) = x
  OBVIOUS
<1>2. QED
  BY <1>1 DEF VertexFromProto, VertexToProto, VertexOf

(***************************************************************************)
(* A sane vertex is decoded by whoever receives it: its hash fields are    *)
(* those of a vertex.                                                      *)
(***************************************************************************)
LEMMA SaneDecodes ==
    ASSUME NEW h \in Hash, Sane(VertexOf(h))
    PROVE  VertexDecodes(VertexToProto(VertexOf(h)))
<1> DEFINE p == VertexToProto(VertexOf(h))
<1>1. /\ p.parents = Content[h].parents
      /\ p.namespace_id = {Content[h].namespace_id}
      /\ p.root = {Content[h].root}
  BY DEF VertexToProto, VertexOf
<1>2. /\ Content[h].namespace_id \in NamespaceId /\ Content[h].root \in TxRoot
      /\ Content[h].parents \in Seq(Hash)
  BY WireAssumption, ContentAssumption
<1>3. \A i \in DOMAIN p.parents : p.parents[i] \in Hash
  BY <1>1, <1>2
<1>4. Sane(VertexFromProto(p))
  BY VertexIntact
<1> HIDE DEF p
<1>5. QED
  BY <1>1, <1>2, <1>3, <1>4 DEF VertexDecodes, HashDecodes, p

(***************************************************************************)
(* A peer that waits gets the response as it was sent, or a failure.       *)
(***************************************************************************)
LEMMA DeliveredIntact ==
    ASSUME NEW a \in Response
    PROVE  Delivered(a) \in {a, Failed}
<1>1. CASE a.kind = "vertex"
  <2>1. PICK h \in Hash : a = [kind |-> "vertex", value |-> VertexOf(h)]
    BY <1>1 DEF Response
  <2>2. ResponseFromProto(ResponseToProto(a)) = a
    BY <2>1, VertexIntact DEF ResponseFromProto, ResponseToProto
  <2>3. QED
    BY <2>2 DEF Delivered, Failed
<1>2. CASE a.kind = "preference"
  <2>1. PICK b : a = [kind |-> "preference", value |-> b]
    BY <1>2 DEF Response
  <2>2. ResponseFromProto(ResponseToProto(a)) = a
    BY <2>1 DEF ResponseFromProto, ResponseToProto
  <2>3. QED
    BY <2>2 DEF Delivered, Failed
<1>3. CASE a.kind = "error"
  <2>1. PICK code \in ErrorCode : a = [kind |-> "error", value |-> code]
    BY <1>3 DEF Response
  <2>2. \A c \in ErrorCode : ErrorNumber(c) = ErrorNumber(code) => c = code
    BY DEF ErrorCode, ErrorNumber
  <2>3. ErrorFromNumber(ErrorNumber(code)) = code
    BY <2>2 DEF ErrorFromNumber
  <2>4. ResponseFromProto(ResponseToProto(a)) = a
    BY <2>1, <2>3 DEF ResponseFromProto, ResponseToProto
  <2>5. QED
    BY <2>4 DEF Delivered, Failed
<1>4. QED
  BY <1>1, <1>2, <1>3 DEF Response

(***************************************************************************)
(* What the handler makes of a reply to a request answers that request.    *)
(***************************************************************************)
LEMMA ResponseFits ==
    ASSUME NEW e \in Asked, NEW r, ReplyFits(e, r)
    PROVE  /\ ResponseFor(r) \in Response
           /\ \A wire : wire.kind = e.kind /\ wire.hash = e.about
                           => Fits(wire, ResponseFor(r))
<1>1. e.kind \in {"get_vertex", "get_preference"} /\ e.about \in Hash
  BY DEF Asked
<1>2. CASE r = Closed
  BY <1>2 DEF Closed, ResponseFor, Response, ErrorCode, Fits
<1>3. CASE r = [kind |-> "none"]
  BY <1>3 DEF ResponseFor, Response, ErrorCode, Fits
<1>4. CASE /\ e.kind = "get_vertex"
           /\ r = [kind |-> "vertex", value |-> VertexOf(e.about)]
  <2>1. ResponseFor(r) = r /\ r \in Response
    BY <1>1, <1>4 DEF ResponseFor, Response
  <2>2. QED
    BY <1>4, <2>1 DEF Fits, HashesTo
<1>5. ASSUME NEW p \in BOOLEAN, e.kind = "get_preference",
             r = [kind |-> "preference", value |-> p]
      PROVE  /\ ResponseFor(r) = r /\ r \in Response
             /\ \A wire : wire.kind = e.kind => Fits(wire, r)
  BY <1>5 DEF ResponseFor, Response, Fits
<1>6. QED
  BY <1>1, <1>2, <1>3, <1>4, <1>5 DEF ReplyFits, Vertices, Preferences

(***************************************************************************)
(* What it reports of a message, the consensus task has said.              *)
(***************************************************************************)
LEMMA ReportFounded ==
    ASSUME NEW e \in Gossiped, NEW r, ReplyFits(e, r)
    PROVE  ReportFor(r) \in Report /\ Founded(e.id, ReportFor(r))
<1>1. e.kind = "gossip"
  BY DEF Gossiped
<1>2. CASE r = Closed
  BY <1>2 DEF Closed, ReportFor, Report, Founded
<1>3. CASE r = [kind |-> "inserted"] /\ <<e.id, "Ok">> \in outcome
  BY <1>3 DEF ReportFor, Report, Founded
<1>4. ASSUME NEW error, r = [kind |-> "refused", value |-> error],
             <<e.id, error>> \in outcome
      PROVE  ReportFor(r) \in Report /\ Founded(e.id, ReportFor(r))
  <2>1. r.kind = "refused" /\ r.value = error
    BY <1>4
  <2>2. CASE error = "MissingParents"
    BY <1>4, <2>1, <2>2 DEF ReportFor, Report, Founded
  <2>3. CASE error \in Punitive /\ error # "MissingParents"
    BY <1>4, <2>1, <2>3 DEF ReportFor, Report, Founded
  <2>4. CASE error \notin Punitive /\ error # "MissingParents"
    BY <2>1, <2>4 DEF ReportFor, Report, Founded
  <2>5. QED
    BY <2>2, <2>3, <2>4
<1>5. QED
  BY <1>1, <1>2, <1>3, <1>4 DEF ReplyFits

-----------------------------------------------------------------------------
(***************************************************************************)
(* Types.                                                                  *)
(***************************************************************************)

(***************************************************************************)
(* The kind of an event tells where it came from.                          *)
(***************************************************************************)
LEMMA EventKinds ==
    \A e \in Event :
        /\ e.kind = "gossip" <=> e \in Gossiped
        /\ e.kind = "new_peer" <=> e \in Identified
        /\ e.kind \notin {"gossip", "new_peer"} => e \in Asked
        /\ e \in Asked => e.id \in RequestId
        /\ e \in Gossiped => e.id \in GossipId
        /\ e.id \in Id
BY DEF Event, Asked, Gossiped, Identified, Id

(***************************************************************************)
(* The consensus task sees what the handler and the RPC method send it.    *)
(***************************************************************************)
LEMMA DaemonTaskMoves ==
    DaemonTypeOK /\ [DaemonNext]_daemonVars => TaskMoves(TaskAction)
<1> SUFFICES ASSUME DaemonTypeOK, [DaemonNext]_daemonVars
             PROVE  TaskMoves(TaskAction)
  OBVIOUS
<1> USE DEF TaskMoves
<1>1. CASE UNCHANGED vars
  BY <1>1 DEF vars
<1>2. CASE HandlerTakes
  <2> DEFINE event == Head(p2p_events)
  <2>1. event \in Event
    BY <1>2, QueueTail DEF DaemonTypeOK, HandlerTakes, ReadsQueue
  <2>2. \/ UNCHANGED vars
        \/ Notify(event)
        \/ \E kind \in {"submit", "read"} : Call("handler", kind, event)
    BY <1>2 DEF HandlerTakes, HandlerCalls, HandlerNotifies
  <2>3. \A kind \in {"submit", "read", "notify"}, c \in Caller \cup {Nobody} :
            <<c, kind, event>> \in TaskAction
    BY <2>1 DEF TaskAction
  <2>4. "handler" \in Caller
    BY DaemonAssumption
  <2>5. QED
    BY <1>1, <2>2, <2>3, <2>4
<1>3. ASSUME NEW s \in SubmissionId, RpcSubmits(s) PROVE TaskMoves(TaskAction)
  <2> DEFINE x == [kind |-> "rpc", id |-> s, about |-> VertexOf(Submitted[s])]
  <2>1. <<"rpc", "submit", x>> \in TaskAction /\ "rpc" \in Caller
    BY DaemonAssumption DEF TaskAction, RpcCall
  <2>2. UNCHANGED vars \/ Call("rpc", "submit", x)
    BY <1>3 DEF RpcSubmits
  <2>3. QED
    BY <1>1, <2>1, <2>2
<1>4. CASE TaskStep \/ TaskStops \/ \E c \in Caller : CallTimesOut(c)
  BY <1>4 DEF TaskStep, AnswerRead, Inserts, Refuses, TaskStops, CallTimesOut
<1>5. CASE UNCHANGED <<actions, waiting>> \/ MainLagged
  BY <1>5
<1>6. QED
  BY <1>1, <1>2, <1>3, <1>4, <1>5
     DEF DaemonNext, daemonVars, Arrivals, ReceiveRequest, ReceiveGossip,
         ReceiveIdentity, TakeAction, HandlerStep, HandlerSubscribes,
         HandlerLagged, HandlerDone, Subscribe, Start, ReceiveOwn, Receive

(***************************************************************************)
(* What the p2p task adds to its queue is an event, and what it receives   *)
(* is marked as arrived.                                                   *)
(***************************************************************************)
LEMMA ReceivesEvents ==
    ASSUME DaemonTypeOK
    PROVE  /\ \A r \in RequestId : \A wire \in RequestWire[r] :
                 /\ ReceiveRequest(r, wire) /\ RequestDecodes(wire)
                 => [kind |-> wire.kind, id |-> r, about |-> wire.hash] \in Asked
           /\ \A g \in GossipId : \A wire \in GossipWire[g] :
                 [kind |-> "gossip", id |-> g, about |-> BroadcastFromProto(wire)]
                     \in Gossiped
           /\ \A peer \in NewPeer :
                 [kind |-> "new_peer", id |-> peer, about |-> peer] \in Identified
<1>1. \A wire : RequestDecodes(wire) =>
          wire.kind \in {"get_vertex", "get_preference"} /\ wire.hash \in Hash
  BY DEF RequestDecodes, HashDecodes
<1>2. QED
  BY <1>1 DEF Asked, Gossiped, Identified

(***************************************************************************)
(* What the handler lags behind is the front of the queue.                 *)
(***************************************************************************)
LEMMA LaggedDrops ==
    ASSUME DaemonTypeOK, HandlerLagged
    PROVE  /\ p2p_events' \in Seq(Event)
           /\ Elements(p2p_events') \subseteq Elements(p2p_events)
           /\ \E front : /\ IdsOf(p2p_events) = IdsOf(p2p_events') \cup front
                         /\ lost' = lost \cup front
                         /\ DistinctIds(p2p_events) =>
                               /\ DistinctIds(p2p_events')
                               /\ IdsOf(p2p_events') \cap front = {}
<1> DEFINE n == Len(p2p_events) - P2pCapacity
<1>1. /\ p2p_events \in Seq(Event) /\ Len(p2p_events) > P2pCapacity
      /\ P2pCapacity \in Nat \ {0}
      /\ p2p_events' = SubSeq(p2p_events, n + 1, Len(p2p_events))
      /\ lost' = lost \cup FrontIds(p2p_events, n)
  BY DaemonAssumption DEF DaemonTypeOK, HandlerLagged, Retained, FrontIds
<1>2. n \in 0..Len(p2p_events)
  BY <1>1
<1>3. /\ p2p_events' \in Seq(Event) /\ Len(p2p_events') = Len(p2p_events) - n
      /\ \A i \in DOMAIN p2p_events' : p2p_events'[i] = p2p_events[i + n]
  BY <1>1
<1> HIDE DEF n
<1>4. /\ Elements(p2p_events') \subseteq Elements(p2p_events)
      /\ IdsOf(p2p_events) = IdsOf(p2p_events') \cup FrontIds(p2p_events, n)
      /\ DistinctIds(p2p_events) =>
            /\ DistinctIds(p2p_events')
            /\ IdsOf(p2p_events') \cap FrontIds(p2p_events, n) = {}
  <2> SUFFICES ASSUME NEW s, s = p2p_events, NEW t, t = p2p_events'
               PROVE  /\ Elements(t) \subseteq Elements(s)
                      /\ IdsOf(s) = IdsOf(t) \cup FrontIds(s, n)
                      /\ DistinctIds(s) =>
                            /\ DistinctIds(t)
                            /\ IdsOf(t) \cap FrontIds(s, n) = {}
    OBVIOUS
  <2>1. s \in Seq(Event) /\ n \in 0..Len(s)
    BY <1>1, <1>2
  <2>2. t \in Seq(Event) /\ Len(t) = Len(s) - n
    BY <1>3
  <2>3. \A i \in DOMAIN t : t[i] = s[i + n]
    BY <1>3
  <2>4. QED
    BY <2>1, <2>2, <2>3, QueueDrop
<1>5. QED
  BY <1>1, <1>3, <1>4

(***************************************************************************)
(* What the handler makes of the replies it gets.                          *)
(***************************************************************************)
LEMMA HandlerDoneAction ==
    ASSUME DaemonTypeOK, HandlerWaits, HandlerDone
    PROVE  \E event \in handling, r \in reply, a \in P2pAction :
              /\ ReplyFits(event, r)
              /\ p2p_actions' = Append(p2p_actions, a) /\ a.id = event.id
              /\ \/ /\ event \in Gossiped /\ a.kind = "report"
                    /\ a.value = ReportFor(r)
                 \/ /\ event \in Asked /\ a.kind = "respond"
                    /\ a.value = ResponseFor(r)
<1>1. PICK event \in handling, r \in reply :
        p2p_actions' = Append(p2p_actions,
            IF event.kind = "gossip"
            THEN [kind |-> "report", id |-> event.id, value |-> ReportFor(r)]
            ELSE [kind |-> "respond", id |-> event.id, value |-> ResponseFor(r)])
  BY DEF HandlerDone
<1>2. ReplyFits(event, r)
  BY DEF HandlerWaits, HandlerDone
<1>3. event \in Asked \cup Gossiped /\ event \in Event
  BY DEF DaemonTypeOK, Event
<1>4. CASE event.kind = "gossip"
  <2> DEFINE a == [kind |-> "report", id |-> event.id, value |-> ReportFor(r)]
  <2>1. event \in Gossiped /\ event.id \in GossipId
    BY <1>3, <1>4, EventKinds
  <2>2. a \in P2pAction
    BY <1>2, <2>1, ReportFounded DEF P2pAction
  <2>3. QED
    BY <1>1, <1>2, <1>4, <2>1, <2>2
<1>5. CASE event.kind # "gossip"
  <2> DEFINE a == [kind |-> "respond", id |-> event.id, value |-> ResponseFor(r)]
  <2>1. event \in Asked /\ event.id \in RequestId
    BY <1>3, <1>5, EventKinds
  <2>2. a \in P2pAction
    BY <1>2, <2>1, ResponseFits DEF P2pAction
  <2>3. QED
    BY <1>1, <1>2, <1>5, <2>1, <2>2
<1>6. QED
  BY <1>4, <1>5

(***************************************************************************)
(* The kind of an action tells what it carries.                            *)
(***************************************************************************)
LEMMA ActionKinds ==
    \A a \in P2pAction :
        /\ a.kind \in {"respond", "report", "broadcast"}
        /\ a.kind = "respond" => a.id \in RequestId /\ a.value \in Response
        /\ a.kind = "report" => a.id \in GossipId /\ a.value \in Report
        /\ a.kind = "broadcast" =>
              a.id \in SubmissionId /\ a.value = VertexOf(Submitted[a.id])
BY DEF P2pAction, Broadcast

(***************************************************************************)
(* Queues, answers and verdicts keep their types.                          *)
(***************************************************************************)
LEMMA NextDaemonTypeOK ==
    DaemonTypeOK /\ HandlerWaits /\ [DaemonNext]_daemonVars => DaemonTypeOK'
<1> SUFFICES ASSUME DaemonTypeOK, HandlerWaits, [DaemonNext]_daemonVars
             PROVE  DaemonTypeOK'
  OBVIOUS
<1> USE DEF DaemonTypeOK
<1>1. actions' \in Seq(TaskAction)
  BY DaemonTaskMoves, TaskKeepsType DEF TaskAction
<1>2. CASE UNCHANGED <<p2pVars, handling, p2p_actions>>
  BY <1>1, <1>2 DEF p2pVars, queueVars, peerVars
<1>3. ASSUME NEW r \in RequestId, NEW wire \in RequestWire[r],
             ReceiveRequest(r, wire)
      PROVE  DaemonTypeOK'
  <2>1. DOMAIN arrived' = Id
    BY <1>3 DEF ReceiveRequest, Arrives
  <2>2. UNCHANGED <<lost, handling, p2p_actions, verdict>>
    BY <1>3 DEF ReceiveRequest, handlerVars
  <2>3. CASE RequestDecodes(wire)
    <3>1. /\ pending_responses' = pending_responses \cup {r} /\ answer' = answer
          /\ p2p_events' = Append(p2p_events, [kind |-> wire.kind, id |-> r,
                                               about |-> wire.hash])
      BY <1>3, <2>3 DEF ReceiveRequest
    <3>2. p2p_events' \in Seq(Event)
      BY <1>3, <2>3, <3>1, ReceivesEvents, QueueAppend DEF Event
    <3>3. QED
      BY <1>1, <2>1, <2>2, <3>1, <3>2
  <2>4. CASE ~RequestDecodes(wire)
    <3>1. /\ answer' = [answer EXCEPT ![r] = {Failed}]
          /\ UNCHANGED <<pending_responses, p2p_events>>
      BY <1>3, <2>4 DEF ReceiveRequest, Failed
    <3>2. answer' \in [RequestId -> SUBSET (Response \cup {Failed})]
      BY <3>1
    <3>3. QED
      BY <1>1, <2>1, <2>2, <3>1, <3>2
  <2>5. QED
    BY <2>3, <2>4
<1>4. ASSUME NEW g \in GossipId, NEW wire \in GossipWire[g],
             ReceiveGossip(g, wire)
      PROVE  DaemonTypeOK'
  <2>1. /\ DOMAIN arrived' = Id
        /\ UNCHANGED <<lost, handling, p2p_actions, pending_responses, answer,
                       verdict>>
    BY <1>4 DEF ReceiveGossip, Arrives, handlerVars, peerVars
  <2>2. p2p_events' \in Seq(Event)
    BY <1>4, ReceivesEvents, QueueAppend DEF ReceiveGossip, Event
  <2>3. QED
    BY <1>1, <2>1, <2>2
<1>5. ASSUME NEW peer \in NewPeer, ReceiveIdentity(peer) PROVE DaemonTypeOK'
  <2>1. /\ DOMAIN arrived' = Id
        /\ UNCHANGED <<lost, handling, p2p_actions, pending_responses, answer,
                       verdict>>
    BY <1>5 DEF ReceiveIdentity, Arrives, handlerVars, peerVars
  <2>2. p2p_events' \in Seq(Event)
    BY <1>5, ReceivesEvents, QueueAppend DEF ReceiveIdentity, Event
  <2>3. QED
    BY <1>1, <2>1, <2>2
<1>6. CASE TakeAction
  <2> DEFINE action == Head(p2p_actions)
  <2>1. /\ p2p_actions # << >> /\ p2p_actions' = Tail(p2p_actions)
        /\ UNCHANGED <<arrived, p2p_events, lost, handling>>
    BY <1>6 DEF TakeAction, handlerVars, queueVars
  <2>2. p2p_actions' \in Seq(P2pAction) /\ action \in P2pAction
    BY <2>1, QueueTail
  <2>3. CASE action.kind = "respond"
    <3>1. /\ pending_responses' \subseteq pending_responses /\ verdict' = verdict
          /\ \E got \in {Delivered(action.value), Failed} :
                answer' = [answer EXCEPT ![action.id] = {got}]
      BY <1>6, <2>3 DEF TakeAction, TakeResponseChannel, Failed
    <3>2. action.id \in RequestId /\ action.value \in Response
      BY <2>2, <2>3, ActionKinds
    <3>3. answer' \in [RequestId -> SUBSET (Response \cup {Failed})]
      BY <3>1, <3>2, DeliveredIntact
    <3>4. QED
      BY <1>1, <2>1, <2>2, <3>1, <3>3
  <2>4. CASE action.kind = "report"
    <3>1. /\ UNCHANGED <<pending_responses, answer>>
          /\ verdict' = [verdict EXCEPT ![action.id] = @ \cup {action.value}]
      BY <1>6, <2>4 DEF TakeAction
    <3>2. action.id \in GossipId /\ action.value \in Report
      BY <2>2, <2>4, ActionKinds
    <3>3. verdict' \in [GossipId -> SUBSET Report]
      BY <3>1, <3>2
    <3>4. QED
      BY <1>1, <2>1, <2>2, <3>1, <3>3
  <2>5. CASE action.kind = "broadcast"
    BY <1>1, <1>6, <2>1, <2>2, <2>5 DEF TakeAction
  <2>6. QED
    BY <2>2, <2>3, <2>4, <2>5, ActionKinds
<1>7. CASE HandlerTakes
  <2> DEFINE event == Head(p2p_events)
  <2>1. /\ p2p_events # << >> /\ p2p_events' = Tail(p2p_events)
        /\ UNCHANGED <<arrived, lost, p2p_actions, pending_responses, answer,
                       verdict>>
        /\ \/ handling' = handling
           \/ event.kind # "new_peer" /\ handling' = {event}
    BY <1>7 DEF HandlerTakes, ReadsQueue, peerVars, HandlerCalls,
                HandlerNotifies, handlerVars
  <2>2. p2p_events' \in Seq(Event) /\ event \in Event
    BY <2>1, QueueTail
  <2>3. handling' \subseteq Asked \cup Gossiped
    BY <2>1, <2>2, EventKinds
  <2>4. QED
    BY <1>1, <2>1, <2>2, <2>3
<1>8. CASE HandlerLagged
  <2>1. /\ UNCHANGED <<handling, p2p_actions, arrived, pending_responses, answer,
                       verdict>>
    BY <1>8 DEF HandlerLagged, handlerVars, peerVars
  <2>2. p2p_events' \in Seq(Event)
    BY <1>8, LaggedDrops
  <2>3. lost' \subseteq Id
    <3>1. PICK front : /\ IdsOf(p2p_events) = IdsOf(p2p_events') \cup front
                       /\ lost' = lost \cup front
      BY <1>8, LaggedDrops
    <3>2. IdsOf(p2p_events) \subseteq Id
      BY EventKinds DEF IdsOf
    <3>3. QED
      BY <3>1, <3>2
  <2>4. QED
    BY <1>1, <2>1, <2>2, <2>3
<1>9. CASE HandlerDone
  <2>1. PICK a \in P2pAction : p2p_actions' = Append(p2p_actions, a)
    BY <1>9, HandlerDoneAction
  <2>2. /\ handling' = {}
        /\ UNCHANGED <<arrived, p2p_events, lost, pending_responses, answer,
                       verdict>>
    BY <1>9 DEF HandlerDone, p2pVars, queueVars, peerVars
  <2>3. p2p_actions' \in Seq(P2pAction)
    BY <2>1, QueueAppend
  <2>4. QED
    BY <1>1, <2>2, <2>3
<1>10. ASSUME NEW s \in SubmissionId, RpcSubmits(s) PROVE DaemonTypeOK'
  <2> DEFINE a == [kind |-> "broadcast", id |-> s,
                   value |-> VertexOf(Submitted[s])]
  <2>1. /\ DOMAIN arrived' = Id
        /\ p2p_actions' = Append(p2p_actions, a)
        /\ UNCHANGED <<p2p_events, lost, handling, pending_responses, answer,
                       verdict>>
    BY <1>10 DEF RpcSubmits, Arrives, handlerVars, queueVars, peerVars
  <2>2. a \in P2pAction
    BY DEF P2pAction, Broadcast
  <2> HIDE DEF a
  <2>3. p2p_actions' \in Seq(P2pAction)
    BY <2>1, <2>2, QueueAppend
  <2>4. QED
    BY <1>1, <2>1, <2>3
<1>11. CASE HandlerSubscribes
  BY <1>1, <1>11 DEF HandlerSubscribes, handlerVars, peerVars
<1>12. QED
  BY <1>2, <1>3, <1>4, <1>5, <1>6, <1>7, <1>8, <1>9, <1>10, <1>11
     DEF DaemonNext, daemonVars, handlerVars, Arrivals, HandlerStep, TaskStep,
         AnswerRead, Inserts, Refuses, TaskStops, CallTimesOut, Rest

-----------------------------------------------------------------------------
(***************************************************************************)
(* Everything that arrived is under way once.                              *)
(***************************************************************************)

(***************************************************************************)
(* The ids under way, by the place where they are.                         *)
(***************************************************************************)
LEMMA UnansweredParts ==
    Unanswered = IdsOf(p2p_events) \cup Handling \cup IdsOf(p2p_actions)
BY DEF Unanswered, IdsOf, Handling

(***************************************************************************)
(* What arrives is new, and from then on it is handed from one place to    *)
(* the next.                                                               *)
(***************************************************************************)
LEMMA NextOutstandingOnce ==
    /\ DaemonTypeOK /\ HandlerWaits /\ OutstandingOnce
    /\ [DaemonNext]_daemonVars
    => OutstandingOnce'
<1> SUFFICES ASSUME DaemonTypeOK, HandlerWaits, OutstandingOnce,
                    [DaemonNext]_daemonVars
             PROVE  OutstandingOnce'
  OBVIOUS
<1> DEFINE E == IdsOf(p2p_events)
           H == Handling
           A == IdsOf(p2p_actions)
<1>1. Unanswered = E \cup H \cup A
  BY UnansweredParts
<1>2. Unanswered' = E' \cup H' \cup A'
  BY DEF Unanswered, IdsOf, Handling
<1>3. /\ p2p_events \in Seq(Event) /\ p2p_actions \in Seq(P2pAction)
      /\ handling \subseteq Asked \cup Gossiped
      /\ DOMAIN arrived = Id /\ verdict \in [GossipId -> SUBSET Report]
      /\ pending_responses \subseteq RequestId
  BY DEF DaemonTypeOK
<1>4. /\ DistinctIds(p2p_events) /\ DistinctIds(p2p_actions)
      /\ \A e, f \in handling : e = f
      /\ E \cap H = {} /\ E \cap A = {} /\ H \cap A = {}
      /\ lost \cap (E \cup H \cup A) = {}
      /\ \A i \in E \cup H \cup A \cup lost : arrived[i] # {}
      /\ \A g \in GossipId : verdict[g] # {} =>
            /\ g \notin E \cup H \cup A /\ arrived[g] # {}
            /\ \A x, y \in verdict[g] : x = y
      /\ pending_responses = (E \cup H \cup A \cup lost) \cap RequestId
  BY <1>1 DEF OutstandingOnce
<1>5.
      /\ DistinctIds(p2p_events') /\ DistinctIds(p2p_actions')
      /\ \A e, f \in handling' : e = f
      /\ E' \cap H' = {} /\ E' \cap A' = {} /\ H' \cap A' = {}
      /\ lost' \cap (E' \cup H' \cup A') = {}
      /\ \A i \in E' \cup H' \cup A' \cup lost' : arrived'[i] # {}
      /\ \A g \in GossipId : verdict'[g] # {} =>
            /\ g \notin E' \cup H' \cup A' /\ arrived'[g] # {}
            /\ \A x, y \in verdict'[g] : x = y
      /\ pending_responses' = (E' \cup H' \cup A' \cup lost') \cap RequestId
      => OutstandingOnce'
  BY <1>2 DEF OutstandingOnce, DistinctIds
<1>6. ASSUME NEW i \in Id, NEW message, Arrives(i, message)
      PROVE  /\ i \notin E \cup H \cup A \cup lost
             /\ \A j \in Id : j # i => arrived'[j] = arrived[j]
             /\ arrived'[i] # {}
             /\ \A g \in GossipId : verdict[g] # {} => g # i
             /\ DOMAIN arrived' = Id
  BY <1>3, <1>4, <1>6 DEF Arrives
<1>7. E \subseteq Id /\ A \subseteq Id /\ H \subseteq Id /\ lost \subseteq Id
  <2>1. \A e \in Event : e.id \in Id
    BY EventKinds
  <2>2. \A a \in P2pAction : a.id \in Id
    BY ActionKinds DEF Id
  <2>3. \A i \in DOMAIN p2p_events : p2p_events[i] \in Event
    BY <1>3
  <2>4. \A i \in DOMAIN p2p_actions : p2p_actions[i] \in P2pAction
    BY <1>3
  <2>5. \A e \in handling : e \in Event
    BY <1>3 DEF Event
  <2>6. QED
    BY <2>1, <2>2, <2>3, <2>4, <2>5 DEF DaemonTypeOK, IdsOf, Handling
<1>8. ASSUME NEW x \in Event, p2p_events' = Append(p2p_events, x)
      PROVE  /\ E' = E \cup {x.id}
             /\ x.id \notin E => DistinctIds(p2p_events')
  BY <1>3, <1>4, <1>8, QueueAppend
<1>9. ASSUME NEW x \in P2pAction, p2p_actions' = Append(p2p_actions, x)
      PROVE  /\ A' = A \cup {x.id}
             /\ x.id \notin A => DistinctIds(p2p_actions')
  BY <1>3, <1>4, <1>9, QueueAppend
<1>10. ASSUME handling' = handling PROVE H' = H
  BY <1>10 DEF Handling
<1>11. ASSUME handling' = {} PROVE H' = {}
  BY <1>11 DEF Handling
<1>12. ASSUME NEW x, handling' = {x} PROVE H' = {x.id}
  BY <1>12 DEF Handling
<1>13. /\ RequestId \subseteq Id /\ GossipId \subseteq Id /\ NewPeer \subseteq Id
       /\ SubmissionId \subseteq Id
       /\ RequestId \cap GossipId = {} /\ RequestId \cap NewPeer = {}
       /\ RequestId \cap SubmissionId = {}
       /\ GossipId \cap SubmissionId = {}
  BY DaemonAssumption DEF Id
<1> HIDE DEF E, H, A
<1>14. CASE UNCHANGED <<p2p_events, handling, p2p_actions, lost, arrived,
                        verdict, pending_responses>>
  <2>1. E' = E /\ H' = H /\ A' = A
    BY <1>10, <1>14 DEF E, A
  <2>2. QED
    BY <1>4, <1>5, <1>14, <2>1
<1>15. ASSUME NEW r \in RequestId, NEW wire \in RequestWire[r],
              ReceiveRequest(r, wire)
       PROVE  OutstandingOnce'
  <2>1. /\ Arrives(r, wire)
        /\ UNCHANGED <<lost, handling, p2p_actions, verdict>>
    BY <1>15 DEF ReceiveRequest, handlerVars
  <2>2. H' = H /\ A' = A
    BY <1>10, <2>1 DEF A
  <2>3. CASE RequestDecodes(wire)
    <3> DEFINE x == [kind |-> wire.kind, id |-> r, about |-> wire.hash]
    <3>1. /\ pending_responses' = pending_responses \cup {r}
          /\ p2p_events' = Append(p2p_events, x)
      BY <1>15, <2>3 DEF ReceiveRequest
    <3>2. x \in Event /\ x.id = r
      BY <1>15, <2>3, ReceivesEvents DEF Event
    <3> HIDE DEF x
    <3>3. E' = E \cup {r} /\ DistinctIds(p2p_events')
      BY <1>6, <1>8, <1>13, <2>1, <3>1, <3>2
    <3>4. QED
      BY <1>4, <1>5, <1>6, <1>7, <1>13, <2>1, <2>2, <3>1, <3>3
  <2>4. CASE ~RequestDecodes(wire)
    <3>1. UNCHANGED <<pending_responses, p2p_events>> /\ E' = E
      BY <1>15, <2>4 DEF ReceiveRequest, E
    <3>2. QED
      BY <1>4, <1>5, <1>6, <1>7, <1>13, <2>1, <2>2, <3>1
  <2>5. QED
    BY <2>3, <2>4
<1>16. ASSUME NEW i \in GossipId \cup NewPeer, NEW message, Arrives(i, message),
              UNCHANGED <<lost, handling, p2p_actions, pending_responses, verdict>>,
              \/ p2p_events' = p2p_events
              \/ \E x \in Event : /\ x.id = i
                                  /\ p2p_events' = Append(p2p_events, x)
       PROVE  OutstandingOnce'
  <2>1. H' = H /\ A' = A /\ i \in Id /\ i \notin RequestId
    BY <1>10, <1>13, <1>16 DEF A
  <2>2. /\ E' = E \/ E' = E \cup {i}
        /\ DistinctIds(p2p_events')
    BY <1>4, <1>6, <1>8, <1>16, <2>1 DEF E
  <2>3. QED
    BY <1>4, <1>5, <1>6, <1>7, <1>13, <1>16, <2>1, <2>2
<1>17. ASSUME NEW g \in GossipId, NEW wire \in GossipWire[g],
              ReceiveGossip(g, wire)
       PROVE  OutstandingOnce'
  <2>1. /\ Arrives(g, wire)
        /\ UNCHANGED <<lost, handling, p2p_actions, pending_responses, verdict>>
    BY <1>17 DEF ReceiveGossip, handlerVars, peerVars
  <2>2. \/ p2p_events' = p2p_events
        \/ \E x \in Event : x.id = g /\ p2p_events' = Append(p2p_events, x)
    BY <1>17, ReceivesEvents DEF ReceiveGossip, Event
  <2>3. QED
    BY <1>16, <2>1, <2>2
<1>18. ASSUME NEW peer \in NewPeer, ReceiveIdentity(peer) PROVE OutstandingOnce'
  <2>1. /\ Arrives(peer, "identify")
        /\ UNCHANGED <<lost, handling, p2p_actions, pending_responses, verdict>>
    BY <1>18 DEF ReceiveIdentity, handlerVars, peerVars
  <2>2. \E x \in Event : x.id = peer /\ p2p_events' = Append(p2p_events, x)
    BY <1>18, ReceivesEvents DEF ReceiveIdentity, Event
  <2>3. QED
    BY <1>16, <2>1, <2>2
<1>19. CASE TakeAction
  <2> DEFINE action == Head(p2p_actions)
  <2>1. /\ p2p_actions # << >> /\ p2p_actions' = Tail(p2p_actions)
        /\ UNCHANGED <<arrived, p2p_events, lost, handling>>
    BY <1>19 DEF TakeAction, handlerVars, queueVars
  <2>2. /\ action \in P2pAction /\ DistinctIds(p2p_actions')
        /\ A = A' \cup {action.id} /\ action.id \notin A'
    BY <1>3, <1>4, <2>1, QueueTail DEF A
  <2>3. E' = E /\ H' = H /\ DistinctIds(p2p_events')
    BY <1>4, <1>10, <2>1 DEF E
  <2>4. CASE action.kind = "respond"
    <3>1. /\ pending_responses' = pending_responses \ {action.id}
          /\ verdict' = verdict
      BY <1>19, <2>4 DEF TakeAction, TakeResponseChannel
    <3> HIDE DEF action
    <3>2. QED
      BY <1>4, <1>5, <2>1, <2>2, <2>3, <3>1
  <2>5. CASE action.kind = "report"
    <3>1. /\ pending_responses' = pending_responses
          /\ verdict' = [verdict EXCEPT ![action.id] = @ \cup {action.value}]
      BY <1>19, <2>5 DEF TakeAction
    <3>2. action.id \in GossipId /\ action.id \notin RequestId
      BY <1>13, <2>2, <2>5, ActionKinds
    <3> HIDE DEF action
    <3>3. verdict[action.id] = {}
      BY <1>4, <2>2, <3>2
    <3>4. /\ verdict'[action.id] = {action.value}
          /\ \A g \in GossipId : g # action.id => verdict'[g] = verdict[g]
      BY <1>3, <3>1, <3>2, <3>3
    <3>5. action.id \notin E' \cup H' \cup A' /\ arrived[action.id] # {}
      BY <1>4, <2>2, <2>3
    <3>6. \A g \in GossipId : verdict'[g] # {} =>
            /\ g \notin E' \cup H' \cup A' /\ arrived'[g] # {}
            /\ \A x, y \in verdict'[g] : x = y
      <4> SUFFICES ASSUME NEW g \in GossipId, verdict'[g] # {}
                   PROVE  /\ g \notin E' \cup H' \cup A' /\ arrived'[g] # {}
                          /\ \A x, y \in verdict'[g] : x = y
        OBVIOUS
      <4>1. CASE g = action.id
        BY <2>1, <3>4, <3>5, <4>1
      <4>2. CASE g # action.id
        BY <1>4, <2>1, <2>2, <2>3, <3>4, <4>2
      <4>3. QED
        BY <4>1, <4>2
    <3>7. QED
      BY <1>4, <1>5, <2>1, <2>2, <2>3, <3>1, <3>2, <3>6
  <2>6. CASE action.kind = "broadcast"
    <3>1. UNCHANGED <<pending_responses, verdict>>
      BY <1>19, <2>6 DEF TakeAction
    <3>2. action.id \notin RequestId
      BY <1>13, <2>2, <2>6, ActionKinds
    <3> HIDE DEF action
    <3>3. QED
      BY <1>4, <1>5, <2>1, <2>2, <2>3, <3>1, <3>2
  <2>7. QED
    BY <2>2, <2>4, <2>5, <2>6, ActionKinds
<1>20. CASE HandlerTakes
  <2> DEFINE event == Head(p2p_events)
  <2>1. /\ handling = {}
        /\ p2p_events # << >> /\ p2p_events' = Tail(p2p_events)
        /\ UNCHANGED <<arrived, lost, p2p_actions, pending_responses, verdict>>
        /\ \/ event.kind = "new_peer" /\ handling' = handling
           \/ event.kind # "new_peer" /\ handling' = {event}
    BY <1>20 DEF HandlerTakes, ReadsQueue, peerVars, HandlerCalls,
                 HandlerNotifies, handlerVars
  <2>2. /\ event \in Event /\ DistinctIds(p2p_events')
        /\ E = E' \cup {event.id} /\ event.id \notin E'
    BY <1>3, <1>4, <2>1, QueueTail DEF E
  <2>3. H = {} /\ A' = A
    BY <2>1 DEF H, A, Handling
  <2>4. CASE event.kind = "new_peer" /\ handling' = handling
    <3>1. event.id \notin RequestId
      BY <1>13, <2>2, <2>4, EventKinds DEF Identified
    <3>2. H' = {}
      BY <2>1, <1>11, <2>4
    <3> HIDE DEF event
    <3>3. QED
      BY <1>4, <1>5, <2>1, <2>2, <2>3, <3>1, <3>2
  <2>5. CASE handling' = {event}
    <3>1. H' = {event.id}
      BY <1>12, <2>5
    <3> HIDE DEF event
    <3>2. QED
      BY <1>4, <1>5, <2>1, <2>2, <2>3, <2>5, <3>1
  <2>6. QED
    BY <2>1, <2>4, <2>5
<1>21. CASE HandlerLagged
  <2>1. UNCHANGED <<handling, p2p_actions, arrived, pending_responses, verdict>>
    BY <1>21 DEF HandlerLagged, handlerVars, peerVars
  <2>2. PICK front :
          /\ E = E' \cup front /\ lost' = lost \cup front
          /\ DistinctIds(p2p_events') /\ E' \cap front = {}
    BY <1>4, <1>21, LaggedDrops DEF E
  <2>3. H' = H /\ A' = A
    BY <1>10, <2>1 DEF A
  <2>4. QED
    BY <1>4, <1>5, <2>1, <2>2, <2>3
<1>22. CASE HandlerDone
  <2>1. PICK event \in handling, a \in P2pAction :
          p2p_actions' = Append(p2p_actions, a) /\ a.id = event.id
    BY <1>22, HandlerDoneAction
  <2>2. /\ handling' = {}
        /\ UNCHANGED <<arrived, p2p_events, lost, pending_responses, verdict>>
    BY <1>22 DEF HandlerDone, p2pVars, queueVars, peerVars
  <2>3. E' = E /\ H' = {} /\ DistinctIds(p2p_events')
    BY <1>4, <1>11, <2>2 DEF E
  <2>4. H = {a.id}
    BY <1>4, <2>1 DEF H, Handling
  <2>5. A' = A \cup {a.id} /\ DistinctIds(p2p_actions')
    BY <1>4, <1>9, <2>1, <2>4
  <2>6. QED
    BY <1>4, <1>5, <2>2, <2>3, <2>4, <2>5
<1>23. ASSUME NEW s \in SubmissionId, RpcSubmits(s) PROVE OutstandingOnce'
  <2> DEFINE a == [kind |-> "broadcast", id |-> s,
                   value |-> VertexOf(Submitted[s])]
  <2>1. /\ Arrives(s, "submit_vertex")
        /\ p2p_actions' = Append(p2p_actions, a)
        /\ UNCHANGED <<p2p_events, lost, handling, pending_responses, verdict>>
    BY <1>23 DEF RpcSubmits, handlerVars, queueVars, peerVars
  <2>2. a \in P2pAction /\ a.id = s
    BY DEF P2pAction, Broadcast
  <2> HIDE DEF a
  <2>3. s \in Id /\ s \notin RequestId
    BY <1>13
  <2>4. A' = A \cup {s} /\ DistinctIds(p2p_actions')
    BY <1>6, <1>9, <2>1, <2>2, <2>3
  <2>5. E' = E /\ H' = H /\ DistinctIds(p2p_events')
    BY <1>4, <1>10, <2>1 DEF E
  <2>6. QED
    BY <1>4, <1>5, <1>6, <1>7, <1>13, <2>1, <2>3, <2>4, <2>5
<1>24. QED
  BY <1>14, <1>15, <1>17, <1>18, <1>19, <1>20, <1>21, <1>22, <1>23
     DEF DaemonNext, daemonVars, p2pVars, queueVars, peerVars, handlerVars,
         Arrivals, HandlerStep, HandlerSubscribes, TaskStep, AnswerRead,
         Inserts, Refuses, TaskStops, CallTimesOut, Rest

-----------------------------------------------------------------------------
(***************************************************************************)
(* The handler and its calls.                                              *)
(***************************************************************************)

(***************************************************************************)
(* What fits an event still fits it when more has been said of messages.   *)
(***************************************************************************)
LEMMA FitsStays ==
    ASSUME outcome \subseteq outcome', NEW e, NEW r, ReplyFits(e, r)
    PROVE  ReplyFits(e, r)'
BY DEF ReplyFits

(***************************************************************************)
(* An action of the handler is in the queue only while the handler waits.  *)
(***************************************************************************)
LEMMA HandlerAction ==
    ASSUME OneActionEach, NEW a \in Elements(actions), a[1] = "handler"
    PROVE  "handler" \in waiting
BY TaskAssumption, DaemonAssumption DEF OneActionEach, Elements, Nobody

(***************************************************************************)
(* The handler stops waiting when its own action is taken off the queue.   *)
(***************************************************************************)
LEMMA TaskTakes ==
    ASSUME DaemonTypeOK, OneActionEach, HandleSilently \/ HandleInsertion
    PROVE  LET a == Head(actions)
           IN  /\ a \in TaskAction /\ a \in Elements(actions)
               /\ Elements(actions') \subseteq Elements(actions)
               /\ a[1] = "handler" =>
                     /\ "handler" \in waiting /\ "handler" \notin waiting'
                     /\ \A b \in Elements(actions') : b[1] # "handler"
               /\ a[1] # "handler" =>
                     /\ "handler" \in waiting' <=> "handler" \in waiting
                     /\ "handler" \notin waiting \ waiting'
<1> DEFINE a == Head(actions)
<1>1. /\ actions # << >> /\ actions' = Tail(actions)
      /\ waiting' = waiting \ {a[1]} /\ actions \in Seq(TaskAction)
  BY DEF HandleSilently, HandleInsertion, Answered, DaemonTypeOK
<1>2. /\ a \in TaskAction /\ a \in Elements(actions)
      /\ Elements(actions') \subseteq Elements(actions)
  BY <1>1, QueueTail
<1>3. ASSUME a[1] = "handler"
      PROVE  /\ "handler" \in waiting /\ "handler" \notin waiting'
             /\ \A b \in Elements(actions') : b[1] # "handler"
  <2>1. "handler" \in waiting /\ "handler" \notin waiting'
    BY <1>1, <1>2, <1>3, HandlerAction
  <2>2. OneActionEach'
    <3>1. TaskMoves(TaskAction)
      BY DEF TaskMoves
    <3>2. QED
      BY <1>1, <3>1, TaskKeepsOneEach DEF TaskAction
  <2>3. \A b \in Elements(actions') : b[1] \in waiting' \cup {Nobody}
    BY <2>2 DEF OneActionEach, Elements
  <2>4. "handler" # Nobody
    BY DEF Nobody
  <2>5. QED
    BY <2>1, <2>3, <2>4
<1>4. ASSUME a[1] # "handler"
      PROVE  /\ "handler" \in waiting' <=> "handler" \in waiting
             /\ "handler" \notin waiting \ waiting'
  BY <1>1, <1>4
<1>5. QED
  BY <1>2, <1>3, <1>4

(***************************************************************************)
(* A reply that is given to the handler when its action is handled is      *)
(* about the event it handles.                                             *)
(***************************************************************************)
LEMMA HandledKeepsWaits ==
    ASSUME DaemonTypeOK, OneActionEach, HandlerWaits, OutstandingOnce,
           HandleSilently \/ HandleInsertion,
           handling' = handling, outcome \subseteq outcome', status' = status,
           Head(actions)[1] # "handler" => reply' = reply,
           NEW e, e = Head(actions)[3],
           Head(actions)[1] = "handler" =>
               \E r : reply' = {r} /\ ReplyFits(e, r)'
    PROVE  HandlerWaits'
<1> SUFFICES ASSUME Alive' PROVE HandlerWaits'
  BY DEF HandlerWaits
<1>1. Alive
  BY DEF Alive
<1>2. PICK a \in Elements(actions) :
          /\ a = Head(actions) /\ a \in TaskAction
          /\ Elements(actions') \subseteq Elements(actions)
          /\ a[1] = "handler" =>
                /\ "handler" \in waiting /\ "handler" \notin waiting'
                /\ \A b \in Elements(actions') : b[1] # "handler"
          /\ a[1] # "handler" => ("handler" \in waiting' <=> "handler" \in waiting)
  BY TaskTakes
<1>3. CASE a[1] = "handler"
  <2>1. e \in handling /\ handling # {}
    BY <1>1, <1>2, <1>3 DEF HandlerWaits
  <2>2. PICK r : reply' = {r} /\ ReplyFits(e, r)'
    BY <1>2, <1>3
  <2>3. \A f \in handling : f = e
    BY <2>1 DEF OutstandingOnce
  <2>4. \A f \in handling', q \in reply' : ReplyFits(f, q)'
    BY <2>2, <2>3
  <2>5. QED
    BY <1>2, <1>3, <2>1, <2>2, <2>4 DEF HandlerWaits
<1>4. CASE a[1] # "handler"
  <2>1. reply' = reply
    BY <1>2, <1>4
  <2>2. \A f \in handling', q \in reply' : ReplyFits(f, q)'
    BY <1>1, <2>1, FitsStays DEF HandlerWaits
  <2>3. QED
    BY <1>1, <1>2, <1>4, <2>1, <2>2 DEF HandlerWaits
<1>5. QED
  BY <1>3, <1>4

(***************************************************************************)
(* The handler waits with its one action in the queue, or goes on with a   *)
(* reply that fits its event: also when its time limit passes or the task  *)
(* stops, and never with the answer to an earlier call.                    *)
(***************************************************************************)
LEMMA NextHandlerWaits ==
    /\ DaemonTypeOK /\ OneActionEach /\ OutstandingOnce /\ HandlerWaits
    /\ [DaemonNext]_daemonVars
    => HandlerWaits'
<1> SUFFICES ASSUME DaemonTypeOK, OneActionEach, OutstandingOnce, HandlerWaits,
                    [DaemonNext]_daemonVars, Alive'
             PROVE  HandlerWaits'
  BY DEF HandlerWaits
<1>1. actions \in Seq(TaskAction) /\ handling \subseteq Asked \cup Gossiped
  BY DEF DaemonTypeOK
<1>2. ASSUME Alive, UNCHANGED <<waiting, handling, reply, actions, outcome>>
      PROVE  HandlerWaits'
  BY <1>2 DEF HandlerWaits, ReplyFits
<1>3. ASSUME UNCHANGED <<handling, reply, outcome>>, Alive,
             "handler" \in waiting' <=> "handler" \in waiting,
             \A a \in Elements(actions') :
                 a[1] = "handler" => a \in Elements(actions)
      PROVE  HandlerWaits'
  BY <1>3 DEF HandlerWaits, ReplyFits
<1>4. ASSUME NEW x, Notify(x), x \in Event \cup RpcCall
      PROVE  /\ waiting' = waiting
             /\ \A a \in Elements(actions') :
                    a[1] = "handler" => a \in Elements(actions)
  <2> DEFINE b == <<Nobody, "notify", x>>
  <2>1. actions' = Append(actions, b) /\ waiting' = waiting
    BY <1>4 DEF Notify
  <2>2. b \in TaskAction /\ b[1] # "handler"
    BY <1>4 DEF TaskAction, Nobody
  <2> HIDE DEF b
  <2>3. Elements(actions') = Elements(actions) \cup {b}
    BY <1>1, <2>1, <2>2, QueueAppend
  <2>4. QED
    BY <2>1, <2>2, <2>3
<1>5. ASSUME NEW c \in Caller, NEW kind \in {"read", "submit"}, NEW x,
             x \in Event \cup RpcCall, Call(c, kind, x)
      PROVE  /\ waiting' = waiting \cup {c} /\ c \notin waiting
             /\ Elements(actions') = Elements(actions) \cup {<<c, kind, x>>}
             /\ Alive
  <2> DEFINE b == <<c, kind, x>>
  <2>1. /\ actions' = Append(actions, b) /\ waiting' = waiting \cup {c}
        /\ c \notin waiting /\ Alive
    BY <1>5 DEF Call, Alive
  <2>2. b \in TaskAction
    BY <1>5 DEF TaskAction
  <2> HIDE DEF b
  <2>3. Elements(actions') = Elements(actions) \cup {b}
    BY <1>1, <2>1, <2>2, QueueAppend
  <2>4. QED
    BY <2>1, <2>3 DEF b
<1>6. ASSUME NEW s \in SubmissionId, RpcSubmits(s) PROVE HandlerWaits'
  <2> DEFINE x == [kind |-> "rpc", id |-> s, about |-> VertexOf(Submitted[s])]
  <2>1. /\ UNCHANGED <<handling, reply, outcome>> /\ Alive
        /\ Call("rpc", "submit", x) \/ UNCHANGED vars
    BY <1>6 DEF RpcSubmits, handlerVars
  <2>2. x \in RpcCall /\ "rpc" \in Caller
    BY DaemonAssumption DEF RpcCall
  <2>3. CASE UNCHANGED vars
    BY <1>2, <2>1, <2>3 DEF vars
  <2> HIDE DEF x
  <2>4. CASE Call("rpc", "submit", x)
    <3>1. /\ waiting' = waiting \cup {"rpc"}
          /\ Elements(actions') = Elements(actions) \cup {<<"rpc", "submit", x>>}
      BY <1>5, <2>2, <2>4
    <3>2. QED
      BY <1>3, <2>1, <3>1
  <2>5. QED
    BY <2>1, <2>3, <2>4
<1>7. CASE HandlerTakes
  <2> DEFINE event == Head(p2p_events)
  <2>1. /\ handling = {} /\ Alive /\ outcome' = outcome
        /\ \/ HandlerNotifies(event)
           \/ event.kind # "new_peer" /\ HandlerCalls(event)
    BY <1>7 DEF HandlerTakes, ReadsQueue, Listening
  <2>2. event \in Event
    BY <1>7, QueueTail DEF DaemonTypeOK, HandlerTakes, ReadsQueue
  <2> HIDE DEF event
  <2>3. /\ reply = {} /\ "handler" \notin waiting
        /\ \A a \in Elements(actions) : a[1] # "handler"
    BY <2>1, HandlerAction DEF HandlerWaits
  <2>4. CASE HandlerNotifies(event)
    <3>1. UNCHANGED <<handling, reply>> /\ (Notify(event) \/ UNCHANGED vars)
      BY <2>4 DEF HandlerNotifies, handlerVars
    <3>2. CASE UNCHANGED vars
      BY <1>2, <2>1, <3>1, <3>2 DEF vars
    <3>3. CASE Notify(event)
      BY <1>3, <1>4, <2>1, <2>2, <3>1, <3>3
    <3>4. QED
      BY <3>1, <3>2, <3>3
  <2>5. CASE event.kind # "new_peer" /\ HandlerCalls(event)
    <3>1. handling' = {event}
      BY <2>5 DEF HandlerCalls
    <3>2. CASE reply' = {Closed} /\ UNCHANGED vars
      BY <2>3, <3>1, <3>2 DEF HandlerWaits, ReplyFits, vars
    <3>3. ASSUME NEW kind \in {"read", "submit"}, Call("handler", kind, event),
                 reply' = reply, kind = "submit" <=> event.kind = "gossip"
          PROVE  HandlerWaits'
      <4>1. /\ waiting' = waiting \cup {"handler"}
            /\ Elements(actions') =
                  Elements(actions) \cup {<<"handler", kind, event>>}
        BY <1>5, <2>2, <3>3, DaemonAssumption
      <4>2. QED
        BY <2>3, <3>1, <3>3, <4>1 DEF HandlerWaits
    <3>4. QED
      BY <2>5, <3>2, <3>3 DEF HandlerCalls
  <2>6. QED
    BY <2>1, <2>4, <2>5
<1>8. CASE HandlerDone
  <2>1. /\ handling' = {} /\ reply' = {} /\ reply # {} /\ Alive
        /\ UNCHANGED <<waiting, actions>>
    BY <1>8 DEF HandlerDone, vars
  <2>2. "handler" \notin waiting
    BY <2>1 DEF HandlerWaits
  <2>3. \A a \in Elements(actions) : a[1] # "handler"
    BY <2>2, HandlerAction
  <2>4. QED
    BY <2>1, <2>2, <2>3 DEF HandlerWaits
<1>9. CASE AnswerRead
  <2>1. PICK e : /\ e = Head(actions)[3]
                 /\ HandleSilently /\ Head(actions)[2] # "submit"
                 /\ \/ e.kind = "get_vertex" /\ \E r \in Vertices(e.about) : Answers(r)
                    \/ e.kind = "get_preference" /\ \E r \in Preferences : Answers(r)
                    \/ e.kind = "new_peer" /\ reply' = reply
                 /\ UNCHANGED <<handling, outcome, status>>
    BY <1>9 DEF AnswerRead, HandleSilently
  <2>2. ASSUME Head(actions)[1] # "handler" PROVE reply' = reply
    BY <2>1, <2>2, TaskTakes DEF Answers
  <2>3. ASSUME Head(actions)[1] = "handler"
        PROVE  \E r : reply' = {r} /\ ReplyFits(e, r)'
    <3>1. /\ "handler" \in waiting \ waiting' /\ Alive
          /\ Head(actions) \in Elements(actions)
      BY <2>1, <2>3, TaskTakes DEF HandleSilently, Alive
    <3>2. e \in Asked
      <4>1. e \in handling /\ e.kind # "gossip"
        BY <2>1, <2>3, <3>1 DEF HandlerWaits
      <4>2. QED
        BY <1>1, <4>1, EventKinds DEF Event
    <3>3. e.kind \in {"get_vertex", "get_preference"}
      BY <3>2 DEF Asked
    <3>4. QED
      BY <2>1, <3>1, <3>3 DEF Answers, ReplyFits
  <2>4. QED
    BY <2>1, <2>2, <2>3, HandledKeepsWaits
<1>10. ASSUME NEW r, NEW said, Answers(r), outcome' = outcome \cup Told(said),
              HandleSilently \/ HandleInsertion, Head(actions)[2] = "submit",
              UNCHANGED <<handling, status>>,
              \A e \in Gossiped : <<e.id, said>> \in outcome' => ReplyFits(e, r)'
       PROVE  HandlerWaits'
  <2>1. PICK e : e = Head(actions)[3]
    OBVIOUS
  <2>2. ASSUME Head(actions)[1] # "handler" PROVE reply' = reply
    BY <1>10, <2>2, TaskTakes DEF Answers
  <2>3. ASSUME Head(actions)[1] = "handler"
        PROVE  \E q : reply' = {q} /\ ReplyFits(e, q)'
    <3>1. /\ "handler" \in waiting \ waiting' /\ Alive
          /\ Head(actions) \in Elements(actions)
      BY <1>10, <2>3, TaskTakes DEF HandleSilently, HandleInsertion, Alive
    <3>2. e \in Gossiped /\ e.id \in GossipId
      <4>1. e \in handling /\ e.kind = "gossip"
        BY <1>10, <2>1, <2>3, <3>1 DEF HandlerWaits
      <4>2. QED
        BY <1>1, <4>1, EventKinds DEF Event
    <3>3. <<e.id, said>> \in outcome'
      BY <1>10, <2>1, <3>2 DEF Told
    <3>4. QED
      BY <1>10, <3>1, <3>2, <3>3 DEF Answers
  <2>4. QED
    BY <1>10, <2>1, <2>2, <2>3, HandledKeepsWaits
<1>11. CASE Inserts
  <2>1. \A e \in Gossiped :
            <<e.id, "Ok">> \in outcome' => ReplyFits(e, [kind |-> "inserted"])'
    BY DEF ReplyFits, Gossiped
  <2>2. QED
    BY <1>10, <1>11, <2>1 DEF Inserts, HandleInsertion
<1>12. CASE Refuses
  <2>1. PICK error \in Refusal :
          /\ Answers([kind |-> "refused", value |-> error])
          /\ outcome' = outcome \cup Told(error)
    BY <1>12 DEF Refuses
  <2>2. \A e \in Gossiped : <<e.id, error>> \in outcome' =>
            ReplyFits(e, [kind |-> "refused", value |-> error])'
    BY DEF ReplyFits, Gossiped
  <2>3. QED
    BY <1>10, <1>12, <2>1, <2>2 DEF Refuses, HandleSilently
<1>13. CASE TaskStops
  <2>1. /\ waiting' = {} /\ actions' = << >> /\ Alive
        /\ UNCHANGED <<handling, outcome>>
        /\ reply' = IF "handler" \in waiting THEN {Closed} ELSE reply
    BY <1>13 DEF TaskStops, OwnLagged, CallsLeft, Answers, Alive
  <2>2. Elements(actions') = {}
    BY <2>1 DEF Elements
  <2>3. QED
    BY <2>1, <2>2 DEF HandlerWaits, ReplyFits
<1>14. ASSUME NEW c \in Caller, CallTimesOut(c) PROVE HandlerWaits'
  <2>1. /\ Alive /\ c \in waiting /\ waiting' = waiting \ {c}
        /\ UNCHANGED <<handling, outcome>>
        /\ reply' = IF c = "handler" THEN {Closed} ELSE reply
        /\ DOMAIN actions' = DOMAIN actions
        /\ \A i \in DOMAIN actions :
              actions'[i] = IF actions[i][1] = c
                            THEN [actions[i] EXCEPT ![1] = Nobody]
                            ELSE actions[i]
    BY <1>14 DEF CallTimesOut, TimeOut, Answers, Abandoned
  <2>2. \A i \in DOMAIN actions : [actions[i] EXCEPT ![1] = Nobody][1] = Nobody
    <3>1. \A i \in DOMAIN actions : actions[i] \in TaskAction
      BY <1>1
    <3>2. \A a \in TaskAction : [a EXCEPT ![1] = Nobody][1] = Nobody
      BY DEF TaskAction
    <3>3. QED
      BY <3>1, <3>2
  <2>3. \A a \in Elements(actions') : a[1] = "handler" =>
            c # "handler" /\ a \in Elements(actions)
    BY <2>1, <2>2 DEF Elements, Nobody
  <2>4. QED
    BY <2>1, <2>3 DEF HandlerWaits, ReplyFits
<1>15. QED
  BY <1>2, <1>6, <1>7, <1>8, <1>9, <1>11, <1>12, <1>13, <1>14
     DEF DaemonNext, daemonVars, vars, handlerVars, Alive, Arrivals,
         ReceiveRequest, ReceiveGossip, ReceiveIdentity, Listening, TakeAction,
         HandlerStep, HandlerSubscribes, HandlerLagged, ReadsQueue, TaskStep,
         Rest, Subscribe, Start, ReceiveOwn, Receive, MainLagged

-----------------------------------------------------------------------------
(***************************************************************************)
(* Answers and verdicts.                                                   *)
(***************************************************************************)

(***************************************************************************)
(* A verdict stays founded when more has been said of messages.            *)
(***************************************************************************)
LEMMA FoundedStays ==
    ASSUME outcome \subseteq outcome', NEW g, NEW x, Founded(g, x)
    PROVE  Founded(g, x)'
BY DEF Founded

(***************************************************************************)
(* A new arrival changes nothing about what arrived under other ids.       *)
(***************************************************************************)
LEMMA ArrivalKeepsTraced ==
    ASSUME DaemonTypeOK, OutstandingOnce, Traced,
           NEW i \in Id, NEW message, Arrives(i, message),
           UNCHANGED <<handling, verdict, outcome>>,
           answer' \in [RequestId -> SUBSET (Response \cup {Failed})],
           \A r \in RequestId :
               answer'[r] = answer[r] \/ (r = i /\ answer'[r] = {Failed}),
           \A e \in Elements(p2p_events') :
               \/ e \in Elements(p2p_events)
               \/ e.id = i /\ (e \in Asked => /\ e.kind = message.kind
                                              /\ e.about = message.hash),
           \A a \in Elements(p2p_actions') :
               a \in Elements(p2p_actions) \/ a.kind = "broadcast"
    PROVE  Traced'
<1>1. /\ arrived[i] = {} /\ arrived'[i] = {message}
      /\ \A j \in Id : j # i => arrived'[j] = arrived[j]
  BY DEF Arrives, DaemonTypeOK
<1>2. /\ \A e \in Elements(p2p_events) \cup handling : e.id \in Id /\ e.id # i
      /\ \A a \in Elements(p2p_actions) : a.id \in Id /\ a.id # i
  <2>1. /\ \A e \in Elements(p2p_events) \cup handling : e.id \in Unanswered
        /\ \A a \in Elements(p2p_actions) : a.id \in Unanswered
    BY UnansweredParts DEF Elements, IdsOf, Handling
  <2>2. \A j \in Unanswered : j # i
    BY <1>1 DEF OutstandingOnce
  <2>3. \A e \in Elements(p2p_events) \cup handling : e \in Event
    BY DEF DaemonTypeOK, Elements, Event
  <2>4. \A a \in Elements(p2p_actions) : a \in P2pAction
    BY DEF DaemonTypeOK, Elements
  <2>5. QED
    BY <2>1, <2>2, <2>3, <2>4, EventKinds, ActionKinds DEF Id
<1>3. \A e \in (Elements(p2p_events') \cup handling') \cap Asked :
          \A wire \in arrived'[e.id] : e.kind = wire.kind /\ e.about = wire.hash
  <2> SUFFICES ASSUME NEW e \in (Elements(p2p_events') \cup handling') \cap Asked,
                      NEW wire \in arrived'[e.id]
               PROVE  e.kind = wire.kind /\ e.about = wire.hash
    OBVIOUS
  <2>1. CASE e \in Elements(p2p_events) \cup handling
    BY <1>1, <1>2, <2>1 DEF Traced
  <2>2. CASE e \notin Elements(p2p_events) \cup handling
    BY <1>1, <2>2
  <2>3. QED
    BY <2>1, <2>2
<1>4. \A a \in Elements(p2p_actions') :
          /\ a.kind = "respond" => \A wire \in arrived'[a.id] : Fits(wire, a.value)
          /\ a.kind = "report" => Founded(a.id, a.value)'
  <2> SUFFICES ASSUME NEW a \in Elements(p2p_actions')
               PROVE  /\ a.kind = "respond" =>
                            \A wire \in arrived'[a.id] : Fits(wire, a.value)
                      /\ a.kind = "report" => Founded(a.id, a.value)'
    OBVIOUS
  <2>1. CASE a \in Elements(p2p_actions)
    BY <1>1, <1>2, <2>1, FoundedStays DEF Traced
  <2>2. CASE a.kind = "broadcast"
    BY <2>2
  <2>3. QED
    BY <2>1, <2>2
<1>5. \A r \in RequestId :
          /\ arrived'[r] = {} => answer'[r] = {}
          /\ \A wire \in arrived'[r], a \in answer'[r] : Fits(wire, a)
  <2> SUFFICES ASSUME NEW r \in RequestId
               PROVE  /\ arrived'[r] = {} => answer'[r] = {}
                      /\ \A wire \in arrived'[r], a \in answer'[r] : Fits(wire, a)
    OBVIOUS
  <2>1. CASE r = i
    BY <1>1, <2>1 DEF Traced, Fits, Failed
  <2>2. CASE r # i
    BY <1>1, <2>2 DEF Traced, Id
  <2>3. QED
    BY <2>1, <2>2
<1>6. \A g \in GossipId : \A x \in verdict'[g] : Founded(g, x)'
  BY FoundedStays DEF Traced
<1>7. QED
  BY <1>3, <1>4, <1>5, <1>6 DEF Traced, Fits

(***************************************************************************)
(* Nothing under way comes from elsewhere than what arrived, and nothing   *)
(* is said of a message but what the consensus task said.                  *)
(***************************************************************************)
LEMMA NextTraced ==
    /\ DaemonTypeOK /\ OutstandingOnce /\ HandlerWaits /\ Traced
    /\ [DaemonNext]_daemonVars
    => Traced'
<1> SUFFICES ASSUME DaemonTypeOK, OutstandingOnce, HandlerWaits, Traced,
                    [DaemonNext]_daemonVars
             PROVE  Traced'
  OBVIOUS
<1>1. /\ p2p_events \in Seq(Event) /\ p2p_actions \in Seq(P2pAction)
      /\ handling \subseteq Asked \cup Gossiped
      /\ answer \in [RequestId -> SUBSET (Response \cup {Failed})]
      /\ verdict \in [GossipId -> SUBSET Report]
  BY DEF DaemonTypeOK
<1>2. /\ RequestId \subseteq Id /\ GossipId \subseteq Id /\ NewPeer \subseteq Id
      /\ SubmissionId \subseteq Id
  BY DEF Id
<1>3. ASSUME UNCHANGED <<arrived, answer, verdict>>, outcome \subseteq outcome',
             Elements(p2p_events') \cup handling'
                 \subseteq Elements(p2p_events) \cup handling,
             Elements(p2p_actions') \subseteq Elements(p2p_actions)
      PROVE  Traced'
  <2>1. \A g, x : Founded(g, x) => Founded(g, x)'
    BY <1>3, FoundedStays
  <2>2. QED
    BY <1>3, <2>1 DEF Traced, Fits
<1>4. ASSUME NEW r \in RequestId, NEW wire \in RequestWire[r],
             ReceiveRequest(r, wire)
      PROVE  Traced'
  <2> DEFINE x == [kind |-> wire.kind, id |-> r, about |-> wire.hash]
  <2>1. /\ Arrives(r, wire)
        /\ UNCHANGED <<handling, p2p_actions, verdict, outcome>>
        /\ \/ /\ RequestDecodes(wire) /\ answer' = answer
              /\ p2p_events' = Append(p2p_events, x)
           \/ /\ answer' = [answer EXCEPT ![r] = {Failed}]
              /\ p2p_events' = p2p_events
    BY <1>4 DEF ReceiveRequest, handlerVars, Failed
  <2>2. RequestDecodes(wire) => x \in Event
    BY <1>4, ReceivesEvents DEF Event
  <2>3. x.id = r /\ x.kind = wire.kind /\ x.about = wire.hash
    OBVIOUS
  <2> HIDE DEF x
  <2>4. \A e \in Elements(p2p_events') : e \in Elements(p2p_events) \/ e = x
    <3>1. CASE RequestDecodes(wire) /\ p2p_events' = Append(p2p_events, x)
      <4>1. x \in Event
        BY <2>2, <3>1
      <4>2. Elements(Append(p2p_events, x)) = Elements(p2p_events) \cup {x}
        BY <1>1, <4>1, QueueAppend
      <4>3. QED
        BY <3>1, <4>2
    <3>2. CASE p2p_events' = p2p_events
      BY <3>2
    <3>3. QED
      BY <2>1, <3>1, <3>2
  <2>5. /\ answer' \in [RequestId -> SUBSET (Response \cup {Failed})]
        /\ \A q \in RequestId :
              answer'[q] = answer[q] \/ (q = r /\ answer'[q] = {Failed})
    BY <1>1, <2>1
  <2>6. QED
    BY <1>2, <2>1, <2>3, <2>4, <2>5, ArrivalKeepsTraced
<1>5. ASSUME NEW i \in GossipId \cup NewPeer, NEW message, Arrives(i, message),
             UNCHANGED <<handling, p2p_actions, answer, verdict, outcome>>,
             \/ p2p_events' = p2p_events
             \/ \E x \in Gossiped \cup Identified :
                   x.id = i /\ p2p_events' = Append(p2p_events, x)
      PROVE  Traced'
  <2>1. \A x \in Gossiped \cup Identified : x \in Event /\ x \notin Asked
    BY DEF Event, Gossiped, Identified, Asked
  <2>2. \A e \in Elements(p2p_events') :
            e \in Elements(p2p_events) \/ (e.id = i /\ e \notin Asked)
    <3>1. CASE p2p_events' = p2p_events
      BY <3>1
    <3>2. ASSUME NEW x \in Gossiped \cup Identified, x.id = i,
                 p2p_events' = Append(p2p_events, x)
          PROVE  \A e \in Elements(p2p_events') :
                     e \in Elements(p2p_events) \/ (e.id = i /\ e \notin Asked)
      <4>1. x \in Event /\ x \notin Asked
        BY <2>1
      <4>2. Elements(Append(p2p_events, x)) = Elements(p2p_events) \cup {x}
        BY <1>1, <4>1, QueueAppend
      <4>3. QED
        BY <3>2, <4>1, <4>2
    <3>3. QED
      BY <1>5, <3>1, <3>2
  <2>3. i \in Id
    BY <1>2
  <2>4. QED
    BY <1>1, <1>5, <2>2, <2>3, ArrivalKeepsTraced
<1>6. ASSUME NEW g \in GossipId, NEW wire \in GossipWire[g],
             ReceiveGossip(g, wire)
      PROVE  Traced'
  <2>1. /\ Arrives(g, wire)
        /\ UNCHANGED <<handling, p2p_actions, answer, verdict, outcome>>
    BY <1>6 DEF ReceiveGossip, handlerVars, peerVars
  <2>2. \/ p2p_events' = p2p_events
        \/ \E x \in Gossiped : x.id = g /\ p2p_events' = Append(p2p_events, x)
    BY <1>6, ReceivesEvents DEF ReceiveGossip
  <2>3. QED
    BY <1>5, <2>1, <2>2
<1>7. ASSUME NEW peer \in NewPeer, ReceiveIdentity(peer) PROVE Traced'
  <2>1. /\ Arrives(peer, "identify")
        /\ UNCHANGED <<handling, p2p_actions, answer, verdict, outcome>>
    BY <1>7 DEF ReceiveIdentity, handlerVars, peerVars
  <2>2. \E x \in Identified : x.id = peer /\ p2p_events' = Append(p2p_events, x)
    BY <1>7, ReceivesEvents DEF ReceiveIdentity
  <2>3. QED
    BY <1>5, <2>1, <2>2
<1>8. ASSUME NEW s \in SubmissionId, RpcSubmits(s) PROVE Traced'
  <2> DEFINE b == [kind |-> "broadcast", id |-> s,
                   value |-> VertexOf(Submitted[s])]
  <2>1. /\ Arrives(s, "submit_vertex") /\ p2p_actions' = Append(p2p_actions, b)
        /\ UNCHANGED <<handling, p2p_events, answer, verdict, outcome>>
    BY <1>8 DEF RpcSubmits, handlerVars, queueVars, peerVars
  <2>2. b \in P2pAction /\ b.kind = "broadcast"
    BY DEF P2pAction, Broadcast
  <2> HIDE DEF b
  <2>3. \A a \in Elements(p2p_actions') :
            a \in Elements(p2p_actions) \/ a.kind = "broadcast"
    BY <1>1, <2>1, <2>2, QueueAppend
  <2>4. QED
    BY <1>1, <1>2, <2>1, <2>3, ArrivalKeepsTraced
<1>9. CASE TakeAction
  <2> DEFINE action == Head(p2p_actions)
  <2>1. /\ p2p_actions # << >> /\ p2p_actions' = Tail(p2p_actions)
        /\ UNCHANGED <<arrived, p2p_events, handling, outcome>>
    BY <1>9 DEF TakeAction, handlerVars, queueVars
  <2>2. /\ action \in P2pAction /\ action \in Elements(p2p_actions)
        /\ Elements(p2p_actions') \subseteq Elements(p2p_actions)
    BY <1>1, <2>1, QueueTail
  <2>3. \A g, x : Founded(g, x) => Founded(g, x)'
    BY <2>1, FoundedStays
  <2>4. CASE action.kind = "respond"
    <3>1. /\ verdict' = verdict
          /\ \E got \in {Delivered(action.value), Failed} :
                answer' = [answer EXCEPT ![action.id] = {got}]
      BY <1>9, <2>4 DEF TakeAction, Failed
    <3>2. action.id \in RequestId /\ action.value \in Response
      BY <2>2, <2>4, ActionKinds
    <3>3. PICK got \in {action.value, Failed} :
              answer' = [answer EXCEPT ![action.id] = {got}]
      BY <3>1, <3>2, DeliveredIntact
    <3>4. \A wire \in arrived[action.id] : Fits(wire, got)
      BY <2>2, <2>4 DEF Traced, Fits, Failed
    <3>5. arrived[action.id] # {}
      <4>1. action.id \in Unanswered
        BY <2>2, UnansweredParts DEF Elements, IdsOf
      <4>2. QED
        BY <4>1 DEF OutstandingOnce
    <3> HIDE DEF action
    <3>6. \A r \in RequestId :
              answer'[r] = IF r = action.id THEN {got} ELSE answer[r]
      BY <1>1, <3>2, <3>3
    <3>7. \A r \in RequestId :
              /\ arrived[r] = {} => answer'[r] = {}
              /\ \A wire \in arrived[r], a \in answer'[r] : Fits(wire, a)
      BY <3>4, <3>5, <3>6 DEF Traced
    <3>8. QED
      BY <2>1, <2>2, <2>3, <3>1, <3>7 DEF Traced, Fits
  <2>5. CASE action.kind = "report"
    <3>1. /\ answer' = answer
          /\ verdict' = [verdict EXCEPT ![action.id] = @ \cup {action.value}]
      BY <1>9, <2>5 DEF TakeAction
    <3>2. action.id \in GossipId /\ Founded(action.id, action.value)
      BY <2>2, <2>5, ActionKinds DEF Traced
    <3> HIDE DEF action
    <3>3. \A g \in GossipId : \A x \in verdict'[g] :
              x \in verdict[g] \/ (g = action.id /\ x = action.value)
      BY <1>1, <3>1, <3>2
    <3>4. \A g \in GossipId : \A x \in verdict'[g] : Founded(g, x)
      BY <3>2, <3>3 DEF Traced
    <3>5. QED
      BY <2>1, <2>2, <2>3, <3>1, <3>4 DEF Traced, Fits
  <2>6. CASE action.kind = "broadcast"
    <3>1. UNCHANGED <<answer, verdict>>
      BY <1>9, <2>6 DEF TakeAction
    <3>2. QED
      BY <1>3, <2>1, <2>2, <3>1
  <2>7. QED
    BY <2>2, <2>4, <2>5, <2>6, ActionKinds
<1>10. CASE HandlerTakes
  <2>1. /\ p2p_events # << >> /\ p2p_events' = Tail(p2p_events)
        /\ UNCHANGED <<arrived, p2p_actions, answer, verdict, outcome>>
        /\ handling' = handling \/ handling' = {Head(p2p_events)}
    BY <1>10 DEF HandlerTakes, ReadsQueue, peerVars, HandlerCalls,
                 HandlerNotifies, handlerVars
  <2>2. /\ Head(p2p_events) \in Elements(p2p_events)
        /\ Elements(p2p_events') \subseteq Elements(p2p_events)
    BY <1>1, <2>1, QueueTail
  <2>3. QED
    BY <1>3, <2>1, <2>2
<1>11. CASE HandlerLagged
  <2>1. UNCHANGED <<handling, p2p_actions, arrived, answer, verdict, outcome>>
    BY <1>11 DEF HandlerLagged, handlerVars, peerVars
  <2>2. Elements(p2p_events') \subseteq Elements(p2p_events)
    BY <1>11, LaggedDrops
  <2>3. QED
    BY <1>3, <2>1, <2>2
<1>12. CASE HandlerDone
  <2>1. PICK event \in handling, r \in reply, a \in P2pAction :
              /\ ReplyFits(event, r)
              /\ p2p_actions' = Append(p2p_actions, a) /\ a.id = event.id
              /\ \/ /\ event \in Gossiped /\ a.kind = "report"
                    /\ a.value = ReportFor(r)
                 \/ /\ event \in Asked /\ a.kind = "respond"
                    /\ a.value = ResponseFor(r)
    BY <1>12, HandlerDoneAction
  <2>2. /\ handling' = {}
        /\ UNCHANGED <<arrived, p2p_events, answer, verdict, outcome>>
    BY <1>12 DEF HandlerDone, p2pVars, queueVars, peerVars
  <2>3. Elements(p2p_actions') = Elements(p2p_actions) \cup {a}
    BY <1>1, <2>1, QueueAppend
  <2>4. a.kind = "report" => Founded(a.id, a.value)
    BY <2>1, ReportFounded
  <2>5. a.kind = "respond" => \A wire \in arrived[a.id] : Fits(wire, a.value)
    <3> SUFFICES ASSUME a.kind = "respond", NEW wire \in arrived[a.id]
                 PROVE  Fits(wire, a.value)
      OBVIOUS
    <3>1. event \in Asked /\ a.value = ResponseFor(r)
      BY <2>1
    <3>2. wire.kind = event.kind /\ wire.hash = event.about
      BY <2>1, <3>1 DEF Traced
    <3>3. QED
      BY <2>1, <3>1, <3>2, ResponseFits
  <2>6. \A g, x : Founded(g, x) => Founded(g, x)'
    BY <2>2, FoundedStays
  <2>7. QED
    BY <2>2, <2>3, <2>4, <2>5, <2>6 DEF Traced, Fits
<1>13. CASE UNCHANGED <<p2p_events, handling, arrived, p2p_actions, answer,
                        verdict>> /\ outcome \subseteq outcome'
  BY <1>3, <1>13 DEF Elements
<1>14. QED
  BY <1>4, <1>6, <1>7, <1>8, <1>9, <1>10, <1>11, <1>12, <1>13
     DEF DaemonNext, daemonVars, p2pVars, queueVars, peerVars, handlerVars,
         Arrivals, HandlerStep, HandlerSubscribes, TaskStep, AnswerRead,
         Inserts, Refuses, TaskStops, CallTimesOut, Rest

-----------------------------------------------------------------------------
(***************************************************************************)
(* The theorems.                                                           *)
(***************************************************************************)

(***************************************************************************)
(* Nothing is under way at the start.                                      *)
(***************************************************************************)
LEMMA InitDaemonInv == DaemonInit => DaemonInv
<1> SUFFICES ASSUME DaemonInit PROVE DaemonInv
  OBVIOUS
<1>1. /\ actions = << >> /\ waiting = {} /\ arrived = [i \in Id |-> {}]
      /\ p2p_events = << >> /\ lost = {} /\ handling = {} /\ reply = {}
      /\ p2p_actions = << >> /\ pending_responses = {}
      /\ answer = [r \in RequestId |-> {}] /\ verdict = [g \in GossipId |-> {}]
  BY DEF DaemonInit, Init
<1>2. /\ Elements(p2p_events) = {} /\ Elements(p2p_actions) = {}
      /\ Elements(actions) = {} /\ Unanswered = {} /\ Handling = {}
      /\ IdsOf(p2p_events) = {} /\ IdsOf(p2p_actions) = {}
  BY <1>1 DEF Elements, Unanswered, Handling, IdsOf
<1>3. DaemonTypeOK
  <2>1. \A S : << >> \in Seq(S)
    OBVIOUS
  <2>2. QED
    BY <1>1, <2>1 DEF DaemonTypeOK
<1>4. OneActionEach
  BY <1>1 DEF OneActionEach
<1>5. OutstandingOnce
  BY <1>1, <1>2 DEF OutstandingOnce, DistinctIds
<1>6. HandlerWaits
  BY <1>1, <1>2 DEF HandlerWaits
<1>7. Traced
  BY <1>1, <1>2 DEF Traced, Id
<1>8. QED
  BY <1>3, <1>4, <1>5, <1>6, <1>7 DEF DaemonInv

(***************************************************************************)
(* Every step of the daemon keeps the invariant.                           *)
(***************************************************************************)
LEMMA NextDaemonInv == DaemonInv /\ [DaemonNext]_daemonVars => DaemonInv'
<1> SUFFICES ASSUME DaemonInv, [DaemonNext]_daemonVars PROVE DaemonInv'
  OBVIOUS
<1>1. /\ DaemonTypeOK /\ OneActionEach /\ OutstandingOnce /\ HandlerWaits
      /\ Traced
  BY DEF DaemonInv
<1>2. DaemonTypeOK'
  BY <1>1, NextDaemonTypeOK
<1>3. OneActionEach'
  <2>1. TaskMoves(TaskAction) /\ actions \in Seq(TaskAction)
    BY <1>1, DaemonTaskMoves DEF DaemonTypeOK
  <2>2. QED
    BY <1>1, <2>1, TaskKeepsOneEach DEF TaskAction
<1>4. OutstandingOnce'
  BY <1>1, NextOutstandingOnce
<1>5. HandlerWaits'
  BY <1>1, NextHandlerWaits
<1>6. Traced'
  BY <1>1, NextTraced
<1>7. QED
  BY <1>2, <1>3, <1>4, <1>5, <1>6 DEF DaemonInv

(***************************************************************************)
(* A set without two members has at most one.                              *)
(***************************************************************************)
LEMMA AtMostOne ==
    ASSUME NEW S, \A x, y \in S : x = y
    PROVE  Cardinality(S) <= 1
<1>1. CASE S = {}
  BY <1>1, FS_EmptySet
<1>2. CASE S # {}
  <2>1. PICK x : S = {x}
    BY <1>2
  <2>2. QED
    BY <2>1, FS_Singleton
<1>3. QED
  BY <1>1, <1>2

(***************************************************************************)
(* The consensus task answers each caller once, and only on the action of  *)
(* the call that is waiting, whatever the daemon around it does.           *)
(***************************************************************************)
THEOREM DaemonCallersHaveActions == DaemonSpec => []WaitingHaveActions
<1>1. DaemonInv => WaitingHaveActions
  BY OneEachCounts DEF DaemonInv, DaemonTypeOK
<1>2. QED
  BY <1>1, InitDaemonInv, NextDaemonInv, PTL DEF DaemonSpec

(***************************************************************************)
(* The p2p task keeps a response channel while, and only while, the        *)
(* request is under way or its event was lost.                             *)
(***************************************************************************)
THEOREM ChannelsAreFreed == DaemonSpec => []PendingResponsesExact
<1>1. DaemonInv => PendingResponsesExact
  BY DEF DaemonInv, OutstandingOnce, PendingResponsesExact
<1>2. QED
  BY <1>1, InitDaemonInv, NextDaemonInv, PTL DEF DaemonSpec

(***************************************************************************)
(* A peer is answered what it asked, also when earlier calls of the        *)
(* handler timed out and the task answers them late.                       *)
(***************************************************************************)
THEOREM PeersGetTheirAnswers == DaemonSpec => []AnswersMatch
<1>1. DaemonInv => AnswersMatch
  BY DEF DaemonInv, Traced, Fits, AnswersMatch
<1>2. QED
  BY <1>1, InitDaemonInv, NextDaemonInv, PTL DEF DaemonSpec

(***************************************************************************)
(* A message is judged once, and as the consensus task judged it.          *)
(***************************************************************************)
THEOREM MessagesAreJudgedFairly == DaemonSpec => []VerdictsMatch
<1>1. DaemonInv => VerdictsMatch
  <2> SUFFICES ASSUME DaemonInv, NEW g \in GossipId
               PROVE  /\ Cardinality(verdict[g]) <= 1
                      /\ "reject" \in verdict[g] =>
                            \E error \in Punitive : <<g, error>> \in outcome
                      /\ "accept" \in verdict[g] =>
                            outcome \cap {<<g, "Ok">>, <<g, "MissingParents">>}
                                # {}
    BY DEF VerdictsMatch
  <2>1. \A x, y \in verdict[g] : x = y
    BY DEF DaemonInv, OutstandingOnce
  <2>2. \A x \in verdict[g] : Founded(g, x)
    BY DEF DaemonInv, Traced
  <2>3. QED
    BY <2>1, <2>2, AtMostOne DEF Founded
<1>2. QED
  BY <1>1, InitDaemonInv, NextDaemonInv, PTL DEF DaemonSpec

(***************************************************************************)
(* A protobuf of a sane vertex decodes to a vertex with its hash.          *)
(***************************************************************************)
LEMMA BroadcastIntact ==
    ASSUME NEW h \in Hash, Sane(VertexOf(h)),
           NEW p, p = BroadcastToProto(VertexOf(h))
    PROVE  BroadcastDecodes(p) /\ HashesTo(BroadcastFromProto(p), h)
<1> DEFINE q == VertexToProto(VertexOf(h))
<1>1. p.vertex = {q}
  BY DEF BroadcastToProto
<1>2. VertexDecodes(q)
  BY SaneDecodes
<1>3. VertexFromProto(q) = VertexOf(h)
  BY VertexIntact
<1> HIDE DEF q
<1>4. (CHOOSE vx \in p.vertex : TRUE) = q
  BY <1>1
<1>5. BroadcastFromProto(p) = VertexOf(h)
  BY <1>3, <1>4 DEF BroadcastFromProto
<1>6. BroadcastDecodes(p)
  BY <1>1, <1>2 DEF BroadcastDecodes
<1>7. QED
  BY <1>5, <1>6 DEF HashesTo

(***************************************************************************)
(* What RPC clients submit is published only if every peer can decode it,  *)
(* to the vertex that was submitted.                                       *)
(***************************************************************************)
THEOREM PublishedIsUsable == DaemonSpec => []PublishedDecodes
<1>1. DaemonInit => PublishedDecodes
  BY DEF DaemonInit, PublishedDecodes
<1>2. DaemonInv /\ PublishedDecodes /\ [DaemonNext]_daemonVars
        => PublishedDecodes'
  <2> SUFFICES ASSUME DaemonInv, PublishedDecodes, [DaemonNext]_daemonVars
               PROVE  PublishedDecodes'
    OBVIOUS
  <2>1. CASE published' = published
    BY <2>1 DEF PublishedDecodes
  <2>2. CASE TakeAction
    <3> DEFINE action == Head(p2p_actions)
    <3>1. action \in P2pAction
      BY <2>2, QueueTail DEF DaemonInv, DaemonTypeOK, TakeAction
    <3>2. CASE action.kind # "broadcast"
      BY <2>1, <2>2, <3>2 DEF TakeAction
    <3>3. CASE action.kind = "broadcast"
      <4>1. /\ action.id \in SubmissionId
            /\ action.value = VertexOf(Submitted[action.id])
        BY <3>1, <3>3, ActionKinds
      <4>2. published' = published \cup Published(action.value)
        BY <2>2, <3>3 DEF TakeAction
      <4> HIDE DEF action
      <4>3. PICK s \in SubmissionId : action.value = VertexOf(Submitted[s])
        BY <4>1
      <4>4. Submitted[s] \in Hash
        BY DaemonAssumption
      <4>5. \A p \in Published(VertexOf(Submitted[s])) :
                /\ BroadcastDecodes(p)
                /\ HashesTo(BroadcastFromProto(p), Submitted[s])
        BY <4>4, BroadcastIntact DEF Published
      <4>6. QED
        BY <4>2, <4>3, <4>5 DEF PublishedDecodes
    <3>4. QED
      BY <3>2, <3>3
  <2>3. QED
    BY <2>1, <2>2
       DEF DaemonNext, daemonVars, p2pVars, queueVars, peerVars, handlerVars,
           Arrivals, ReceiveRequest, ReceiveGossip, ReceiveIdentity, RpcSubmits,
           HandlerStep, HandlerSubscribes, HandlerTakes, HandlerLagged,
           HandlerDone, TaskStep, AnswerRead, Inserts, Refuses, TaskStops,
           CallTimesOut, Rest
<1>3. QED
  BY <1>1, <1>2, InitDaemonInv, NextDaemonInv, PTL DEF DaemonSpec

=============================================================================
