--------------------------- MODULE ConsensusTask ----------------------------
(***************************************************************************)
(* The loop of the consensus task and its two channels                     *)
(* (src/consensus/task.rs, src/consensus/api.rs): the unbounded channel of *)
(* actions, answered one by one over oneshot channels, and the bounded     *)
(* broadcast channel of NewFrontier events, to which the task subscribes   *)
(* like everyone else.                                                     *)
(*                                                                         *)
(* The DAG itself is module DAG; here only whether a submission inserts a  *)
(* vertex, and so emits an event, matters.                                 *)
(***************************************************************************)
EXTENDS Integers, Sequences, FiniteSets

CONSTANTS Caller,       \* users of ConsensusApi: RPC, handler, fetchers
          Subscriber,   \* subscribers of events, the task itself apart
          Main,         \* the one of them that is the daemon's main loop
          Capacity,     \* CONSENSUS_EVENT_CHAN_CAPACITY
          MaxEvents,    \* bound: insertions after start
          MaxActions,   \* bound: actions in the queue
          Subject       \* what calls are about

Own == "consensus"      \* the task's own subscription, internal_events
Nobody == "nobody"      \* stands for the caller of an action that no one
                        \* waits for

ASSUME TaskAssumption ==
    /\ Main \in Subscriber /\ Own \notin Subscriber /\ Nobody \notin Caller
    /\ Capacity \in Nat \ {0} /\ MaxEvents \in Nat /\ MaxActions \in Nat

VARIABLES
    status,       \* of the task: "starting", "running", "stopped", or "exited"
                  \* with the whole process
    subscribed,   \* the receivers of the event channel
    unread,       \* how many events each receiver has not received
    actions,      \* <<caller, kind, subject>> in the order they were sent
    waiting,      \* callers that wait for their result
    events        \* insertions so far

vars == <<status, subscribed, unread, actions, waiting, events>>

Receiver == Subscriber \cup {Own}

Init ==
    /\ status = "starting"
    /\ subscribed = {}
    /\ unread = [r \in Receiver |-> 0]
    /\ actions = << >>
    /\ waiting = {}
    /\ events = 0

Emit == unread' = [r \in Receiver |-> IF r \in subscribed THEN unread[r] + 1
                                                          ELSE unread[r]]

\* ConsensusApi::subscribe_events
Subscribe(s) ==
    /\ s \notin subscribed /\ status # "exited"
    /\ subscribed' = subscribed \cup {s}
    /\ UNCHANGED <<status, unread, actions, waiting, events>>

\* task_fn spins until somebody listens, emits the initial frontier, and
\* then subscribes itself
Start ==
    /\ status = "starting"
    /\ subscribed # {}
    /\ status' = "running"
    /\ Emit
    /\ subscribed' = subscribed \cup {Own}
    /\ UNCHANGED <<actions, waiting, events>>

\* a method of ConsensusApi sends an action and waits; the channel of a task
\* that has stopped is closed and the method fails at once
Call(c, kind, subject) ==
    /\ c \notin waiting
    /\ status \in {"starting", "running"} /\ Len(actions) < MaxActions
    /\ actions' = Append(actions, <<c, kind, subject>>)
    /\ waiting' = waiting \cup {c}
    /\ UNCHANGED <<status, subscribed, unread, events>>

\* add_validator and record_peer_preference send an action and return
Notify(subject) ==
    /\ status \in {"starting", "running"} /\ Len(actions) < MaxActions
    /\ actions' = Append(actions, <<Nobody, "notify", subject>>)
    /\ UNCHANGED <<status, subscribed, unread, waiting, events>>

\* Mutant: the answer to a call that timed out goes to the caller's next one.
AbandonedKept(c) == actions

\* the oneshot channel of c's call is closed, but its action stays queued
Abandoned(c) ==
    [i \in DOMAIN actions |-> IF actions[i][1] = c
                              THEN [actions[i] EXCEPT ![1] = Nobody]
                              ELSE actions[i]]

\* the 60 s of ConsensusApi pass
TimeOut(c) ==
    /\ c \in waiting
    /\ waiting' = waiting \ {c}
    /\ actions' = Abandoned(c)
    /\ UNCHANGED <<status, subscribed, unread, events>>

\* Mutant: the result channel of a handled action is dropped unused and kept.
AnsweredNobody(c) == waiting

Answered(c) == waiting \ {c}

\* a read (GetAcceptedFrontier, GetPreference, GetVertex) or a submission
\* that is refused
HandleSilently ==
    /\ status = "running" /\ actions # << >>
    /\ actions' = Tail(actions)
    /\ waiting' = Answered(Head(actions)[1])
    /\ UNCHANGED <<status, subscribed, unread, events>>

\* a submission that inserts: NewFrontier, then the answer
HandleInsertion ==
    /\ status = "running" /\ actions # << >>
    /\ Head(actions)[2] = "submit"
    /\ events < MaxEvents
    /\ events' = events + 1
    /\ Emit
    /\ actions' = Tail(actions)
    /\ waiting' = Answered(Head(actions)[1])
    /\ UNCHANGED <<status, subscribed>>

\* the task receives one of its own events
ReceiveOwn ==
    /\ status = "running"
    /\ unread[Own] \in 1..Capacity
    /\ unread' = [unread EXCEPT ![Own] = @ - 1]
    /\ UNCHANGED <<status, subscribed, actions, waiting, events>>

\* Mutant: the result channels outlive the queue they were sent in.
CallsLeftWaiting == waiting

CallsLeft == {}

\* RecvError::Lagged: the task returns; the actions left and their result
\* channels are dropped, so that every waiting call fails
OwnLagged ==
    /\ status = "running"
    /\ unread[Own] > Capacity
    /\ status' = "stopped"
    /\ subscribed' = subscribed \ {Own}
    /\ actions' = << >>
    /\ waiting' = CallsLeft
    /\ UNCHANGED <<unread, events>>

\* a subscriber receives an event; one that lagged, the main loop apart,
\* goes on with the events the channel retains
Receive(s) ==
    /\ s \in subscribed \ {Own} /\ status # "exited"
    /\ unread[s] > 0
    /\ s = Main => unread[s] <= Capacity
    /\ unread' = [unread EXCEPT ![s] = IF @ > Capacity THEN Capacity ELSE @ - 1]
    /\ UNCHANGED <<status, subscribed, actions, waiting, events>>

\* the main loop returns when it lagged, and the process with all its tasks
\* ends
MainLagged ==
    /\ Main \in subscribed /\ status # "exited"
    /\ unread[Main] > Capacity
    /\ status' = "exited"
    /\ subscribed' = {}
    /\ actions' = << >>
    /\ waiting' = CallsLeft
    /\ UNCHANGED <<unread, events>>

Outside == \/ \E s \in Subscriber : Subscribe(s)
           \/ \E c \in Caller, kind \in {"read", "submit"}, x \in Subject :
                  Call(c, kind, x)
           \/ \E c \in Caller : TimeOut(c)
           \/ \E x \in Subject : Notify(x)

Handle == HandleSilently \/ HandleInsertion

Next == \/ Outside \/ Start \/ Handle \/ ReceiveOwn \/ OwnLagged
        \/ MainLagged
        \/ \E s \in Subscriber : Receive(s)

(***************************************************************************)
(* select! draws among the branches that are ready, so neither branch is   *)
(* put off for ever; subscribers are tasks of their own, and main          *)
(* subscribes as soon as it has started the task.                          *)
(***************************************************************************)
Fairness ==
    /\ WF_vars(\E s \in Subscriber : Subscribe(s))
    /\ WF_vars(Start)
    /\ WF_vars(Handle)
    /\ WF_vars(ReceiveOwn \/ OwnLagged)
    /\ WF_vars(Receive(Main) \/ MainLagged)
    /\ \A s \in Subscriber \ {Main} : WF_vars(Receive(s))

Spec == Init /\ [][Next]_vars /\ Fairness

-----------------------------------------------------------------------------
(***************************************************************************)
(* The callers that wait are those with an action in the queue, one each:  *)
(* no caller waits for an action that was dropped or already handled, and  *)
(* none is answered by an action of an earlier call of its own, one that   *)
(* had timed out.                                                          *)
(***************************************************************************)
Answerable == {i \in DOMAIN actions : actions[i][1] # Nobody}

WaitingHaveActions ==
    /\ waiting = {actions[i][1] : i \in Answerable}
    /\ Cardinality(waiting) = Cardinality(Answerable)

(***************************************************************************)
(* Every call returns, with an answer or an error, without help from its   *)
(* 60 s timer: also when the task stops with actions in its queue.         *)
(***************************************************************************)
CallsReturn == \A c \in Caller : (c \in waiting) ~> (c \notin waiting)

(***************************************************************************)
(* Events beyond the capacity of the channel are dropped, and nothing else *)
(* happens: the task goes on.                                              *)
(***************************************************************************)
TaskSurvives == status # "stopped"
=============================================================================
