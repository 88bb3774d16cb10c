----------------------------- MODULE PollProofs -----------------------------
(***************************************************************************)
(* Proofs about polls, for any number of peers and of pollsters at work on *)
(* one vertex, every draw of the validators, and answers that are delayed, *)
(* lost or contradict each other.                                          *)
(***************************************************************************)
EXTENDS Poll, FiniteSetTheorems, TLAPS

-----------------------------------------------------------------------------
(***************************************************************************)
(* Types.                                                                  *)
(***************************************************************************)

(***************************************************************************)
(* Nothing is known and nobody is asked at the start.                      *)
(***************************************************************************)
LEMMA InitTypeOK == Init => TypeOK
BY PollAssumption DEF Init, TypeOK

(***************************************************************************)
(* The pollsters' counters stay within a quorum: each is tested before the *)
(* next response is counted.                                               *)
(***************************************************************************)
LEMMA NextTypeOK == TypeOK /\ [Next]_vars => TypeOK'
<1> SUFFICES ASSUME TypeOK, [Next]_vars PROVE TypeOK'
  OBVIOUS
<1> USE DEF TypeOK
<1>1. ASSUME NEW peer \in Peer, AddValidator(peer) PROVE TypeOK'
  BY <1>1 DEF AddValidator
<1>2. ASSUME NEW p \in Pollster, NEW peers \in SUBSET Peer,
             StartPollster(p, peers)
      PROVE  TypeOK'
  BY <1>2 DEF StartPollster
<1>3. ASSUME NEW r \in network, LoseRequest(r) PROVE TypeOK'
  BY <1>3 DEF LoseRequest
<1>4. ASSUME NEW r \in network, NEW pref \in Preference, ReceiveResponse(r, pref)
      PROVE  TypeOK'
  <2>1. /\ r \in Pollster \X Peer /\ r[1] \in Pollster /\ r[2] \in Peer
        /\ network' = network \ {r}
        /\ answered' = answered \cup {<<r[1], r[2], pref>>}
        /\ pending_requests' \subseteq pending_requests
        /\ responses' = IF r \in pending_requests /\ phase[r[1]] = "running"
                        THEN [responses EXCEPT ![r[1]] = Append(@, pref)]
                        ELSE responses
        /\ UNCHANGED <<validators, phase, count_for, count_against, p2p_actions,
                       actions, pending_query, result>>
    BY <1>4 DEF ReceiveResponse, RemovePending
  <2>2. responses' \in [Pollster -> Seq(Preference)]
    BY <2>1
  <2>3. QED
    BY <2>1, <2>2
<1>5. ASSUME NEW r \in p2p_actions, SendRequest(r) PROVE TypeOK'
  BY <1>5 DEF SendRequest
<1>6. ASSUME NEW p \in Pollster, CountResponse(p) PROVE TypeOK'
  <2>1. /\ count_for[p] \in 0..QuorumSize /\ count_against[p] \in 0..QuorumSize
        /\ count_for[p] < QuorumSize /\ count_against[p] < QuorumSize
    BY <1>6, PollAssumption DEF CountResponse, QuorumReached
  <2>2. /\ count_for[p] + 1 \in 0..QuorumSize /\ count_for[p] + 0 \in 0..QuorumSize
        /\ count_against[p] + 1 \in 0..QuorumSize
        /\ count_against[p] + 0 \in 0..QuorumSize
    BY <2>1, PollAssumption
  <2>3. /\ count_for' \in [Pollster -> 0..QuorumSize]
        /\ count_against' \in [Pollster -> 0..QuorumSize]
    BY <1>6, <2>2 DEF CountResponse, Against
  <2>4. responses' \in [Pollster -> Seq(Preference)]
    <3>1. responses[p] \in Seq(Preference) /\ responses[p] # << >>
      BY <1>6 DEF CountResponse
    <3>2. Tail(responses[p]) \in Seq(Preference)
      BY <3>1
    <3>3. QED
      BY <1>6, <3>2 DEF CountResponse
  <2>5. QED
    BY <1>6, <2>3, <2>4 DEF CountResponse
<1>7. ASSUME NEW p \in Pollster, Finish(p) PROVE TypeOK'
  <2>1. Verdict(p) \in Preference
    BY DEF Verdict, Preference
  <2>2. QED
    BY <1>7, <2>1 DEF Finish
<1>8. CASE RecordPeerPreference
  <2>1. /\ actions # << >> /\ actions' = Tail(actions)
        /\ result' \in {result, Head(actions)}
        /\ pending_query' \in BOOLEAN
        /\ UNCHANGED <<validators, phase, count_for, count_against, responses,
                       p2p_actions, network, pending_requests, answered>>
    BY <1>8 DEF RecordPeerPreference
  <2>2. actions' \in Seq(Preference) /\ Head(actions) \in Preference
    BY <2>1
  <2>3. QED
    BY <2>1, <2>2
<1>9. CASE UNCHANGED vars
  BY <1>9 DEF vars
<1>10. QED
  BY <1>1, <1>2, <1>3, <1>4, <1>5, <1>6, <1>7, <1>8, <1>9
     DEF Next, Start, Lose, Answer, Work

(***************************************************************************)
(* The channels and the counters of all pollsters have their types.        *)
(***************************************************************************)
THEOREM TypeCorrect == Spec => []TypeOK
BY InitTypeOK, NextTypeOK, PTL DEF Spec

-----------------------------------------------------------------------------
(***************************************************************************)
(* Votes.                                                                  *)
(***************************************************************************)

\* the responses a pollster has received for pref and not counted yet
Uncounted(s, pref) == {i \in DOMAIN s : s[i] = pref}

\* what it has counted for pref
Counted(p, pref) == IF pref = "for" THEN count_for[p] ELSE count_against[p]

(***************************************************************************)
(* A request is under way once, from the one draw of the validators of its *)
(* pollster to its first answer.                                           *)
(***************************************************************************)
Unasked(r) == \A pref \in Preference : <<r[1], r[2], pref>> \notin answered

AskedAtMostOnce ==
    /\ p2p_actions \cap network = {}
    /\ \A r \in p2p_actions \cup network : Unasked(r)
    /\ \A p \in Pollster : phase[p] = "new" =>
          \A peer \in Peer : /\ <<p, peer>> \notin p2p_actions \cup network
                             /\ Unasked(<<p, peer>>)

(***************************************************************************)
(* A pollster counts no peer twice: what it has counted and what is still  *)
(* in its channel comes from as many different peers.                      *)
(***************************************************************************)
VotesBacked ==
    \A p \in Pollster : \A pref \in Preference :
        Counted(p, pref) + Cardinality(Uncounted(responses[p], pref))
            <= Cardinality(Voters(p, pref))

Quorum(pref) == \E p \in Pollster : Cardinality(Voters(p, pref)) >= QuorumSize

ReportsBacked ==
    /\ \A i \in DOMAIN actions : Quorum(actions[i])
    /\ result # "none" => Quorum(result)

PollInv == TypeOK /\ AskedAtMostOnce /\ VotesBacked /\ ReportsBacked

(***************************************************************************)
(* The votes in a channel are finitely many.                               *)
(***************************************************************************)
LEMMA UncountedFinite ==
    ASSUME NEW s \in Seq(Preference), NEW pref
    PROVE  /\ IsFiniteSet(Uncounted(s, pref))
           /\ Cardinality(Uncounted(s, pref)) \in Nat
<1>1. DOMAIN s = 1..Len(s) /\ Len(s) \in Nat
  OBVIOUS
<1>2. IsFiniteSet(1..Len(s))
  BY <1>1, FS_Interval
<1>3. Uncounted(s, pref) \subseteq 1..Len(s)
  BY <1>1 DEF Uncounted
<1>4. QED
  BY <1>2, <1>3, FS_Subset, FS_CardinalityType

(***************************************************************************)
(* A response adds one vote for what it says.                              *)
(***************************************************************************)
LEMMA UncountedAppend ==
    ASSUME NEW s \in Seq(Preference), NEW x \in Preference, NEW pref
    PROVE  Cardinality(Uncounted(Append(s, x), pref)) =
              Cardinality(Uncounted(s, pref)) + IF x = pref THEN 1 ELSE 0
<1> DEFINE t == Append(s, x)
<1>1. /\ DOMAIN s = 1..Len(s) /\ Len(s) \in Nat
      /\ DOMAIN t = 1..(Len(s) + 1)
      /\ t[Len(s) + 1] = x
      /\ \A i \in DOMAIN s : t[i] = s[i]
  OBVIOUS
<1> HIDE DEF t
<1>2. DOMAIN t = DOMAIN s \cup {Len(s) + 1} /\ Len(s) + 1 \notin DOMAIN s
  BY <1>1
<1>3. Uncounted(t, pref) = Uncounted(s, pref) \cup
                              (IF x = pref THEN {Len(s) + 1} ELSE {})
  BY <1>1, <1>2 DEF Uncounted
<1>4. Len(s) + 1 \notin Uncounted(s, pref)
  BY <1>2 DEF Uncounted
<1>5. IsFiniteSet(Uncounted(s, pref)) /\ Cardinality(Uncounted(s, pref)) \in Nat
  BY UncountedFinite
<1>6. CASE x = pref
  <2>1. Uncounted(t, pref) = Uncounted(s, pref) \cup {Len(s) + 1}
    BY <1>3, <1>6
  <2>2. Cardinality(Uncounted(t, pref)) = Cardinality(Uncounted(s, pref)) + 1
    BY <1>4, <1>5, <2>1, FS_AddElement
  <2>3. QED
    BY <1>6, <2>2 DEF t
<1>7. CASE x # pref
  <2>1. Uncounted(t, pref) = Uncounted(s, pref)
    BY <1>3, <1>7
  <2>2. QED
    BY <1>5, <1>7, <2>1 DEF t
<1>8. QED
  BY <1>6, <1>7

(***************************************************************************)
(* Taking the first response off a channel takes its vote off.             *)
(***************************************************************************)
LEMMA UncountedTail ==
    ASSUME NEW s \in Seq(Preference), s # << >>, NEW pref
    PROVE  Cardinality(Uncounted(Tail(s), pref))
              + (IF Head(s) = pref THEN 1 ELSE 0)
                <= Cardinality(Uncounted(s, pref))
<1> DEFINE t == Tail(s)
           rest == Uncounted(s, pref) \ {1}
           f == [i \in Uncounted(t, pref) |-> i + 1]
<1>1. /\ t \in Seq(Preference) /\ Head(s) = s[1]
      /\ DOMAIN s = 1..Len(s) /\ Len(s) \in Nat /\ Len(s) >= 1
      /\ DOMAIN t = 1..(Len(s) - 1)
      /\ \A i \in 1..(Len(s) - 1) : t[i] = s[i + 1]
  OBVIOUS
<1>2. \A i \in Uncounted(t, pref) :
          /\ i \in 1..(Len(s) - 1) /\ i + 1 \in DOMAIN s
          /\ s[i + 1] = pref /\ i + 1 # 1
  BY <1>1 DEF Uncounted
<1> HIDE DEF t
<1>3. f \in Injection(Uncounted(t, pref), rest)
  <2>1. \A i \in Uncounted(t, pref) : i + 1 \in rest
    BY <1>2 DEF Uncounted
  <2>2. \A i, j \in Uncounted(t, pref) : i + 1 = j + 1 => i = j
    BY <1>2
  <2>3. QED
    BY <2>1, <2>2 DEF Injection, IsInjective
<1>4. IsFiniteSet(Uncounted(s, pref)) /\ Cardinality(Uncounted(s, pref)) \in Nat
  BY UncountedFinite
<1>5. IsFiniteSet(rest) /\ Cardinality(rest) \in Nat
  BY <1>4, FS_Subset, FS_CardinalityType
<1>6. Cardinality(Uncounted(t, pref)) <= Cardinality(rest)
  <2> HIDE DEF f, rest
  <2>1. QED
    BY <1>3, <1>5, FS_Injection
<1>7. Cardinality(rest) = Cardinality(Uncounted(s, pref))
                            - (IF Head(s) = pref THEN 1 ELSE 0)
  <2>1. 1 \in Uncounted(s, pref) <=> Head(s) = pref
    BY <1>1 DEF Uncounted
  <2>2. CASE Head(s) = pref
    <3>1. Cardinality(rest) = Cardinality(Uncounted(s, pref)) - 1
      BY <1>4, <2>1, <2>2, FS_RemoveElement
    <3>2. QED
      BY <2>2, <3>1
  <2>3. CASE Head(s) # pref
    <3>1. Cardinality(rest) = Cardinality(Uncounted(s, pref))
      <4>1. rest = Uncounted(s, pref)
        BY <2>1, <2>3
      <4>2. QED
        BY <4>1
    <3> HIDE DEF rest
    <3>2. QED
      BY <1>4, <2>3, <3>1
  <2>4. QED
    BY <2>2, <2>3
<1>8. Cardinality(Uncounted(t, pref)) \in Nat
  BY <1>1, UncountedFinite
<1>9. QED
  BY <1>4, <1>5, <1>6, <1>7, <1>8 DEF t

(***************************************************************************)
(* An answer adds its peer to the voters of its pollster, unless the peer  *)
(* has answered that pollster before.                                      *)
(***************************************************************************)
LEMMA VotersFacts ==
    ASSUME answered \subseteq answered'
    PROVE  \A p \in Pollster : \A pref \in Preference :
              /\ IsFiniteSet(Voters(p, pref))
              /\ Cardinality(Voters(p, pref)) \in Nat
              /\ Cardinality(Voters(p, pref)') \in Nat
              /\ Cardinality(Voters(p, pref)) <= Cardinality(Voters(p, pref)')
              /\ \A peer \in Peer :
                   /\ <<p, peer, pref>> \notin answered
                   /\ <<p, peer, pref>> \in answered'
                   => Cardinality(Voters(p, pref)) + 1
                        <= Cardinality(Voters(p, pref)')
<1> TAKE p \in Pollster
<1> TAKE pref \in Preference
<1> DEFINE V == Voters(p, pref)
           W == Voters(p, pref)'
<1>1. V \subseteq W /\ W \subseteq Peer
  BY DEF Voters
<1>2. IsFiniteSet(W) /\ Cardinality(W) \in Nat
  BY <1>1, PollAssumption, FS_Subset, FS_CardinalityType
<1>3. ASSUME NEW peer \in Peer, <<p, peer, pref>> \notin answered,
             <<p, peer, pref>> \in answered'
      PROVE  peer \in W /\ peer \notin V
  BY <1>3 DEF Voters
<1> HIDE DEF V, W
<1>4. IsFiniteSet(V) /\ Cardinality(V) \in Nat /\ Cardinality(V) <= Cardinality(W)
  BY <1>1, <1>2, FS_Subset, FS_CardinalityType
<1>5. ASSUME NEW peer, peer \in W, peer \notin V
      PROVE  Cardinality(V) + 1 <= Cardinality(W)
  <2>1. V \cup {peer} \subseteq W
    BY <1>1, <1>5
  <2>2. Cardinality(V \cup {peer}) = Cardinality(V) + 1
    BY <1>4, <1>5, FS_AddElement
  <2>3. QED
    BY <1>2, <2>1, <2>2, FS_Subset
<1>6. QED
  BY <1>2, <1>3, <1>4, <1>5 DEF V, W

-----------------------------------------------------------------------------
(***************************************************************************)
(* A request is answered once.                                             *)
(***************************************************************************)

(***************************************************************************)
(* Requests go from p2p_actions to the network, and from there they are    *)
(* lost or answered; a pollster starts once.                               *)
(***************************************************************************)
LEMMA NextAskedOnce ==
    TypeOK /\ AskedAtMostOnce /\ [Next]_vars => AskedAtMostOnce'
<1> SUFFICES ASSUME TypeOK, AskedAtMostOnce, [Next]_vars PROVE AskedAtMostOnce'
  OBVIOUS
<1> USE DEF TypeOK, AskedAtMostOnce
<1>1. ASSUME NEW p \in Pollster, NEW peers \in SUBSET Peer,
             StartPollster(p, peers)
      PROVE  AskedAtMostOnce'
  <2>1. /\ phase[p] = "new" /\ peers \subseteq Peer
        /\ phase' = [phase EXCEPT ![p] = "running"]
        /\ p2p_actions' = p2p_actions \cup {<<p, peer>> : peer \in peers}
        /\ network' = network /\ answered' = answered
    BY <1>1 DEF StartPollster
  <2>2. \A q \in Pollster : phase'[q] = "new" => phase[q] = "new" /\ q # p
    BY <2>1
  <2>3. \A r \in p2p_actions' : r \notin network /\ Unasked(r)
    BY <2>1
  <2>4. QED
    BY <2>1, <2>2, <2>3 DEF Unasked
<1>2. ASSUME NEW r \in network, LoseRequest(r) PROVE AskedAtMostOnce'
  BY <1>2 DEF LoseRequest, Unasked
<1>3. ASSUME NEW r \in network, NEW pref \in Preference, ReceiveResponse(r, pref)
      PROVE  AskedAtMostOnce'
  <2>1. /\ network' = network \ {r} /\ p2p_actions' = p2p_actions
        /\ answered' = answered \cup {<<r[1], r[2], pref>>}
        /\ phase' = phase
    BY <1>3 DEF ReceiveResponse
  <2>2. r \in Pollster \X Peer /\ r = <<r[1], r[2]>>
    OBVIOUS
  <2>3. \A s \in Pollster \X Peer : s # r /\ Unasked(s) => Unasked(s)'
    <3>1. \A s \in Pollster \X Peer : s # r => s[1] # r[1] \/ s[2] # r[2]
      <4>1. \A s \in Pollster \X Peer : s = <<s[1], s[2]>>
        OBVIOUS
      <4>2. QED
        BY <2>2, <4>1
    <3>2. \A s \in Pollster \X Peer, x \in Preference :
              s # r => <<s[1], s[2], x>> # <<r[1], r[2], pref>>
      BY <3>1
    <3>3. QED
      BY <2>1, <3>2 DEF Unasked
  <2>4. \A s \in p2p_actions' \cup network' : Unasked(s)'
    <3>1. \A s \in p2p_actions' \cup network' :
              s # r /\ s \in Pollster \X Peer /\ Unasked(s)
      BY <2>1
    <3>2. QED
      BY <2>3, <3>1
  <2>5. ASSUME NEW p \in Pollster, phase'[p] = "new", NEW peer \in Peer
        PROVE  /\ <<p, peer>> \notin p2p_actions' \cup network'
               /\ Unasked(<<p, peer>>)'
    <3>1. <<p, peer>> \notin p2p_actions \cup network /\ Unasked(<<p, peer>>)
      BY <2>1, <2>5
    <3>2. QED
      BY <2>1, <2>3, <3>1
  <2>6. p2p_actions' \cap network' = {}
    BY <2>1
  <2>7. QED
    BY <2>4, <2>5, <2>6
<1>4. ASSUME NEW r \in p2p_actions, SendRequest(r) PROVE AskedAtMostOnce'
  BY <1>4 DEF SendRequest, Unasked
<1>5. ASSUME NEW p \in Pollster, Finish(p) PROVE AskedAtMostOnce'
  <2>1. \A q \in Pollster : phase'[q] = "new" => phase[q] = "new"
    BY <1>5 DEF Finish
  <2>2. QED
    BY <1>5, <2>1 DEF Finish, Unasked
<1>6. CASE UNCHANGED <<phase, p2p_actions, network, answered>>
  BY <1>6 DEF Unasked
<1>7. QED
  BY <1>1, <1>2, <1>3, <1>4, <1>5, <1>6
     DEF Next, Start, Lose, Answer, Work, vars, AddValidator, CountResponse,
         RecordPeerPreference

-----------------------------------------------------------------------------
(***************************************************************************)
(* Every vote has a voter.                                                 *)
(***************************************************************************)

(***************************************************************************)
(* Answers are only added.                                                 *)
(***************************************************************************)
LEMMA AnsweredGrows == [Next]_vars => answered \subseteq answered'
BY DEF Next, Start, Lose, Answer, Work, vars, AddValidator, StartPollster,
       LoseRequest, ReceiveResponse, SendRequest, CountResponse, Finish,
       RecordPeerPreference

(***************************************************************************)
(* An answer brings its own voter; counting moves a vote from the channel  *)
(* to its counter.                                                         *)
(***************************************************************************)
LEMMA NextVotesBacked ==
    TypeOK /\ AskedAtMostOnce /\ VotesBacked /\ [Next]_vars => VotesBacked'
<1> SUFFICES ASSUME TypeOK, AskedAtMostOnce, VotesBacked, [Next]_vars,
                    NEW p \in Pollster, NEW pref \in Preference
             PROVE  Counted(p, pref)'
                      + Cardinality(Uncounted(responses'[p], pref))
                        <= Cardinality(Voters(p, pref)')
  BY DEF VotesBacked, Uncounted
<1> DEFINE Queued(s) == Cardinality(Uncounted(s, pref))
           Voting == Cardinality(Voters(p, pref))
           VotingNext == Cardinality(Voters(p, pref)')
<1>1. Counted(p, pref) + Queued(responses[p]) <= Voting
  BY DEF VotesBacked
<1>2. /\ Counted(p, pref) \in Nat /\ responses[p] \in Seq(Preference)
      /\ Queued(responses[p]) \in Nat
  BY UncountedFinite, PollAssumption DEF TypeOK, Counted
<1>3. /\ Voting \in Nat /\ VotingNext \in Nat /\ Voting <= VotingNext
      /\ \A peer \in Peer : /\ <<p, peer, pref>> \notin answered
                            /\ <<p, peer, pref>> \in answered'
                            => Voting + 1 <= VotingNext
  BY AnsweredGrows, VotersFacts
<1> HIDE DEF Queued, Voting, VotingNext
<1>4. CASE Counted(p, pref)' = Counted(p, pref) /\ responses'[p] = responses[p]
  BY <1>1, <1>2, <1>3, <1>4 DEF Queued, VotingNext
<1>5. ASSUME NEW r \in network, NEW x \in Preference, ReceiveResponse(r, x)
      PROVE  Counted(p, pref)' + Queued(responses'[p]) <= VotingNext
  <2>1. /\ r \in Pollster \X Peer /\ Unasked(r)
        /\ r[1] \in Pollster /\ r[2] \in Peer
        /\ answered' = answered \cup {<<r[1], r[2], x>>}
        /\ responses' = IF r \in pending_requests /\ phase[r[1]] = "running"
                        THEN [responses EXCEPT ![r[1]] = Append(@, x)]
                        ELSE responses
        /\ UNCHANGED <<count_for, count_against>>
    BY <1>5 DEF ReceiveResponse, TypeOK, AskedAtMostOnce
  <2>2. Counted(p, pref)' = Counted(p, pref)
    BY <2>1 DEF Counted
  <2>3. CASE responses'[p] = responses[p]
    BY <1>1, <1>2, <1>3, <2>2, <2>3
  <2>4. CASE r[1] = p /\ responses'[p] = Append(responses[p], x)
    <3>1. Queued(responses'[p]) =
             Queued(responses[p]) + IF x = pref THEN 1 ELSE 0
      BY <1>2, <2>4, UncountedAppend DEF Queued
    <3>2. CASE x = pref
      <4>1. <<p, r[2], pref>> \notin answered /\ <<p, r[2], pref>> \in answered'
        BY <2>1, <2>4, <3>2 DEF Unasked
      <4>2. Voting + 1 <= VotingNext
        BY <1>3, <2>1, <4>1
      <4>3. QED
        BY <1>1, <1>2, <1>3, <2>2, <3>1, <3>2, <4>2
    <3>3. CASE x # pref
      BY <1>1, <1>2, <1>3, <2>2, <3>1, <3>3
    <3>4. QED
      BY <3>2, <3>3
  <2>5. QED
    BY <2>1, <2>3, <2>4 DEF TypeOK
<1>6. ASSUME CountResponse(p)
      PROVE  Counted(p, pref)' + Queued(responses'[p]) <= VotingNext
  <2>1. /\ responses[p] # << >>
        /\ responses'[p] = Tail(responses[p])
        /\ count_for'[p] = count_for[p]
                             + IF Head(responses[p]) = "for" THEN 1 ELSE 0
        /\ count_against'[p] = count_against[p]
                             + IF Head(responses[p]) = "against" THEN 1 ELSE 0
    BY <1>6 DEF CountResponse, Against, TypeOK
  <2>2. Counted(p, pref)' = Counted(p, pref)
                              + IF Head(responses[p]) = pref THEN 1 ELSE 0
    BY <2>1 DEF Counted, Preference
  <2>3. /\ Queued(Tail(responses[p]))
             + (IF Head(responses[p]) = pref THEN 1 ELSE 0)
                <= Queued(responses[p])
        /\ Queued(Tail(responses[p])) \in Nat
    <3>1. Tail(responses[p]) \in Seq(Preference)
      BY <1>2, <2>1
    <3>2. QED
      BY <1>2, <2>1, <3>1, UncountedTail, UncountedFinite DEF Queued
  <2>4. QED
    BY <1>1, <1>2, <1>3, <2>1, <2>2, <2>3
<1>7. ASSUME NEW q \in Pollster, q # p, CountResponse(q)
      PROVE  Counted(p, pref)' = Counted(p, pref) /\ responses'[p] = responses[p]
  BY <1>7 DEF CountResponse, Counted, TypeOK
<1>8. ASSUME Finish(p)
      PROVE  Counted(p, pref)' + Queued(responses'[p]) <= VotingNext
  <2>1. Counted(p, pref)' = Counted(p, pref) /\ responses'[p] = << >>
    BY <1>8 DEF Finish, Counted, TypeOK
  <2>2. Queued(<< >>) = 0
    <3>1. Uncounted(<< >>, pref) = {}
      BY DEF Uncounted
    <3>2. QED
      BY <3>1, FS_EmptySet DEF Queued
  <2>3. QED
    BY <1>1, <1>2, <1>3, <2>1, <2>2
<1>9. ASSUME NEW q \in Pollster, q # p, Finish(q)
      PROVE  Counted(p, pref)' = Counted(p, pref) /\ responses'[p] = responses[p]
  BY <1>9 DEF Finish, Counted, TypeOK
<1>10. CASE UNCHANGED <<count_for, count_against, responses>>
  BY <1>4, <1>10 DEF Counted
<1>11. QED
  BY <1>4, <1>5, <1>6, <1>7, <1>8, <1>9, <1>10
     DEF Next, Start, Lose, Answer, Work, vars, AddValidator, StartPollster,
         LoseRequest, SendRequest, RecordPeerPreference, Queued, VotingNext

-----------------------------------------------------------------------------
(***************************************************************************)
(* Every result has a quorum.                                              *)
(***************************************************************************)

(***************************************************************************)
(* Once a quorum of peers has said something to a pollster, it has.        *)
(***************************************************************************)
LEMMA QuorumStays ==
    [Next]_vars => \A pref \in Preference : Quorum(pref) => Quorum(pref)'
<1> SUFFICES ASSUME [Next]_vars, NEW pref \in Preference, NEW p \in Pollster,
                    Cardinality(Voters(p, pref)) >= QuorumSize
             PROVE  Cardinality(Voters(p, pref)') >= QuorumSize
  BY DEF Quorum
<1>1. /\ Cardinality(Voters(p, pref)) \in Nat
      /\ Cardinality(Voters(p, pref)') \in Nat
      /\ Cardinality(Voters(p, pref)) <= Cardinality(Voters(p, pref)')
  BY AnsweredGrows, VotersFacts
<1>2. QED
  BY <1>1, PollAssumption

(***************************************************************************)
(* A pollster reports what it has counted QuorumSize votes for, and every  *)
(* counted vote has a voter of its own.                                    *)
(***************************************************************************)
LEMMA VerdictBacked ==
    ASSUME TypeOK, VotesBacked, NEW p \in Pollster, QuorumReached(p)
    PROVE  Quorum(Verdict(p)) /\ Verdict(p) \in Preference
<1>1. PICK pref \in Preference :
          pref = Verdict(p) /\ Counted(p, pref) >= QuorumSize
  BY DEF QuorumReached, Verdict, Counted, Preference
<1>2. /\ Counted(p, pref) \in Nat /\ responses[p] \in Seq(Preference)
      /\ Cardinality(Uncounted(responses[p], pref)) \in Nat
  BY UncountedFinite, PollAssumption DEF TypeOK, Counted
<1>3. Cardinality(Voters(p, pref)) \in Nat
  <2>1. Voters(p, pref) \subseteq Peer
    BY DEF Voters
  <2>2. QED
    BY <2>1, PollAssumption, FS_Subset, FS_CardinalityType
<1>4. Counted(p, pref) + Cardinality(Uncounted(responses[p], pref))
          <= Cardinality(Voters(p, pref))
  BY DEF VotesBacked
<1>5. Cardinality(Voters(p, pref)) >= QuorumSize
  BY <1>1, <1>2, <1>3, <1>4, PollAssumption
<1>6. QED
  BY <1>1, <1>5 DEF Quorum

(***************************************************************************)
(* Reports reach the DAG as they were sent, and only the first is kept.    *)
(***************************************************************************)
LEMMA NextReportsBacked ==
    TypeOK /\ VotesBacked /\ ReportsBacked /\ [Next]_vars => ReportsBacked'
<1> SUFFICES ASSUME TypeOK, VotesBacked, ReportsBacked, [Next]_vars
             PROVE  ReportsBacked'
  OBVIOUS
<1>1. \A pref \in Preference : Quorum(pref) => Quorum(pref)'
  BY QuorumStays
<1>2. /\ \A i \in DOMAIN actions : actions[i] \in Preference /\ Quorum(actions[i])
      /\ result # "none" => result \in Preference /\ Quorum(result)
      /\ actions \in Seq(Preference)
  BY DEF TypeOK, ReportsBacked
<1>3. SUFFICES /\ \A i \in DOMAIN actions' :
                      actions'[i] \in Preference /\ Quorum(actions'[i])
               /\ result' # "none" => result' \in Preference /\ Quorum(result')
  BY <1>1 DEF ReportsBacked, Quorum, Voters
<1>4. CASE UNCHANGED <<actions, result>>
  BY <1>2, <1>4
<1>5. ASSUME NEW p \in Pollster, Finish(p)
      PROVE  /\ \A i \in DOMAIN actions' :
                      actions'[i] \in Preference /\ Quorum(actions'[i])
             /\ result' = result
  <2>1. /\ QuorumReached(p) /\ result' = result
        /\ actions' = Append(actions, Verdict(p))
    BY <1>5 DEF Finish
  <2>2. Quorum(Verdict(p)) /\ Verdict(p) \in Preference
    BY <2>1, VerdictBacked
  <2>3. /\ DOMAIN actions' = DOMAIN actions \cup {Len(actions) + 1}
        /\ \A i \in DOMAIN actions : actions'[i] = actions[i]
        /\ actions'[Len(actions) + 1] = Verdict(p)
    BY <1>2, <2>1, <2>2
  <2>4. QED
    BY <1>2, <2>1, <2>2, <2>3
<1>6. CASE RecordPeerPreference
  <2>1. /\ actions # << >> /\ actions' = Tail(actions)
        /\ result' \in {result, Head(actions)}
    BY <1>6 DEF RecordPeerPreference
  <2>2. /\ Head(actions) = actions[1] /\ 1 \in DOMAIN actions
        /\ \A i \in DOMAIN Tail(actions) :
              /\ i + 1 \in DOMAIN actions
              /\ Tail(actions)[i] = actions[i + 1]
    BY <1>2, <2>1
  <2>3. QED
    BY <1>2, <2>1, <2>2
<1>7. QED
  BY <1>2, <1>4, <1>5, <1>6
     DEF Next, Start, Lose, Answer, Work, vars, AddValidator, StartPollster,
         LoseRequest, ReceiveResponse, SendRequest, CountResponse

(***************************************************************************)
(* At the start nobody is asked and nothing is counted or reported.        *)
(***************************************************************************)
LEMMA InitPollInv == Init => PollInv
<1> SUFFICES ASSUME Init PROVE PollInv
  OBVIOUS
<1>1. AskedAtMostOnce /\ ReportsBacked
  BY DEF Init, AskedAtMostOnce, Unasked, ReportsBacked
<1>2. VotesBacked
  <2> SUFFICES ASSUME NEW p \in Pollster, NEW pref \in Preference
               PROVE  Counted(p, pref)
                        + Cardinality(Uncounted(responses[p], pref))
                          <= Cardinality(Voters(p, pref))
    BY DEF VotesBacked
  <2>1. Counted(p, pref) = 0 /\ Uncounted(responses[p], pref) = {}
        /\ Voters(p, pref) = {}
    BY DEF Init, Counted, Uncounted, Voters
  <2>2. QED
    BY <2>1, FS_EmptySet
<1>3. QED
  BY <1>1, <1>2, InitTypeOK DEF PollInv

(***************************************************************************)
(* What the DAG records about a vertex, one pollster heard from QuorumSize *)
(* different peers, however answers are delayed or lost and however many   *)
(* pollsters are at work on the vertex.                                    *)
(***************************************************************************)
THEOREM ResultBacked == Spec => []ResultHasQuorum
<1>1. PollInv /\ [Next]_vars => PollInv'
  BY NextTypeOK, NextAskedOnce, NextVotesBacked, NextReportsBacked DEF PollInv
<1>2. PollInv => ResultHasQuorum
  BY DEF PollInv, ReportsBacked, ResultHasQuorum, Quorum
<1>3. QED
  BY InitPollInv, <1>1, <1>2, PTL DEF Spec

=============================================================================
