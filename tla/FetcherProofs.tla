--------------------------- MODULE FetcherProofs ----------------------------
(***************************************************************************)
(* Proofs about fetchers, for every graph of vertices, finite or not, any  *)
(* peers, any number of messages, and any mixture of answers (honest or    *)
(* not), losses, errors and time limits.                                   *)
(***************************************************************************)
EXTENDS Fetcher, TLAPS

Kind == {"vertex", "error", "illegal"}

\* The types of what the proofs are about.
TypeOK ==
    /\ known \subseteq Hash
    /\ gossip \subseteq Message \X Peer
    /\ handling \subseteq Message \X Peer \X SUBSET Hash
    /\ requested \in [Message -> SUBSET Hash]
    /\ asked \in [Message -> [Hash -> Nat]]
    /\ submitted \in [Message -> SUBSET Hash]
    /\ network \subseteq Message \X Hash
    /\ responses \in [Message -> Seq(Kind \X Hash)]
    /\ reply \in [Message -> SUBSET SUBSET Hash]

(***************************************************************************)
(* What a fetcher has asked for, it has asked for once.                    *)
(***************************************************************************)
AskedAsRequested ==
    \A f \in Message, h \in Hash :
        asked[f][h] = IF h \in requested[f] THEN 1 ELSE 0

\* hashes fetcher f may ask for
Wanted(f, hashes) ==
    \A h \in hashes :
        \E v \in ({Carried[f]} \cup submitted[f]) \cap known : h \in ParentsOf[v]

(***************************************************************************)
(* Whatever is reported missing to the handler is a parent of the vertex   *)
(* it submitted, and to a fetcher, of a vertex that fetcher submitted.     *)
(***************************************************************************)
ReportsTraced ==
    /\ \A m \in handling : /\ Carried[m[1]] \in known
                           /\ m[3] \subseteq ParentsOf[Carried[m[1]]]
    /\ \A f \in Message : \A missing \in reply[f] : Wanted(f, missing)

FetchInv == TypeOK /\ AskedAsRequested /\ ReportsTraced /\ RequestsTraced

-----------------------------------------------------------------------------
(***************************************************************************)
(* The ancestry of a vertex has its parents and the parents of its         *)
(* members, also in a graph with cycles.                                   *)
(***************************************************************************)
LEMMA AncestryClosed ==
    ASSUME NEW h \in Hash
    PROVE  /\ Ancestry[h] \subseteq Hash
           /\ ParentsOf[h] \subseteq Ancestry[h]
           /\ \A v \in Ancestry[h] : ParentsOf[v] \subseteq Ancestry[h]
<1>1. \A v \in Hash : ParentsOf[v] \subseteq Hash
  BY FetcherAssumption
<1>2. QED
  BY <1>1 DEF Ancestry

(***************************************************************************)
(* Whatever a fetcher may ask for, it may still ask for when more vertices *)
(* are known and it has submitted more.                                    *)
(***************************************************************************)
LEMMA WantedStays ==
    ASSUME known \subseteq known', NEW f, submitted[f] \subseteq submitted'[f],
           NEW hashes, Wanted(f, hashes)
    PROVE  Wanted(f, hashes)'
BY DEF Wanted

(***************************************************************************)
(* Nothing has been submitted or asked for at the start.                   *)
(***************************************************************************)
LEMMA InitFetchInv == Init => FetchInv
BY FetcherAssumption
   DEF Init, FetchInv, TypeOK, AskedAsRequested, ReportsTraced, RequestsTraced

(***************************************************************************)
(* Asking for hashes that may be asked for: those not requested before are *)
(* asked for now, and only those.                                          *)
(***************************************************************************)
LEMMA RequestHashesKeepsInv ==
    ASSUME FetchInv, NEW f \in Message, NEW hashes \in SUBSET Hash,
           Wanted(f, hashes), RequestHashes(f, hashes),
           UNCHANGED <<known, gossip, submitted, responses>>,
           handling' \subseteq handling,
           reply' \in [Message -> SUBSET SUBSET Hash],
           \A g \in Message : reply'[g] \subseteq reply[g]
    PROVE  FetchInv'
<1> DEFINE new == hashes \ requested[f]
<1>1. /\ requested' = [requested EXCEPT ![f] = @ \cup new]
      /\ asked' = [asked EXCEPT ![f] =
                      [h \in Hash |-> asked[f][h] + IF h \in new THEN 1 ELSE 0]]
      /\ network' = network \cup {<<f, h>> : h \in new}
  BY DEF RequestHashes, NewHashes
<1>2. new \subseteq Hash /\ new \cap requested[f] = {} /\ new \subseteq hashes
  OBVIOUS
<1> HIDE DEF new
<1>3. /\ requested'[f] = requested[f] \cup new
      /\ \A g \in Message : g # f => requested'[g] = requested[g]
      /\ requested' \in [Message -> SUBSET Hash]
  BY <1>1, <1>2 DEF FetchInv, TypeOK
<1>4. /\ \A h \in Hash :
             asked'[f][h] = asked[f][h] + IF h \in new THEN 1 ELSE 0
      /\ \A g \in Message : g # f => asked'[g] = asked[g]
      /\ asked' \in [Message -> [Hash -> Nat]]
  <2>1. [h \in Hash |-> asked[f][h] + IF h \in new THEN 1 ELSE 0]
            \in [Hash -> Nat]
    BY DEF FetchInv, TypeOK
  <2>2. QED
    BY <1>1, <2>1 DEF FetchInv, TypeOK
<1>5. TypeOK'
  <2>1. network' \subseteq Message \X Hash
    BY <1>1, <1>2 DEF FetchInv, TypeOK
  <2>2. handling' \subseteq Message \X Peer \X SUBSET Hash
    BY DEF FetchInv, TypeOK
  <2>3. QED
    BY <1>3, <1>4, <2>1, <2>2 DEF FetchInv, TypeOK
<1>6. AskedAsRequested'
  <2> SUFFICES ASSUME NEW g \in Message, NEW h \in Hash
               PROVE  asked'[g][h] = IF h \in requested'[g] THEN 1 ELSE 0
    BY DEF AskedAsRequested
  <2>1. asked[g][h] = IF h \in requested[g] THEN 1 ELSE 0
    BY DEF FetchInv, AskedAsRequested
  <2>2. CASE g # f
    BY <1>3, <1>4, <2>1, <2>2
  <2>3. CASE g = f
    BY <1>2, <1>3, <1>4, <2>1, <2>3
  <2>4. QED
    BY <2>2, <2>3
<1>7. RequestsTraced'
  BY <1>2, <1>3 DEF FetchInv, RequestsTraced, Wanted
<1>8. ReportsTraced'
  BY DEF FetchInv, ReportsTraced, Wanted
<1>9. QED
  BY <1>5, <1>6, <1>7, <1>8 DEF FetchInv

(***************************************************************************)
(* Nothing is lost by forgetting requests and reports, whatever the        *)
(* fetchers are sent.                                                      *)
(***************************************************************************)
LEMMA ForgettingKeepsInv ==
    ASSUME FetchInv,
           UNCHANGED <<known, requested, asked, submitted>>,
           gossip' \subseteq Message \X Peer,
           handling' \subseteq handling, network' \subseteq network,
           reply' \in [Message -> SUBSET SUBSET Hash],
           \A f \in Message : reply'[f] \subseteq reply[f],
           responses' \in [Message -> Seq(Kind \X Hash)]
    PROVE  FetchInv'
<1>1. TypeOK' /\ AskedAsRequested'
  BY DEF FetchInv, TypeOK, AskedAsRequested
<1>2. ReportsTraced' /\ RequestsTraced'
  BY DEF FetchInv, ReportsTraced, RequestsTraced, Wanted
<1>3. QED
  BY <1>1, <1>2 DEF FetchInv

(***************************************************************************)
(* An answer of any kind, with any vertex in it.                           *)
(***************************************************************************)
LEMMA AnswerKeepsInv ==
    ASSUME FetchInv, NEW r \in network, NEW response \in Kind \X Hash,
           Answer(r, response)
    PROVE  FetchInv'
<1>1. /\ r[1] \in Message
      /\ network' \subseteq network
      /\ responses' = IF r[1] \in returned THEN responses
                      ELSE [responses EXCEPT ![r[1]] = Append(@, response)]
      /\ UNCHANGED <<known, gossipVars, requested, asked, submitted, reply>>
  BY DEF Answer, FetchInv, TypeOK
<1>2. Append(responses[r[1]], response) \in Seq(Kind \X Hash)
  BY <1>1 DEF FetchInv, TypeOK
<1>3. responses' \in [Message -> Seq(Kind \X Hash)]
  BY <1>1, <1>2 DEF FetchInv, TypeOK
<1>4. QED
  BY <1>1, <1>3, ForgettingKeepsInv DEF gossipVars, FetchInv, TypeOK

(***************************************************************************)
(* One step per way to go on: a submission may add to known and reports    *)
(* parents of what it submits.                                             *)
(***************************************************************************)
LEMMA NextFetchInv == FetchInv /\ [Next]_vars => FetchInv'
<1> SUFFICES ASSUME FetchInv, [Next]_vars PROVE FetchInv'
  OBVIOUS
<1> USE DEF FetchInv
<1>1. ASSUME NEW m \in Message, NEW src \in Peer, Gossip(m, src)
      PROVE  FetchInv'
  <2>1. /\ gossip' = gossip \cup {<<m, src>>}
        /\ UNCHANGED <<known, handling, requested, asked, submitted, network,
                       responses, reply>>
    BY <1>1 DEF Gossip, fetchVars
  <2>2. gossip' \subseteq Message \X Peer
    BY <2>1 DEF TypeOK
  <2>3. QED
    BY <2>1, <2>2, ForgettingKeepsInv DEF TypeOK
<1>2. ASSUME NEW m \in Message, NEW src \in Peer, HandleGossip(m, src)
      PROVE  FetchInv'
  <2> DEFINE v == Carried[m]
  <2>1. /\ v \in Hash
        /\ gossip' \subseteq gossip
        /\ handling' = {<<m, src, Missing(v)>>}
        /\ known' = known \cup {v}
        /\ UNCHANGED fetchVars
    BY <1>2, FetcherAssumption DEF HandleGossip
  <2>2. Missing(v) \subseteq ParentsOf[v] /\ ParentsOf[v] \subseteq Hash
    BY <2>1, FetcherAssumption DEF Missing
  <2>3. TypeOK' /\ AskedAsRequested'
    BY <2>1, <2>2 DEF fetchVars, TypeOK, AskedAsRequested
  <2>4. \A f \in Message : \A hashes : Wanted(f, hashes) => Wanted(f, hashes)'
    BY <2>1, WantedStays DEF fetchVars
  <2>5. ReportsTraced'
    BY <2>1, <2>2, <2>4 DEF fetchVars, ReportsTraced
  <2>6. RequestsTraced'
    BY <2>1 DEF fetchVars, RequestsTraced
  <2>7. QED
    BY <2>3, <2>5, <2>6
<1>3. CASE GossipHandled
  <2>1. PICK m \in handling :
          /\ handling' = {}
          /\ \/ m[3] # {} /\ RequestHashes(m[1], m[3])
             \/ UNCHANGED <<running, requested, asked, network>>
          /\ UNCHANGED <<known, gossip, gossiped, returned, submitted,
                         responses, reply, blocked>>
    BY <1>3 DEF GossipHandled
  <2>2. /\ handling' \subseteq handling
        /\ reply' \in [Message -> SUBSET SUBSET Hash]
        /\ \A g \in Message : reply'[g] \subseteq reply[g]
    BY <2>1 DEF TypeOK
  <2>3. CASE RequestHashes(m[1], m[3])
    <3>1. /\ m[1] \in Message /\ m[3] \in SUBSET Hash
          /\ Carried[m[1]] \in known /\ m[3] \subseteq ParentsOf[Carried[m[1]]]
      BY DEF TypeOK, ReportsTraced
    <3>2. Wanted(m[1], m[3])
      BY <3>1 DEF Wanted
    <3>3. QED
      BY <2>1, <2>2, <2>3, <3>1, <3>2, RequestHashesKeepsInv
  <2>4. CASE UNCHANGED <<running, requested, asked, network>>
    BY <2>1, <2>2, <2>4, ForgettingKeepsInv DEF TypeOK
  <2>5. QED
    BY <2>1, <2>3, <2>4
<1>4. CASE Serve
  <2>1. PICK r \in network : Answer(r, <<"vertex", r[2]>>)
    BY <1>4 DEF Serve
  <2>2. <<"vertex", r[2]>> \in Kind \X Hash
    BY DEF TypeOK, Kind
  <2>3. QED
    BY <2>1, <2>2, AnswerKeepsInv
<1>5. ASSUME NEW r \in network, AnswerOtherwise(r) PROVE FetchInv'
  <2>1. PICK response \in Kind \X Hash : Answer(r, response)
    <3>1. r[2] \in Hash
      BY DEF TypeOK
    <3>2. CASE \E v \in Hash : Answer(r, <<"vertex", v>>)
      BY <3>2 DEF Kind
    <3>3. CASE \E kind \in {"error", "illegal"} : Answer(r, <<kind, r[2]>>)
      BY <3>1, <3>3 DEF Kind
    <3>4. QED
      BY <1>5, <3>2, <3>3 DEF AnswerOtherwise
  <2>2. QED
    BY <2>1, AnswerKeepsInv
<1>6. ASSUME NEW f \in Message, responses[f] # << >>,
             responses' = [responses EXCEPT ![f] = Tail(@)]
      PROVE  /\ responses' \in [Message -> Seq(Kind \X Hash)]
             /\ Head(responses[f])[2] \in Hash
  <2>1. /\ Tail(responses[f]) \in Seq(Kind \X Hash)
        /\ Head(responses[f]) \in Kind \X Hash
    BY <1>6 DEF TypeOK
  <2>2. QED
    BY <1>6, <2>1 DEF TypeOK
<1>7. ASSUME NEW f \in Message, SubmitFetched(f) PROVE FetchInv'
  <2>1. PICK v, missing :
        /\ v = Head(responses[f])[2] /\ missing = Missing(v)
        /\ responses[f] # << >>
        /\ responses' = [responses EXCEPT ![f] = Tail(@)]
        /\ reply' = [reply EXCEPT ![f] = {missing}]
        /\ known' = known \cup {v}
        /\ submitted' = [submitted EXCEPT ![f] = @ \cup {v}]
        /\ UNCHANGED <<gossipVars, requested, asked, network>>
    BY <1>7 DEF SubmitFetched, Receives
  <2>2. v \in Hash /\ responses' \in [Message -> Seq(Kind \X Hash)]
    BY <1>6, <2>1
  <2>3. missing \subseteq ParentsOf[v] /\ missing \in SUBSET Hash
    BY <2>1, <2>2, FetcherAssumption DEF Missing
  <2>4. /\ v \in known' /\ v \in submitted'[f]
        /\ submitted' \in [Message -> SUBSET Hash]
        /\ \A g \in Message : submitted[g] \subseteq submitted'[g]
    BY <2>1, <2>2 DEF TypeOK
  <2>5. \A g \in Message : \A hashes : Wanted(g, hashes) => Wanted(g, hashes)'
    BY <2>1, <2>4, WantedStays
  <2>6. Wanted(f, missing)'
    BY <2>3, <2>4 DEF Wanted
  <2>7. /\ reply'[f] = {missing}
        /\ \A g \in Message : g # f => reply'[g] = reply[g]
        /\ reply' \in [Message -> SUBSET SUBSET Hash]
    BY <2>1, <2>3 DEF TypeOK
  <2>8. ReportsTraced'
    <3>1. \A g \in Message : \A hashes \in reply'[g] : Wanted(g, hashes)'
      BY <2>5, <2>6, <2>7 DEF ReportsTraced
    <3>2. QED
      BY <2>1, <3>1 DEF gossipVars, ReportsTraced
  <2>9. RequestsTraced'
    BY <2>1, <2>4 DEF RequestsTraced
  <2>10. TypeOK' /\ AskedAsRequested'
    BY <2>1, <2>2, <2>4, <2>7 DEF gossipVars, TypeOK, AskedAsRequested
  <2>11. QED
    BY <2>8, <2>9, <2>10
<1>8. ASSUME NEW f \in Message, FollowUp(f) PROVE FetchInv'
  <2>1. PICK missing \in reply[f] :
          /\ reply' = [reply EXCEPT ![f] = {}]
          /\ RequestHashes(f, missing)
          /\ UNCHANGED <<known, gossipVars, submitted, responses>>
    BY <1>8 DEF FollowUp
  <2>2. missing \in SUBSET Hash /\ Wanted(f, missing)
    BY DEF TypeOK, ReportsTraced
  <2>3. /\ reply' \in [Message -> SUBSET SUBSET Hash]
        /\ \A g \in Message : reply'[g] \subseteq reply[g]
    BY <2>1 DEF TypeOK
  <2>4. QED
    BY <2>1, <2>2, <2>3, RequestHashesKeepsInv DEF gossipVars
<1>9. ASSUME NEW f \in Message, DropError(f) PROVE FetchInv'
  BY <1>6, <1>9, ForgettingKeepsInv
     DEF DropError, Receives, gossipVars, TypeOK
<1>10. ASSUME NEW f \in Message, IllegalResponse(f) PROVE FetchInv'
  <2>1. /\ responses' = [responses EXCEPT ![f] = << >>]
        /\ UNCHANGED <<known, gossipVars, requested, asked, submitted, network,
                       reply>>
    BY <1>10 DEF IllegalResponse
  <2>2. responses' \in [Message -> Seq(Kind \X Hash)]
    BY <2>1 DEF TypeOK
  <2>3. QED
    BY <2>1, <2>2, ForgettingKeepsInv DEF gossipVars, TypeOK
<1>11. ASSUME NEW r \in network, Lose(r) PROVE FetchInv'
  <2>1. /\ network' \subseteq network
        /\ UNCHANGED <<known, gossip, handling, requested, asked, submitted,
                       responses, reply>>
    BY <1>11 DEF Lose, gossipVars
  <2>2. QED
    BY <2>1, ForgettingKeepsInv DEF TypeOK
<1>12. CASE GossipTimesOut
  <2>1. /\ handling' \subseteq handling
        /\ UNCHANGED <<known, gossip, requested, asked, submitted, network,
                       responses, reply>>
    BY <1>12 DEF GossipTimesOut, fetchVars
  <2>2. QED
    BY <2>1, ForgettingKeepsInv DEF TypeOK
<1>13. ASSUME NEW f \in Message, FetchTimesOut(f) PROVE FetchInv'
  <2>1. /\ reply' = [reply EXCEPT ![f] = {}]
        /\ UNCHANGED <<known, gossip, handling, requested, asked, submitted,
                       network, responses>>
    BY <1>13 DEF FetchTimesOut, gossipVars
  <2>2. /\ reply' \in [Message -> SUBSET SUBSET Hash]
        /\ \A g \in Message : reply'[g] \subseteq reply[g]
    BY <2>1 DEF TypeOK
  <2>3. QED
    BY <2>1, <2>2, ForgettingKeepsInv DEF TypeOK
<1>14. CASE UNCHANGED vars
  BY <1>14 DEF vars, gossipVars, fetchVars, TypeOK, AskedAsRequested,
               ReportsTraced, RequestsTraced, Wanted
<1>15. QED
  BY <1>1, <1>2, <1>3, <1>4, <1>5, <1>7, <1>8, <1>9, <1>10, <1>11, <1>12,
     <1>13, <1>14
     DEF Next, Arrive, Handler, Failure, FetchStep

-----------------------------------------------------------------------------
(***************************************************************************)
(* A fetcher asks its peer for a hash once at most, whatever it is told    *)
(* and however often the hash is reported missing.                         *)
(***************************************************************************)
THEOREM NothingAskedTwice == Spec => []AskedOnce
<1>1. FetchInv => AskedOnce
  BY DEF FetchInv, AskedAsRequested, AskedOnce
<1>2. QED
  BY InitFetchInv, NextFetchInv, <1>1, PTL DEF Spec

(***************************************************************************)
(* A fetcher asks only for parents of its own vertex and of vertices it    *)
(* was sent and has submitted, though its peer may send it any vertex and  *)
(* others submit vertices all the time.                                    *)
(***************************************************************************)
THEOREM RequestsAreTraced == Spec => []RequestsTraced
<1>1. FetchInv => RequestsTraced
  BY DEF FetchInv
<1>2. QED
  BY InitFetchInv, NextFetchInv, <1>1, PTL DEF Spec

\* fetchers whose peers have sent nothing from outside their vertex's ancestry
Honest(f) == submitted[f] \subseteq Ancestry[Carried[f]]

HonestFetchesAncestry ==
    \A f \in Message : Honest(f) => requested[f] \subseteq Ancestry[Carried[f]]

(***************************************************************************)
(* A fetcher asks only for ancestors of its vertex, as the handler expects *)
(* of it, unless its peer has sent it a vertex which is none: only with    *)
(* an honest peer is a fetcher's work bounded by that ancestry.            *)
(***************************************************************************)
THEOREM HonestPeerBoundsFetcher == Spec => []HonestFetchesAncestry
<1>1. FetchInv => HonestFetchesAncestry
  <2> SUFFICES ASSUME FetchInv, NEW f \in Message, Honest(f),
                      NEW h \in requested[f]
               PROVE  h \in Ancestry[Carried[f]]
    BY DEF HonestFetchesAncestry
  <2>1. PICK v \in {Carried[f]} \cup submitted[f] : h \in ParentsOf[v]
    BY DEF FetchInv, RequestsTraced
  <2>2. Carried[f] \in Hash
    BY FetcherAssumption
  <2>3. QED
    BY <2>1, <2>2, AncestryClosed DEF Honest
<1>2. QED
  BY InitFetchInv, NextFetchInv, <1>1, PTL DEF Spec
=============================================================================
