-------------------------------- MODULE Wire --------------------------------
(***************************************************************************)
(* What happens to a message on its way between two nodes: the conversion  *)
(* to protobuf and back (src/wire/mod.rs and the WireFormat of Hash,       *)
(* Vertex, BroadcastData, Request and Response), with the sanity checks    *)
(* both sides ask for.                                                     *)
(*                                                                         *)
(* Encoding a protobuf as bytes loses nothing, so the two are not told     *)
(* apart.  An optional field is a set of at most one value; a hash field   *)
(* may be Short, bytes of another length than HASH_LEN.                    *)
(***************************************************************************)
EXTENDS Vertex

CONSTANTS NamespaceId, TxRoot   \* arrays of HASH_LEN bytes, like Hash

Short == "short"

(***************************************************************************)
(* blake3 tells vertices apart: Content gives every hash fields of its     *)
(* own, the namespace and the root among them.                             *)
(***************************************************************************)
ASSUME WireAssumption ==
    /\ \A h \in Hash : /\ Content[h].namespace_id \in NamespaceId
                       /\ Content[h].root \in TxRoot
    /\ \A g, h \in Hash : Content[g] = Content[h] => g = h
    /\ Short \notin Hash \cup NamespaceId \cup TxRoot

\* struct Vertex with hash h; its timestamp is local, is not sent and plays
\* no part in any check
VertexOf(h) ==
    [version |-> Content[h].version, height |-> Content[h].height,
     parents |-> Content[h].parents,
     namespace_id |-> Content[h].namespace_id, root |-> Content[h].root]

-----------------------------------------------------------------------------
\* Hash::from_protobuf succeeds
HashDecodes(bytes, hashes) == bytes \in hashes

\* Vertex::sanity_checks of a struct
Sane(v) ==
    /\ v.version = VERSION
    /\ v.parents # << >>
    /\ \A i, j \in DOMAIN v.parents : v.parents[i] = v.parents[j] => i = j

\* Vertex::to_protobuf, which a check makes fail unless the vertex is sane
VertexToProto(v) ==
    [version |-> v.version, height |-> v.height, parents |-> v.parents,
     namespace_id |-> {v.namespace_id}, root |-> {v.root}]

\* WireFormat::hash, of the unchecked encoding, is h
HashesTo(v, h) == VertexToProto(v) = VertexToProto(VertexOf(h))

\* Mutant: the parents arrive in another order.
VertexFromProtoReversed(p) ==
    [version |-> p.version, height |-> p.height,
     parents |-> [i \in DOMAIN p.parents |->
                     p.parents[Len(p.parents) + 1 - i]],
     namespace_id |-> CHOOSE n \in p.namespace_id : TRUE,
     root |-> CHOOSE r \in p.root : TRUE]

\* Vertex::from_protobuf
VertexFromProto(p) ==
    [version |-> p.version, height |-> p.height, parents |-> p.parents,
     namespace_id |-> CHOOSE n \in p.namespace_id : TRUE,
     root |-> CHOOSE r \in p.root : TRUE]

\* ... and when it succeeds, with the check
VertexDecodes(p) ==
    /\ \A i \in DOMAIN p.parents : HashDecodes(p.parents[i], Hash)
    /\ \E n \in p.namespace_id : HashDecodes(n, NamespaceId)
    /\ \E r \in p.root : HashDecodes(r, TxRoot)
    /\ Sane(VertexFromProto(p))

-----------------------------------------------------------------------------
\* BroadcastData::from_protobuf succeeds: there is a vertex, and it decodes
BroadcastDecodes(p) == \E vx \in p.vertex : VertexDecodes(vx)

BroadcastFromProto(p) == VertexFromProto(CHOOSE vx \in p.vertex : TRUE)

BroadcastToProto(v) == [vertex |-> {VertexToProto(v)}]

\* Request::from_protobuf succeeds; the request is then the message itself
RequestDecodes(p) ==
    /\ p.kind \in {"get_vertex", "get_preference"}
    /\ HashDecodes(p.hash, Hash)

ErrorCode == {"Unknown", "NotFound"}

\* From<&ErrorCode> for i32
ErrorNumber(code) == IF code = "Unknown" THEN 0 ELSE 1

\* TryFrom<i32> for ErrorCode, for the numbers that stand for one
ErrorFromNumber(n) == CHOOSE code \in ErrorCode : ErrorNumber(code) = n

\* a checked Response::to_protobuf succeeds
ResponseEncodes(r) == r.kind = "vertex" => Sane(r.value)

ResponseToProto(r) ==
    [kind |-> r.kind,
     value |-> CASE r.kind = "vertex" -> VertexToProto(r.value)
                 [] r.kind = "error" -> ErrorNumber(r.value)
                 [] r.kind = "preference" -> r.value]

\* a checked Response::from_protobuf succeeds
ResponseDecodes(p) ==
    \/ p.kind = "vertex" /\ VertexDecodes(p.value)
    \/ p.kind = "error" /\ \E code \in ErrorCode : ErrorNumber(code) = p.value
    \/ p.kind = "preference"

ResponseFromProto(p) ==
    [kind |-> p.kind,
     value |-> CASE p.kind = "vertex" -> VertexFromProto(p.value)
                 [] p.kind = "error" -> ErrorFromNumber(p.value)
                 [] p.kind = "preference" -> p.value]
=============================================================================
