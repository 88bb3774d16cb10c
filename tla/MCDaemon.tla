------------------------------ MODULE MCDaemon ------------------------------
(***************************************************************************)
(* A daemon with two requests, a gossiped vertex, a new peer and two       *)
(* vertices submitted over RPC, one of them illegal.                       *)
(***************************************************************************)
EXTENDS Daemon

Vx(height, parents, root) ==
    [version |-> VERSION, height |-> height, parents |-> parents,
     namespace_id |-> "ns", root |-> root]

WireContent ==
    [gen |-> Vx(0, << >>, "r0"),
     u |-> Vx(1, <<"gen">>, "r0"), v |-> Vx(1, <<"gen">>, "r1"),
     w |-> Vx(2, <<"u", "v">>, "r0"),
     twice |-> Vx(2, <<"u", "u">>, "r0")]

WireHash == DOMAIN WireContent

Get(kind, hash) == [kind |-> kind, hash |-> hash]

Requests ==
    [r1 |-> {Get("get_vertex", "w")},
     r2 |-> {Get("get_vertex", "gen"), Get("get_preference", "w"),
             Get("get_preference", Short)}]

Submissions == [s1 |-> "u", s2 |-> "twice"]

Gossips ==
    [g |-> {BroadcastToProto(VertexOf("w")), BroadcastToProto(VertexOf("twice"))}]
=============================================================================
