------------------------------- MODULE MCDAG --------------------------------
(***************************************************************************)
(* The instances of DAG that TLC checks: small vertex universes, in which  *)
(* every vertex may be submitted at any time, any number of times.         *)
(***************************************************************************)
EXTENDS DAGProperties

Vx(height, parents) ==
    [version |-> VERSION, height |-> height, parents |-> parents]

(***************************************************************************)
(* Two vertices over genesis, ordered one way by a and the other way by b, *)
(* and a child of each; and a vertex that lists v0 beside its descendant.  *)
(***************************************************************************)
ContestContent ==
    [gen |-> Vx(0, << >>),
     v0 |-> Vx(1, <<"gen">>), v1 |-> Vx(1, <<"gen">>),
     a |-> Vx(2, <<"v0", "v1">>), b |-> Vx(2, <<"v1", "v0">>),
     a2 |-> Vx(3, <<"a">>), b2 |-> Vx(3, <<"b">>),
     s |-> Vx(4, <<"a2", "v0">>)]

ContestHash == DOMAIN ContestContent

(***************************************************************************)
(* Legal vertices up to height 4 and one of each kind check_vertex must    *)
(* refuse: opposite orders, an ancestor listed beside its descendant, a    *)
(* wrong height and a child of it, a wrong version, a parent listed twice. *)
(***************************************************************************)
ArrivalContent ==
    [gen |-> Vx(0, << >>),
     v0 |-> Vx(1, <<"gen">>), v1 |-> Vx(1, <<"gen">>),
     a |-> Vx(2, <<"v0", "v1">>), b |-> Vx(2, <<"v1", "v0">>),
     e |-> Vx(3, <<"a">>), f |-> Vx(4, <<"e">>),
     opposed |-> Vx(3, <<"a", "b">>),
     selfref |-> Vx(3, <<"a", "v0">>),
     high |-> Vx(3, <<"v1">>), onHigh |-> Vx(4, <<"high">>),
     alien |-> [Vx(2, <<"v1">>) EXCEPT !.version = 2],
     twice |-> Vx(2, <<"v0", "v0">>)]

ArrivalHash == DOMAIN ArrivalContent

(***************************************************************************)
(* Two contests, over v0 and v1 and over v0 and v2, and two vertices that  *)
(* each join one side of the first to the other side of the second.        *)
(***************************************************************************)
CrossContent ==
    [gen |-> Vx(0, << >>),
     v0 |-> Vx(1, <<"gen">>), v1 |-> Vx(1, <<"gen">>), v2 |-> Vx(1, <<"gen">>),
     a |-> Vx(2, <<"v0", "v1">>), b |-> Vx(2, <<"v1", "v0">>),
     c |-> Vx(2, <<"v0", "v2">>), d |-> Vx(2, <<"v2", "v0">>),
     x |-> Vx(3, <<"a", "d">>), y |-> Vx(3, <<"b", "c">>)]

CrossHash == DOMAIN CrossContent

(***************************************************************************)
(* Two vertices for one ordering of v0 and v1 and one for the other, a     *)
(* child of one side, and a vertex that joins both sides.                  *)
(***************************************************************************)
JoinContent ==
    [gen |-> Vx(0, << >>),
     v0 |-> Vx(1, <<"gen">>), v1 |-> Vx(1, <<"gen">>),
     a |-> Vx(2, <<"v0", "v1">>), a2 |-> Vx(2, <<"v0", "v1">>),
     b |-> Vx(2, <<"v1", "v0">>),
     c |-> Vx(3, <<"a">>), o |-> Vx(3, <<"a", "b">>)]

JoinHash == DOMAIN JoinContent
=============================================================================
