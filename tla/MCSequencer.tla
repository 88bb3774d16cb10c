---------------------------- MODULE MCSequencer -----------------------------
(***************************************************************************)
(* A sequencer beside other sources of vertices.  Where its proposal is    *)
(* none of the vertices of the instance, it goes no further.               *)
(***************************************************************************)
EXTENDS Sequencer, MCDAG

SequencerContent ==
    [gen |-> Vx(0, << >>),
     v0 |-> Vx(1, <<"gen">>), v1 |-> Vx(1, <<"gen">>),
     a |-> Vx(2, <<"v0", "v1">>), b |-> Vx(2, <<"v1", "v0">>),
     c |-> Vx(2, <<"v0">>), o |-> Vx(3, <<"a", "b">>)]

SequencerHash == DOMAIN SequencerContent

SequencerBuilt == SequencerHash \ {"v1"}

NoVertices == {}
=============================================================================
