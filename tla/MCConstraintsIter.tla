------------------------- MODULE MCConstraintsIter --------------------------
(* Every list of up to MaxParents parents over five hashes, with repeats. *)
EXTENDS ConstraintsIter

IterHash == 0..4

IterContent ==
    [h \in IterHash |-> [version |-> VERSION, height |-> 0, parents |-> << >>]]
=============================================================================
