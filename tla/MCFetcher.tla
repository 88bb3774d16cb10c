----------------------------- MODULE MCFetcher ------------------------------
(***************************************************************************)
(* A vertex over genesis, two children of it, and a vertex that joins      *)
(* them, which two publishers gossip.                                      *)
(***************************************************************************)
EXTENDS Fetcher

DiamondParents ==
    [gen |-> {}, p |-> {"gen"}, x |-> {"p"}, y |-> {"p"}, z |-> {"x", "y"}]

DiamondHash == DOMAIN DiamondParents

DiamondCarried == [x1 |-> "x", z1 |-> "z", z2 |-> "z"]

DiamondMessage == DOMAIN DiamondCarried
=============================================================================
