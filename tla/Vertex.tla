------------------------------- MODULE Vertex -------------------------------
(***************************************************************************)
(* Vertices and ordering constraints (src/consensus/vertex.rs).            *)
(*                                                                         *)
(* A vertex is named by its hash; Content gives the fields the hash        *)
(* commits to.  The namespace, the transaction root and the local          *)
(* timestamp play no part in any check and are left out.                   *)
(***************************************************************************)
EXTENDS Integers, Sequences, FiniteSets

CONSTANTS Hash,      \* the vertex hashes of the instance
          Genesis,   \* hash of the genesis vertex
          Content    \* the fields each hash stands for

VERSION == 1

(***************************************************************************)
(* A hash determines its vertex, and the genesis vertex is the one every   *)
(* node builds from its configuration.                                     *)
(***************************************************************************)
ASSUME ContentAssumption ==
    /\ IsFiniteSet(Hash)
    /\ Genesis \in Hash
    /\ \A h \in Hash : /\ Content[h].version \in Nat
                       /\ Content[h].height \in Nat
                       /\ Content[h].parents \in Seq(Hash)
    /\ Content[Genesis].version = VERSION
    /\ Content[Genesis].height = 0
    /\ Content[Genesis].parents = << >>

Height(v) == Content[v].height

\* tabulated, for TLC to evaluate once
ParentsOf ==
    [v \in Hash |-> {Content[v].parents[i] : i \in DOMAIN Content[v].parents}]

Parents(v) == ParentsOf[v]

DuplicateParents(v) == Cardinality(Parents(v)) # Len(Content[v].parents)

\* Vertex::sanity_checks
SanityChecks(v) ==
    /\ Content[v].version = VERSION
    /\ Content[v].parents # << >>
    /\ ~DuplicateParents(v)

-----------------------------------------------------------------------------
(***************************************************************************)
(* A constraint <<a, b>> orders vertex a before vertex b; <<a, a>> is the  *)
(* unity constraint that stands for vertex a itself.                       *)
(***************************************************************************)
Unity(v) == <<v, v>>

IsUnity(c) == c[1] = c[2]

Conflict(c) == <<c[2], c[1]>>

(***************************************************************************)
(* conflict_set_key concatenates the smaller and the larger hash: it       *)
(* identifies the unordered pair.                                          *)
(***************************************************************************)
ConflictSetKey(c) == {c[1], c[2]}

(***************************************************************************)
(* The constraints a list of parents commits to: every pair in listed      *)
(* order, and the unity constraint of every parent.  ConstraintsIter       *)
(* checks that the iterator of the code produces exactly these, by         *)
(* increasing Position.                                                    *)
(***************************************************************************)
ConstraintsOf(ps) ==
    {<<ps[ij[1]], ps[ij[2]]>> :
        ij \in {x \in (DOMAIN ps) \X (DOMAIN ps) : x[1] <= x[2]}}

Position(ps, c) ==
    LET i == CHOOSE k \in DOMAIN ps : ps[k] = c[1]
        j == CHOOSE k \in DOMAIN ps : ps[k] = c[2]
        n == Len(ps)
    IN  IF i # j THEN i * (n + 1) + j ELSE n * (n + 1) + (n - i)

ParentConstraintsOf == [v \in Hash |-> ConstraintsOf(Content[v].parents)]

\* Vertex::parent_constraints
ParentConstraints(v) == ParentConstraintsOf[v]

Constraints ==
    LET listed == {Unity(v) : v \in Hash}
                     \cup UNION {ParentConstraints(v) : v \in Hash}
    IN  listed \cup {Conflict(c) : c \in listed}

Keys == {ConflictSetKey(c) : c \in Constraints}
=============================================================================
