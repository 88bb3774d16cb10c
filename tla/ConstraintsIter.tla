-------------------------- MODULE ConstraintsIter ---------------------------
(***************************************************************************)
(* The iterator over the constraints a vertex commits to (Constraints in   *)
(* src/consensus/vertex.rs): two indices walk the pairs of parents, then   *)
(* the list of parents is popped for the unity constraints.  And the key   *)
(* under which a constraint is filed (conflict_set_key).                   *)
(*                                                                         *)
(* Hashes are compared by conflict_set_key, so here they are numbers.      *)
(***************************************************************************)
EXTENDS Vertex, SequencesExt

CONSTANT MaxParents     \* bound: the longest list of parents

ASSUME IterAssumption == Hash \subseteq Nat /\ MaxParents \in Nat

VARIABLES input,        \* the parents the iterator was made from
          vertices,     \* what is left of them: the iterator's own list
          idx1, idx2,   \* as in the code, counted from 0
          out,          \* the constraints returned so far
          finished      \* next has returned None

vars == <<input, vertices, idx1, idx2, out, finished>>

ParentLists == UNION {[1..n -> Hash] : n \in 0..MaxParents}

Init == /\ input \in ParentLists
        /\ vertices = input
        /\ idx1 = 0 /\ idx2 = 1
        /\ out = << >>
        /\ finished = FALSE

\* Mutant: the unity constraints start one index later.
PairsDoneLate == idx1 >= Len(vertices)

PairsDone == idx1 + 1 >= Len(vertices)

NextPair ==
    /\ ~finished /\ ~PairsDone
    /\ out' = Append(out, <<vertices[idx1 + 1], vertices[idx2 + 1]>>)
    /\ IF idx2 + 1 = Len(vertices)
       THEN idx1' = idx1 + 1 /\ idx2' = idx1 + 2
       ELSE idx1' = idx1 /\ idx2' = idx2 + 1
    /\ UNCHANGED <<input, vertices, finished>>

\* Mutant: the unity constraints are taken from the front of the list.
NextUnityFirst ==
    /\ ~finished /\ PairsDone /\ vertices # << >>
    /\ out' = Append(out, Unity(Head(vertices)))
    /\ vertices' = Tail(vertices)
    /\ UNCHANGED <<input, idx1, idx2, finished>>

NextUnity ==
    /\ ~finished /\ PairsDone /\ vertices # << >>
    /\ out' = Append(out, Unity(Last(vertices)))
    /\ vertices' = Front(vertices)
    /\ UNCHANGED <<input, idx1, idx2, finished>>

NoMore ==
    /\ ~finished /\ PairsDone /\ vertices = << >>
    /\ finished' = TRUE
    /\ UNCHANGED <<input, vertices, idx1, idx2, out>>

Next == NextPair \/ NextUnity \/ NoMore

Spec == Init /\ [][Next]_vars

-----------------------------------------------------------------------------
\* Mutant: the two hashes in the order of the constraint.
KeyUnsorted(c) == c

\* conflict_set_key: the smaller hash, then the larger
SortedKey(c) == IF c[1] < c[2] THEN <<c[1], c[2]>> ELSE <<c[2], c[1]>>

(***************************************************************************)
(* The indices stay in the list while pairs are produced: no panic on an   *)
(* index out of bounds, however many parents the vertex lists.             *)
(***************************************************************************)
IndicesInBounds ==
    ~finished /\ ~PairsDone =>
        idx1 < idx2 /\ idx2 < Len(vertices) /\ vertices = input

Distinct(ps) == Cardinality(ToSet(ps)) = Len(ps)

(***************************************************************************)
(* A finished iterator has returned ConstraintsOf(input), the definition   *)
(* the DAG is modelled with; for a list without duplicates each constraint *)
(* once, by increasing Position.                                           *)
(***************************************************************************)
IteratesConstraints ==
    finished =>
        /\ ToSet(out) = ConstraintsOf(input)
        /\ Distinct(input) =>
             \A i \in 1..(Len(out) - 1) :
                Position(input, out[i]) < Position(input, out[i + 1])

(***************************************************************************)
(* Two constraints have the same key exactly when they are equal or        *)
(* opposite: the key of the code separates what ConflictSetKey separates.  *)
(***************************************************************************)
KeyIdentifiesConflictSet ==
    \A c \in ToSet(out), d \in ConstraintsOf(input) :
        (SortedKey(c) = SortedKey(d)) <=> (d = c \/ d = Conflict(c))
=============================================================================
