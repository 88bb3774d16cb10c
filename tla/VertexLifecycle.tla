-------------------------- MODULE VertexLifecycle ---------------------------
(***************************************************************************)
(* What the DAG promises about the life of a vertex, whatever order the    *)
(* network delivers vertices and poll results in:                          *)
(*                                                                         *)
(*     unknown -> waiting -> pending -> recorded                           *)
(*                                                                         *)
(* A vertex waits only while a parent of it is not inserted, enters the    *)
(* graph after all its parents, has one poll result recorded at most, and  *)
(* is never forgotten.                                                     *)
(***************************************************************************)
CONSTANTS Hash, Genesis,
          ParentsOf    \* the set of parents of each hash

VARIABLE status

Inserted == {v \in Hash : status[v] \in {"pending", "recorded"}}

Init == status = [v \in Hash |-> IF v = Genesis THEN "recorded" ELSE "unknown"]

Wait(v) == /\ status[v] = "unknown"
           /\ ~(ParentsOf[v] \subseteq Inserted)
           /\ status' = [status EXCEPT ![v] = "waiting"]

Admit(v) == /\ status[v] \in {"unknown", "waiting"}
            /\ ParentsOf[v] # {}
            /\ ParentsOf[v] \subseteq Inserted
            /\ status' = [status EXCEPT ![v] = "pending"]

Record(v) == /\ status[v] = "pending"
             /\ status' = [status EXCEPT ![v] = "recorded"]

Next == \E v \in Hash : Wait(v) \/ Admit(v) \/ Record(v)

Spec == Init /\ [][Next]_status
=============================================================================
