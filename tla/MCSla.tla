------------------------------- MODULE MCSla -------------------------------
(* Constants for model-checking Sla: P0 is due one tick after its start,     *)
(* P1 two ticks after it, and P4 never is (SLAPolicy.deadlines).             *)
EXTENDS Sla

CONSTANTS w1, w2

MCDeadline == [p \in Priorities |->
                 CASE p = "P0" -> 1 [] p = "P1" -> 2 [] OTHER -> NoDue]
WorkerSymmetry == Permutations(Workers)
============================================================================
