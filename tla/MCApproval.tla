----------------------------- MODULE MCApproval -----------------------------
(* Constants for model-checking Approval.                                    *)
EXTENDS Approval, TLC

CONSTANTS w1, w2
WorkerSymmetry == Permutations(Workers)

Requested ==
  UNION {{req[i].action, reqRow[i].action} : i \in Ids} \cup {loc[t].rec.action : t \in Workers}

(* A third request and a second action are explored where every commit       *)
(* succeeds, failed commits with two requests for one action.                *)
FailuresWithOneAction ==
  dbErrors > 0 => issued <= 2 /\ Requested \subseteq {"none", "remediation"}
============================================================================
