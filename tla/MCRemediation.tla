--------------------------- MODULE MCRemediation ---------------------------
(* Constants for model-checking Remediation.                                 *)
EXTENDS Remediation, TLC

CONSTANTS w1, w2
WorkerSymmetry == Permutations(Workers)

ThreeCommands == <<"cmd", "cmd", "cmd">>
Mixed == <<"cmd", "sql">>
============================================================================
