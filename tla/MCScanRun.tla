----------------------------- MODULE MCScanRun -----------------------------
(* Constants for model-checking ScanRun.                                     *)
EXTENDS ScanRun, TLC

CONSTANTS w1, w2
WorkerSymmetry == Permutations(Workers)
(* Nothing is claimed of handlers beside a deletion, nor of a deletion with   *)
(* a commit that fails: such states are not explored further. Two runs meet   *)
(* every failure; the third, which can make another one's iteration raise,    *)
(* is explored without.                                                       *)
Explored ==
  /\ deletion = "none" \/ (deletion = "alone" /\ dbErrors = 0)
  /\ issued > 2 => crashes + dbErrors = 0
============================================================================
