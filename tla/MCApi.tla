------------------------------- MODULE MCApi -------------------------------
(***************************************************************************)
(* The API around the pipeline: sessions, DefectDojo tickets,              *)
(* notifications and benchmark reports.  A handler reads neither the       *)
(* session nor the other parts' tables once it runs, so the four share no  *)
(* variable, and the behaviours in which one of them moves show all that   *)
(* each can do.                                                            *)
(***************************************************************************)
EXTENDS Session, DefectDojo, Notifications, BenchmarkReports

MCRoleOf == [u \in Users |-> IF u = "ada" THEN "manager" ELSE "auditor"]
MCFindingList == <<"f1", "f2">>

SessionsAtRest == now = 0 /\ request = [r \in Requests |-> Idle] /\ account = [u \in Users |-> "missing"]
DojoAtRest == calls = 0 /\ faults = 0
NotifyAtRest == events = 0 /\ marks = 0
BenchAtRest == begun = {} /\ benchRestarts = 0

ApiInit == SessionInit /\ DojoInit /\ NotifyInit /\ BenchInit
ApiNext ==
  \/ /\ DojoAtRest /\ NotifyAtRest /\ BenchAtRest
     /\ SessionNext /\ UNCHANGED <<dojoVars, notifyVars, benchVars>>
  \/ /\ SessionsAtRest /\ NotifyAtRest /\ BenchAtRest
     /\ DojoNext /\ UNCHANGED <<sessionVars, notifyVars, benchVars>>
  \/ /\ SessionsAtRest /\ DojoAtRest /\ BenchAtRest
     /\ NotifyNext /\ UNCHANGED <<sessionVars, dojoVars, benchVars>>
  \/ /\ SessionsAtRest /\ DojoAtRest /\ NotifyAtRest
     /\ BenchNext /\ UNCHANGED <<sessionVars, dojoVars, notifyVars>>

ApiSpec == ApiInit /\ [][ApiNext]_<<sessionVars, dojoVars, notifyVars, benchVars>>
=============================================================================
