----------------------------- MODULE FixLifecycle -----------------------------
(***************************************************************************)
(* What the remediation workflow promises about a project's source, without *)
(* lines, proposals' texts, records, failures to store them or scans.       *)
(*                                                                         *)
(* A job is admitted while its finding is approved and for one vulnerable   *)
(* statement of the finding's kind.  It looks at the source once, and only  *)
(* if the statement is not fixed yet; what it writes, later, is the source  *)
(* it looked at with that one statement fixed.  The prepared source is      *)
(* replaced only by a copy of the source.  Any job may end early, and none  *)
(* survives a crash.                                                       *)
(***************************************************************************)

CONSTANTS Statements, Findings, Workers,
          Suits      \* the pairs <<finding, statement>> of one kind

VARIABLES
  fixed,     \* the statements fixed in the source
  prepared,  \* the statements fixed in the source as it was last prepared
  approved,  \* the findings whose fix is approved
  job        \* worker -> what it is about to do

absVars == <<fixed, prepared, approved, job>>

NoJob == [step |-> "none"]
Admitted(f, s) == [step |-> "admitted", finding |-> f, target |-> s]
Writing(text) == [step |-> "writing", text |-> text]
Copying(text) == [step |-> "copying", text |-> text]

Init ==
  /\ fixed = {} /\ prepared = {} /\ approved = {}
  /\ job = [t \in Workers |-> NoJob]

Become(t, from, to) ==
  /\ job[t] = from
  /\ job' = [job EXCEPT ![t] = to]

Grant(f) ==
  /\ approved' = approved \cup {f}
  /\ UNCHANGED <<fixed, prepared, job>>

Revoke(f) ==
  /\ approved' = approved \ {f}
  /\ UNCHANGED <<fixed, prepared, job>>

Admit(t, f, s) ==
  /\ f \in approved /\ <<f, s>> \in Suits
  /\ Become(t, NoJob, Admitted(f, s))
  /\ UNCHANGED <<fixed, prepared, approved>>

Read(t, f, s) ==
  /\ s \notin fixed
  /\ Become(t, Admitted(f, s), Writing(fixed \cup {s}))
  /\ UNCHANGED <<fixed, prepared, approved>>

Write(t, text) ==
  /\ Become(t, Writing(text), NoJob)
  /\ fixed' = text
  /\ UNCHANGED <<prepared, approved>>

Copy(t) ==
  /\ Become(t, NoJob, Copying(fixed))
  /\ UNCHANGED <<fixed, prepared, approved>>

Prepare(t, text) ==
  /\ Become(t, Copying(text), NoJob)
  /\ prepared' = text
  /\ UNCHANGED <<fixed, approved>>

Abandon(t) ==
  /\ job' = [job EXCEPT ![t] = NoJob]
  /\ UNCHANGED <<fixed, prepared, approved>>

Crash ==
  /\ job' = [t \in Workers |-> NoJob]
  /\ UNCHANGED <<fixed, prepared, approved>>

Next ==
  \/ \E f \in Findings : Grant(f) \/ Revoke(f)
  \/ \E t \in Workers, f \in Findings, s \in Statements : Admit(t, f, s) \/ Read(t, f, s)
  \/ \E t \in Workers, text \in SUBSET Statements : Write(t, text) \/ Prepare(t, text)
  \/ \E t \in Workers : Copy(t) \/ Abandon(t)
  \/ Crash

Spec == Init /\ [][Next]_absVars
=============================================================================
