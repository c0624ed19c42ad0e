---------------------------- MODULE Remediation ----------------------------
(***************************************************************************)
(* The remediation workflow: app/remediation/service.py and patches.py over *)
(* the store in store.py, with re-preparing and rescanning the project.     *)
(*                                                                         *)
(* Three things must agree and nothing makes them: the source file in the   *)
(* workspace, the code model PREPARE derived from it, and the remediation   *)
(* record. Handlers run in pool threads without a lock; a step is one read  *)
(* or write of one of the three, or a commit.                               *)
(*                                                                         *)
(* The project is one file, a sequence of one-line statements. A finding's  *)
(* id is, as in the scanner, its kind and its line number, so that it moves *)
(* when a patch inserts "import shlex" above it; a source line moves with   *)
(* its sink. Left out: a statement's exact text beyond what the patch       *)
(* compares, the confirmation flag (an unconfirmed apply changes nothing),  *)
(* who applied a fix and when.                                              *)
(***************************************************************************)
EXTENDS Integers, Sequences, FiniteSets

CONSTANTS
  Program,      \* the kinds of the statements: "cmd", "sql" or "plain"
  HasImport,    \* the file mentions shlex already
  Workers,      \* request threads of the API
  MaxLines,     \* bound on the length of the file
  MaxHandlers,  \* bound on handlers started
  MaxDbErrors,  \* bound on failed commits
  MaxCrashes    \* bound on restarts

ASSUME RemediationConstants ==
  /\ Program \in Seq({"cmd", "sql", "plain"})
  /\ HasImport \in BOOLEAN
  /\ MaxLines \in Nat /\ Len(Program) <= MaxLines
  /\ MaxHandlers \in Nat /\ MaxDbErrors \in Nat /\ MaxCrashes \in Nat

VARIABLES
  file,       \* the source file of the workspace copy
  model,      \* codemodel.json: the file as PREPARE last saw it
  known,      \* the finding store: ids the scans registered
  meant,      \* history: the statements reported under each id
  approved,   \* findings whose latest approval is an approved remediation
  rec, recRow,\* RemediationStore._records and its rows
  pc, loc,    \* where each thread stands, and its locals
  handlers, dbErrors, crashes,
  overlap     \* history: handlers have overlapped

files == <<file, model>>
findings == <<known, meant, approved>>
records == <<rec, recRow>>
counters == <<handlers, dbErrors, crashes, overlap>>
vars == <<files, findings, records, pc, loc, counters>>

----------------------------------------------------------------------------
(* A line: the statement on it, and whether it is the fixed form of it. No  *)
(* two statements read alike. Statement 0 is an inserted import.            *)
Stmts == 1..Len(Program)
Line == [stmt : Stmts \cup {0}, fixed : BOOLEAN]
KindOf(line) == IF line.stmt = 0 THEN "plain" ELSE Program[line.stmt]
Original == [i \in Stmts |-> [stmt |-> i, fixed |-> FALSE]]
Import == [stmt |-> 0, fixed |-> FALSE]

(* Finding ids: the hash of kind and line.                                  *)
Ids == [kind : {"cmd", "sql"}, line : 1..MaxLines]
NoId == [kind |-> "none", line |-> 0]

(* ScanService.scan: an unfixed sink is reported under its current line.    *)
Scan(src) ==
  {f \in Ids : /\ f.line \in DOMAIN src
               /\ KindOf(src[f.line]) = f.kind /\ ~ src[f.line].fixed}

(* Proposal: line and text it replaces, whether it has a fix at all, and    *)
(* whether it adds the import.                                              *)
Proposal == [line : Nat, before : Line, fix : BOOLEAN, import : BOOLEAN]
NoProposal == [line |-> 0, before |-> Import, fix |-> FALSE, import |-> FALSE]

(* The proposal is for whatever stands on the finding's line now. _no_fix,  *)
(* when that is not an unfixed statement of the finding's kind: in a fixed  *)
(* query the argument is a constant, in a fixed command _find_call_at finds *)
(* the call of shlex.                                                       *)
Rewritable(f, src) == KindOf(src[f.line]) = f.kind /\ ~ src[f.line].fixed

(* Mutant: lines are counted from 0 in one place and from 1 in another.      *)
SqlProposalOffByOne(f, src) ==
  LET line == IF f.line = 1 THEN 1 ELSE f.line - 1
  IN [line |-> line, before |-> src[line], fix |-> Rewritable(f, src), import |-> FALSE]

(* _sql_proposal: parameterize the query.                                   *)
SqlProposal(f, src) ==
  [line |-> f.line, before |-> src[f.line], fix |-> Rewritable(f, src), import |-> FALSE]

(* _cmd_proposal: quote or split the command, with "import shlex" if the    *)
(* file has none.                                                           *)
CmdProposal(f, src) ==
  [line |-> f.line, before |-> src[f.line], fix |-> Rewritable(f, src),
   import |-> /\ Rewritable(f, src) /\ ~ HasImport
              /\ \A i \in DOMAIN src : src[i] # Import]

BuildProposal(f, src) ==
  IF f.kind = "sql" THEN SqlProposal(f, src) ELSE CmdProposal(f, src)

(* Mutant: the file is not compared with the proposal.                      *)
ApplicableUnchecked(p, src) == p.fix /\ p.line \in DOMAIN src

(* apply_proposal's check: the line still reads as it did for the proposal. *)
Applicable(p, src) == p.fix /\ p.line \in DOMAIN src /\ src[p.line] = p.before

(* apply_proposal: the patched source, with the import on top.              *)
Patched(p, src) ==
  LET patched == [src EXCEPT ![p.line] = [p.before EXCEPT !.fixed = TRUE]]
  IN IF p.import THEN <<Import>> \o patched ELSE patched

Statuses == {"none", "proposed", "no_fix_available", "applied", "verified",
             "still_present", "error"}
Record == [status : Statuses, proposal : Proposal]
NoRecord == [status |-> "none", proposal |-> NoProposal]

Steps == {"idle", "source", "write", "scan", "recMem", "recRow", "model"}
Locals == [f : Ids \cup {NoId}, rec : Record, src : Seq(Line)]
IdleLocals == [f |-> NoId, rec |-> NoRecord, src |-> <<>>]

TypeOK ==
  /\ file \in Seq(Line) /\ model \in Seq(Line)
  /\ known \subseteq Ids /\ approved \subseteq Ids
  /\ meant \in [Ids -> SUBSET Stmts]
  /\ rec \in [Ids -> Record] /\ recRow \in [Ids -> Record]
  /\ pc \in [Workers -> Steps] /\ loc \in [Workers -> Locals]
  /\ handlers \in Nat /\ dbErrors \in Nat /\ crashes \in Nat
  /\ overlap \in BOOLEAN

(* A prepared project that has not been scanned.                            *)
Init ==
  /\ file = Original /\ model = Original
  /\ known = {} /\ approved = {} /\ meant = [f \in Ids |-> {}]
  /\ rec = [f \in Ids |-> NoRecord] /\ recRow = [f \in Ids |-> NoRecord]
  /\ pc = [t \in Workers |-> "idle"] /\ loc = [t \in Workers |-> IdleLocals]
  /\ handlers = 0 /\ dbErrors = 0 /\ crashes = 0
  /\ overlap = FALSE

----------------------------------------------------------------------------
(* Moving a thread through its handler.                                     *)
Start(t, step, l) ==
  /\ pc[t] = "idle" /\ handlers < MaxHandlers
  /\ handlers' = handlers + 1
  /\ overlap' = (overlap \/ \E u \in Workers : pc[u] # "idle")
  /\ pc' = [pc EXCEPT ![t] = step] /\ loc' = [loc EXCEPT ![t] = l]
  /\ UNCHANGED <<dbErrors, crashes>>

Goto(t, from, to, l) ==
  /\ pc[t] = from
  /\ pc' = [pc EXCEPT ![t] = to] /\ loc' = [loc EXCEPT ![t] = l]
  /\ UNCHANGED counters

(* POST /projects/{id}/scan on the stored code model (see ScanRun for what  *)
(* it records): findings keep their id as long as they keep their line.     *)
ScanProject ==
  /\ known' = known \cup Scan(model)
  /\ meant' = [f \in Ids |-> IF f \in Scan(model) THEN meant[f] \cup {model[f.line].stmt}
                                                ELSE meant[f]]
  /\ <<known', meant'>> # <<known, meant>>
  /\ UNCHANGED <<files, approved, records, pc, loc, counters>>

(* The approval workflow's outcome (see Approval).                          *)
Approve(f) ==
  /\ f \in known \ approved
  /\ approved' = approved \cup {f}
  /\ UNCHANGED <<files, known, meant, records, pc, loc, counters>>

Withdraw(f) ==
  /\ f \in approved
  /\ approved' = approved \ {f}
  /\ UNCHANGED <<files, known, meant, records, pc, loc, counters>>

----------------------------------------------------------------------------
(* POST .../remediation/proposal. An existing record is started over.       *)
Propose(t, f) ==
  /\ f \in known /\ f \in approved /\ f.line \in DOMAIN file
  /\ LET p == BuildProposal(f, file) IN
       Start(t, "recMem", [f |-> f, src |-> <<>>,
              rec |-> [status |-> IF p.fix THEN "proposed" ELSE "no_fix_available",
                       proposal |-> p]])
  /\ UNCHANGED <<files, findings, records>>

(* Mutant: the approval is asked for when the fix is proposed, not again.   *)
ApplyUnapproved(t, f) ==
  /\ f \in known
  /\ rec[f].status \notin {"none", "no_fix_available", "applied"}
  /\ Start(t, "source", [f |-> f, rec |-> rec[f], src |-> <<>>])
  /\ UNCHANGED <<files, findings, records>>

(* POST .../remediation/apply: the gates.                                   *)
Apply(t, f) ==
  /\ f \in known
  /\ rec[f].status \notin {"none", "no_fix_available", "applied"}
  /\ f \in approved
  /\ Start(t, "source", [f |-> f, rec |-> rec[f], src |-> <<>>])
  /\ UNCHANGED <<files, findings, records>>

(* Mutant: the patch is computed from the prepared source.                  *)
ApplyPatchFromModel(t) ==
  LET p == loc[t].rec.proposal IN
  /\ \/ /\ Applicable(p, model)
        /\ Goto(t, "source", "write", [loc[t] EXCEPT !.src = Patched(p, model)])
     \/ /\ ~ Applicable(p, model)
        /\ Goto(t, "source", "recMem", [loc[t] EXCEPT !.rec.status = "error"])
  /\ UNCHANGED <<files, findings, records>>

(* It reads the file and computes the patch, or records that it cannot.     *)
ApplyPatch(t) ==
  LET p == loc[t].rec.proposal IN
  /\ \/ /\ Applicable(p, file)
        /\ Len(Patched(p, file)) <= MaxLines
        /\ Goto(t, "source", "write", [loc[t] EXCEPT !.src = Patched(p, file)])
     \/ /\ ~ Applicable(p, file)
        /\ Goto(t, "source", "recMem", [loc[t] EXCEPT !.rec.status = "error"])
  /\ UNCHANGED <<files, findings, records>>

(* Mutant: the patch is computed and never written.                         *)
ApplyWriteSkipped(t) ==
  /\ Goto(t, "write", "recMem", [loc[t] EXCEPT !.rec.status = "applied", !.src = <<>>])
  /\ UNCHANGED <<files, findings, records>>

(* It writes the file, before the record says so.                           *)
ApplyWrite(t) ==
  /\ Goto(t, "write", "recMem", [loc[t] EXCEPT !.rec.status = "applied", !.src = <<>>])
  /\ file' = loc[t].src
  /\ UNCHANGED <<model, findings, records>>

(* POST .../remediation/verify: the gate, then a scan of the stored model.  *)
Verify(t, f) ==
  /\ f \in known
  /\ rec[f].status \in {"applied", "verified", "still_present"}
  /\ Start(t, "scan", [f |-> f, rec |-> rec[f], src |-> <<>>])
  /\ UNCHANGED <<files, findings, records>>

VerifyScan(t) ==
  /\ Goto(t, "scan", "recMem",
          [loc[t] EXCEPT !.rec.status =
             IF loc[t].f \in Scan(model) THEN "still_present" ELSE "verified"])
  /\ UNCHANGED <<files, findings, records>>

(* RemediationStore.record, the end of every handler above.                 *)
RecMem(t) ==
  /\ Goto(t, "recMem", "recRow", loc[t])
  /\ rec' = [rec EXCEPT ![loc[t].f] = loc[t].rec]
  /\ UNCHANGED <<files, findings, recRow>>

RecRow(t) ==
  /\ Goto(t, "recRow", "idle", IdleLocals)
  /\ recRow' = [recRow EXCEPT ![loc[t].f] = loc[t].rec]
  /\ UNCHANGED <<files, findings, rec>>

(* POST /projects/{id}/reprepare: read the workspace, write the model.      *)
Reprepare(t) ==
  /\ Start(t, "model", [IdleLocals EXCEPT !.src = file])
  /\ UNCHANGED <<files, findings, records>>

WriteModel(t) ==
  /\ Goto(t, "model", "idle", IdleLocals)
  /\ model' = loc[t].src
  /\ UNCHANGED <<file, findings, records>>

----------------------------------------------------------------------------
(* The record's commit raises: memory and file keep what was written.       *)
DbError(t) ==
  /\ pc[t] = "recRow" /\ dbErrors < MaxDbErrors
  /\ dbErrors' = dbErrors + 1
  /\ pc' = [pc EXCEPT ![t] = "idle"] /\ loc' = [loc EXCEPT ![t] = IdleLocals]
  /\ UNCHANGED <<files, findings, records, handlers, crashes, overlap>>

(* The process restarts; files stay, records are read back from the rows.   *)
Restart ==
  /\ crashes < MaxCrashes
  /\ crashes' = crashes + 1
  /\ rec' = recRow
  /\ pc' = [t \in Workers |-> "idle"] /\ loc' = [t \in Workers |-> IdleLocals]
  /\ UNCHANGED <<files, findings, recRow, handlers, dbErrors, overlap>>

Handle(t) ==
  \/ \E f \in Ids : Propose(t, f) \/ Apply(t, f) \/ Verify(t, f)
  \/ Reprepare(t)

Continue(t) ==
  \/ ApplyPatch(t) \/ ApplyWrite(t) \/ VerifyScan(t)
  \/ RecMem(t) \/ RecRow(t) \/ WriteModel(t)

Next ==
  \/ ScanProject
  \/ \E f \in Ids : Approve(f) \/ Withdraw(f)
  \/ \E t \in Workers : Handle(t) \/ Continue(t) \/ DbError(t)
  \/ Restart

Spec == Init /\ [][Next]_vars

----------------------------------------------------------------------------
(* Properties.                                                              *)

Fixed(src, s) == \E i \in DOMAIN src : src[i] = [stmt |-> s, fixed |-> TRUE]

(* The record never claims a fix that is not in the workspace: an applied   *)
(* remediation, verified or not, is in the file, whatever crashes, failed   *)
(* commits, repeated proposals and patches of other findings came between,  *)
(* as long as handlers do not overlap.                                      *)
AppliedFixIsInFile ==
  ~ overlap =>
    \A f \in Ids :
      rec[f].status \in {"applied", "verified", "still_present"}
        => Fixed(file, rec[f].proposal.before.stmt)

(* Patches change sinks and nothing else: whatever applies overlap or are   *)
(* retried after a crash, and however the lines have moved since a proposal *)
(* was generated, every statement of the program stays in the file, in      *)
(* order, and in the code model. (patches.py: a stale proposal is refused.) *)
InOrder(src) ==
  /\ \A s \in Stmts : \E i \in DOMAIN src : src[i].stmt = s
  /\ \A i, j \in DOMAIN src :
       i < j /\ 0 \notin {src[i].stmt, src[j].stmt} => src[i].stmt < src[j].stmt
ProgramPreserved == InOrder(file) /\ InOrder(model)

(* A fix, once in the file, is never taken out again: while handlers do not *)
(* overlap, no apply writes back a file it read before another's patch.     *)
FixesAreKept ==
  [][\A s \in Stmts : Fixed(file, s) /\ ~ overlap' => Fixed(file', s)]_vars

(* The fix a record claims is the fix of its finding: as long as no patch   *)
(* has inserted an import and handlers do not overlap, once a record says   *)
(* applied, verified or still present, every statement ever reported under  *)
(* the finding's id is fixed in the workspace, whatever repeated proposals, *)
(* stale code models, failed commits and crashes came between. (With an     *)
(* import inserted, the id names another line: see VerifiedMeansFixed.)     *)
FixIsOfTheFinding ==
  ~ overlap /\ (\A i \in DOMAIN file : file[i] # Import) =>
    \A f \in Ids :
      rec[f].status \in {"applied", "verified", "still_present"}
        => \A s \in meant[f] : Fixed(file, s)

(* The workflow implements FixLifecycle, overlaps, moved lines and crashes  *)
(* included. An apply is a job from its gates to its write, a re-prepare    *)
(* from its read to its write.                                              *)
FixedIn(src) == {s \in Stmts : Fixed(src, s)}
JobOf(step, l) ==
  CASE step = "source" -> [step |-> "admitted", finding |-> l.f,
                           target |-> l.rec.proposal.before.stmt]
    [] step = "write" -> [step |-> "writing", text |-> FixedIn(l.src)]
    [] step = "model" -> [step |-> "copying", text |-> FixedIn(l.src)]
    [] OTHER -> [step |-> "none"]

Fixes == INSTANCE FixLifecycle WITH
  Statements <- Stmts, Findings <- Ids,
  Suits <- {x \in Ids \X Stmts : Program[x[2]] = x[1].kind},
  fixed <- FixedIn(file), prepared <- FixedIn(model),
  job <- [t \in Workers |-> JobOf(pc[t], loc[t])]

(* An approved fix lands on a statement of its finding's kind that was not  *)
(* fixed, and changes no other in the source it read.                       *)
RemediationRefinesFixes == Fixes!Spec

----------------------------------------------------------------------------
(* What the documentation claims and the code does not keep.                *)

(* service.py on verify: the result is "verified" or "still_present", never *)
(* guessed. A verified finding's statement is no longer vulnerable, as long *)
(* as handlers do not overlap.                                              *)
VerifiedMeansFixed ==
  \A f \in Ids :
    rec[f].status = "verified" /\ ~ overlap =>
      \A s \in meant[f] : Fixed(file, s)
============================================================================
