------------------------------ MODULE ScanRun ------------------------------
(***************************************************************************)
(* Scan runs of one project and the bookkeeping of their pipeline stages:   *)
(* app/scan/run_service.py over app/scan/run_store.py, with the scan and    *)
(* delete routes of app/api/routes/projects.py.                             *)
(*                                                                         *)
(* Handlers run in pool threads without a lock.  A step is one access to    *)
(* the stage record, in memory or in SQLite; the reads of a stage record    *)
(* are merged with the write of the execution record just before them.      *)
(* Records only their own handler writes (the run, one execution, one       *)
(* lineage entry, a finding) are written to memory and row in one step: a   *)
(* crash between the two leaves what a crash before both leaves. A commit   *)
(* that raises (ok = FALSE) leaves the memory write without its row. Until  *)
(* PREPARE begins no other handler uses a new run's stage records: their    *)
(* registration, one commit per stage, is one step.                         *)
(*                                                                         *)
(* Timestamps, error texts and file counts are left out; an execution's id  *)
(* is its position in start order.                                          *)
(***************************************************************************)
EXTENDS Integers, Sequences, FiniteSets, Sorting

CONSTANTS
  Findings,      \* ids of the findings a scan of the project can report
  UserStages,    \* stages run by their own endpoints (DEDUPLICATE .. APPROVAL)
  Workers,       \* request threads of the API
  MaxRuns,       \* bound on scan runs
  MaxExecs,      \* bound on stage executions
  MaxRepeats,    \* bound on the entries of a report that repeat a finding's id
  MaxDbErrors,   \* bound on failed commits
  MaxCrashes,    \* bound on restarts
  MayDelete      \* whether DELETE /projects/{id} is called

Runs == 1..MaxRuns
Stages == {"PREPARE", "SCAN"} \cup UserStages

ASSUME ScanRunConstants ==
  /\ IsFiniteSet(Findings)
  /\ "PREPARE" \notin UserStages /\ "SCAN" \notin UserStages
  /\ MaxRuns \in Nat /\ MaxExecs \in Nat /\ MaxRepeats \in Nat
  /\ MaxDbErrors \in Nat /\ MaxCrashes \in Nat /\ MayDelete \in BOOLEAN

VARIABLES
  project,             \* the project's row exists
  known,               \* the finding store
  run, runRow,         \* _runs and its rows
  stage, stageRow,     \* _stages and its rows
  hist, histRow,       \* _executions and its rows, per run
  lineage, lineageRow, \* _lineage and its rows
  pc, loc,             \* where each thread stands, and its locals
  issued, execs,       \* runs and executions created so far
  dbErrors, crashes,
  deletion             \* history: has a deletion begun, and did handlers overlap it

memory == <<run, stage, hist, lineage>>
rows == <<runRow, stageRow, histRow, lineageRow>>
limits == <<issued, execs, dbErrors, crashes, deletion>>
vars == <<project, known, memory, rows, pc, loc, limits>>

----------------------------------------------------------------------------
NoRun == [status |-> "none", total |-> 0, repeats |-> 0]
NoStage == [status |-> "none", count |-> 0]
NoStages == [s \in Stages |-> NoStage]

(* repeats is history, not a field of ScanRun: how many entries of the      *)
(* run's report had the id of an earlier one.                               *)
RunRecord == [status : {"none", "running", "completed", "failed"}, total : Nat,
              repeats : Nat]
StageRecord == [status : {"none", "pending", "running", "completed", "failed"},
                count : Nat]
Execution == [id : Nat, stage : Stages, status : {"running", "completed", "failed"}]

IdleLocals == [r |-> 0, stage |-> "SCAN", id |-> 0, count |-> 0,
               outcome |-> "failed", found |-> {}, repeats |-> 0, todo |-> {},
               size |-> 0, keys |-> {}]

Steps == {"idle", "create", "register", "prepare", "begin", "begMem", "begRow", "body", "lineage",
          "endExec", "endMem", "endRow", "runEnd", "delRuns", "delRows", "delProject"}

TypeOK ==
  /\ project \in BOOLEAN /\ known \subseteq Findings
  /\ {run, runRow} \subseteq [Runs -> RunRecord]
  /\ {stage, stageRow} \subseteq [Runs -> [Stages -> StageRecord]]
  /\ {hist, histRow} \subseteq [Runs -> Seq(Execution)]
  /\ {lineage, lineageRow} \subseteq [Runs -> SUBSET Findings]
  /\ pc \in [Workers -> Steps]
  /\ \A t \in Workers : loc[t].r \in 0..MaxRuns /\ loc[t].keys \subseteq Runs
  /\ issued \in 0..MaxRuns /\ execs \in Nat
  /\ deletion \in {"none", "alone", "overlapped"}

Init ==
  /\ project = TRUE /\ known = {}
  /\ run = [r \in Runs |-> NoRun] /\ runRow = run
  /\ stage = [r \in Runs |-> NoStages] /\ stageRow = stage
  /\ hist = [r \in Runs |-> <<>>] /\ histRow = hist
  /\ lineage = [r \in Runs |-> {}] /\ lineageRow = lineage
  /\ pc = [t \in Workers |-> "idle"] /\ loc = [t \in Workers |-> IdleLocals]
  /\ issued = 0 /\ execs = 0 /\ dbErrors = 0 /\ crashes = 0 /\ deletion = "none"

----------------------------------------------------------------------------
Goto(t, from, to) ==
  /\ pc[t] = from
  /\ pc' = [pc EXCEPT ![t] = to]

Enter(t, from, to, l) == Goto(t, from, to) /\ loc' = [loc EXCEPT ![t] = l]

(* Where a handler goes once its stage execution is over: execute_scan      *)
(* follows PREPARE by SCAN and closes its run, a stage endpoint returns.    *)
AfterStage(l) ==
  CASE l.stage = "PREPARE" -> "begin"
    [] l.stage = "SCAN"    -> "runEnd"
    [] OTHER               -> "idle"

(* The same when it raised: execute_scan closes the run of a failed SCAN,   *)
(* but PREPARE comes before its try, and its run is left as it is.          *)
AfterError(l) == IF l.stage = "SCAN" THEN "runEnd" ELSE "idle"

(* _executions has these keys, in the order of their first executions.      *)
ExecutionKeys == {r \in Runs : hist[r] # <<>>}

KeysAhead(r) ==
  {q \in ExecutionKeys \ {r} : hist[r] = <<>> \/ hist[q][1].id < hist[r][1].id}

(* _update_execution starts to iterate over them: the size the dictionary   *)
(* must keep until the iteration gets to the run r, 0 if r comes first.     *)
IterationSize(r) == IF KeysAhead(r) = {} THEN 0 ELSE Cardinality(ExecutionKeys)

StageWrite(table, t, status) ==
  [table EXCEPT ![loc[t].r][loc[t].stage] = [status |-> status, count |-> loc[t].count]]

(* Whether the commit of a step succeeds; a commit that raises ends what    *)
(* the thread was doing: AfterError for a stage execution.                  *)
Commit(ok) ==
  /\ ok \/ dbErrors < MaxDbErrors
  /\ dbErrors' = IF ok THEN dbErrors ELSE dbErrors + 1

Row(ok, table, new) == IF ok THEN new ELSE table

EnterStage(t, from, ok, to, l) ==
  /\ Commit(ok)
  /\ pc[t] = from
  /\ pc' = [pc EXCEPT ![t] = IF ok THEN to ELSE AfterError(l)]
  /\ loc' = [loc EXCEPT ![t] = IF ok THEN l ELSE [l EXCEPT !.outcome = "failed"]]

(* History: a handler that starts while a deletion is under way overlaps it. *)
Deleting == {"delRuns", "delRows", "delProject"}
StartsBesideDeletion ==
  deletion' = IF \E u \in Workers : pc[u] \in Deleting THEN "overlapped" ELSE deletion

----------------------------------------------------------------------------
(* POST /projects/{id}/scan: the project is looked up, then execute_scan.   *)
ScanProject(t) ==
  /\ project /\ execs + 1 < MaxExecs
  /\ issued + Cardinality({u \in Workers : pc[u] = "create"}) < MaxRuns
  /\ Goto(t, "idle", "create")
  /\ StartsBesideDeletion
  /\ UNCHANGED <<project, known, memory, rows, loc, issued, execs, dbErrors, crashes>>

(* store.create_run. It is outside execute_scan's try.                      *)
CreateRun(t, ok) ==
  LET new == [run EXCEPT ![issued + 1] = [NoRun EXCEPT !.status = "running"]] IN
  /\ Commit(ok)
  /\ Enter(t, "create", IF ok THEN "register" ELSE "idle",
           IF ok THEN [IdleLocals EXCEPT !.r = issued + 1] ELSE IdleLocals)
  /\ issued' = issued + 1
  /\ run' = new
  /\ runRow' = Row(ok, runRow, [runRow EXCEPT ![issued + 1] = new[issued + 1]])
  /\ UNCHANGED <<project, known, stage, stageRow, hist, histRow, lineage, lineageRow,
                 execs, crashes, deletion>>

(* Every stage is registered pending, those in done before a commit, that   *)
(* of the stage last, raises. This is outside the try.                      *)
Pending(records, done) ==
  [s \in Stages |-> IF s \in done THEN [status |-> "pending", count |-> 0] ELSE records[s]]

RegisterStages(t, ok, done, last) ==
  LET r == loc[t].r IN
  /\ Commit(ok)
  /\ last \in done /\ (ok => done = Stages)
  /\ Enter(t, "register", IF ok THEN "prepare" ELSE "idle", loc[t])
  /\ stage' = [stage EXCEPT ![r] = Pending(@, done)]
  /\ stageRow' = [stageRow EXCEPT ![r] = Pending(@, IF ok THEN done ELSE done \ {last})]
  /\ UNCHANGED <<project, known, run, runRow, hist, histRow, lineage, lineageRow, issued,
                 execs, crashes, deletion>>

----------------------------------------------------------------------------
(* begin_stage_execution: the execution record is appended, the previous    *)
(* stage record is read; its count plus one is written two steps later.     *)
BeginExecution(t, from, ok, r, s) ==
  LET e == [id |-> execs + 1, stage |-> s, status |-> "running"] IN
  /\ EnterStage(t, from, ok, "begMem",
                [IdleLocals EXCEPT !.r = r, !.stage = s, !.id = execs + 1,
                                   !.count = stage[r][s].count + 1])
  /\ execs' = execs + 1
  /\ hist' = [hist EXCEPT ![r] = Append(@, e)]
  /\ histRow' = Row(ok, histRow, [histRow EXCEPT ![r] = Append(@, e)])
  /\ UNCHANGED <<project, known, run, stage, lineage, runRow, stageRow, lineageRow,
                 issued, crashes>>

(* The PREPARE stage of execute_scan, which is its bookkeeping and no more. *)
BeginPrepare(t, ok) ==
  BeginExecution(t, "prepare", ok, loc[t].r, "PREPARE") /\ UNCHANGED deletion

(* The SCAN stage of execute_scan. *)
BeginScan(t, ok) ==
  BeginExecution(t, "begin", ok, loc[t].r, "SCAN") /\ UNCHANGED deletion

(* A stage endpoint with a scan_run_id: validate_stage_context, then        *)
(* record_stage_execution.                                                  *)
BeginUserStage(t, ok, r, s, f) ==
  /\ execs < MaxExecs
  /\ run[r].status # "none" /\ f \in lineage[r]
  /\ BeginExecution(t, "idle", ok, r, s)
  /\ StartsBesideDeletion

BegMem(t) ==
  /\ Goto(t, "begMem", "begRow")
  /\ stage' = StageWrite(stage, t, "running")
  /\ UNCHANGED <<project, known, run, hist, lineage, rows, loc, limits>>

(* A stage without a body is completed at once. *)
BegRow(t, ok) ==
  LET l == loc[t] IN
  /\ IF l.stage = "PREPARE"
     THEN EnterStage(t, "begRow", ok, "endExec",
                     [l EXCEPT !.outcome = "completed", !.size = IterationSize(l.r)])
     ELSE EnterStage(t, "begRow", ok, "body", l)
  /\ stageRow' = Row(ok, stageRow, StageWrite(stageRow, t, "running"))
  /\ UNCHANGED <<project, known, memory, runRow, histRow, lineageRow,
                 issued, execs, crashes, deletion>>

(* The stage body: the scan, or an endpoint's own work. It may raise. A     *)
(* scan registers its findings (add_report) before their lineage; when a    *)
(* commit of add_report raises, some are registered all the same. Two       *)
(* entries of a report have the same id when one rule meets two sinks on a  *)
(* line: the report is longer than the set of its ids by repeats.           *)
StageBody(t, ok, outcome, found, repeats) ==
  /\ Commit(ok)
  /\ ~ ok => outcome = "failed" /\ loc[t].stage = "SCAN"
  /\ found # {} => loc[t].stage = "SCAN" /\ (outcome = "completed" \/ ~ ok)
  /\ repeats > 0 => found # {} /\ ok
  /\ known' = known \cup found
  /\ Enter(t, "body",
           IF loc[t].stage = "SCAN" /\ outcome = "completed" THEN "lineage" ELSE "endExec",
           [loc[t] EXCEPT !.outcome = outcome, !.found = found, !.repeats = repeats,
                          !.todo = found, !.size = IterationSize(loc[t].r)])
  /\ UNCHANGED <<project, memory, rows, issued, execs, crashes, deletion>>

(* Mutant: the lineage loop stops one finding short.                        *)
AddLineageShort(t, ok) ==
  /\ ok
  /\ Enter(t, "lineage", "endExec",
           [loc[t] EXCEPT !.todo = {}, !.size = IterationSize(loc[t].r)])
  /\ UNCHANGED <<project, known, memory, rows, limits>>

(* add_finding_lineage for each finding, in any order; a commit that raises *)
(* makes the stage body raise.                                              *)
AddLineage(t, ok) ==
  \/ /\ ok /\ loc[t].todo = {}
     /\ Enter(t, "lineage", "endExec", [loc[t] EXCEPT !.size = IterationSize(loc[t].r)])
     /\ UNCHANGED <<project, known, memory, rows, limits>>
  \/ \E f \in loc[t].todo :
       /\ Commit(ok)
       /\ Enter(t, "lineage", IF ok THEN "lineage" ELSE "endExec",
                IF ok THEN [loc[t] EXCEPT !.todo = @ \ {f}]
                      ELSE [loc[t] EXCEPT !.outcome = "failed",
                                          !.size = IterationSize(loc[t].r)])
       /\ lineage' = [lineage EXCEPT ![loc[t].r] = @ \cup {f}]
       /\ lineageRow' = Row(ok, lineageRow, [lineageRow EXCEPT ![loc[t].r] = @ \cup {f}])
       /\ UNCHANGED <<project, known, run, stage, hist, runRow, stageRow, histRow,
                      issued, execs, crashes, deletion>>

(* Mutant: the execution is looked up by stage instead of by id.            *)
FinishedByStage(events, l) ==
  [k \in DOMAIN events |->
     IF events[k].stage = l.stage THEN [events[k] EXCEPT !.status = l.outcome]
                                  ELSE events[k]]

(* _update_execution on the history of one run. *)
Finished(events, l) ==
  [k \in DOMAIN events |->
     IF events[k].id = l.id THEN [events[k] EXCEPT !.status = l.outcome] ELSE events[k]]

(* _upsert_execution_row: a row that is not there (deleted) is added again. *)
Upserted(events, l) ==
  IF \E k \in DOMAIN events : events[k].id = l.id
  THEN Finished(events, l)
  ELSE Append(events, [id |-> l.id, stage |-> l.stage, status |-> l.outcome])

RecordedInMemory(l) == \E k \in DOMAIN hist[l.r] : hist[l.r][k].id = l.id

(* complete_ / fail_stage_execution: the execution's outcome is recorded    *)
(* and the stage record read, for its count. An execution that is not in    *)
(* memory (deleted) is only logged.                                         *)
EndExecution(t, ok, count) ==
  LET r == loc[t].r IN
  /\ pc[t] = "endExec" /\ (ok \/ RecordedInMemory(loc[t]))
  /\ EnterStage(t, "endExec", ok, "endMem", [loc[t] EXCEPT !.count = count, !.size = 0])
  /\ hist' = [hist EXCEPT ![r] = Finished(@, loc[t])]
  /\ histRow' = Row(ok /\ RecordedInMemory(loc[t]), histRow,
                    [histRow EXCEPT ![r] = Upserted(@, loc[t])])
  /\ UNCHANGED <<project, known, run, stage, lineage, runRow, stageRow, lineageRow,
                 issued, execs, crashes, deletion>>

(* Mutant: finishing an execution counts it once more.                      *)
EndExecRecounts(t, ok) == EndExecution(t, ok, stage[loc[t].r][loc[t].stage].count + 1)

(* Mutant: the stage record is written before the execution's outcome.      *)
EndExecLate(t, ok) ==
  /\ ok
  /\ Enter(t, "endExec", "endMem",
           [loc[t] EXCEPT !.count = stage[loc[t].r][loc[t].stage].count, !.size = 0])
  /\ UNCHANGED <<project, known, memory, rows, limits>>

EndExec(t, ok) == EndExecution(t, ok, stage[loc[t].r][loc[t].stage].count)

(* While it iterates, another thread has added or removed a run's key:      *)
(* RuntimeError. The execution and the stage record stay running.           *)
IterationRaises(t) ==
  /\ loc[t].size \notin {0, Cardinality(ExecutionKeys)}
  /\ Enter(t, "endExec", AfterError(loc[t]), [loc[t] EXCEPT !.outcome = "failed"])
  /\ UNCHANGED <<project, known, memory, rows, limits>>

EndMem(t) ==
  /\ Goto(t, "endMem", "endRow")
  /\ stage' = StageWrite(stage, t, loc[t].outcome)
  /\ UNCHANGED <<project, known, run, hist, lineage, rows, loc, limits>>

EndRow(t, ok) ==
  /\ EnterStage(t, "endRow", ok, AfterStage(loc[t]), loc[t])
  /\ stageRow' = Row(ok, stageRow, StageWrite(stageRow, t, loc[t].outcome))
  /\ UNCHANGED <<project, known, memory, runRow, histRow, lineageRow,
                 issued, execs, crashes, deletion>>

(* Mutants: the handler returns without closing its run; a run whose scan   *)
(* raised is closed with a status of its own.                               *)
RunEndSkipped(t, ok) ==
  /\ ok
  /\ Enter(t, "runEnd", "idle", IdleLocals)
  /\ UNCHANGED <<project, known, memory, rows, limits>>

RunOutcomeErrored(l) ==
  [status |-> IF l.outcome = "failed" THEN "errored" ELSE l.outcome,
   total |-> 0, repeats |-> 0]

(* The run as execute_scan closes it, with the length of the report's list  *)
(* of findings.                                                             *)
RunOutcome(l) ==
  IF l.outcome = "completed"
  THEN [status |-> "completed", total |-> Cardinality(l.found) + l.repeats,
        repeats |-> l.repeats]
  ELSE [NoRun EXCEPT !.status = "failed"]

(* store.update_run at the end of execute_scan.                             *)
RunEnd(t, ok) ==
  LET r == loc[t].r IN
  /\ Commit(ok)
  /\ Enter(t, "runEnd", "idle", IdleLocals)
  /\ run' = [run EXCEPT ![r] = RunOutcome(loc[t])]
  /\ runRow' = Row(ok, runRow, [runRow EXCEPT ![r] = RunOutcome(loc[t])])
  /\ UNCHANGED <<project, known, stage, hist, lineage, stageRow, histRow, lineageRow,
                 issued, execs, crashes, deletion>>

----------------------------------------------------------------------------
(* DELETE /projects/{id}: the findings of the lineage, the runs in memory,  *)
(* their rows in one transaction, then the project's own row.               *)
(* (The per-finding cascade over the other stores is in their own modules.) *)
DeleteFindings(t) ==
  /\ MayDelete /\ project
  /\ Goto(t, "idle", "delRuns")
  /\ known' = known \ UNION {lineage[r] : r \in {q \in Runs : run[q].status # "none"}}
  /\ deletion' = IF (\A u \in Workers : pc[u] = "idle") /\ deletion # "overlapped"
                 THEN "alone" ELSE "overlapped"
  /\ UNCHANGED <<project, memory, rows, loc, issued, execs, dbErrors, crashes>>

Cleared(table, mine, empty) == [r \in Runs |-> IF r \in mine THEN empty ELSE table[r]]

(* delete_project_runs, memory. *)
DeleteRuns(t) ==
  LET mine == {r \in Runs : run[r].status # "none"} IN
  /\ Enter(t, "delRuns", "delRows", [IdleLocals EXCEPT !.keys = mine])
  /\ run' = Cleared(run, mine, NoRun)
  /\ stage' = Cleared(stage, mine, NoStages)
  /\ hist' = Cleared(hist, mine, <<>>)
  /\ lineage' = Cleared(lineage, mine, {})
  /\ UNCHANGED <<project, known, rows, limits>>

(* Mutant: the execution history is left out of the cascade.                *)
DeleteRowsPartial(t, ok) ==
  LET mine == loc[t].keys IN
  /\ Commit(ok) /\ (ok \/ mine # {})
  /\ Enter(t, "delRows", IF ok THEN "delProject" ELSE "idle", IdleLocals)
  /\ runRow' = Row(ok, runRow, Cleared(runRow, mine, NoRun))
  /\ stageRow' = Row(ok, stageRow, Cleared(stageRow, mine, NoStages))
  /\ lineageRow' = Row(ok, lineageRow, Cleared(lineageRow, mine, {}))
  /\ UNCHANGED <<project, known, memory, histRow, issued, execs, crashes, deletion>>

(* delete_project_runs, rows. *)
DeleteRows(t, ok) ==
  LET mine == loc[t].keys IN
  /\ Commit(ok) /\ (ok \/ mine # {})
  /\ Enter(t, "delRows", IF ok THEN "delProject" ELSE "idle", IdleLocals)
  /\ runRow' = Row(ok, runRow, Cleared(runRow, mine, NoRun))
  /\ stageRow' = Row(ok, stageRow, Cleared(stageRow, mine, NoStages))
  /\ histRow' = Row(ok, histRow, Cleared(histRow, mine, <<>>))
  /\ lineageRow' = Row(ok, lineageRow, Cleared(lineageRow, mine, {}))
  /\ UNCHANGED <<project, known, memory, issued, execs, crashes, deletion>>

DeleteProject(t, ok) ==
  /\ Commit(ok)
  /\ Goto(t, "delProject", "idle")
  /\ project' = (project /\ ~ ok)
  /\ UNCHANGED <<known, memory, rows, loc, issued, execs, crashes, deletion>>

----------------------------------------------------------------------------
(* The history of a run as set_factory rehydrates it: the execution rows    *)
(* sorted by started_at.                                                    *)
Rehydrated(events) == SortByKey(events, [k \in DOMAIN events |-> events[k].id])

(* The process restarts; nothing looks for runs or stages that were in      *)
(* flight.                                                                  *)
Restart ==
  /\ crashes < MaxCrashes
  /\ crashes' = crashes + 1
  /\ run' = runRow /\ stage' = stageRow /\ lineage' = lineageRow
  /\ hist' = [r \in Runs |-> Rehydrated(histRow[r])]
  /\ pc' = [t \in Workers |-> "idle"] /\ loc' = [t \in Workers |-> IdleLocals]
  /\ UNCHANGED <<project, known, rows, issued, execs, dbErrors, deletion>>

Handle(t) ==
  \/ ScanProject(t)
  \/ \E ok \in BOOLEAN, r \in Runs, s \in UserStages, f \in Findings :
       BeginUserStage(t, ok, r, s, f)
  \/ DeleteFindings(t)

Continue(t) ==
  \/ BegMem(t) \/ IterationRaises(t) \/ EndMem(t) \/ DeleteRuns(t)
  \/ \E ok \in BOOLEAN :
       \/ CreateRun(t, ok)
       \/ \E done \in SUBSET Stages, last \in Stages : RegisterStages(t, ok, done, last)
       \/ BeginPrepare(t, ok) \/ BeginScan(t, ok) \/ BegRow(t, ok)
       \/ \E outcome \in {"completed", "failed"}, found \in SUBSET Findings,
            repeats \in 0..MaxRepeats :
            StageBody(t, ok, outcome, found, repeats)
       \/ AddLineage(t, ok) \/ EndExec(t, ok) \/ EndRow(t, ok) \/ RunEnd(t, ok)
       \/ DeleteRows(t, ok) \/ DeleteProject(t, ok)

Next == Restart \/ \E t \in Workers : Handle(t) \/ Continue(t)

Spec == Init /\ [][Next]_vars

(* A handler that has started is run to its end: the scan is synchronous.   *)
FairSpec == Spec /\ \A t \in Workers : WF_vars(Continue(t))

----------------------------------------------------------------------------
(* Properties.                                                              *)

ExecutionsOf(h, s) == {k \in DOMAIN h : h[k].stage = s}

(* run_models.py: stages "are never reported completed unless their service *)
(* actually succeeded". In memory and in the rows, whatever overlaps,       *)
(* crashes or fails to commit, a completed stage has a completed execution. *)
NeverFalselyCompleted ==
  deletion = "none" =>
    \A r \in Runs, s \in Stages :
      /\ stage[r][s].status = "completed"
           => \E k \in ExecutionsOf(hist[r], s) : hist[r][k].status = "completed"
      /\ stageRow[r][s].status = "completed"
           => \E k \in ExecutionsOf(histRow[r], s) : histRow[r][k].status = "completed"

(* execution_count never claims more executions than the history holds,     *)
(* restarts included: the execution's row is committed before the stage's.  *)
CountNeverExceedsHistory ==
  deletion = "none" =>
    \A r \in Runs, s \in Stages :
      /\ stage[r][s].count <= Cardinality(ExecutionsOf(hist[r], s))
      /\ stageRow[r][s].count <= Cardinality(ExecutionsOf(histRow[r], s))

RemainsIn(new, e) == \E k \in DOMAIN new :
  /\ new[k].id = e.id /\ new[k].stage = e.stage
  /\ e.status # "running" => new[k] = e

(* Execution history is append-only: an execution once recorded stays, and  *)
(* its outcome never changes again, whatever stages run at the same time.   *)
(* In the rows also across restarts and failed commits.                     *)
OutcomeIsFinal ==
  [][deletion' = "none" => \A r \in Runs :
       /\ \A k \in DOMAIN histRow[r] : RemainsIn(histRow'[r], histRow[r][k])
       /\ crashes' = crashes =>
            \A k \in DOMAIN hist[r] : RemainsIn(hist'[r], hist[r][k])]_vars

(* "the run finishes completed (with real counts from the report)": what    *)
(* the report found has all become lineage, the total is the size of that   *)
(* lineage plus the entries that repeated an id, and every finding of a     *)
(* lineage is in the finding store, after a crash too.                      *)
CountsAreReal ==
  deletion = "none" =>
    \A r \in Runs :
      /\ run[r].status = "completed" => run[r].total = Cardinality(lineage[r]) + run[r].repeats
      /\ lineage[r] \subseteq known

(* delete_project, "every pipeline record it owns": a deletion no other     *)
(* handler overlaps leaves no record of the project's runs, in memory or in *)
(* the rows, even when a restart interrupted it and it was requested again. *)
(* (A scan cut off by a crash leaves findings without lineage behind.)      *)
DeletionLeavesNothing ==
  ~ project /\ deletion = "alone" /\ dbErrors = 0 =>
    /\ \A r \in Runs : /\ run[r] = NoRun /\ runRow[r] = NoRun
                       /\ stage[r] = NoStages /\ stageRow[r] = NoStages
                       /\ hist[r] = <<>> /\ histRow[r] = <<>>
                       /\ lineage[r] = {} /\ lineageRow[r] = {}
    /\ crashes = 0 => known = {}

(* "The scan route executes synchronously: SCAN runs, then the run finishes *)
(* as completed or failed": a run whose PREPARE is recorded does, while the *)
(* process stays up and its commits succeed. (A run is left running by a    *)
(* restart, by a commit that raises, and by IterationRaises in PREPARE,     *)
(* when another handler added or removed a run at that moment.)             *)
RunFinishes ==
  \A r \in Runs :
    run[r].status = "running" /\ stage[r]["PREPARE"].status = "completed"
      ~> run[r].status # "running" \/ crashes + dbErrors > 0
============================================================================
