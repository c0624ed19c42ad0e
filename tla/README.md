# Verification of the Multi-Stage Agentic SAST Engine

TLA+ models of the stateful core of the backend (`backend/app`), checked with TLC on
small instances, with theorems proved by TLAPS for every instance.

The scanner's correctness is mostly a matter of its *bookkeeping*: eight pipeline stages
are triggered by separate requests, every stage keeps its records in a dictionary that
is mirrored into SQLite, and requests run at the same time in a thread pool, beside a
background thread. The models keep all of that control and abstract the data (findings,
actors, reasons, texts, times of day) to small sets.

## 1. Inventory

| component | state | operations | interacts with |
|---|---|---|---|
| SLA tracking (`risk/service.py`, `api/routes/risk.py`) | `_risk_store`, `_sla_store`, `_escalation_store`, their rows, `_sla_lock` | assess, start, check, resolve, remove | evaluator (shared stores, lock), scoring, scan runs (stage context) |
| SLA evaluator (`risk/sla_evaluator.py`) | none of its own; a cycle's snapshot and clock | `evaluate_once` on a timer, in a thread | SLA stores |
| Approval (`approval/`) | requests, append-only events, their rows | request, approve, reject, request changes, resubmit, remove | validation and proof stores (gates), remediation (permission) |
| Scan runs (`scan/run_service.py`, `scan/run_store.py`) | runs, stage records, execution history, lineage, their rows | execute_scan, record_stage_execution, lineage validation, delete_project_runs | every stage endpoint, finding store |
| Finding / validation / proof stores | one record per finding, with a row | add, record, remove | all stages |
| VALIDATE (`validate/`) | - | ask a provider, repair once, record the verdict | external LLM |
| PROVE (`prove/`) | - | plan, run a sandbox, interpret, record | validation store |
| Risk scoring (`risk/scoring.py`) | - | `score`, `_priority_for` | validation, proof |
| Remediation (`remediation/`) | one record per finding, files of the workspace | propose, apply, verify | approvals, lineage, scanner |
| Deduplication (`dedup/`) | group registry, its rows | deduplicate, remove_findings | finding store |
| Repository deletion (`api/routes/projects.py`) | - | cascade over all stores | all of them |
| Sessions and RBAC (`auth/`) | users, sessions (database only) | login, logout, check | every route |
| DefectDojo (`defectdojo/`) | tickets, their rows | create, sync | external service |
| Notifications (`api/routes/notifications.py`) | read marks (database only) | derive, mark one, mark all | events of the other parts |
| PREPARE (`prepare/`) | snapshots on disk | prepare, reprepare | scans |
| Taint engine, rules (`scan/`) | - | scan | PREPARE's code model |
| Benchmark (`benchmark/`) | reports | run, match, compute metrics | external Semgrep |
| dashboards, reports, frontend | none | reads | all stores |

**What is hard here.** FastAPI runs the synchronous handlers in pool threads; only
`check_and_persist_sla` takes a lock. Every other handler reads a record, decides and
writes back later, so handlers can overwrite each other (lost updates, decisions taken on
stale reads). Every write is two writes, a dictionary and a committed row: a commit that
raises, or a process that dies, leaves the first without the second, and a restart
rehydrates the dictionaries from the rows. Records that belong together (a request and its
event, a breached SLA and its escalation, a stage and its executions) are in different
transactions. The full list, each at its line, is under `hazards` in `PROJECT.json`.

**What makes each component correct.** SLA: one escalation per SLA, none lost, overdue SLAs
always escalated, resolution terminal. Approval: decisions terminal, one active request per
finding and action, an audit trail that explains the status. Scan runs: stages never falsely
completed, append-only history, counts that match it, runs that finish, deletion that leaves
nothing. Remediation: never applied without an approval, never applied twice, `verified` only
if a scan of the current files says so. Deduplication: no group lost, groups partition
findings by fingerprint. Scoring: 0..100, monotone in the evidence, explained by its factors.
PROVE: no proof of a finding nobody confirmed. Deletion: no record survives it, also when it had
to be retried. Sessions: no access after logout or expiry. DefectDojo: every duplicate in the
tracker has a cause one can name. Taint engine: no flow missed that a run of the program shows, as
far as loops and `finally` blocks allow (see the limits in section 4).
Benchmark: metrics that no other matching could better.

## 2. Plan

1. `Sla` (component and evaluator), `SlaProofs` - **done**
2. `Approval`, `ScanRun`, `Remediation`, with `ApprovalProofs`, `ScanRunProofs`,
   `RemediationProofs` and the common `Sorting`, `SortingProofs` - **done**
3. `RiskScoring`; `Pipeline`: VALIDATE, PROVE, risk, deduplication and the deletion cascade over
   their stores; `PipelineProofs` about both - **done**
4. `Session`, which refines `SessionLifecycle`, and `SessionProofs` - **done**
5. `DefectDojo`, `Notifications`, with `ApiProofs` - **done**
6. the algorithms: `Taint` against an interpreter, `Benchmark` - **done** (model-checked: both
   need recursive operators, which keeps them out of the prover's reach)
7. `FixLifecycle`, which `Remediation` refines; `BenchmarkReports`, the report store without the
   algorithms, with the proof in `ApiProofs` - **done**
8. left open: removal of remediation records; classes and tuple targets in `Taint`; a property
   about rows of an SLA that are written out of order (`risk/service.py:259`)

## 3. The modules

### Sla

State: `risk`, `sla`, `esc` are the dictionaries of `risk/service.py`; `slaRow`, `escRow` their
SQLite mirrors; `lock` the holder of `_sla_lock`; `pc` and `loc` where each thread stands in
its handler and what it has read; `todo` and `cycleNow` the evaluator's cycle. A record
carries `gen`, its identity (its `started_at`): a later POST /sla with another priority
replaces the record by a new SLA.

A step is one access to a shared dictionary or one commit. `StartRead`/`StartMem`/`StartRow`
are `_start_sla` and `record_sla_record`; `CheckRead`/`CheckMem`/`CheckRow`/`EscMem`/`EscRow`
are `check_and_persist_sla` under the lock, called by `ApiCheck` with the reading of the
clock the caller supplies, or by `EvalCheck` with the cycle's; `ResolveRead`/`ResolveMem`/
`ResolveRow` is the route that resolves without the lock; `DeleteMem` to `DeleteEscRow` is
`remove_finding_state`; `DbError` a commit that raises (the handler ends, `with` releases the
lock); `Restart` the rehydration. Not in the model: `last_checked_at`, `resolved_at`, reasons,
factors and scores.

### Approval

State: `req`, `ev` (`ApprovalStore`), `reqRow`, `evRow`, and the two gates. A handler is a
step for its reads (`RequestApproval`, `Transition`) and one for each of its writes (`SaveMem`,
`SaveRow`, `EvMem`, `EvRow`). `RemoveFinding` to `RemoveRows` is the removal by a deletion.
`overlap` is a history variable: which kinds of handlers of a finding have ever overlapped.
It lets a property say what holds while reviewers work one after the other and what holds
whatever they do. A restart sorts the rows of each trail by their time (`Rehydrated`).

### ScanRun

State: `run`, `stage`, `hist`, `lineage` (`ScanRunStore`) and their rows, the finding store
(`known`), the project's row. `ScanProject` to `RegisterStages`, `BeginPrepare`, `BeginScan`, ... ,
`RunEnd` is `execute_scan`; `BeginUserStage` is a stage endpoint with a run context. All three begins
go through the same bookkeeping (`BeginExecution`, `BegMem`, `BegRow`, `StageBody`, `EndExec`,
`EndMem`, `EndRow`), PREPARE without a body. Every action with a commit has a parameter `ok`: whether
the commit succeeds. `IterationRaises` is the `RuntimeError` of iterating over the dictionary of
executions while another thread resizes it: it can hit a run whose key is not the first
(`IterationSize`). `AfterError` says what an exception ends: a SCAN is closed by the `try` of
`execute_scan`, PREPARE comes before that `try`, and its run is left `running`. A report is a list, in which
two entries have the same id when a rule meets two sinks on one line, while lineage is kept by id:
`StageBody` chooses the ids and how many entries repeat one (`repeats`), and the run's total is
the length of the list (`RunOutcome`). `DeleteFindings` to `DeleteProject` is `delete_project` on these stores. Runs of other
projects share nothing with this project's but the dictionary.

The stage record is where executions meet, so its memory and row writes are separate steps.
A run, an execution or a lineage entry is written by its own handler only; memory and row are
one step. A restart sorts the rows of each history by the start of the execution.

### Sorting

`SortByKey` is Python's stable `sorted(records, key=...)`, by the rank of each record instead of
by recursion. `Approval` and `ScanRun` rehydrate their trails and histories with it.

### Remediation

State: `file` is the source file of the workspace copy, `model` the stored code model, `known` the
finding store, `approved` the findings whose latest approval permits remediation, `rec` and
`recRow` the `RemediationStore` and its rows. `Propose`, `Apply`/`ApplyPatch`/`ApplyWrite` and
`Verify`/`VerifyScan` are the three operations of `RemediationService`, each ending in the two
writes of `RemediationStore.record` (`RecMem`, `RecRow`); `Reprepare`/`WriteModel` is the
re-preparation, `ScanProject` a scan of the stored model; `InOrder` is what all of them must keep. `Approve` and `Withdraw` stand for the
approval workflow as the gate sees it. `meant` is a history variable: the statements that were
reported under an id. `overlap` records that handlers have overlapped.

The file is a sequence of one-line statements, no two of which read alike, and a statement is
either as written or in its fixed form. What is kept of `patches.py`: a proposal is made for
whatever stands on the finding's line at that moment; only an unfixed sink of the finding's kind
gets a fix (`_find_call_at` picks the smallest call on the line, so that a fixed command yields the
call of `shlex` and is not wrapped again); an apply is refused when the line no longer reads as it
did; the first command fix inserts `import shlex` on top, which moves every line below. Left out:
multi-line statements, files that do not parse, several files.

`FixLifecycle` is the promise without lines, proposals, records and scans: a job is admitted while its
finding is approved and for one vulnerable statement of the finding's kind; it looks at the source
once, and what it writes later is what it saw with that one statement fixed; the prepared source is
only ever a copy. `Remediation` implements it (`RemediationRefinesFixes`): `fixed` and `prepared` are
the statements in their fixed form in `file` and `model`, a job is an apply or a re-preparation in
flight. An apply that is refused, fails or is cut off is `Abandon` or `Crash`; everything about records
and verification changes nothing there. The abstract jobs may overwrite each other, as the real ones do.

### RiskScoring and Pipeline

`RiskScoring` is `risk/scoring.py` as a function: severity, verdict and proof under a policy give a
score, a priority and the factors that explain it. Everything in the policy is a constant.

`Pipeline` extends it with the endpoints that produce and store these records. State: `mem` and
`row` are the finding, validation, proof and risk stores with their rows, `groups` and `groupRow`
the deduplication registry, `run`/`runRow` the project's scan run with its lineage, `project` its
row. Handlers run without a lock: `Validate`, `BuildEvidence`, `Complete` ask the model (an outage
ends the request, a malformed answer is repaired once and then recorded as uncertain); `Prove`,
`RequireValidation`, `RereadFinding`, `Gate`, `RunHarness` read the verdict, pass the gate and run a
harness; `AssessRisk`, `ReadVerdict`, `ScoreFinding` score what they happen to read; all three end
in `Record` and `Upsert`. `Deduplicate`, `Group`, `ReplaceGroups`, `WipeRows`, `InsertRow` copy the
registry, replace it and rewrite all its rows; `InsertRaises` is the insert that meets another
handler's row, or the iteration over a registry that changes its size. `DeleteProject`,
`ReadLineage`, `Remove`/`DeleteRow` for each finding and store, `Ungroup`, `ForgetRuns`,
`DeleteRunRows`, `DeleteProjectRow` are the cascade in the code's order. History variables say
whether handlers have overlapped, what has failed, which findings were ever confirmed and which
were deduplicated. A fingerprint is the normal form itself: the hash is taken to be injective.

### Session and SessionLifecycle

`SessionLifecycle` is the promise: a session is opened once, lives and ends once; a request is let
in with a live session and served only if afterwards its owner is active and entitled. It has no
clock, rows or cookies. `Session` is the code: rows with expiry and revocation, `LoginCheck` and
`LoginCreate` as two transactions, `CheckSession` and `CheckUser` as the two queries of
`get_current_user` with `require_permission`, the role table of `rbac.py`. `Deactivate` is external:
`is_active` is read everywhere and cleared by no route. The mapping ends a session when it is
revoked or when the clock passes `expires_at`: the ticks of the clock are abstract `End` steps.

### DefectDojo, Notifications

`DefectDojo`: `tickets` and `ticketRows`, and `remote`, the findings in the tracker. A POST may
create and answer, be refused, time out with or without having acted, or fail in a way the client
does not catch (then nothing is recorded and a sync stops). `asked` and `excused` count what may
cause a duplicate. `Notifications`: ids derived from events, the read marks with the id as their
only key, a marking request as a query and a commit.

`MCApi` runs `Session`, the two and `BenchmarkReports` side by side. They share no variable, so it lets one of them move per
behaviour: the interleavings of parts that cannot see each other add nothing but states.

### Taint and Benchmark

`Taint` is the engine and the four rules over functions given as records: `TaintOf` for
expressions, `ApplyStmt` for statements, `Compound` and `Joined` for the blocks of a statement and their merge,
`Scan` for the service. Beside it an interpreter (external: it is Python, not this program) takes a path through the
same function, statement by statement, and records which sinks attacker-controlled data reaches. Its
paths (`PathsOf`) run loops up to `MaxIter` times with their `else` block, leave a `try` by an exception at any
step, and run `finally` blocks on every way out. What runs again after a loop's body, or in `finally` after a
handler, is marked (`Mark`); `again` is set when such a statement does something that could
carry data (`Matters`), and `NoMissedFlow` claims nothing from there on.
`Benchmark` scores the findings of `Scan` on the two transcribed fixtures (`vulnerable_python_app` with
ground truth, `concat_sql_app` without), and any output of Semgrep, as `matcher.py` and `metrics.py` do.
An answer of Semgrep whose results have an unexpected shape (`start` no object, `results` no list) makes
`parse_semgrep_json` raise (`benchmark/semgrep_runner.py:61`, `:66`), although its docstring says
"Never raises on malformed input"; such answers are not in the model. `BenchmarkReports`, which it extends, is the store of the reports:
`RunBenchmark` puts a report into memory, `StoreReport` commits its row or `StoreFails`, `AnswerReport`
gives it to the client, `BenchRestart` reads the rows; requests run side by side.

## 4. Runs

| run | question | bounds |
|---|---|---|
| `sla` | Is each SLA escalated at most once, is no escalation lost, do memory and rows agree on the trail? | 1 finding, 2 request threads and the evaluator, P0 and P4, 1 tick, SLAs started while fewer than 2 exist |
| `sla_live` | Is every overdue SLA escalated without a request? Does none stay active for ever, restarts and failed commits included? | 1 request thread and the evaluator, 1 failed commit, 1 restart, all operations |
| `sla_resolved` | Is "resolved" terminal? **No** | 2 threads and the evaluator |
| `approval` | What do the decisions and the audit trail guarantee, with overlap and without? When is a decided finding + action requested again at all? | 2 reviewers, 4 handlers, 1 restart; 2 actions and 3 requests, or 1 action, 2 requests and 1 failed commit |
| `approval_rerequest` | Is a decided finding + action closed? **No**, even sequentially | 1 worker, 2 actions, 3 requests |
| `scan_run` | Are stages never falsely completed, outcomes final, counts honest? Does a deletion leave nothing? | 2 threads, 2 runs with 1 failed commit and 1 restart or 3 runs without, 4 executions, 1 finding, reports that repeat its id once, deletions |
| `scan_live` | Does every run whose PREPARE is recorded finish? | 2 threads, 3 runs, 4 executions, no deletion, failed commit or restart |
| `remediation` | Is an applied fix in the file, are fixes kept, is the program never damaged, is each fix that of its finding, and does every apply fix at most the statement it was approved for? | a command and a query, 2 threads, 5 handlers, file of at most 4 lines, 1 failed commit, 1 restart |
| `remediation_verified` | Does "verified" mean that the reported statement is fixed? **No**, even sequentially | 3 commands, 1 thread, 6 handlers |
| `analysis` | Does the engine miss a flow, are its paths provenance, are the metrics right? | about 10,000 functions of three statements with branches, loops of up to 2 rounds and their `else`, handlers, `finally` and nested functions, those of two fixtures; every Semgrep output of up to 3 results out of 8; 1 report |
| `api` | Do sessions implement their life cycle, do tickets tell the truth, does an answered marking hold, can an answered benchmark report be fetched? | 2 users, sessions and requests, 2 ticks; 2 findings, 2 threads, 3 calls, 2 faults; 2 readers, 2 events, 3 markings; 3 benchmark requests, 2 reports, 1 failed row, 2 restarts |
| `pipeline` | Which promises of the stages, the registry and the deletion hold, with overlap, failures and restarts? | 3 findings (two the same flaw, one of the project), 2 threads, 4 requests, 1 failed commit, 1 restart |

Why these bounds: records of different findings, requests and runs do not touch each other
except through the lock (covered by two threads and the evaluator) and through the dictionary
of executions (covered by three runs), so one finding is enough. Every race here is between two
handlers on one record; a third actor is present in `Sla` (the evaluator), and the theorem
covers any number. One tick makes P0 overdue, P4 has no deadline, and two SLAs let a new one
replace an old one that is still being checked. Four executions are a scan (PREPARE, SCAN)
with two stage executions, or two whole scans. It takes three runs to make an iteration raise in PREPARE:
the key of one run lies before that of the run being closed, and a third run adds its own meanwhile; the same
happens in SCAN. (Executions are bounded where a handler starts: a scan that has started runs to its end.) The
constraint `Explored` stops where a deletion has overlapped something or met a failed commit (nothing is claimed
there), and explores the third run without faults; the theorems need no constraint. Five remediation handlers are two proposals and
two applies with a re-preparation or a retry; a command and a query give a patch that moves lines
and one that does not, and four lines leave room for two imports. Four pipeline requests are
validate, prove, assess and delete, or a deletion that fails, is retried and meets a
deduplication. Sessions of lifetime 1 under a clock of 2 expire while requests are in flight. Two
DefectDojo faults are a lost answer and a crash. Four approval handlers are two requests for different
actions, a decision and the request that repeats it; a failed commit is explored with one action and two
requests only, to keep the run short (`FailuresWithOneAction`, a state constraint; the theorems need none); three benchmark requests and two restarts let a
restart separate any two of them. The functions of `analysis` are a source, one simple
or compound statement and a sink, so that every compound statement lies between a source and a
sink. Two rounds of a loop (`MaxIter`) with two statements in its body are enough for a flow that needs
the second round, and the `finally` blocks and loop `else` blocks for those the engine misses there: without its
condition `NoMissedFlow` fails for each of the three. The state space of every run is explored
completely. Workers are symmetric; symmetry is not used in runs with liveness.
`CHECK_DEADLOCK FALSE`: a service without requests may rest.

**Fairness.** Threads in a handler are scheduled (`WF` on `Continue`): a handler waits for
nothing but the lock. The evaluator's timer fires (`WF` on `EvalBegin`, `_run` loops while the
application lives) and time passes. The evaluator enters the lock against requests that hold
it for a bounded time, so its turn comes if it is free again and again (`SF` on `EvalCheck`).
Users promise nothing: no request ever has to be made. In `ScanRun` the handlers that have
started are run to their end.

**Findings** (`findings` in `PROJECT.json`): a check that overlaps a resolve reactivates a
resolved SLA; a decided finding + action can be requested again once another action was
requested; a remediation is verified although its statement is still vulnerable, because an
inserted import moved the lines its id and its proposal refer to. The companion properties show how much
of each promise does hold: `ReRequestNeedsAnotherAction` (a request for another action in between is the
only way) and `FixIsOfTheFinding` (until an import is inserted, the fix of a finding is that of its statements).

Limits the properties state explicitly: an escalation is lost when a crash or a failed commit
falls between record and event (`OverdueEscalates`); the audit trail is complete without
crashes and failed commits; a run that was in flight when the process died, or one of whose commits
failed, may stay `running`, and so does a run whose PREPARE meets the `RuntimeError` of an iteration
(`scan/run_store.py:216`, reached from `scan/run_service.py:202`, outside the `try`; `RunFinishes` asks for a recorded
PREPARE); `total_findings` counts entries of the report, the lineage ids, so the total is the larger one when
entries repeat an id (`scan/run_service.py:226`, `scan/taint_engine.py:441`; the `repeats` of
`CountsAreReal`); a deletion that overlaps other handlers
leaves what they write afterwards (`DeletionLeavesNothing`); of two overlapping applies to one
file the later write takes the other's fix out (`AppliedFixIsInFile`, `FixesAreKept`).

More limits the models make visible; where a property is concerned, it excludes them by a condition of its own:

* Overlapping decisions: of two reviewers who both read a pending request, the later write replaces
  a terminal decision (`approval/service.py:268`; `DecisionIsFinalWhenSerial`). Overlapping
  executions of a stage are counted once (`scan/run_store.py:161`; `CountNeverExceedsHistory`).
* A group persist that fails or dies half-way loses groups until they are deduplicated again; a
  retried deletion then finds nothing to change and leaves deleted members in the group rows
  (`dedup/service.py:210`, although `:167` says they "must not stay listed"; `RegistryIsDurable`).
* A retried deletion whose run rows could not be deleted leaves those rows, and the next start
  rehydrates runs of a project that is gone (`scan/run_store.py:309`).
* A PROVE or VALIDATE in flight records its result although the finding was deleted meanwhile, and
  a proof stays when a later validation refutes the finding (`api/routes/proofs.py:97`).
* A deduplication that overlaps another loses its groups (`dedup/service.py:78`).
* An assessment may combine a verdict and a proof read at different moments; it is still explained
  by its own factors (`StoredScoresExplained`). An uncertain finding with a verified proof scores
  above its base (`risk/scoring.py:10` says "base only").
* Proofs depend on the type of a finding, not on its code, and the status `blocked` is never
  produced.
* Read marks are kept under the notification id alone (`db/models.py:167`), so the second reader of a
  notification gets an error, although `api/routes/notifications.py:5` says that the state "is
  tracked per-user"; `OkMeansRead` is what remains.
* An error other than those the DefectDojo client names is not recorded as an error ticket
  (`defectdojo/service.py:182`), and tickets survive the deletion of their project.
* The taint engine passes a loop body once, starts the loop's `else` block from the taint before the loop, and
  analyses `finally` before the handlers (`scan/taint_engine.py:159`, `:185`): a flow that needs a second
  round, that runs from a loop's body to its `else` block, or from a handler to the `finally` block, is missed, although
  `scan/README.md:121` calls the treatment of "branches and loops" a "sound over-approximation".
  `NoMissedFlow` claims a path up to the first such step (`~again`); for branches the documentation is right.
* The matcher is greedy: with findings that are not in line order it may credit fewer cases than
  possible (`MetricsAreRight`). A Semgrep run that timed out is scored as a tool that found nothing.

## 5. Proofs

`SlaProofs` proves, for any `Findings`, `Workers`, `Priorities`, `Deadline`, `Ops` and bounds that
satisfy `SlaConstants`:

* `SlaTypeCorrect`: `Spec => []TypeOK`;
* `EscalatedAtMostOnce`: `Spec => []AtMostOneEscalation`.

`AtMostOneEscalation` is not inductive: that an SLA has no event yet must follow from its
record, from what every thread has in hand, and from who holds the lock. `EscalationInv` adds

* `LockInv`: exactly the thread in the steps of `check_and_persist_sla` holds the lock;
* `GenInv`: identities are issued in order; no record, event or local copy has one not yet issued;
* `OpenInv`: an SLA whose stored record may still breach has no event;
* `ThreadInv`: what a thread in the middle of a handler knows. A check that writes back a record
  which may still breach, or that carries a new event, works on an SLA without an event; once it
  has stored the breached record, the stored record of that SLA can no longer breach; a resolve
  writes a resolved record, a start one of level 0.

The proof has one step per action and, in it, one per conjunct the action can disturb. It is
about `Spec`, without restarts: with them the statement is false, because a stale row write
after a check, followed by a crash, brings back an active record of an escalated SLA.

`SlaProofs` proves, for the same constants but a system that deletes no finding
(`"delete" \notin Ops`):

* `EscalationNeverLost`: `Spec => []NoLostEscalation`;
* `TrailIsDurable`: `Spec => []EscalationTrailDurable`.

Both properties speak of states in which no commit has failed; a deletion that overlaps a check
can leave a breached record without its event, so the run `sla` deletes nothing either.
`RecordingInv` adds to `EscalationInv`, while no commit has failed,

* `AccountInv`: a raised level, in a stored record or in the copy a resolve is about to write, is
  accounted for by an event or by one on its way (its thread holds the lock); a check that
  carries no event works on a record whose raised level has one;
* `TrailInv`: the trail in memory and the rows differ by the one event a thread is about to
  insert, if any.

`PipelineProofs` proves, for every policy that satisfies `PolicyAssumption` (any weights and
thresholds, bonuses that are not negative):

* `ScoreInRange`: scores lie in 0..100 and priorities in P0..P4;
* `ScoresAreExplained`: the factors add up to the score (`Explained`);
* `EvidenceNeverBackfires`: better evidence never makes a finding less urgent (`EvidenceOrdered`).

They rest on `ClampMonotone` and on `PriorityMonotone`: although the thresholds need not be ordered,
the first threshold a score reaches is never later for a higher score.

It then proves, for any findings, batches, threads and bounds that satisfy `PipelineConstants`, restarts
and failed commits included:

* `ProofsAreConfirmed`, `StoredAssessmentsAreExplained`, `ScoringIsOrdered` and `HarnessTablesAgree`:
  `ProofNeedsConfirmation`, `StoredScoresExplained`, `EvidenceMovesOneWay` and `HarnessesDecide`
  hold in every interleaving. The invariant is `EvidenceInv`: the stores and their rows hold what
  fits each store (`RecordsInv`), a verdict or proof that calls for a confirmation has had one
  (`ConfirmedInv`), and a thread knows the same of what it has read and is about to write (`Knows`).
* `DeletionIsComplete`: `DeletionLeavesNoRecord`. `SerialInv` says, while no handlers have
  overlapped, how far a deletion has come (`Removing`), and that once the run, its rows or the
  project are gone every record is gone: this is what makes the retry of a failed deletion work.
* `RegistrySurvivesRestart`: `RegistryIsDurable`. `RegistryInv` says which rows a handler that
  rewrites the registry has inserted so far (`Grouping`).
* `GroupsBySignature`: every deduplicated finding that exists is in a group with exactly the
  findings of its signature; `GroupsComplete`: hence `GroupsAreComplete`, if equal signatures are
  exactly the alike flaws (the hypothesis is about the constant `Shape`; normal forms are sequences
  built by recursion, about which nothing can be proved, and the run checks the property for
  snippets with attributes, renamings and different methods). `CompleteInv` says that the groups
  cover the deduplicated findings that have a row, and that memory and rows know the same
  findings except the one being deleted. It holds while no handlers overlapped and nothing failed;
  across a restart it needs `RegistryInv`.

`SessionProofs` proves, for any users, sessions, requests, roles and lifetime:

* `SessionTypeCorrect`: `SessionSpec => []SessionTypeOK`;
* `SessionImplementsLifecycle`: `SessionSpec => SessionRefinesLifecycle`.

The refinement needs `RequestsAreBound`: a request past the session check still carries a session
that exists, and that session's user. Without it a `CheckUser` could serve a user the abstract
`Serve` knows nothing of. Each action is matched with the abstract step it is: `LoginCreate` opens,
`Tick` and `Logout` end, `CheckSession` admits, `CheckUser` serves or dismisses, `Finish` dismisses;
`LoginCheck` changes nothing abstract.

`SortingProofs` shows that the rank of a record is its place (`RanksDiffer`, `RanksAreThePlaces`), so
that a sorted sequence holds records of the original only (`SortKeepsElements`) and has a place of its
own for each of them (`SortPlacesAll`). That is what the types of rehydrated trails and histories rest
on, and that the executions of a stage are no fewer after a restart.

`ApprovalProofs` proves, for any findings, actions, reviewers, numbers of requests, failed commits and
restarts, with or without re-requests (`ApprovalConstants`):

* `ApprovalTypes`: `Spec => []TypeOK`;
* `DecisionIsFinal`: `DecisionIsFinalWhenSerial`, an action property;
* `OneActiveRequest`: `OneActiveRequestWhenSerial`;
* `RepeatsAreExplained`: `ReRequestNeedsAnotherAction`;
* `AuditTrailExplains`: `AuditExplainsStatus`;
* `TrailReplays`: `TrailReplaysRequest`.

`BasicInv` says what a decision in progress is about to make of its request and that ids are issued in
order; `OwnerInv` that an id belongs to one finding, in memory, in the rows and in every thread;
`OverlapInv` that the history variable has seen every two handlers that are at work on a finding.
On these rest `FinalInv` (while a finding's handlers are serial, memory does not contradict a terminal row,
and what a handler is saving was not terminal), `OneActiveInv` (memory and rows differ only where a
save or a deletion is half done, and no other request of the action is active while one is being
saved), `SpacedInv` (requests of one action have another action's between them, in memory, in the rows and
in memory as it will be once the record being saved is stored: the latter is what `RepeatedPastAnother`
gives for a new request, from the latest request being undecided), `AuditInv` (a status has its event or a thread about to append it) and `TrailInv`
(a trail is a chain of transitions that ends in the status, or is one event short of it).

`ScanRunProofs` proves, for any findings, stages, threads and numbers of runs, executions, failed commits
and restarts (`ScanRunConstants`):

* `ScanRunTypes`: `Spec => []TypeOK`;
* `CompletedIsTrue` and `CountsAreBounded`: `NeverFalselyCompleted`, `CountNeverExceedsHistory`;
* `OutcomesAreFinal`: `OutcomeIsFinal`, an action property;
* `TotalsAreReal`: `CountsAreReal`;
* `DeletionIsClean`: `DeletionLeavesNothing`.

`TypeInv` adds to the types that every thread works on an issued run and that there is room for the runs
about to be created. `HistInv` (no deletion yet) says that executions have numbers already
issued and that a thread in a stage has a running execution of its own in the history and in the rows
(`OwnExecution`), and that a stage record in memory or in a row is backed by both histories
(`Backed`): a thread may write an old copy of a stage, but never more than the histories account for.
`LineageInv` says what a scan has put into the store before it writes lineage and total. `CascadeInv`
follows a deletion that nothing overlaps: every record of a run hangs on the run, then on the keys the
deletion has read (`RecordsBody`), and every finding is in a lineage or about to be (`FoundBody`).

`RemediationProofs` proves, for any program, number of threads, handlers, failed commits and restarts
(`RemediationConstants`):

* `RemediationTypes`: `Spec => []TypeOK`;
* `ProgramSurvives`: `ProgramPreserved`;
* `AppliedIsInFile`: `AppliedFixIsInFile`;
* `FixesSurvive`: `FixesAreKept`, an action property;
* `RemediationImplementsFixes`: `Spec => RemediationRefinesFixes`;
* `FixFixesItsFinding`: `FixIsOfTheFinding`.

`FileInv` says that every source, on disk, in the code model or in a thread, is the program in order, below
the inserted import if there is one, and that a proposal which adds the import was made
for a file without one (`Sound`). From it follows `PatchIsSound`, the lemma that an accepted patch
fixes its statement, keeps the program in order and keeps every fix: the comparison of the line with
what the proposal has seen is what it needs. `SerialInv` says, while no handlers overlap, that records tell
the truth about
the file (`Told`) and that the source about to be written has every fix of the file.

The refinement needs `FitInv`: a proposal with a fix, in a record, in a row or in the hands of a thread, is for an
unfixed statement of its finding's kind. Without it an apply could be admitted for a statement
the abstract `Admit` forbids; `PatchFixesOne` then says that the patch adds exactly that statement to those
fixed in the source the thread read. `FixFixesItsFinding` needs `UnmovedInv`: while the file has no inserted
import and handlers do not overlap, a line number is a statement in every source, so whatever was reported
under an id, and whatever the proposal of that id would patch, is one and the same statement.

`ApiProofs` proves, for any findings, users, threads, calls, faults and events (`DojoAssumption`: the
sync lists tracked findings; `NotificationAssumption`):

* `DuplicatesExplained`: `DojoSpec => []DuplicatesHaveACause`;
* `TicketsAreTrue`: `DojoSpec => []TicketsTellTheTruth`;
* `OkIsRead`: `NotifySpec => []OkMeansRead`;
* `BenchmarkReportsSurvive`: `BenchSpec => []AnsweredReportsSurvive`.

`DojoInv` keeps an account per finding while requests do not overlap: its remote findings, with the one
a thread is about to create, are at most those asked for by hand, those whose answer or record was lost,
and the one its ticket names or a thread is about to record. It has to hold for the tickets in memory and for
those in the rows, since a restart swaps one for the other. `NotifyInv`: what a marking request wants to
be read when it commits is already read for its user or among the marks it is about to add, and what
was answered ok is read. `RowsFirst`: what was answered, or is about to be, has its row, and memory has every row,
so a restart gives up nothing a client knows of.

The types of `Session` and `Remediation` are left to the proofs (`SessionTypeCorrect`, `RemediationTypes`): no run
checks them.

Only model-checked:

* the liveness properties `OverdueEscalates`, `OverdueNeverStaysActive` and `RunFinishes` (fairness and
  ENABLED are out of the prover's reach);
* `NoMissedFlow`, `PathIsProvenance`, `MetricsAreRight` and `EngineAgreesWithGroundTruth`: `Taint`, which `Benchmark` extends, defines the engine by recursive operators,
  and what they compute for every program is an induction over data;
* that signatures tell apart exactly the alike flaws (the hypothesis of `GroupsComplete`);
* the three statements the code violates, which are false.

The theorems of `SlaProofs` are about systems without restarts, and `EscalationNeverLost` and
`TrailIsDurable` about systems that delete no finding; without the restrictions the safety
properties are false.

## 6. Not modelled

See `components` in `PROJECT.json`. Left out for good: layout and texts (reports, PDF, prompts,
payloads), read-only dashboards (aggregations over the stores, without state of their own), the
frontend, cloning and parsing, the code property graph (its builder is imported by `prepare/service.py` and never called), the
network and the file system below the calls the code makes.
