------------------------------ MODULE Pipeline ------------------------------
(***************************************************************************)
(* The records of the findings pipeline: the VALIDATE, PROVE, RISK and       *)
(* DEDUPLICATE endpoints and the deletion of a project, over the stores that *)
(* keep each record in memory and mirror it in a row.                        *)
(*                                                                           *)
(* Handlers run in pool threads without a lock.  A step is one access to a   *)
(* store's memory, one commit, or one call to the model or the sandbox.  A   *)
(* commit that raises (ok = FALSE) ends the handler with a 500 and leaves    *)
(* the memory as it is.  A request that is refused before it has changed     *)
(* anything (404, 409, 503) is a guard or a return to "idle".                *)
(*                                                                           *)
(* The stage bookkeeping around the endpoints and the scan that reports the  *)
(* findings are ScanRun's; the approval, SLA and remediation records a       *)
(* deletion also removes are Approval's, Sla's and Remediation's.  A finding *)
(* is a number, so that the smallest id is the smallest number.              *)
(***************************************************************************)
EXTENDS RiskScoring, Sequences, FiniteSets, FiniteSetsExt

CONSTANTS
  Findings,          \* finding ids
  Project,           \* the findings of the project that may be deleted
  Staged,            \* the findings whose stage endpoints are called
  Batches,           \* the sets of findings submitted to deduplication
  Shape,             \* finding -> [type, severity, source_kind, sink_kind, source, sink, steps]
  Workers,           \* request threads
  MaxRequests,       \* bound on requests
  MaxDbErrors,       \* bound on commits that raise
  MaxCrashes         \* bound on restarts

ASSUME PipelineConstants ==
  /\ Findings \subseteq Nat /\ IsFiniteSet(Findings)
  /\ Project \subseteq Findings /\ Staged \subseteq Findings
  /\ Batches \subseteq SUBSET Findings
  /\ DOMAIN Shape = Findings
  /\ \A f \in Findings : Shape[f].severity \in Severities
  /\ MaxRequests \in Nat /\ MaxDbErrors \in Nat /\ MaxCrashes \in Nat

VARIABLES
  project,           \* the project's row exists
  run, runRow,       \* the project's scan run with its lineage, memory and rows
  mem, row,          \* the per-finding stores and their rows
  groups, groupRow,  \* _GROUPS (fingerprint -> members, {} when absent) and its rows
  pc, loc,           \* where each thread stands, and its locals
  requests, dbErrors, crashes,
  overlapped,        \* history: two handlers have run at once
  faults,            \* history: what has gone wrong
  confirmed,         \* history: findings whose verdict has been true_positive
  submitted          \* history: findings that have been deduplicated

records == <<mem, row>>
registry == <<groups, groupRow>>
runs == <<project, run, runRow>>
history == <<overlapped, faults, confirmed, submitted>>
limits == <<requests, dbErrors, crashes>>
pipelineVars == <<runs, records, registry, pc, loc, limits, history>>

-----------------------------------------------------------------------------
(* Fingerprints                                                             *)

(* Mutant: an attribute is a name like any other.                           *)
TokenFlat(tokens, i) ==
  CASE tokens[i].kind = "NAME"    -> "_n_"
    [] tokens[i].kind = "LITERAL" -> "_lit_"
    [] tokens[i].kind = "OP"      -> tokens[i].text
    [] OTHER                      -> ""

(* One token of normalize_snippet: names and literals lose their text, an   *)
(* attribute name after a dot and an operator keep it, the rest is dropped. *)
Token(tokens, i) ==
  CASE tokens[i].kind = "NAME" /\ i > 1 /\ tokens[i - 1].text = "." -> tokens[i].text
    [] tokens[i].kind = "NAME" /\ (i = 1 \/ tokens[i - 1].text # ".") -> "_n_"
    [] tokens[i].kind = "LITERAL" -> "_lit_"
    [] tokens[i].kind = "OP"      -> tokens[i].text
    [] OTHER                      -> ""

(* A snippet that does not tokenize, such as the first line of a call that  *)
(* goes on, is given as Unparsable.                                         *)
Unparsable == "_unparsable_"

NormalizeSnippet(snippet) ==
  IF snippet = Unparsable THEN <<Unparsable>>
  ELSE SelectSeq([i \in DOMAIN snippet |-> Token(snippet, i)], LAMBDA part : part # "")

(* The signature FindingFingerprintBuilder.build hashes: no file and no     *)
(* line, so that the same flaw of two repositories has one fingerprint.     *)
Signature(finding) ==
  <<finding.type, finding.source_kind, finding.sink_kind,
    NormalizeSnippet(finding.source), NormalizeSnippet(finding.sink), finding.steps>>

(* The hash of a signature is the number of its first finding. *)
FingerprintOf ==
  [f \in Findings |-> Min({g \in Findings : Signature(Shape[g]) = Signature(Shape[f])})]
Fingerprints == {FingerprintOf[f] : f \in Findings}

NoGroups == [p \in Fingerprints |-> {}]
GroupKeys(g) == {p \in Fingerprints : g[p] # {}}

-----------------------------------------------------------------------------
(* Proofs                                                                   *)

ApprovedHarnesses == {"sql_injection_proof", "command_injection_proof", "ssrf_proof",
                      "deserialization_proof", "probe_proof"}

(* The types that is_supported and unsupported_reason know. *)
SupportedProofTypes == {"sql_injection", "command_injection", "ssrf", "deserialization"}

(* The plans: type -> harness. *)
Plans == [sql_injection     |-> "sql_injection_proof",
          command_injection |-> "command_injection_proof",
          ssrf              |-> "ssrf_proof",
          deserialization   |-> "deserialization_proof"]

(* ProofPlanner.plan: a plan, or none. *)
Plan(type) == IF type \in DOMAIN Plans THEN Plans[type] ELSE None

(* What the trusted harness scripts print when nothing disturbs them: the   *)
(* SQL fixture has two rows, all of which match the interpolated marker and *)
(* none the bound one; the marker file appears for the marker only; the     *)
(* loopback server answers 200 "proved"; pickle reads its bytes, json does  *)
(* not.  The probe harness, which no plan uses, prints something else.      *)
Prints(harness) ==
  CASE harness = "sql_injection_proof"     -> <<"rows", 2, 0>>
    [] harness = "command_injection_proof" -> <<"hits", 0, 1>>
    [] harness = "ssrf_proof"              -> <<"http", 200, 1>>
    [] harness = "deserialization_proof"   -> <<"loads", 1, 0>>
    [] OTHER                               -> <<"text", 0, 0>>

(* How an execution may end: SandboxRunner.run raises (workspace or process *)
(* cannot be made), the subprocess is killed at the timeout, the harness    *)
(* exits with an error, or it prints its observation.                       *)
Executions == {"raised", "timed_out", "failed", "printed"}

(* SandboxRunner.run refuses a harness that is not approved. *)
Execution(harness, outcome) ==
  IF harness \in ApprovedHarnesses THEN outcome ELSE "raised"

(* ProofService._interpret of what was printed. *)
Observed(harness, out) ==
  CASE harness = "sql_injection_proof"     -> out[1] = "rows"  /\ out[2] # out[3]
    [] harness = "command_injection_proof" -> out[1] = "hits"  /\ out[2] = 0 /\ out[3] = 1
    [] harness = "ssrf_proof"              -> out[1] = "http"  /\ out[2] = 200 /\ out[3] = 1
    [] harness = "deserialization_proof"   -> out[1] = "loads" /\ out[2] = 1 /\ out[3] = 0
    [] OTHER                               -> FALSE

(* Mutant: whatever is printed before the timeout counts. *)
InterpretLate(harness, execution) ==
  CASE execution \in {"raised", "failed"} -> "error"
    [] execution \in {"printed", "timed_out"} ->
         IF Observed(harness, Prints(harness)) THEN "verified" ELSE "not_verified"

Interpret(harness, execution) ==
  CASE execution \in {"raised", "timed_out", "failed"} -> "error"
    [] execution = "printed" ->
         IF Observed(harness, Prints(harness)) THEN "verified" ELSE "not_verified"

(* ProofService.prove once the gate is passed: "blocked" is never produced. *)
ProofStatus(type, outcome) ==
  IF Plan(type) = None THEN "not_verified"
  ELSE Interpret(Plan(type), Execution(Plan(type), outcome))

-----------------------------------------------------------------------------
Stores == <<"finding", "validation", "proof", "risk">>
StoreNames == {Stores[k] : k \in DOMAIN Stores}

(* What a store answers for a finding it does not know; an assessment       *)
(* always has a factor.                                                     *)
NoAssessment == [risk_score |-> 0, priority |-> 4, factors |-> {}]
Absent(s) == IF s = "risk" THEN NoAssessment ELSE None
Empty == [s \in StoreNames |-> [f \in Findings |-> Absent(s)]]

IdleLocals == [op |-> None, f |-> 0, store |-> "finding", value |-> None, retries |-> 0,
               ids |-> {}, todo |-> {}, k |-> 1, new |-> NoGroups, keys |-> {}]

PipelineInit ==
  /\ project = TRUE /\ run = TRUE /\ runRow = TRUE
  /\ mem = [Empty EXCEPT !["finding"] = [f \in Findings |-> "candidate"]] /\ row = mem
  /\ groups = NoGroups /\ groupRow = NoGroups
  /\ pc = [t \in Workers |-> "idle"] /\ loc = [t \in Workers |-> IdleLocals]
  /\ requests = 0 /\ dbErrors = 0 /\ crashes = 0
  /\ overlapped = FALSE /\ faults = {} /\ confirmed = {} /\ submitted = {}

Call(t, l, to) ==
  /\ pc[t] = "idle" /\ requests < MaxRequests
  /\ requests' = requests + 1
  /\ pc' = [pc EXCEPT ![t] = to]
  /\ loc' = [loc EXCEPT ![t] = l]
  /\ overlapped' = (overlapped \/ \E u \in Workers : pc[u] # "idle")
  /\ UNCHANGED <<runs, records, registry, dbErrors, crashes, faults, confirmed, submitted>>

(* A handler that returns or raises is idle again, its locals gone.         *)
Enter(t, from, to, l) ==
  /\ pc[t] = from
  /\ pc' = [pc EXCEPT ![t] = to]
  /\ loc' = [loc EXCEPT ![t] = IF to = "idle" THEN IdleLocals ELSE l]

(* A commit that raises is a 500. *)
Commit(t, ok, from, to, l) ==
  /\ ok \/ dbErrors < MaxDbErrors
  /\ dbErrors' = IF ok THEN dbErrors ELSE dbErrors + 1
  /\ Enter(t, from, IF ok THEN to ELSE "idle", l)

Fault(ok, kinds) == faults' = IF ok THEN faults ELSE faults \cup kinds

Found(f) == mem["finding"][f] # None

-----------------------------------------------------------------------------
(* POST /findings/{id}/validate: the finding is looked up, looked up again  *)
(* to be validated, and the model asked.  A finding deleted in between is   *)
(* None, on which the evidence builder raises.                              *)
Validate(t, f) == Found(f) /\ Call(t, [IdleLocals EXCEPT !.op = "validate", !.f = f], "evidence")

BuildEvidence(t) ==
  /\ Enter(t, "evidence", IF Found(loc[t].f) THEN "complete" ELSE "idle",
           [loc[t] EXCEPT !.store = "validation"])
  /\ UNCHANGED <<runs, records, registry, limits, history>>

Answers == Verdicts \cup {"malformed", "unavailable"}

(* LLMProvider.validate around _complete: a provider error is a             *)
(* ConfigurationError (503, nothing recorded); an answer that does not      *)
(* parse is repaired once, then recorded as uncertain.                      *)
Complete(t, answer) ==
  /\ CASE answer = "unavailable" -> Enter(t, "complete", "idle", loc[t])
       [] answer = "malformed" /\ loc[t].retries < 1 ->
            Enter(t, "complete", "complete", [loc[t] EXCEPT !.retries = @ + 1])
       [] answer = "malformed" /\ loc[t].retries >= 1 ->
            Enter(t, "complete", "record", [loc[t] EXCEPT !.value = "uncertain"])
       [] answer \in Verdicts ->
            Enter(t, "complete", "record", [loc[t] EXCEPT !.value = answer])
  /\ UNCHANGED <<runs, records, registry, limits, history>>

(* The store's record(): memory first, then the row.  Whether the finding   *)
(* still exists is not asked.                                               *)
Record(t) ==
  LET l == loc[t] IN
  /\ Enter(t, "record", "upsert", l)
  /\ mem' = [mem EXCEPT ![l.store][l.f] = l.value]
  /\ confirmed' = IF l.store = "validation" /\ l.value = "true_positive"
                    THEN confirmed \cup {l.f} ELSE confirmed
  /\ UNCHANGED <<runs, row, registry, limits, overlapped, faults, submitted>>

Upsert(t, ok) ==
  LET l == loc[t] IN
  /\ Commit(t, ok, "upsert", "idle", l)
  /\ row' = IF ok THEN [row EXCEPT ![l.store][l.f] = l.value] ELSE row
  /\ Fault(ok, {"record"})
  /\ UNCHANGED <<runs, mem, registry, requests, crashes, overlapped, confirmed, submitted>>

-----------------------------------------------------------------------------
(* POST /findings/{id}/prove: finding, then validation must exist; both are *)
(* read again for the service, whose gate lets only a true_positive pass.   *)
Prove(t, f) == Found(f) /\ Call(t, [IdleLocals EXCEPT !.op = "prove", !.f = f], "validated")

RequireValidation(t) ==
  /\ Enter(t, "validated",
           IF mem["validation"][loc[t].f] # None THEN "reread" ELSE "idle", loc[t])
  /\ UNCHANGED <<runs, records, registry, limits, history>>

RereadFinding(t) ==
  /\ Enter(t, "reread", "gate", [loc[t] EXCEPT !.value = mem["finding"][loc[t].f]])
  /\ UNCHANGED <<runs, records, registry, limits, history>>

(* Mutant: only a refuted finding is held back. *)
EligibleUnlessRefuted(finding, verdict) ==
  finding # None /\ verdict # None /\ verdict # "false_positive"

(* The gate of ProofService.prove; without its finding it raises. *)
Eligible(finding, verdict) == finding # None /\ verdict = "true_positive"

Gate(t) ==
  /\ Enter(t, "gate",
           IF Eligible(loc[t].value, mem["validation"][loc[t].f]) THEN "sandbox" ELSE "idle",
           [loc[t] EXCEPT !.store = "proof"])
  /\ UNCHANGED <<runs, records, registry, limits, history>>

RunHarness(t, outcome) ==
  /\ Enter(t, "sandbox", "record",
           [loc[t] EXCEPT !.value = ProofStatus(Shape[loc[t].f].type, outcome)])
  /\ UNCHANGED <<runs, records, registry, limits, history>>

-----------------------------------------------------------------------------
(* POST /findings/{id}/risk: the finding, its validation and its proof are  *)
(* read one after the other and scored.                                     *)
AssessRisk(t, f) == Found(f) /\ Call(t, [IdleLocals EXCEPT !.op = "risk", !.f = f], "verdict")

ReadVerdict(t) ==
  /\ Enter(t, "verdict", "score", [loc[t] EXCEPT !.value = mem["validation"][loc[t].f]])
  /\ UNCHANGED <<runs, records, registry, limits, history>>

ScoreFinding(t) ==
  LET l == loc[t]
      assessment == Score(Shape[l.f].severity, l.value, mem["proof"][l.f])
  IN
  /\ Enter(t, "score", "record", [l EXCEPT !.store = "risk", !.value = assessment])
  /\ UNCHANGED <<runs, records, registry, limits, history>>

-----------------------------------------------------------------------------
(* POST /deduplicate: every submitted finding must exist; they are read     *)
(* again as a list, on which the fingerprint builder raises if one is gone. *)
Deduplicate(t, ids) ==
  /\ \A f \in ids : Found(f)
  /\ Call(t, [IdleLocals EXCEPT !.op = "dedup", !.ids = ids], "group")

(* Mutant: the group is made of the submitted findings alone. *)
RegroupedAfresh(ids) ==
  [p \in Fingerprints |->
     IF \E f \in ids : FingerprintOf[f] = p THEN {f \in ids : FingerprintOf[f] = p}
                                           ELSE groups[p]]

(* DeduplicationService.deduplicate on a copy of the registry: a submitted  *)
(* fingerprint's group is the submitted findings and those of its members   *)
(* that still exist; the other groups are copied.                           *)
Regrouped(ids) ==
  [p \in Fingerprints |->
     IF \E f \in ids : FingerprintOf[f] = p
       THEN {f \in ids : FingerprintOf[f] = p} \cup {f \in groups[p] : Found(f)}
       ELSE groups[p]]

Group(t) ==
  LET l == loc[t] IN
  /\ Enter(t, "group", IF \A f \in l.ids : Found(f) THEN "replace" ELSE "idle",
           [l EXCEPT !.new = Regrouped(l.ids)])
  /\ UNCHANGED <<runs, records, registry, limits, history>>

(* _GROUPS.clear() and update() with the copy. *)
ReplaceGroups(t) ==
  LET l == loc[t] IN
  /\ Enter(t, "replace", "wipe", [l EXCEPT !.todo = GroupKeys(l.new)])
  /\ groups' = l.new
  /\ submitted' = submitted \cup l.ids
  /\ UNCHANGED <<runs, records, groupRow, limits, overlapped, faults, confirmed>>

(* Where a handler goes once the rows are written. *)
AfterGroups(l) == IF l.op = "delete" THEN "forget" ELSE "idle"

(* db_delete_all, then one insert per group, each its own commit. *)
WipeRows(t, ok) ==
  LET l == loc[t] IN
  /\ Commit(t, ok, "wipe", IF l.todo = {} THEN AfterGroups(l) ELSE "insert", l)
  /\ groupRow' = IF ok THEN NoGroups ELSE groupRow
  /\ Fault(ok, {"groups"})
  /\ UNCHANGED <<runs, records, groups, requests, crashes, overlapped, confirmed, submitted>>

(* What is inserted: the copy, or for a deletion the registry as it is now. *)
Payload(l, p) == IF l.op = "delete" THEN groups[p] ELSE l.new[p]

(* A row another handler has inserted meanwhile makes the insert raise, and *)
(* a deletion's iteration over _GROUPS raises when its size has changed.    *)
InsertRaises(t, p) ==
  LET l == loc[t] IN
  /\ \/ groupRow[p] # {}
     \/ l.op = "delete" /\ Cardinality(GroupKeys(groups)) # Cardinality(l.keys)
  /\ p \in l.todo
  /\ Enter(t, "insert", "idle", l)
  /\ faults' = faults \cup {"groups"}
  /\ UNCHANGED <<runs, records, registry, limits, overlapped, confirmed, submitted>>

InsertRow(t, ok, p) ==
  LET l == loc[t] IN
  /\ p \in l.todo /\ groupRow[p] = {}
  /\ Commit(t, ok, "insert", IF l.todo = {p} THEN AfterGroups(l) ELSE "insert",
            [l EXCEPT !.todo = @ \ {p}])
  /\ groupRow' = IF ok THEN [groupRow EXCEPT ![p] = Payload(l, p)] ELSE groupRow
  /\ Fault(ok, {"groups"})
  /\ UNCHANGED <<runs, records, groups, requests, crashes, overlapped, confirmed, submitted>>

-----------------------------------------------------------------------------
(* DELETE /projects/{id}: the lineage in memory gives the findings.         *)
DeleteProject(t) == project /\ Call(t, [IdleLocals EXCEPT !.op = "delete"], "lineage")

(* Mutant: the run is taken out of the store as its lineage is read. *)
ReadLineageForgets(t) ==
  LET ids == IF run THEN Project ELSE {} IN
  /\ Enter(t, "lineage", IF ids = {} THEN "forget" ELSE "remove",
           [loc[t] EXCEPT !.ids = ids, !.todo = ids])
  /\ run' = FALSE
  /\ UNCHANGED <<project, runRow, records, registry, limits, history>>

ReadLineage(t) ==
  LET ids == IF run THEN Project ELSE {} IN
  /\ Enter(t, "lineage", IF ids = {} THEN "forget" ELSE "remove",
           [loc[t] EXCEPT !.ids = ids, !.todo = ids])
  /\ UNCHANGED <<runs, records, registry, limits, history>>

(* For each finding, each store in turn drops its memory, then its row.     *)
Remove(t, f) ==
  LET l == loc[t] IN
  /\ f \in l.todo /\ (l.k > 1 => f = l.f)
  /\ Enter(t, "remove", "delete", [l EXCEPT !.f = f])
  /\ mem' = [mem EXCEPT ![Stores[l.k]][f] = Absent(Stores[l.k])]
  /\ UNCHANGED <<runs, row, registry, limits, history>>

(* db_delete commits only when there is a row. *)
DeleteRow(t, ok) ==
  LET l == loc[t]
      s == Stores[l.k]
      last == l.k = Len(Stores)
  IN
  /\ Commit(t, ok, "delete", IF last /\ l.todo = {l.f} THEN "ungroup" ELSE "remove",
            IF last THEN [l EXCEPT !.k = 1, !.todo = @ \ {l.f}] ELSE [l EXCEPT !.k = @ + 1])
  /\ ok \/ row[s][l.f] # Absent(s)
  /\ row' = IF ok THEN [row EXCEPT ![s][l.f] = Absent(s)] ELSE row
  /\ Fault(ok, {"record"})
  /\ UNCHANGED <<runs, mem, registry, requests, crashes, overlapped, confirmed, submitted>>

(* Mutant: a group that has lost all its members is not a change. *)
ChangedIfRebuilt(ids) ==
  {p \in Fingerprints : groups[p] \cap ids # {} /\ groups[p] \ ids # {}}

(* The groups remove_findings rebuilds or removes. *)
Changed(ids) == {p \in Fingerprints : groups[p] \cap ids # {}}

Ungroup(t) ==
  LET l == loc[t]
      kept == [p \in Fingerprints |->
                 IF groups[p] \cap l.ids # {} THEN {f \in groups[p] \ l.ids : Found(f)}
                                             ELSE groups[p]]
  IN
  /\ Enter(t, "ungroup", IF Changed(l.ids) = {} THEN "forget" ELSE "wipe",
           [l EXCEPT !.todo = GroupKeys(kept), !.keys = GroupKeys(kept)])
  /\ groups' = kept
  /\ UNCHANGED <<runs, records, groupRow, limits, history>>

(* delete_project_runs: memory, then the rows of the runs it found there.   *)
ForgetRuns(t) ==
  /\ Enter(t, "forget", IF run THEN "runRows" ELSE "projectRow", loc[t])
  /\ run' = FALSE
  /\ UNCHANGED <<project, runRow, records, registry, limits, history>>

DeleteRunRows(t, ok) ==
  /\ Commit(t, ok, "runRows", "projectRow", loc[t])
  /\ runRow' = (runRow /\ ~ ok)
  /\ Fault(ok, {"run"})
  /\ UNCHANGED <<project, run, records, registry, requests, crashes,
                 overlapped, confirmed, submitted>>

(* The row may have gone with a concurrent deletion: a 404. *)
DeleteProjectRow(t, ok) ==
  /\ ~ ok => project
  /\ Commit(t, ok, "projectRow", "idle", loc[t])
  /\ project' = (project /\ ~ ok)
  /\ Fault(ok, {"project"})
  /\ UNCHANGED <<run, runRow, records, registry, requests, crashes,
                 overlapped, confirmed, submitted>>

-----------------------------------------------------------------------------
(* The process stops and configure_stores rehydrates every store.           *)
Persisting == {"wipe", "insert"}

Restart ==
  /\ crashes < MaxCrashes
  /\ crashes' = crashes + 1
  /\ pc' = [t \in Workers |-> "idle"] /\ loc' = [t \in Workers |-> IdleLocals]
  /\ run' = runRow /\ mem' = row /\ groups' = groupRow
  /\ faults' = IF \E t \in Workers : pc[t] \in Persisting THEN faults \cup {"groups"} ELSE faults
  /\ UNCHANGED <<project, runRow, row, groupRow, requests, dbErrors,
                 overlapped, confirmed, submitted>>

(* A step of a thread that is in a handler. *)
HandlerStep(t) ==
  \/ BuildEvidence(t)
  \/ \E answer \in Answers : Complete(t, answer)
  \/ Record(t)
  \/ \E ok \in BOOLEAN : Upsert(t, ok)
  \/ RequireValidation(t) \/ RereadFinding(t) \/ Gate(t)
  \/ \E outcome \in Executions : RunHarness(t, outcome)
  \/ ReadVerdict(t) \/ ScoreFinding(t)
  \/ Group(t) \/ ReplaceGroups(t)
  \/ \E ok \in BOOLEAN : WipeRows(t, ok)
  \/ \E p \in Fingerprints : InsertRaises(t, p)
  \/ \E ok \in BOOLEAN, p \in Fingerprints : InsertRow(t, ok, p)
  \/ ReadLineage(t)
  \/ \E f \in Project : Remove(t, f)
  \/ \E ok \in BOOLEAN : DeleteRow(t, ok)
  \/ Ungroup(t) \/ ForgetRuns(t)
  \/ \E ok \in BOOLEAN : DeleteRunRows(t, ok)
  \/ \E ok \in BOOLEAN : DeleteProjectRow(t, ok)

PipelineNext ==
  \/ \E t \in Workers :
       \/ \E f \in Staged : Validate(t, f) \/ Prove(t, f) \/ AssessRisk(t, f)
       \/ \E ids \in Batches : Deduplicate(t, ids)
       \/ DeleteProject(t)
       \/ HandlerStep(t)
  \/ Restart

PipelineSpec == PipelineInit /\ [][PipelineNext]_pipelineVars

-----------------------------------------------------------------------------
(* A deletion that has answered has left no record of its findings, in      *)
(* memory or in a row, whichever of its commits raised or crash came before *)
(* and however often it had to be retried, as long as no handler ran beside *)
(* it (routes/projects.py delete_project: the runs, whose lineage a retry   *)
(* needs, go last).                                                         *)
DeletionLeavesNoRecord ==
  ~ overlapped /\ ~ project =>
    \A f \in Project, s \in StoreNames : {mem[s][f], row[s][f]} = {Absent(s)}

GroupsAtRest == \A t \in Workers : pc[t] \notin Persisting

(* The registry survives a restart: while no persist was interrupted, its   *)
(* rows are the groups in memory, so a restart changes nothing, and the     *)
(* groups of a deleted project list none of its findings (dedup/service.py  *)
(* _persist_groups and remove_findings). A persist that raised is not made  *)
(* good by a retry: remove_findings then sees nothing to change.            *)
RegistryIsDurable ==
  ~ overlapped /\ "groups" \notin faults /\ GroupsAtRest =>
    /\ groupRow = groups
    /\ ~ project => \A p \in Fingerprints : groups[p] \cap Project = {}

(* The same flaw, up to the names and literals of the program.              *)
AlikeSnippets(a, b) ==
  /\ DOMAIN a = DOMAIN b
  /\ \A i \in DOMAIN a :
       /\ a[i].kind = b[i].kind
       /\ a[i].kind = "OP" \/ (i > 1 /\ a[i - 1].text = ".") => a[i].text = b[i].text
Alike(f, g) ==
  /\ Shape[f].type = Shape[g].type
  /\ AlikeSnippets(Shape[f].sink, Shape[g].sink)

(* Groups say which findings are one flaw: every finding that has been      *)
(* deduplicated and exists is in a group with exactly the alike ones, and   *)
(* later calls with fewer findings lose none (dedup/service.py deduplicate  *)
(* merges the existing members).                                            *)
GroupsAreComplete ==
  ~ overlapped /\ faults = {} /\ (\A t \in Workers : pc[t] = "idle") =>
    \A f \in submitted : Found(f) =>
      \E p \in Fingerprints :
        /\ f \in groups[p]
        /\ \A g \in submitted : Found(g) => (g \in groups[p] <=> Alike(f, g))

(* A proof is only ever recorded for a finding that the validation has      *)
(* confirmed, in every interleaving of re-validations, deletions, restarts  *)
(* and failed commits (prove/service.py gate).                              *)
ProofNeedsConfirmation ==
  \A f \in Findings : {mem["proof"][f], row["proof"][f]} # {None} => f \in confirmed

(* When a thread is about to run a proof, whatever the type of its finding  *)
(* and however the execution ends: the answer is "verified" exactly when    *)
(* the type is said to be supported and its harness has printed what the    *)
(* plan expects (the planner's table of supported types, its plans, the     *)
(* scripts, the sandbox's list of approved harnesses and the cases of       *)
(* prove/service.py _interpret are five separate tables).                   *)
HarnessesDecide ==
  \A t \in Workers : pc[t] = "sandbox" =>
    \A type \in SupportedProofTypes \cup {"path_traversal", "xss"}, outcome \in Executions :
      ProofStatus(type, outcome) = "verified"
        <=> (type \in SupportedProofTypes /\ outcome = "printed")

(* Every point of every stored assessment, in memory or in its row, is      *)
(* explained by a factor stored with it, whatever verdict and proof the     *)
(* handler happened to read (risk/scoring.py score; the API shows both).    *)
StoredScoresExplained ==
  \A f \in Findings : \A a \in {mem["risk"][f], row["risk"][f]} :
    a # NoAssessment => Explained(a)

(* When a thread is about to score a finding whose proof it has yet to      *)
(* read: whatever the severity, a better verdict or proof never makes the   *)
(* finding less urgent (risk/scoring.py score and _priority_for).           *)
EvidenceMovesOneWay ==
  \A t \in Workers : pc[t] = "score" =>
    \A severity \in Severities : EvidenceOrdered(severity, mem["proof"][loc[t].f])
=============================================================================
