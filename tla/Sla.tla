-------------------------------- MODULE Sla --------------------------------
(***************************************************************************)
(* Risk / SLA tracking of the backend: app/risk/service.py, the routes in   *)
(* app/api/routes/risk.py and the background app/risk/sla_evaluator.py.     *)
(*                                                                         *)
(* Handlers are synchronous FastAPI endpoints: they run in a thread pool,   *)
(* beside the evaluator's own thread.  Only check_and_persist_sla takes     *)
(* _sla_lock; starting, resolving and deleting an SLA do not.  A step of    *)
(* the model is one access to a shared dictionary or one committed SQLite   *)
(* transaction, so every window between a read and the write that depends   *)
(* on it, and between a memory write and its database mirror, is open.      *)
(* Taking the lock is merged with the read that follows it, and the release *)
(* with the last write before it: neither merge hides an interleaving.      *)
(*                                                                         *)
(* Left out: last_checked_at (it decides nothing), the factors and score    *)
(* of a risk assessment (only its priority is read here; the assessment and *)
(* its row are written in one step because no property is about them).      *)
(***************************************************************************)
EXTENDS Integers, Sequences, TLC

CONSTANTS
  Findings,     \* finding ids
  Workers,      \* request threads of the API
  evaluator,    \* the thread running SlaEvaluator.evaluate_once
  Priorities,   \* "P0" .. "P4"
  Deadline,     \* SLAPolicy.deadlines: priority -> ticks, or NoDue
  Ops,          \* which of "start", "check", "resolve", "delete" users call
  MaxTime,      \* bound on the clock
  MaxSlas,      \* SLAs are started while fewer records than this exist
  MaxDbErrors,  \* bound on failed database commits
  MaxCrashes    \* bound on restarts

NoDue == -1     \* due_at = None
Threads == Workers \cup {evaluator}

ASSUME SlaConstants ==
  /\ evaluator \notin Workers
  /\ "free" \notin Workers \cup {evaluator}
  /\ Findings # {}
  /\ Deadline \in [Priorities -> Nat \cup {NoDue}]
  /\ MaxTime \in Nat /\ MaxSlas \in Nat
  /\ MaxDbErrors \in Nat /\ MaxCrashes \in Nat

VARIABLES
  risk,     \* _risk_store: priority of the stored assessment, or "none"
  sla,      \* _sla_store, in memory
  slaRow,   \* its SQLite mirror
  esc,      \* _escalation_store, in memory
  escRow,   \* its SQLite mirror
  lock,     \* holder of _sla_lock, or "free"
  pc,       \* where each thread stands in its handler
  loc,      \* the locals of each thread's handler
  todo,     \* what is left of the evaluator's cycle
  cycleNow, \* the evaluator's clock reading for the cycle
  clock, created, dbErrors, crashes

stores == <<sla, slaRow, esc, escRow>>
budget == <<created, dbErrors, crashes>>
vars == <<risk, stores, lock, pc, loc, todo, cycleNow, clock, budget>>

----------------------------------------------------------------------------
(* Data. A record's gen is its identity (its started_at in the code): a     *)
(* record created by a later POST /sla is another SLA of the finding.       *)

Statuses == {"none", "not_applicable", "active", "breached", "resolved"}

SLARecord == [gen : Nat, priority : Priorities \cup {"none"}, due : Int,
              status : Statuses, level : Nat, breachedAt : Int]

NoRecord == [gen |-> 0, priority |-> "none", due |-> NoDue,
             status |-> "none", level |-> 0, breachedAt |-> NoDue]

EscalationEvent == [gen : Nat, previous : Nat, new : Nat, at : Nat]

Locals == [f : Findings, rec : SLARecord, now : Nat, event : BOOLEAN]

CheckSteps == {"checkMem", "checkRow", "escMem", "escRow"}
PcValues == CheckSteps \cup
  {"idle", "startMem", "startRow", "resolveMem", "resolveRow",
   "delEsc", "delRow", "delEscRow"}

TypeOK ==
  /\ risk \in [Findings -> Priorities \cup {"none"}]
  /\ sla \in [Findings -> SLARecord] /\ slaRow \in [Findings -> SLARecord]
  /\ esc \in [Findings -> Seq(EscalationEvent)]
  /\ escRow \in [Findings -> Seq(EscalationEvent)]
  /\ lock \in Threads \cup {"free"}
  /\ pc \in [Threads -> PcValues]
  /\ loc \in [Threads -> Locals]
  /\ todo \in SUBSET Findings
  /\ cycleNow \in Nat /\ clock \in Nat
  /\ created \in Nat /\ dbErrors \in Nat /\ crashes \in Nat

(* SLAService.create_sla: the deadline of the priority, or none at all.     *)
CreateSla(p, started) ==
  [gen |-> 0, priority |-> p,
   due |-> IF Deadline[p] = NoDue THEN NoDue ELSE started + Deadline[p],
   status |-> IF Deadline[p] = NoDue THEN "not_applicable" ELSE "active",
   level |-> 0, breachedAt |-> NoDue]

(* SLAService.check_sla: does this evaluation breach the record?            *)
Breaches(r, now) ==
  /\ r.status \notin {"resolved", "breached"}
  /\ r.due # NoDue
  /\ now >= r.due

(* SLAService.check_sla: the record after one evaluation.                   *)
CheckSla(r, now) ==
  IF r.status = "resolved" THEN r
  ELSE IF r.due = NoDue THEN [r EXCEPT !.status = "not_applicable"]
  ELSE IF Breaches(r, now)
       THEN [gen |-> r.gen, priority |-> r.priority, due |-> r.due,
             status |-> "breached", level |-> r.level + 1, breachedAt |-> now]
  ELSE IF r.status = "breached" THEN r
  ELSE [r EXCEPT !.status = "active"]

(* Mutant: resolving writes a status outside the documented lifecycle.      *)
ResolveSlaClosed(r) == [r EXCEPT !.status = "closed"]

(* SLAService.resolve_sla.                                                  *)
ResolveSla(r) == [r EXCEPT !.status = "resolved"]

IdleLocals == [f |-> CHOOSE f \in Findings : TRUE, rec |-> NoRecord,
               now |-> 0, event |-> FALSE]

Init ==
  /\ risk = [f \in Findings |-> "none"]
  /\ sla = [f \in Findings |-> NoRecord]
  /\ slaRow = [f \in Findings |-> NoRecord]
  /\ esc = [f \in Findings |-> <<>>]
  /\ escRow = [f \in Findings |-> <<>>]
  /\ lock = "free"
  /\ pc = [t \in Threads |-> "idle"]
  /\ loc = [t \in Threads |-> IdleLocals]
  /\ todo = {} /\ cycleNow = 0 /\ clock = 0
  /\ created = 0 /\ dbErrors = 0 /\ crashes = 0

----------------------------------------------------------------------------
(* Moving a thread through its handler.                                     *)

Goto(t, step) == pc' = [pc EXCEPT ![t] = step] /\ UNCHANGED loc

Call(t, step, f, rec, now, event) ==
  /\ pc' = [pc EXCEPT ![t] = step]
  /\ loc' = [loc EXCEPT ![t] =
               [f |-> f, rec |-> rec, now |-> now, event |-> event]]

Return(t) ==
  /\ pc' = [pc EXCEPT ![t] = "idle"]
  /\ loc' = [loc EXCEPT ![t] = IdleLocals]

ReturnReleasing(t) == Return(t) /\ lock' = "free"

(* A commit that raises: the handler ends there, the memory write before it *)
(* stays. `with _sla_lock` releases the lock on the way out.                *)
DbRaises(t) ==
  /\ dbErrors < MaxDbErrors
  /\ dbErrors' = dbErrors + 1
  /\ Return(t)
  /\ lock' = IF lock = t THEN "free" ELSE lock
  /\ UNCHANGED <<risk, stores, todo, cycleNow, clock, created, crashes>>

----------------------------------------------------------------------------
(* POST /findings/{id}/risk: any priority the scorer can give.              *)
AssessRisk(f, p) ==
  /\ risk[f] # p
  /\ risk' = [risk EXCEPT ![f] = p]
  /\ UNCHANGED <<stores, lock, pc, loc, todo, cycleNow, clock, budget>>

Tick ==
  /\ clock < MaxTime
  /\ clock' = clock + 1
  /\ UNCHANGED <<risk, stores, lock, pc, loc, todo, cycleNow, budget>>

(* POST /findings/{id}/sla, _start_sla: an SLA of the same priority is kept *)
(* (early return); otherwise a new record will replace whatever is stored.  *)
StartRead(t, f) ==
  /\ "start" \in Ops /\ pc[t] = "idle"
  /\ created < MaxSlas
  /\ risk[f] # "none"
  /\ sla[f].status = "none" \/ sla[f].priority # risk[f]
  /\ Call(t, "startMem", f, CreateSla(risk[f], clock), 0, FALSE)
  /\ UNCHANGED <<risk, stores, lock, todo, cycleNow, clock, budget>>

(* record_sla_record, memory half. The record gets its identity here.       *)
StartMem(t) ==
  /\ pc[t] = "startMem"
  /\ LET rec == [loc[t].rec EXCEPT !.gen = created + 1] IN
       /\ created' = created + 1
       /\ sla' = [sla EXCEPT ![loc[t].f] = rec]
       /\ Call(t, "startRow", loc[t].f, rec, 0, FALSE)
  /\ UNCHANGED <<risk, slaRow, esc, escRow, lock, todo, cycleNow, clock,
                 dbErrors, crashes>>

(* record_sla_record, database half (db_upsert), ending the handler.        *)
UpsertAndReturn(t, step) ==
  /\ pc[t] = step
  /\ slaRow' = [slaRow EXCEPT ![loc[t].f] = loc[t].rec]
  /\ Return(t)
  /\ UNCHANGED <<risk, sla, esc, escRow, lock, todo, cycleNow, clock, budget>>

StartRow(t) == UpsertAndReturn(t, "startRow")

----------------------------------------------------------------------------
(* check_and_persist_sla, run by POST .../sla/check and by the evaluator.   *)

(* Mutant: the read -> check -> persist sequence without _sla_lock.         *)
CheckReadUnlocked(t, f, now) ==
  /\ pc[t] = "idle" /\ sla[f].status # "none"
  /\ Call(t, "checkMem", f, CheckSla(sla[f], now), now, Breaches(sla[f], now))
  /\ UNCHANGED <<risk, stores, lock, cycleNow, clock, budget>>

(* Enter the lock, read the record and evaluate it. The write is skipped    *)
(* when nothing changed (a repeated check with the same clock reading).     *)
CheckRead(t, f, now) ==
  /\ pc[t] = "idle" /\ lock = "free"
  /\ sla[f].status # "none"
  /\ LET upd == CheckSla(sla[f], now) IN
       \/ /\ lock' = t
          /\ Call(t, "checkMem", f, upd, now, Breaches(sla[f], now))
       \/ upd = sla[f] /\ UNCHANGED <<lock, pc, loc>>
  /\ UNCHANGED <<risk, stores, cycleNow, clock, budget>>

(* POST /findings/{id}/sla/check; the caller may supply any clock reading.  *)
ApiCheck(t, f, now) ==
  /\ "check" \in Ops
  /\ CheckRead(t, f, now)
  /\ UNCHANGED todo

(* One record of SlaEvaluator.evaluate_once, with the cycle's clock.        *)
EvalCheck(f) ==
  /\ f \in todo
  /\ todo' = todo \ {f}
  /\ CheckRead(evaluator, f, cycleNow)

(* The record vanished (deleted) since the snapshot: nothing to do.         *)
EvalGone(f) ==
  /\ f \in todo /\ pc[evaluator] = "idle" /\ lock = "free"
  /\ sla[f].status = "none"
  /\ todo' = todo \ {f}
  /\ UNCHANGED <<risk, stores, lock, pc, loc, cycleNow, clock, budget>>

(* Mutant: the evaluator keeps the clock reading of its first cycle.        *)
EvalBeginStaleClock ==
  /\ pc[evaluator] = "idle" /\ todo = {}
  /\ \E f \in Findings : sla[f].status = "active"
  /\ todo' = {f \in Findings : sla[f].status = "active"}
  /\ UNCHANGED <<risk, stores, lock, pc, loc, cycleNow, clock, budget>>

(* A cycle starts: clock reading and snapshot of the active records.        *)
EvalBegin ==
  /\ pc[evaluator] = "idle" /\ todo = {}
  /\ \E f \in Findings : sla[f].status = "active"
  /\ todo' = {f \in Findings : sla[f].status = "active"}
  /\ cycleNow' = clock
  /\ UNCHANGED <<risk, stores, lock, pc, loc, clock, budget>>

(* Mutants: the lock is left before the event is recorded; the event is     *)
(* returned to the caller and never recorded.                               *)
CheckRowUnlocks(t) ==
  /\ pc[t] = "checkRow"
  /\ slaRow' = [slaRow EXCEPT ![loc[t].f] = loc[t].rec]
  /\ IF loc[t].event THEN Goto(t, "escMem") /\ lock' = "free"
                     ELSE ReturnReleasing(t)
  /\ UNCHANGED <<risk, sla, esc, escRow, todo, cycleNow, clock, budget>>

CheckRowDropsEvent(t) ==
  /\ pc[t] = "checkRow"
  /\ slaRow' = [slaRow EXCEPT ![loc[t].f] = loc[t].rec]
  /\ ReturnReleasing(t)
  /\ UNCHANGED <<risk, sla, esc, escRow, todo, cycleNow, clock, budget>>

CheckMem(t) ==
  /\ pc[t] = "checkMem"
  /\ sla' = [sla EXCEPT ![loc[t].f] = loc[t].rec]
  /\ Goto(t, "checkRow")
  /\ UNCHANGED <<risk, slaRow, esc, escRow, lock, todo, cycleNow, clock, budget>>

CheckRow(t) ==
  /\ pc[t] = "checkRow"
  /\ slaRow' = [slaRow EXCEPT ![loc[t].f] = loc[t].rec]
  /\ IF loc[t].event THEN Goto(t, "escMem") /\ UNCHANGED lock
                     ELSE ReturnReleasing(t)
  /\ UNCHANGED <<risk, sla, esc, escRow, todo, cycleNow, clock, budget>>

(* The EscalationEvent built by check_sla.                                  *)
EventOf(l) == [gen |-> l.rec.gen, previous |-> l.rec.level - 1,
               new |-> l.rec.level, at |-> l.now]

(* Mutant: the event's insert is left to run after the lock is released.    *)
EscMemUnlocks(t) ==
  /\ pc[t] = "escMem"
  /\ esc' = [esc EXCEPT ![loc[t].f] = Append(@, EventOf(loc[t]))]
  /\ Goto(t, "escRow") /\ lock' = "free"
  /\ UNCHANGED <<risk, sla, slaRow, escRow, todo, cycleNow, clock, budget>>

(* record_escalation_event, memory half.                                    *)
EscMem(t) ==
  /\ pc[t] = "escMem"
  /\ esc' = [esc EXCEPT ![loc[t].f] = Append(@, EventOf(loc[t]))]
  /\ Goto(t, "escRow")
  /\ UNCHANGED <<risk, sla, slaRow, escRow, lock, todo, cycleNow, clock, budget>>

(* record_escalation_event, database half (db_insert); leave the lock.      *)
EscRow(t) ==
  /\ pc[t] = "escRow"
  /\ escRow' = [escRow EXCEPT ![loc[t].f] = Append(@, EventOf(loc[t]))]
  /\ ReturnReleasing(t)
  /\ UNCHANGED <<risk, sla, slaRow, esc, todo, cycleNow, clock, budget>>

----------------------------------------------------------------------------
(* POST /findings/{id}/sla/resolve: read, then write back without the lock. *)
ResolveRead(t, f) ==
  /\ "resolve" \in Ops /\ pc[t] = "idle"
  /\ sla[f].status # "none"
  /\ Call(t, "resolveMem", f, ResolveSla(sla[f]), 0, FALSE)
  /\ UNCHANGED <<risk, stores, lock, todo, cycleNow, clock, budget>>

ResolveMem(t) ==
  /\ pc[t] = "resolveMem"
  /\ sla' = [sla EXCEPT ![loc[t].f] = loc[t].rec]
  /\ Goto(t, "resolveRow")
  /\ UNCHANGED <<risk, slaRow, esc, escRow, lock, todo, cycleNow, clock, budget>>

ResolveRow(t) == UpsertAndReturn(t, "resolveRow")

(* remove_finding_state, called by DELETE /projects/{id}.                   *)
DeleteMem(t, f) ==
  /\ "delete" \in Ops /\ pc[t] = "idle"
  /\ risk[f] # "none" \/ sla[f].status # "none" \/ esc[f] # <<>>
  /\ risk' = [risk EXCEPT ![f] = "none"]
  /\ sla' = [sla EXCEPT ![f] = NoRecord]
  /\ Call(t, "delEsc", f, NoRecord, 0, FALSE)
  /\ UNCHANGED <<slaRow, esc, escRow, lock, todo, cycleNow, clock, budget>>

DeleteEsc(t) ==
  /\ pc[t] = "delEsc"
  /\ esc' = [esc EXCEPT ![loc[t].f] = <<>>]
  /\ Goto(t, "delRow")
  /\ UNCHANGED <<risk, sla, slaRow, escRow, lock, todo, cycleNow, clock, budget>>

DeleteRow(t) ==
  /\ pc[t] = "delRow"
  /\ slaRow' = [slaRow EXCEPT ![loc[t].f] = NoRecord]
  /\ Goto(t, "delEscRow")
  /\ UNCHANGED <<risk, sla, esc, escRow, lock, todo, cycleNow, clock, budget>>

DeleteEscRow(t) ==
  /\ pc[t] = "delEscRow"
  /\ escRow' = [escRow EXCEPT ![loc[t].f] = <<>>]
  /\ Return(t)
  /\ UNCHANGED <<risk, sla, slaRow, esc, lock, todo, cycleNow, clock, budget>>

----------------------------------------------------------------------------
(* The database commits of every handler may raise.                         *)
DbSteps == {"startRow", "checkRow", "escRow", "resolveRow", "delRow", "delEscRow"}

DbError(t) == pc[t] \in DbSteps /\ DbRaises(t)

(* What a thread does once its handler has started. *)
Continue(t) ==
  \/ StartMem(t) \/ StartRow(t)
  \/ CheckMem(t) \/ CheckRow(t) \/ EscMem(t) \/ EscRow(t)
  \/ ResolveMem(t) \/ ResolveRow(t)
  \/ DeleteEsc(t) \/ DeleteRow(t) \/ DeleteEscRow(t)

Request(t) ==
  \E f \in Findings :
    \/ StartRead(t, f)
    \/ \E now \in 0..MaxTime : ApiCheck(t, f, now)
    \/ ResolveRead(t, f)
    \/ DeleteMem(t, f)

EvalStep == EvalBegin \/ \E f \in Findings : EvalCheck(f) \/ EvalGone(f)

Next ==
  \/ Tick
  \/ \E f \in Findings, p \in Priorities : AssessRisk(f, p)
  \/ \E t \in Workers : Request(t)
  \/ \E t \in Threads : Continue(t) \/ DbError(t)
  \/ EvalStep

(* The process dies and starts again: set_risk_store_factory rehydrates     *)
(* the memory from the rows, each finding's events sorted by created_at;    *)
(* every thread, and the lock, is gone.                                     *)
Rehydrated(events) == SortSeq(events, LAMBDA a, b : a.at < b.at)

Restart ==
  /\ crashes < MaxCrashes
  /\ crashes' = crashes + 1
  /\ sla' = slaRow
  /\ esc' = [f \in Findings |-> Rehydrated(escRow[f])]
  /\ lock' = "free" /\ todo' = {}
  /\ pc' = [t \in Threads |-> "idle"]
  /\ loc' = [t \in Threads |-> IdleLocals]
  /\ UNCHANGED <<risk, slaRow, escRow, cycleNow, clock, created, dbErrors>>

Spec == Init /\ [][Next]_vars
CrashSpec == Init /\ [][Next \/ Restart]_vars

(* Threads that run are scheduled, time passes and the evaluator's timer    *)
(* fires. Users promise nothing. The evaluator competes for the lock with   *)
(* requests that hold it for a bounded time, hence strong fairness there.   *)
Fairness ==
  /\ WF_vars(Tick)
  /\ WF_vars(EvalBegin)
  /\ \A t \in Threads : WF_vars(Continue(t))
  /\ SF_vars(\E f \in Findings : EvalCheck(f) \/ EvalGone(f))

FairSpec == Spec /\ Fairness
FairCrashSpec == CrashSpec /\ Fairness

----------------------------------------------------------------------------
(* Properties.                                                              *)

EventsOf(f, g) == {i \in DOMAIN esc[f] : esc[f][i].gen = g}

(* check_and_persist_sla, "concurrent callers cannot both observe an active *)
(* record and each emit the active -> breached escalation event": whatever  *)
(* the request threads and the evaluator do, starts, resolutions, deletions *)
(* and failing commits included, one SLA is escalated at most once.         *)
AtMostOneEscalation ==
  \A f \in Findings : \A i, j \in DOMAIN esc[f] :
    esc[f][i].gen = esc[f][j].gen => i = j

(* No escalation is lost: once check_and_persist_sla has left the lock, an  *)
(* SLA whose level was raised has its escalation event, even when a resolve *)
(* that had read the record earlier wrote it back in between. A commit that *)
(* raises, or the deletion of the finding, ends the promise.                *)
NoLostEscalation ==
  lock = "free" /\ dbErrors = 0 =>
    \A f \in Findings : sla[f].level > 0 => EventsOf(f, sla[f].gen) # {}

(* The escalation trail served from memory is the one the database would    *)
(* give back: both halves of record_escalation_event run under the lock.    *)
EscalationTrailDurable == lock = "free" /\ dbErrors = 0 => escRow = esc

Overdue(f, g) == sla[f].gen = g /\ sla[f].status = "active" /\ sla[f].due <= clock
Escalated(f, g) == EventsOf(f, g) # {}
Superseded(f, g) == sla[f].gen # g \/ sla[f].status = "resolved"

(* SlaEvaluator: "overdue SLAs breach and escalate without any user         *)
(* action". An overdue SLA gets its event unless it is resolved, replaced   *)
(* or deleted first; no request has to be made for that. (A crash or a      *)
(* failed commit between the record and its event loses the event.)         *)
OverdueEscalates ==
  \A f \in Findings, g \in 1..(MaxSlas + 1) :
    Overdue(f, g) ~> \/ Escalated(f, g) \/ Superseded(f, g)
                     \/ crashes + dbErrors > 0

(* The evaluator picks overdue SLAs up again after a restart and after      *)
(* failed commits: no SLA stays active past its deadline for ever.          *)
OverdueNeverStaysActive ==
  \A f \in Findings : ~ <>[](sla[f].status = "active" /\ sla[f].due <= clock)

----------------------------------------------------------------------------
(* What the code's documentation claims and the interleavings refute.       *)

(* resolve_sla: "terminal; a resolved SLA never reactivates".               *)
ResolvedNeverReactivates ==
  [][\A f \in Findings :
       sla[f].status = "resolved" /\ sla'[f].gen = sla[f].gen
         => sla'[f].status = "resolved"]_vars
============================================================================
