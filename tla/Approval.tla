----------------------------- MODULE Approval -----------------------------
(***************************************************************************)
(* The human approval workflow: app/approval/service.py over the store in   *)
(* app/approval/store.py, called by app/api/routes/approval.py.             *)
(*                                                                         *)
(* Nothing serialises the handlers: each runs in a pool thread, reads the   *)
(* request, decides, and writes back.  A handler is one step for its reads  *)
(* and one step for each of its four writes: the request in memory, its     *)
(* SQLite row, the audit event in memory, the event's row.  The checks of   *)
(* request_approval read three stores in a row; they are one step here.     *)
(*                                                                         *)
(* A request's id is its position in creation order, which is also its      *)
(* requested_at.  Actors, reasons and the scan-run context are left out;    *)
(* the stage bookkeeping around a handler is in ScanRun.                    *)
(***************************************************************************)
EXTENDS Sorting

CONSTANTS
  Findings,        \* finding ids
  Actions,         \* ApprovalAction: "remediation", "other"
  Workers,         \* request threads of the API
  AllowReRequest,  \* ApprovalPolicy.allow_re_request_after_terminal
  MaxRequests,     \* bound on requests created
  MaxHandlers,     \* bound on handlers started (it bounds the clock)
  MaxDbErrors,     \* bound on failed commits
  MaxCrashes       \* bound on restarts

ASSUME ApprovalConstants ==
  /\ Findings # {} /\ Actions # {}
  /\ "none" \notin Findings \cup Actions
  /\ AllowReRequest \in BOOLEAN
  /\ MaxRequests \in Nat /\ MaxHandlers \in Nat
  /\ MaxDbErrors \in Nat /\ MaxCrashes \in Nat

VARIABLES
  req, reqRow,   \* ApprovalStore._requests and its rows
  ev, evRow,     \* ApprovalStore._events and its rows, per request
  validation,    \* the validation store: verdict per finding
  proof,         \* the proof store: status per finding
  pc, loc,       \* where each thread stands, and its locals
  issued,        \* requests created so far
  clock,         \* handlers started so far: the time stamp of an event
  dbErrors, crashes,
  overlap        \* history: which handlers of a finding have overlapped

stores == <<req, reqRow, ev, evRow>>
gates == <<validation, proof>>
vars == <<stores, gates, pc, loc, issued, clock, dbErrors, crashes, overlap>>

----------------------------------------------------------------------------
Ids == 1..MaxRequests
Active == {"pending", "changes_requested"}
Terminal == {"approved", "rejected"}

(* Mutant: a rejected request may be put back to pending.                   *)
ReopeningTransitions ==
  [s \in {"pending", "changes_requested", "approved", "rejected"} |->
     IF s = "pending" THEN {"approved", "rejected", "changes_requested"}
     ELSE IF s \in {"changes_requested", "rejected"} THEN {"pending"} ELSE {}]

(* ALLOWED_TRANSITIONS.                                                     *)
AllowedTransitions ==
  [s \in {"pending", "changes_requested", "approved", "rejected"} |->
     IF s = "pending" THEN {"approved", "rejected", "changes_requested"}
     ELSE IF s = "changes_requested" THEN {"pending"} ELSE {}]

Request == [f : Findings \cup {"none"}, action : Actions \cup {"none"},
            status : Active \cup Terminal \cup {"none"}, version : Nat]
NoRequest == [f |-> "none", action |-> "none", status |-> "none", version |-> 0]

Event == [previous : Active \cup Terminal \cup {"none"},
          new : Active \cup Terminal, at : Nat]

Steps == {"idle", "saveMem", "saveRow", "evMem", "evRow", "delEv", "delRow"}
Locals == [f : Findings \cup {"none"}, id : Nat, rec : Request,
           previous : Active \cup Terminal \cup {"none"}, at : Nat, ids : SUBSET Ids]
IdleLocals == [f |-> "none", id |-> 0, rec |-> NoRequest, previous |-> "none",
               at |-> 0, ids |-> {}]

TypeOK ==
  /\ req \in [Ids -> Request] /\ reqRow \in [Ids -> Request]
  /\ ev \in [Ids -> Seq(Event)] /\ evRow \in [Ids -> Seq(Event)]
  /\ validation \in [Findings -> {"none", "true_positive", "false_positive"}]
  /\ proof \in [Findings -> {"none", "verified", "not_verified"}]
  /\ pc \in [Workers -> Steps] /\ loc \in [Workers -> Locals]
  /\ issued \in 0..MaxRequests /\ clock \in 0..MaxHandlers
  /\ dbErrors \in Nat /\ crashes \in Nat
  /\ overlap \in [Findings -> SUBSET {"decisions", "deletion"}]

Init ==
  /\ req = [i \in Ids |-> NoRequest] /\ reqRow = [i \in Ids |-> NoRequest]
  /\ ev = [i \in Ids |-> <<>>] /\ evRow = [i \in Ids |-> <<>>]
  /\ validation = [f \in Findings |-> "none"]
  /\ proof = [f \in Findings |-> "none"]
  /\ pc = [t \in Workers |-> "idle"] /\ loc = [t \in Workers |-> IdleLocals]
  /\ issued = 0 /\ clock = 0 /\ dbErrors = 0 /\ crashes = 0
  /\ overlap = [f \in Findings |-> {}]

----------------------------------------------------------------------------
(* Control. *)

InFlight(f) == {t \in Workers : pc[t] # "idle" /\ loc[t].f = f}

(* A handler of finding f starts: the clock moves, and an overlap with      *)
(* another handler of f is remembered, with its kind.                       *)
Start(t, step, l) ==
  /\ pc[t] = "idle" /\ clock < MaxHandlers
  /\ clock' = clock + 1
  /\ pc' = [pc EXCEPT ![t] = step]
  /\ loc' = [loc EXCEPT ![t] = l]
  /\ LET kinds == {IF step = "delEv" \/ pc[u] \in {"delEv", "delRow"}
                   THEN "deletion" ELSE "decisions" : u \in InFlight(l.f)}
     IN overlap' = [overlap EXCEPT ![l.f] = @ \cup kinds]

Goto(t, from, to) ==
  /\ pc[t] = from
  /\ pc' = [pc EXCEPT ![t] = to]
  /\ loc' = IF to = "idle" THEN [loc EXCEPT ![t] = IdleLocals] ELSE loc
  /\ UNCHANGED <<gates, issued, clock, dbErrors, crashes, overlap>>

----------------------------------------------------------------------------
(* The gates: POST .../validate and .../prove record a result. PROVE is     *)
(* only run for a finding whose verdict is true_positive. The verdicts and  *)
(* proof statuses the gates treat alike are one value here.                 *)
Validate(f, verdict) ==
  /\ validation[f] # verdict
  /\ validation' = [validation EXCEPT ![f] = verdict]
  /\ UNCHANGED <<stores, proof, pc, loc, issued, clock, dbErrors, crashes, overlap>>

Prove(f, status) ==
  /\ validation[f] = "true_positive" /\ proof[f] # status
  /\ proof' = [proof EXCEPT ![f] = status]
  /\ UNCHANGED <<stores, validation, pc, loc, issued, clock, dbErrors, crashes, overlap>>

----------------------------------------------------------------------------
(* POST /findings/{id}/approval: request_approval.                          *)

(* Mutant: find_active ignores requests waiting for changes.                *)
FindActivePending(f, a) ==
  {i \in Ids : req[i].f = f /\ req[i].action = a /\ req[i].status = "pending"}

FindActive(f, a) ==
  {i \in Ids : req[i].f = f /\ req[i].action = a /\ req[i].status \in Active}

(* Mutant: find_for_finding returns the first request of the finding.       *)
Earliest(f) ==
  LET mine == {i \in Ids : req[i].f = f}
  IN IF mine = {} THEN NoRequest ELSE req[CHOOSE i \in mine : \A j \in mine : i <= j]

(* find_for_finding: the latest request of the finding, whatever its action.*)
Latest(f) ==
  LET mine == {i \in Ids : req[i].f = f}
  IN IF mine = {} THEN NoRequest ELSE req[CHOOSE i \in mine : \A j \in mine : j <= i]

CheckEligibility(f) == validation[f] = "true_positive" /\ proof[f] = "verified"

RequestApproval(t, f, a) ==
  /\ issued < MaxRequests
  /\ FindActive(f, a) = {}
  /\ Latest(f).status \in Terminal => AllowReRequest
  /\ CheckEligibility(f)
  /\ issued' = issued + 1
  /\ Start(t, "saveMem",
           [f |-> f, id |-> issued + 1, previous |-> "none", at |-> clock + 1, ids |-> {},
            rec |-> [f |-> f, action |-> a, status |-> "pending", version |-> 1]])
  /\ UNCHANGED <<stores, gates, dbErrors, crashes>>

(* POST /approvals/{id}/approve, reject, request-changes, resubmit.         *)

(* Mutant: a resubmission stays in the same review cycle.                   *)
SameVersion(r, new) == [f |-> r.f, action |-> r.action, status |-> new,
                        version |-> r.version]

Transitioned(r, new) ==
  [f |-> r.f, action |-> r.action, status |-> new,
   version |-> IF r.status = "changes_requested" /\ new = "pending"
               THEN r.version + 1 ELSE r.version]

Transition(t, i, new) ==
  /\ req[i].status # "none"
  /\ new \in AllowedTransitions[req[i].status]
  /\ Start(t, "saveMem",
           [f |-> req[i].f, id |-> i, previous |-> req[i].status, at |-> clock + 1,
            ids |-> {}, rec |-> Transitioned(req[i], new)])
  /\ UNCHANGED <<stores, gates, issued, dbErrors, crashes>>

(* store.save, then store.record_event: memory first, then the row.         *)
SaveMem(t) ==
  /\ Goto(t, "saveMem", "saveRow")
  /\ req' = [req EXCEPT ![loc[t].id] = loc[t].rec]
  /\ UNCHANGED <<reqRow, ev, evRow>>

SaveRow(t) ==
  /\ Goto(t, "saveRow", "evMem")
  /\ reqRow' = [reqRow EXCEPT ![loc[t].id] = loc[t].rec]
  /\ UNCHANGED <<req, ev, evRow>>

(* Mutant: the event is built the wrong way round.                          *)
EventReversed(l) == [previous |-> l.rec.status, new |-> l.previous, at |-> l.at]

(* The ApprovalEvent of the handler.                                        *)
EventOf(l) == [previous |-> l.previous, new |-> l.rec.status, at |-> l.at]

(* Mutant: the event is only inserted in the database.                      *)
EvMemSkipped(t) == Goto(t, "evMem", "evRow") /\ UNCHANGED stores

EvMem(t) ==
  /\ Goto(t, "evMem", "evRow")
  /\ ev' = [ev EXCEPT ![loc[t].id] = Append(@, EventOf(loc[t]))]
  /\ UNCHANGED <<req, reqRow, evRow>>

EvRow(t) ==
  /\ Goto(t, "evRow", "idle")
  /\ evRow' = [evRow EXCEPT ![loc[t].id] = Append(@, EventOf(loc[t]))]
  /\ UNCHANGED <<req, reqRow, ev>>

----------------------------------------------------------------------------
(* DELETE /projects/{id}: the finding's validation and proof are removed,   *)
(* then store.remove_finding removes the requests, the events, and the rows *)
(* of both in one transaction: the requests' rows by finding, the events'   *)
(* by the ids found in memory. (The finding, back after a new scan, has to  *)
(* be validated again.)                                                     *)
RemoveFinding(t, f) ==
  LET mine == {i \in Ids : req[i].f = f} IN
  /\ mine # {} \/ \E i \in Ids : reqRow[i].f = f
  /\ validation' = [validation EXCEPT ![f] = "none"]
  /\ proof' = [proof EXCEPT ![f] = "none"]
  /\ req' = [i \in Ids |-> IF i \in mine THEN NoRequest ELSE req[i]]
  /\ Start(t, "delEv", [IdleLocals EXCEPT !.f = f, !.ids = mine])
  /\ UNCHANGED <<reqRow, ev, evRow, issued, dbErrors, crashes>>

RemoveEvents(t) ==
  /\ Goto(t, "delEv", "delRow")
  /\ ev' = [i \in Ids |-> IF i \in loc[t].ids THEN <<>> ELSE ev[i]]
  /\ UNCHANGED <<req, reqRow, evRow>>

RemoveRows(t) ==
  /\ Goto(t, "delRow", "idle")
  /\ reqRow' = [i \in Ids |-> IF reqRow[i].f = loc[t].f THEN NoRequest ELSE reqRow[i]]
  /\ evRow' = [i \in Ids |-> IF i \in loc[t].ids THEN <<>> ELSE evRow[i]]
  /\ UNCHANGED <<req, ev>>

----------------------------------------------------------------------------
(* A commit raises: the handler ends, what it wrote before stays.           *)
DbError(t) ==
  /\ pc[t] \in {"saveRow", "evRow", "delRow"} /\ dbErrors < MaxDbErrors
  /\ dbErrors' = dbErrors + 1
  /\ pc' = [pc EXCEPT ![t] = "idle"] /\ loc' = [loc EXCEPT ![t] = IdleLocals]
  /\ UNCHANGED <<stores, gates, issued, clock, crashes, overlap>>

(* The trail of a request as set_factory rehydrates it: the event rows      *)
(* sorted by created_at.                                                    *)
Rehydrated(trail) == SortByKey(trail, [k \in DOMAIN trail |-> trail[k].at])

(* The process restarts. *)
Restart ==
  /\ crashes < MaxCrashes
  /\ crashes' = crashes + 1
  /\ req' = reqRow
  /\ ev' = [i \in Ids |-> Rehydrated(evRow[i])]
  /\ pc' = [t \in Workers |-> "idle"] /\ loc' = [t \in Workers |-> IdleLocals]
  /\ UNCHANGED <<reqRow, evRow, gates, issued, clock, dbErrors, overlap>>

Handle(t) ==
  \/ \E f \in Findings : RemoveFinding(t, f) \/ \E a \in Actions : RequestApproval(t, f, a)
  \/ \E i \in Ids, new \in Active \cup Terminal : Transition(t, i, new)

Continue(t) ==
  \/ SaveMem(t) \/ SaveRow(t) \/ EvMem(t) \/ EvRow(t)
  \/ RemoveEvents(t) \/ RemoveRows(t)

Next ==
  \/ \E f \in Findings :
       \/ \E v \in {"true_positive", "false_positive"} : Validate(f, v)
       \/ \E s \in {"verified", "not_verified"} : Prove(f, s)
  \/ \E t \in Workers : Handle(t) \/ Continue(t) \/ DbError(t)
  \/ Restart

Spec == Init /\ [][Next]_vars

----------------------------------------------------------------------------
(* Properties.                                                              *)

Idle(i) == \A t \in Workers : pc[t] # "idle" => loc[t].id # i
Serial(f) == overlap[f] = {}
Undisturbed == crashes = 0 /\ dbErrors = 0

(* "approved/rejected are terminal": once a decision is in the database, no *)
(* later request, restart or failed commit changes it, as long as the       *)
(* handlers of the finding do not overlap. Deleting the finding removes it. *)
DecisionIsFinalWhenSerial ==
  [][\A i \in Ids :
       reqRow[i].status \in Terminal /\ overlap'[reqRow[i].f] = {}
         => reqRow'[i] \in {reqRow[i], NoRequest}]_vars

(* request_approval's idempotency: one active request per finding + action  *)
(* as long as the finding's handlers do not overlap and no commit has       *)
(* failed, restarts included. (A failed deletion or save leaves memory and  *)
(* rows apart, and a restart brings the rows back.)                         *)
OneActiveRequestWhenSerial ==
  \A i, j \in Ids :
    /\ req[i].status \in Active /\ req[j].status \in Active
    /\ req[i].f = req[j].f /\ req[i].action = req[j].action
    => i = j \/ ~ Serial(req[i].f) \/ dbErrors > 0

(* The append-only audit trail explains every stored status, also when      *)
(* decisions of several reviewers overlap and overwrite each other: no      *)
(* status is in the store whose event is not in the trail, once the         *)
(* request's handlers have ended.                                           *)
AuditExplainsStatus ==
  Undisturbed =>
    \A i \in Ids :
      req[i].status # "none" /\ Idle(i) /\ "deletion" \notin overlap[req[i].f]
        => \E k \in DOMAIN ev[i] : ev[i][k].new = req[i].status

(* Replaying the trail of a request gives exactly the stored request: each  *)
(* event starts where the one before ended, the last one ends in the stored *)
(* status, and the version counts the resubmissions.                        *)
TrailReplaysRequest ==
  Undisturbed =>
    \A i \in Ids :
      req[i].status # "none" /\ Idle(i) /\ Serial(req[i].f) =>
        /\ ev[i] # <<>> /\ ev[i][1].previous = "none"
        /\ \A k \in 2..Len(ev[i]) : ev[i][k].previous = ev[i][k - 1].new
        /\ ev[i][Len(ev[i])].new = req[i].status
        /\ req[i].version =
             1 + Cardinality({k \in DOMAIN ev[i] : ev[i][k].previous = "changes_requested"})

(* The other half of the re-request gate: where policies.py does not allow  *)
(* a request after a terminal one, a finding and action are requested again *)
(* only if another action was requested in between, as long as handlers of  *)
(* the finding do not overlap and no commit has failed.                     *)
ReRequestNeedsAnotherAction ==
  ~ AllowReRequest /\ dbErrors = 0 =>
    \A i, j \in Ids :
      /\ req[i].status # "none" /\ i < j /\ Serial(req[i].f)
      /\ req[j].f = req[i].f /\ req[j].action = req[i].action
      => \E k \in (i + 1)..(j - 1) :
           req[k].f = req[i].f /\ req[k].action # req[i].action

----------------------------------------------------------------------------
(* What the documentation claims and the code does not keep.                *)

(* policies.py: whether a new request may be created after a terminal       *)
(* request "for the same finding + action. Default: no".                    *)
NoReRequestAfterDecision ==
  [][\A i, j \in Ids :
       /\ req[i].status \in Terminal
       /\ req[j].status = "none" /\ req'[j].status # "none"
       => req[i].f # req'[j].f \/ req[i].action # req'[j].action]_vars
============================================================================
