------------------------------- MODULE Session -------------------------------
(***************************************************************************)
(* Login, sessions and the permission check in front of every handler      *)
(* (auth/service.py, auth/dependencies.py, auth/rbac.py, auth/routes.py).  *)
(*                                                                         *)
(* Requests run in a thread pool: each query or commit is a step of its    *)
(* own, so an account may be switched off and a session revoked or run out *)
(* between two checks of one request.  The handler itself is one interval  *)
(* between "handler" and "idle".  Passwords are a choice: a login with a   *)
(* wrong password, or of an unknown or inactive user, changes nothing.     *)
(***************************************************************************)
EXTENDS Integers

CONSTANTS
  Users, Sessions, Requests,
  AskedFor,       \* the permissions the requests ask for
  RoleOf,      \* user -> role
  Lifetime,    \* SESSION_LIFETIME, in ticks
  MaxTime      \* bound: the clock

-----------------------------------------------------------------------------
(* Roles and permissions.                                                  *)

ViewPermissions ==
  {"view_dashboard", "view_repositories", "view_findings", "view_scan_runs",
   "view_validation", "view_proof", "view_risk", "view_approvals",
   "view_remediation", "view_benchmark"}
WorkflowPermissions ==
  {"scan", "deduplicate", "validate", "prove", "assess_risk", "start_sla",
   "check_sla", "request_approval"}
ApprovalPermissions ==
  {"approve", "reject", "request_changes", "resubmit", "view_approval_queue"}
RemediationPermissions ==
  {"propose_remediation", "apply_remediation", "verify_remediation", "reprepare"}
Permissions ==
  ViewPermissions \cup WorkflowPermissions \cup ApprovalPermissions \cup RemediationPermissions
    \cup {"create_repository", "delete_repository", "run_benchmark"}

AnalystPermissions ==
  ViewPermissions \cup WorkflowPermissions \cup {"create_repository", "run_benchmark"}
ManagerPermissions ==
  AnalystPermissions \cup ApprovalPermissions \cup RemediationPermissions \cup {"delete_repository"}
DeveloperPermissions ==
  ViewPermissions \cup RemediationPermissions \cup {"scan", "create_repository"}
AuditorPermissions == ViewPermissions

Roles == {"analyst", "manager", "developer", "auditor"}
RolePermissions ==
  [role \in Roles |-> CASE role = "analyst" -> AnalystPermissions
                        [] role = "manager" -> ManagerPermissions
                        [] role = "developer" -> DeveloperPermissions
                        [] role = "auditor" -> AuditorPermissions]

HasPermission(role, permission) == permission \in RolePermissions[role]

ASSUME SessionAssumption ==
  /\ RoleOf \in [Users -> Roles] /\ AskedFor \subseteq Permissions
  /\ Lifetime \in Nat /\ MaxTime \in Nat
  /\ "nobody" \notin Sessions \cup Users \cup Permissions

-----------------------------------------------------------------------------

VARIABLES
  now,       \* the clock
  account,   \* user rows: "missing", "active" or "inactive"
  sessions,  \* session rows by raw id
  request    \* what each request thread is doing

sessionVars == <<now, account, sessions, request>>

NoUser == "nobody"
NoSession == [user |-> NoUser, expires_at |-> 0, revoked |-> FALSE]
SessionRow == [user : Users, expires_at : Nat, revoked : BOOLEAN]

Idle == [at |-> "idle", user |-> NoUser, session |-> NoUser, perm |-> NoUser]
RequestState ==
  [at : {"idle", "login", "user", "handler"}, user : Users \cup {NoUser},
   session : Sessions \cup {NoUser}, perm : Permissions \cup {NoUser}]

SessionInit ==
  /\ now = 0
  /\ account = [u \in Users |-> "missing"]
  /\ sessions = [s \in Sessions |-> NoSession]
  /\ request = [r \in Requests |-> Idle]

(* Time passes between the steps. *)
Tick == now < MaxTime /\ now' = now + 1 /\ UNCHANGED <<account, sessions, request>>

(* seed_demo_users, for one of its users.  An account that exists keeps    *)
(* its role and its state.                                                 *)
SeedUser(u) ==
  /\ account[u] = "missing"
  /\ account' = [account EXCEPT ![u] = "active"]
  /\ UNCHANGED <<now, sessions, request>>

(* is_active is cleared by hand in the database: no route does it. *)
Deactivate(u) ==
  /\ account[u] = "active"
  /\ account' = [account EXCEPT ![u] = "inactive"]
  /\ UNCHANGED <<now, sessions, request>>

(* authenticate_user, with the right password. *)
LoginCheck(r, u) ==
  /\ request[r] = Idle /\ account[u] = "active"
  /\ request' = [request EXCEPT ![r] = [Idle EXCEPT !.at = "login", !.user = u]]
  /\ UNCHANGED <<now, account, sessions>>

(* create_session: a raw id that was never used. *)
LoginCreate(r, s) ==
  /\ request[r].at = "login" /\ sessions[s] = NoSession
  /\ sessions' = [sessions EXCEPT ![s] =
       [user |-> request[r].user, expires_at |-> now + Lifetime, revoked |-> FALSE]]
  /\ request' = [request EXCEPT ![r] = Idle]
  /\ UNCHANGED <<now, account>>

(* logout; without a session, or with a revoked one, nothing changes. *)
Logout(s) ==
  /\ sessions[s] # NoSession /\ ~sessions[s].revoked
  /\ sessions' = [sessions EXCEPT ![s].revoked = TRUE]
  /\ UNCHANGED <<now, account, request>>

(* Mutant: a revoked session is good until it expires. *)
GetSessionUnexpired(s) == sessions[s] # NoSession /\ ~(sessions[s].expires_at < now)

(* get_session: a session is valid at the very instant it expires. *)
GetSession(s) ==
  /\ sessions[s] # NoSession /\ ~sessions[s].revoked
  /\ ~(sessions[s].expires_at < now)

(* get_current_user, the query for the session; else 401. *)
CheckSession(r, s, p) ==
  /\ request[r] = Idle /\ GetSession(s)
  /\ request' = [request EXCEPT ![r] =
       [at |-> "user", user |-> sessions[s].user, session |-> s, perm |-> p]]
  /\ UNCHANGED <<now, account, sessions>>

(* get_current_user, the query for the user (else 401), and                *)
(* require_permission (else 403).                                          *)
CheckUser(r) ==
  /\ request[r].at = "user"
  /\ LET u == request[r].user
     IN  request' = [request EXCEPT ![r] =
           IF account[u] = "active" /\ HasPermission(RoleOf[u], request[r].perm)
             THEN [request[r] EXCEPT !.at = "handler"] ELSE Idle]
  /\ UNCHANGED <<now, account, sessions>>

(* The handler answers. *)
Finish(r) ==
  /\ request[r].at = "handler"
  /\ request' = [request EXCEPT ![r] = Idle]
  /\ UNCHANGED <<now, account, sessions>>

SessionNext ==
  \/ Tick
  \/ \E u \in Users : SeedUser(u) \/ Deactivate(u)
  \/ \E r \in Requests, u \in Users : LoginCheck(r, u)
  \/ \E r \in Requests, s \in Sessions : LoginCreate(r, s)
  \/ \E s \in Sessions : Logout(s)
  \/ \E r \in Requests, s \in Sessions, p \in AskedFor : CheckSession(r, s, p)
  \/ \E r \in Requests : CheckUser(r) \/ Finish(r)

SessionSpec == SessionInit /\ [][SessionNext]_sessionVars

-----------------------------------------------------------------------------

SessionTypeOK ==
  /\ now \in Nat
  /\ account \in [Users -> {"missing", "active", "inactive"}]
  /\ sessions \in [Sessions -> SessionRow \cup {NoSession}]
  /\ request \in [Requests -> RequestState]

(* A request past the session check carries the session it came with and   *)
(* that session's user, who has not changed; one that logs in carries a    *)
(* user.                                                                   *)
RequestsAreBound ==
  \A r \in Requests :
    /\ request[r].at = "idle" => request[r] = Idle
    /\ request[r].at = "login" => request[r].user \in Users
    /\ request[r].at \in {"user", "handler"} =>
         /\ request[r].session \in Sessions /\ request[r].perm \in Permissions
         /\ sessions[request[r].session] # NoSession
         /\ request[r].user = sessions[request[r].session].user

(* The refinement mapping: a session has ended when it is revoked or its   *)
(* time is over; a request has arrived once its session was checked.       *)
StatusOf(s) ==
  IF sessions[s] = NoSession THEN "none"
  ELSE IF sessions[s].revoked \/ sessions[s].expires_at < now THEN "ended" ELSE "live"

ArrivedOf(r) ==
  IF request[r].at \in {"user", "handler"}
    THEN [session |-> request[r].session, perm |-> request[r].perm,
          served |-> request[r].at = "handler"]
    ELSE [session |-> NoUser, perm |-> NoUser, served |-> FALSE]

Lifecycle == INSTANCE SessionLifecycle WITH
  status <- [s \in Sessions |-> StatusOf(s)],
  owner <- [s \in Sessions |-> sessions[s].user],
  standing <- account,
  arrived <- [r \in Requests |-> ArrivedOf(r)],
  Entitlements <- {g \in Users \X Permissions : HasPermission(RoleOf[g[1]], g[2])}

(* The session layer keeps the promise of SessionLifecycle: whatever the   *)
(* interleaving of logouts, expiry, deactivation and the checks, a request *)
(* is let in only with a session live at that moment, an ended session     *)
(* never becomes live again, and no handler runs for a user who was        *)
(* inactive or not entitled when looked up after the session.              *)
SessionRefinesLifecycle == Lifecycle!Spec
=============================================================================
