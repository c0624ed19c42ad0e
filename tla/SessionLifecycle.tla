--------------------------- MODULE SessionLifecycle ---------------------------
(***************************************************************************)
(* What the session layer promises, without clocks, rows or cookies.       *)
(*                                                                         *)
(* A session is opened once, is live, and ends once.  A request is let in  *)
(* with a session that is live at that moment, and is served only if, at a *)
(* later moment, the session's owner is in good standing and entitled to   *)
(* what it asks.  A request that was let in may outlive its session.       *)
(***************************************************************************)

CONSTANTS Sessions, Users, Requests, Permissions,
          Entitlements      \* the pairs <<user, permission>> that are granted

VARIABLES
  status,    \* session -> "none", "live" or "ended"
  owner,     \* session -> its user, Nobody before it is opened
  standing,  \* user -> "missing", "active" or "inactive"
  arrived    \* request -> NoRequest, or the session, the permission, served

absVars == <<status, owner, standing, arrived>>

Nobody == "nobody"
NoRequest == [session |-> Nobody, perm |-> Nobody, served |-> FALSE]

Init ==
  /\ status = [s \in Sessions |-> "none"] /\ owner = [s \in Sessions |-> Nobody]
  /\ standing = [u \in Users |-> "missing"]
  /\ arrived = [r \in Requests |-> NoRequest]

Open(s, u) ==
  /\ status[s] = "none"
  /\ status' = [status EXCEPT ![s] = "live"] /\ owner' = [owner EXCEPT ![s] = u]
  /\ UNCHANGED <<standing, arrived>>

(* The passing of time may end several sessions at once. *)
End(S) ==
  /\ \A s \in S : status[s] = "live"
  /\ status' = [s \in Sessions |-> IF s \in S THEN "ended" ELSE status[s]]
  /\ UNCHANGED <<owner, standing, arrived>>

Enrol(u) ==
  /\ standing[u] = "missing"
  /\ standing' = [standing EXCEPT ![u] = "active"]
  /\ UNCHANGED <<status, owner, arrived>>

Bar(u) ==
  /\ standing[u] = "active"
  /\ standing' = [standing EXCEPT ![u] = "inactive"]
  /\ UNCHANGED <<status, owner, arrived>>

Admit(r, s, p) ==
  /\ arrived[r] = NoRequest /\ status[s] = "live"
  /\ arrived' = [arrived EXCEPT ![r] = [session |-> s, perm |-> p, served |-> FALSE]]
  /\ UNCHANGED <<status, owner, standing>>

Serve(r, s, u) ==
  /\ arrived[r] # NoRequest /\ ~arrived[r].served
  /\ arrived[r].session = s /\ owner[s] = u
  /\ standing[u] = "active" /\ <<u, arrived[r].perm>> \in Entitlements
  /\ arrived' = [arrived EXCEPT ![r] = [session |-> s, perm |-> arrived[r].perm, served |-> TRUE]]
  /\ UNCHANGED <<status, owner, standing>>

Dismiss(r) ==
  /\ arrived' = [arrived EXCEPT ![r] = NoRequest]
  /\ UNCHANGED <<status, owner, standing>>

Next ==
  \/ \E s \in Sessions, u \in Users : Open(s, u)
  \/ \E S \in SUBSET Sessions : End(S)
  \/ \E u \in Users : Enrol(u) \/ Bar(u)
  \/ \E r \in Requests, s \in Sessions, p \in Permissions : Admit(r, s, p)
  \/ \E r \in Requests, s \in Sessions, u \in Users : Serve(r, s, u)
  \/ \E r \in Requests : Dismiss(r)

Spec == Init /\ [][Next]_absVars
=============================================================================
