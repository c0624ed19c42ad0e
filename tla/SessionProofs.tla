---------------------------- MODULE SessionProofs ----------------------------
(***************************************************************************)
(* The session layer implements SessionLifecycle, for every set of users,  *)
(* sessions and requests, every lifetime and every assignment of roles.    *)
(***************************************************************************)
EXTENDS Session, TLAPS

(* A request past the session check carries that session and its user: the *)
(* mapped owner of the session is the user the handler runs for.           *)
IInv == SessionTypeOK /\ RequestsAreBound

LEMMA RowsHaveUsers ==
  ASSUME NEW row \in SessionRow
  PROVE  row # NoSession /\ row.user \in Users
BY SessionAssumption DEF SessionRow, NoSession, NoUser

LEMMA InitInv == SessionInit => IInv
BY SessionAssumption
DEF SessionInit, IInv, SessionTypeOK, RequestsAreBound, Idle, RequestState, NoUser

(* The steps that only read the accounts and sessions. *)
LEMMA RequestSteps ==
  ASSUME IInv, UNCHANGED <<now, account, sessions>>,
         NEW r \in Requests, NEW q \in RequestState,
         request' = [request EXCEPT ![r] = q],
         q.at = "idle" => q = Idle,
         q.at = "login" => q.user \in Users,
         q.at \in {"user", "handler"} =>
           /\ q.session \in Sessions /\ q.perm \in Permissions
           /\ sessions[q.session] # NoSession
           /\ q.user = sessions[q.session].user
  PROVE  IInv'
<1>1. SessionTypeOK'
  BY DEF IInv, SessionTypeOK
<1>2. ASSUME NEW t \in Requests
      PROVE  request'[t] = IF t = r THEN q ELSE request[t]
  BY DEF IInv, SessionTypeOK
<1>3. RequestsAreBound'
  BY <1>2 DEF IInv, RequestsAreBound
<1>4. QED
  BY <1>1, <1>3 DEF IInv

LEMMA StepInv == IInv /\ [SessionNext]_sessionVars => IInv'
<1> SUFFICES ASSUME IInv, [SessionNext]_sessionVars
             PROVE  IInv'
  OBVIOUS
<1>i. Idle \in RequestState /\ Idle.at = "idle"
  BY DEF Idle, RequestState
<1>1. CASE Tick
  BY <1>1, SessionAssumption DEF Tick, IInv, SessionTypeOK, RequestsAreBound
<1>2. ASSUME NEW u \in Users, SeedUser(u) \/ Deactivate(u)
      PROVE  IInv'
  BY <1>2 DEF SeedUser, Deactivate, IInv, SessionTypeOK, RequestsAreBound
<1>3. ASSUME NEW r \in Requests, NEW u \in Users, LoginCheck(r, u)
      PROVE  IInv'
  <2> DEFINE q == [Idle EXCEPT !.at = "login", !.user = u]
  <2>1. q \in RequestState /\ q.at = "login" /\ q.user \in Users
    BY DEF Idle, RequestState
  <2>2. request' = [request EXCEPT ![r] = q] /\ UNCHANGED <<now, account, sessions>>
    BY <1>3 DEF LoginCheck
  <2> HIDE DEF q
  <2>3. QED
    BY <2>1, <2>2, RequestSteps
<1>4. ASSUME NEW r \in Requests, NEW s \in Sessions, LoginCreate(r, s)
      PROVE  IInv'
  <2> DEFINE row == [user |-> request[r].user, expires_at |-> now + Lifetime, revoked |-> FALSE]
  <2>1. row \in SessionRow
    BY <1>4, SessionAssumption DEF LoginCreate, IInv, SessionTypeOK, RequestsAreBound, SessionRow
  <2>2. row # NoSession
    BY <2>1, RowsHaveUsers
  <2>3. /\ sessions' = [sessions EXCEPT ![s] = row] /\ sessions[s] = NoSession
        /\ request' = [request EXCEPT ![r] = Idle] /\ UNCHANGED <<now, account>>
    BY <1>4 DEF LoginCreate
  <2> HIDE DEF row
  <2>4. SessionTypeOK'
    BY <2>1, <2>3, <1>i DEF IInv, SessionTypeOK
  <2>5. ASSUME NEW t \in Requests
        PROVE  request'[t] = IF t = r THEN Idle ELSE request[t]
    BY <2>3 DEF IInv, SessionTypeOK
  <2>6. ASSUME NEW z \in Sessions
        PROVE  sessions'[z] = IF z = s THEN row ELSE sessions[z]
    BY <2>3 DEF IInv, SessionTypeOK
  <2>7. RequestsAreBound'
    BY <2>2, <2>3, <2>5, <2>6, <1>i DEF IInv, RequestsAreBound
  <2>8. QED
    BY <2>4, <2>7 DEF IInv
<1>5. ASSUME NEW s \in Sessions, Logout(s)
      PROVE  IInv'
  <2>1. sessions[s] \in SessionRow
    BY <1>5 DEF Logout, IInv, SessionTypeOK
  <2> DEFINE row == [sessions[s] EXCEPT !.revoked = TRUE]
  <2>2. row \in SessionRow /\ row.user = sessions[s].user
    BY <2>1 DEF SessionRow
  <2>3. row # NoSession
    BY <2>2, RowsHaveUsers
  <2>4. sessions' = [sessions EXCEPT ![s] = row] /\ UNCHANGED <<now, account, request>>
    BY <1>5 DEF Logout
  <2> HIDE DEF row
  <2>5. SessionTypeOK'
    BY <2>2, <2>4 DEF IInv, SessionTypeOK
  <2>6. ASSUME NEW z \in Sessions
        PROVE  sessions'[z] = IF z = s THEN row ELSE sessions[z]
    BY <2>4 DEF IInv, SessionTypeOK
  <2>7. RequestsAreBound'
    BY <2>2, <2>3, <2>4, <2>6 DEF IInv, RequestsAreBound
  <2>8. QED
    BY <2>5, <2>7 DEF IInv
<1>6. ASSUME NEW r \in Requests, NEW s \in Sessions, NEW p \in AskedFor, CheckSession(r, s, p)
      PROVE  IInv'
  <2> DEFINE q == [at |-> "user", user |-> sessions[s].user, session |-> s, perm |-> p]
  <2>1. sessions[s] # NoSession /\ sessions[s] \in SessionRow
    BY <1>6 DEF CheckSession, GetSession, IInv, SessionTypeOK
  <2>2. sessions[s].user \in Users /\ p \in Permissions
    BY <2>1, RowsHaveUsers, SessionAssumption
  <2>3. q \in RequestState
    BY <2>2 DEF RequestState
  <2>4. q.at = "user" /\ q.session = s /\ q.perm = p /\ q.user = sessions[s].user
    OBVIOUS
  <2>5. request' = [request EXCEPT ![r] = q] /\ UNCHANGED <<now, account, sessions>>
    BY <1>6 DEF CheckSession
  <2> HIDE DEF q
  <2>6. QED
    BY <2>1, <2>2, <2>3, <2>4, <2>5, RequestSteps
<1>7. ASSUME NEW r \in Requests, CheckUser(r)
      PROVE  IInv'
  <2> DEFINE q == [request[r] EXCEPT !.at = "handler"]
  <2>1. request[r] \in RequestState /\ request[r].at = "user"
    BY <1>7 DEF CheckUser, IInv, SessionTypeOK
  <2>2. q \in RequestState /\ q.at = "handler" /\ q.session = request[r].session
          /\ q.perm = request[r].perm /\ q.user = request[r].user
    BY <2>1 DEF RequestState
  <2>3. /\ request[r].session \in Sessions /\ request[r].perm \in Permissions
        /\ sessions[request[r].session] # NoSession
        /\ request[r].user = sessions[request[r].session].user
    BY <2>1 DEF IInv, RequestsAreBound
  <2>4. UNCHANGED <<now, account, sessions>>
    BY <1>7 DEF CheckUser
  <2>5. \/ request' = [request EXCEPT ![r] = q]
        \/ request' = [request EXCEPT ![r] = Idle]
    BY <1>7 DEF CheckUser
  <2> HIDE DEF q
  <2>6. CASE request' = [request EXCEPT ![r] = q]
    BY <2>2, <2>3, <2>4, <2>6, RequestSteps
  <2>7. CASE request' = [request EXCEPT ![r] = Idle]
    BY <1>i, <2>4, <2>7, RequestSteps
  <2>8. QED
    BY <2>5, <2>6, <2>7
<1>8. ASSUME NEW r \in Requests, Finish(r)
      PROVE  IInv'
  <2>1. request' = [request EXCEPT ![r] = Idle] /\ UNCHANGED <<now, account, sessions>>
    BY <1>8 DEF Finish
  <2>2. QED
    BY <1>i, <2>1, RequestSteps
<1>9. CASE UNCHANGED sessionVars
  BY <1>9 DEF sessionVars, IInv, SessionTypeOK, RequestsAreBound
<1>10. QED
  BY <1>1, <1>2, <1>3, <1>4, <1>5, <1>6, <1>7, <1>8, <1>9 DEF SessionNext

(* The rows and the request threads always have their types (auth/models.py), *)
(* whatever the clock, the roles and the number of sessions.                  *)
THEOREM SessionTypeCorrect == SessionSpec => []SessionTypeOK
<1>1. IInv => SessionTypeOK
  BY DEF IInv
<1>2. QED
  BY InitInv, StepInv, <1>1, PTL DEF SessionSpec

-----------------------------------------------------------------------------
(* Refinement.                                                             *)

LEMMA RefineInit == SessionInit => Lifecycle!Init
<1> SUFFICES ASSUME SessionInit PROVE Lifecycle!Init
  OBVIOUS
<1>1. \A s \in Sessions : StatusOf(s) = "none" /\ sessions[s].user = NoUser
  BY DEF SessionInit, StatusOf, NoSession
<1>2. \A r \in Requests : ArrivedOf(r) = Lifecycle!NoRequest
  BY DEF SessionInit, ArrivedOf, Idle, Lifecycle!NoRequest, Lifecycle!Nobody, NoUser
<1>3. QED
  BY <1>1, <1>2 DEF SessionInit, Lifecycle!Init, Lifecycle!Nobody, NoUser

(* A request that has not passed the session check has not arrived. *)
LEMMA NotArrived ==
  ASSUME NEW r \in Requests, request[r].at \in {"idle", "login"}
  PROVE  ArrivedOf(r) = Lifecycle!NoRequest
BY DEF ArrivedOf, Lifecycle!NoRequest, Lifecycle!Nobody, NoUser

(* A step of one request thread leaves the others' arrival as it was. *)
LEMMA OthersArrived ==
  ASSUME IInv, NEW r \in Requests, NEW q, request' = [request EXCEPT ![r] = q],
         NEW t \in Requests
  PROVE  ArrivedOf(t)' = IF t = r THEN ArrivedOf(r)' ELSE ArrivedOf(t)
BY DEF IInv, SessionTypeOK, ArrivedOf

LEMMA StatusKept ==
  ASSUME UNCHANGED <<now, sessions>>, NEW s \in Sessions
  PROVE  StatusOf(s)' = StatusOf(s)
BY DEF StatusOf

LEMMA RefineStep ==
  IInv /\ [SessionNext]_sessionVars => [Lifecycle!Next]_(Lifecycle!absVars)
<1> SUFFICES ASSUME IInv, [SessionNext]_sessionVars
             PROVE  [Lifecycle!Next]_(Lifecycle!absVars)
  OBVIOUS
<1> USE DEF Lifecycle!absVars
<1>1. CASE Tick
  <2> DEFINE S == {s \in Sessions : StatusOf(s) = "live" /\ StatusOf(s)' # "live"}
  <2>1. UNCHANGED <<account, sessions, request>> /\ now \in Nat /\ now' = now + 1
    BY <1>1 DEF Tick, IInv, SessionTypeOK
  <2>2. ASSUME NEW s \in Sessions
        PROVE  StatusOf(s)' = IF s \in S THEN "ended" ELSE StatusOf(s)
    <3>1. CASE sessions[s] = NoSession
      BY <2>1, <3>1 DEF StatusOf
    <3>2. CASE sessions[s] # NoSession
      <4>1. sessions[s].expires_at \in Nat
        BY <3>2 DEF IInv, SessionTypeOK, SessionRow
      <4>2. StatusOf(s) = "ended" => StatusOf(s)' = "ended"
        BY <2>1, <3>2, <4>1 DEF StatusOf
      <4>3. StatusOf(s) \in {"live", "ended"} /\ StatusOf(s)' \in {"live", "ended"}
        BY <2>1, <3>2 DEF StatusOf
      <4>4. QED
        BY <4>2, <4>3
    <3>3. QED
      BY <3>1, <3>2
  <2>3. \A r \in Requests : ArrivedOf(r)' = ArrivedOf(r)
    BY <2>1 DEF ArrivedOf
  <2> HIDE DEF S
  <2>4. S \in SUBSET Sessions /\ \A s \in S : StatusOf(s) = "live"
    BY DEF S
  <2>5. Lifecycle!End(S)
    BY <2>1, <2>2, <2>3, <2>4 DEF Lifecycle!End
  <2>6. QED
    BY <2>4, <2>5 DEF Lifecycle!Next
<1>2. ASSUME NEW u \in Users, SeedUser(u) \/ Deactivate(u)
      PROVE  Lifecycle!Next
  <2>1. UNCHANGED <<now, sessions, request>>
    BY <1>2 DEF SeedUser, Deactivate
  <2>2. \A s \in Sessions : StatusOf(s)' = StatusOf(s) /\ sessions[s].user' = sessions[s].user
    BY <2>1, StatusKept
  <2>3. \A r \in Requests : ArrivedOf(r)' = ArrivedOf(r)
    BY <2>1 DEF ArrivedOf
  <2>4. Lifecycle!Enrol(u) \/ Lifecycle!Bar(u)
    BY <1>2, <2>1, <2>2, <2>3 DEF SeedUser, Deactivate, Lifecycle!Enrol, Lifecycle!Bar
  <2>5. QED
    BY <2>4 DEF Lifecycle!Next
<1>3. ASSUME NEW r \in Requests, NEW u \in Users, LoginCheck(r, u)
      PROVE  UNCHANGED Lifecycle!absVars
  <2> DEFINE q == [Idle EXCEPT !.at = "login", !.user = u]
  <2>1. /\ request[r] = Idle /\ request' = [request EXCEPT ![r] = q]
        /\ UNCHANGED <<now, account, sessions>>
    BY <1>3 DEF LoginCheck
  <2>2. request[r].at = "idle" /\ request'[r].at = "login"
    BY <2>1 DEF Idle, IInv, SessionTypeOK
  <2>3. ArrivedOf(r)' = ArrivedOf(r)
    BY <2>2 DEF ArrivedOf
  <2> HIDE DEF q
  <2>4. \A t \in Requests : ArrivedOf(t)' = ArrivedOf(t)
    BY <2>1, <2>3, OthersArrived
  <2>5. \A s \in Sessions : StatusOf(s)' = StatusOf(s)
    BY <2>1, StatusKept
  <2>6. QED
    BY <2>1, <2>4, <2>5
<1>4. ASSUME NEW r \in Requests, NEW s \in Sessions, LoginCreate(r, s)
      PROVE  Lifecycle!Next
  <2>0. PICK u \in Users : u = request[r].user
    BY <1>4 DEF LoginCreate, IInv, RequestsAreBound
  <2> DEFINE row == [user |-> u, expires_at |-> now + Lifetime, revoked |-> FALSE]
  <2>1. /\ request[r].at = "login" /\ sessions[s] = NoSession
        /\ now \in Nat
        /\ sessions' = [sessions EXCEPT ![s] = row]
        /\ request' = [request EXCEPT ![r] = Idle] /\ UNCHANGED <<now, account>>
    BY <1>4, <2>0 DEF LoginCreate, IInv, SessionTypeOK
  <2>2. row \in SessionRow /\ row.expires_at >= now /\ ~row.revoked /\ row.user = u
    BY <2>1, SessionAssumption DEF SessionRow
  <2>3. row # NoSession
    BY <2>2, RowsHaveUsers
  <2> HIDE DEF row
  <2>4. ASSUME NEW z \in Sessions
        PROVE  sessions'[z] = IF z = s THEN row ELSE sessions[z]
    BY <2>1 DEF IInv, SessionTypeOK
  <2>5. StatusOf(s) = "none"
    BY <2>1 DEF StatusOf
  <2>6. StatusOf(s)' = "live"
    <3>1. row.expires_at \in Nat
      BY <2>2 DEF SessionRow
    <3>2. QED
      BY <2>1, <2>2, <2>3, <2>4, <3>1 DEF StatusOf
  <2>7. ASSUME NEW z \in Sessions, z # s
        PROVE  StatusOf(z)' = StatusOf(z)
    BY <2>1, <2>4, <2>7 DEF StatusOf
  <2>8. ASSUME NEW z \in Sessions
        PROVE  StatusOf(z)' = IF z = s THEN "live" ELSE StatusOf(z)
    BY <2>6, <2>7
  <2>9. request'[r].at = "idle"
    BY <2>1 DEF Idle, IInv, SessionTypeOK
  <2>10. ArrivedOf(r)' = ArrivedOf(r)
    BY <2>1, <2>9 DEF ArrivedOf
  <2>11. \A t \in Requests : ArrivedOf(t)' = ArrivedOf(t)
    BY <2>1, <2>10, OthersArrived
  <2>12. ASSUME NEW z \in Sessions
         PROVE  sessions'[z].user = IF z = s THEN u ELSE sessions[z].user
    BY <2>2, <2>4
  <2>13. Lifecycle!Open(s, u)
    BY <2>1, <2>5, <2>8, <2>11, <2>12 DEF Lifecycle!Open
  <2>14. QED
    BY <2>13 DEF Lifecycle!Next
<1>5. ASSUME NEW s \in Sessions, Logout(s)
      PROVE  [Lifecycle!Next]_(Lifecycle!absVars)
  <2>1. sessions[s] \in SessionRow /\ sessions[s] # NoSession
    BY <1>5 DEF Logout, IInv, SessionTypeOK
  <2> DEFINE row == [sessions[s] EXCEPT !.revoked = TRUE]
  <2>2. row \in SessionRow /\ row.user = sessions[s].user /\ row.revoked
    BY <2>1 DEF SessionRow
  <2>3. row # NoSession
    BY <2>2, RowsHaveUsers
  <2>4. sessions' = [sessions EXCEPT ![s] = row] /\ UNCHANGED <<now, account, request>>
    BY <1>5 DEF Logout
  <2> HIDE DEF row
  <2>5. ASSUME NEW z \in Sessions
        PROVE  sessions'[z] = IF z = s THEN row ELSE sessions[z]
    BY <2>4 DEF IInv, SessionTypeOK
  <2>6. StatusOf(s)' = "ended" /\ StatusOf(s) \in {"live", "ended"}
    BY <2>1, <2>2, <2>3, <2>5 DEF StatusOf
  <2>7. ASSUME NEW z \in Sessions, z # s
        PROVE  StatusOf(z)' = StatusOf(z)
    BY <2>4, <2>5, <2>7 DEF StatusOf
  <2>8. ASSUME NEW z \in Sessions
        PROVE  sessions'[z].user = sessions[z].user
    BY <2>2, <2>5
  <2>9. \A r \in Requests : ArrivedOf(r)' = ArrivedOf(r)
    BY <2>4 DEF ArrivedOf
  <2>10. CASE StatusOf(s) = "live"
    <3>1. \A z \in Sessions : StatusOf(z)' = IF z \in {s} THEN "ended" ELSE StatusOf(z)
      BY <2>6, <2>7
    <3>2. Lifecycle!End({s})
      BY <2>4, <2>8, <2>9, <2>10, <3>1 DEF Lifecycle!End
    <3>3. QED
      BY <3>2 DEF Lifecycle!Next
  <2>11. CASE StatusOf(s) = "ended"
    <3>1. \A z \in Sessions : StatusOf(z)' = StatusOf(z)
      BY <2>6, <2>7, <2>11
    <3>2. QED
      BY <2>4, <2>8, <2>9, <3>1
  <2>12. QED
    BY <2>6, <2>10, <2>11
<1>6. ASSUME NEW r \in Requests, NEW s \in Sessions, NEW p \in AskedFor, CheckSession(r, s, p)
      PROVE  Lifecycle!Next
  <2> DEFINE q == [at |-> "user", user |-> sessions[s].user, session |-> s, perm |-> p]
  <2>1. /\ request[r] = Idle /\ request' = [request EXCEPT ![r] = q]
        /\ UNCHANGED <<now, account, sessions>>
    BY <1>6 DEF CheckSession
  <2>2. StatusOf(s) = "live"
    BY <1>6 DEF CheckSession, GetSession, StatusOf, GetSession
  <2>3. request[r].at = "idle" /\ request'[r] = q
    BY <2>1 DEF Idle, IInv, SessionTypeOK
  <2>4. ArrivedOf(r) = Lifecycle!NoRequest
    BY <2>3, NotArrived
  <2>5. ArrivedOf(r)' = [session |-> s, perm |-> p, served |-> FALSE]
    <3>1. request'[r].at = "user" /\ request'[r].session = s /\ request'[r].perm = p
      BY <2>3
    <3> HIDE DEF q
    <3>2. QED
      BY <3>1 DEF ArrivedOf
  <2> HIDE DEF q
  <2>6. \A t \in Requests : ArrivedOf(t)' = IF t = r THEN ArrivedOf(r)' ELSE ArrivedOf(t)
    BY <2>1, OthersArrived
  <2>7. \A z \in Sessions : StatusOf(z)' = StatusOf(z)
    BY <2>1, StatusKept
  <2>8. Lifecycle!Admit(r, s, p)
    BY <2>1, <2>2, <2>4, <2>5, <2>6, <2>7 DEF Lifecycle!Admit
  <2>9. p \in Permissions
    BY SessionAssumption
  <2>10. QED
    BY <2>8, <2>9 DEF Lifecycle!Next
<1>7. ASSUME NEW r \in Requests, NEW q, request' = [request EXCEPT ![r] = q], q = Idle,
             UNCHANGED <<now, account, sessions>>
      PROVE  Lifecycle!Next
  <2>1. request'[r].at = "idle"
    BY <1>7 DEF Idle, IInv, SessionTypeOK
  <2>2. ArrivedOf(r)' = Lifecycle!NoRequest
    BY <2>1 DEF ArrivedOf, Lifecycle!NoRequest, Lifecycle!Nobody, NoUser
  <2>3. \A t \in Requests : ArrivedOf(t)' = IF t = r THEN ArrivedOf(r)' ELSE ArrivedOf(t)
    BY <1>7, OthersArrived
  <2>4. \A z \in Sessions : StatusOf(z)' = StatusOf(z)
    BY <1>7, StatusKept
  <2>5. Lifecycle!Dismiss(r)
    BY <1>7, <2>2, <2>3, <2>4 DEF Lifecycle!Dismiss
  <2>6. QED
    BY <2>5 DEF Lifecycle!Next
<1>8. ASSUME NEW r \in Requests, CheckUser(r)
      PROVE  Lifecycle!Next
  <2> DEFINE q == [request[r] EXCEPT !.at = "handler"]
  <2>1. /\ request[r] \in RequestState /\ request[r].at = "user"
        /\ UNCHANGED <<now, account, sessions>>
    BY <1>8 DEF CheckUser, IInv, SessionTypeOK
  <2>2. PICK s \in Sessions, p \in Permissions :
          /\ s = request[r].session /\ p = request[r].perm
          /\ sessions[s] # NoSession /\ request[r].user = sessions[s].user
    BY <2>1 DEF IInv, RequestsAreBound
  <2>3. PICK u \in Users : u = request[r].user /\ u = sessions[s].user
    <3>1. sessions[s] \in SessionRow
      BY <2>2 DEF IInv, SessionTypeOK
    <3>2. QED
      BY <2>2, <3>1, RowsHaveUsers
  <2>4. CASE account[u] = "active" /\ HasPermission(RoleOf[u], p)
    <3>1. request' = [request EXCEPT ![r] = q]
      BY <1>8, <2>2, <2>3, <2>4 DEF CheckUser
    <3>2. q.at = "handler" /\ q.session = s /\ q.perm = p
      BY <2>1, <2>2 DEF RequestState
    <3>3. request'[r] = q
      BY <3>1 DEF IInv, SessionTypeOK
    <3> HIDE DEF q
    <3>4. ArrivedOf(r) = [session |-> s, perm |-> p, served |-> FALSE]
      BY <2>1, <2>2 DEF ArrivedOf
    <3>5. ArrivedOf(r)' = [session |-> s, perm |-> p, served |-> TRUE]
      BY <3>2, <3>3 DEF ArrivedOf
    <3>6. ArrivedOf(r) # Lifecycle!NoRequest
      BY <2>2, <3>4, SessionAssumption DEF Lifecycle!NoRequest, Lifecycle!Nobody
    <3>7. <<u, p>> \in {g \in Users \X Permissions : HasPermission(RoleOf[g[1]], g[2])}
      BY <2>4
    <3>8. \A t \in Requests : ArrivedOf(t)' = IF t = r THEN ArrivedOf(r)' ELSE ArrivedOf(t)
      BY <3>1, OthersArrived
    <3>9. \A z \in Sessions : StatusOf(z)' = StatusOf(z)
      BY <2>1, StatusKept
    <3>10. Lifecycle!Serve(r, s, u)
      <4> DEFINE A == [t \in Requests |-> ArrivedOf(t)]
      <4>1. A[r] = ArrivedOf(r)
        OBVIOUS
      <4>2. ~ArrivedOf(r).served /\ ArrivedOf(r).session = s /\ ArrivedOf(r).perm = p
        BY <3>4
      <4>3. A' = [A EXCEPT ![r] = [session |-> s, perm |-> A[r].perm, served |-> TRUE]]
        BY <3>5, <3>8, <4>1, <4>2
      <4>4. [z \in Sessions |-> sessions[z].user][s] = u
        BY <2>3
      <4>5. UNCHANGED <<[z \in Sessions |-> StatusOf(z)], [z \in Sessions |-> sessions[z].user],
                        account>>
        BY <2>1, <3>9
      <4>6. <<u, A[r].perm>> \in {g \in Users \X Permissions : HasPermission(RoleOf[g[1]], g[2])}
        BY <3>7, <4>1, <4>2
      <4>7. A[r] # Lifecycle!NoRequest /\ ~A[r].served /\ A[r].session = s
        BY <3>6, <4>1, <4>2
      <4> HIDE DEF A
      <4>8. QED
        BY <2>4, <4>3, <4>4, <4>5, <4>6, <4>7 DEF Lifecycle!Serve, A
    <3>11. QED
      BY <3>10 DEF Lifecycle!Next
  <2>5. CASE ~(account[u] = "active" /\ HasPermission(RoleOf[u], p))
    <3>1. request' = [request EXCEPT ![r] = Idle]
      BY <1>8, <2>2, <2>3, <2>5 DEF CheckUser
    <3>2. QED
      BY <2>1, <3>1, <1>7
  <2>6. QED
    BY <2>4, <2>5
<1>9. ASSUME NEW r \in Requests, Finish(r)
      PROVE  Lifecycle!Next
  BY <1>7, <1>9 DEF Finish
<1>10. CASE UNCHANGED sessionVars
  <2>1. \A s \in Sessions : StatusOf(s)' = StatusOf(s)
    BY <1>10, StatusKept DEF sessionVars
  <2>2. \A r \in Requests : ArrivedOf(r)' = ArrivedOf(r)
    BY <1>10 DEF ArrivedOf, sessionVars
  <2>3. QED
    BY <1>10, <2>1, <2>2 DEF sessionVars
<1>11. QED
  BY <1>1, <1>2, <1>3, <1>4, <1>5, <1>6, <1>8, <1>9, <1>10 DEF SessionNext

(* The session layer implements SessionLifecycle: logins, logouts, expiry, *)
(* deactivation and the two checks of get_current_user, in any             *)
(* interleaving, never let in a request with a session that is not live    *)
(* and never revive an ended one.                                          *)
THEOREM SessionImplementsLifecycle == SessionSpec => SessionRefinesLifecycle
<1>1. SessionInit => Lifecycle!Init
  BY RefineInit
<1>2. IInv /\ [SessionNext]_sessionVars => [Lifecycle!Next]_(Lifecycle!absVars)
  BY RefineStep
<1>3. QED
  BY <1>1, <1>2, InitInv, StepInv, PTL DEF SessionSpec, SessionRefinesLifecycle, Lifecycle!Spec
=============================================================================
