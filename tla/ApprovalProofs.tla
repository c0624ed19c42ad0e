--------------------------- MODULE ApprovalProofs ---------------------------
(***************************************************************************)
(* Proofs about Approval, for every set of findings, actions and request   *)
(* threads, with or without re-requests, and any number of requests,       *)
(* failed commits and restarts.                                            *)
(***************************************************************************)
EXTENDS Approval, SortingProofs, WellFoundedInduction

Deciding == {"saveMem", "saveRow", "evMem", "evRow"}
Deleting == {"delEv", "delRow"}
Statuses == Active \cup Terminal
Half == {"saveRow", "evMem"}   \* stored, and not yet in the trail

Known(r) ==
  \/ r = NoRequest
  \/ r.f \in Findings /\ r.action \in Actions /\ r.status \in Statuses

(* What the decision in progress is about to make of its request. *)
Decision(l) ==
  /\ l.f \in Findings /\ l.id \in Ids
  /\ l.rec.f = l.f /\ l.rec.action \in Actions /\ l.rec.status \in Statuses
  /\ \/ l.previous = "none" /\ l.rec.status = "pending" /\ l.rec.version = 1
     \/ l.previous \in Active /\ l.rec.status \in AllowedTransitions[l.previous]

BasicInv ==
  /\ TypeOK
  /\ \A i \in Ids : Known(req[i]) /\ Known(reqRow[i])
  /\ \A i \in Ids : i > issued => /\ req[i] = NoRequest /\ reqRow[i] = NoRequest
                                  /\ crashes = 0 => ev[i] = <<>>
  /\ \A t \in Workers : /\ pc[t] \in Deciding => Decision(loc[t]) /\ loc[t].id <= issued
                        /\ pc[t] \in Deleting => loc[t].f \in Findings
                        /\ pc[t] \in Deleting => \A i \in loc[t].ids : i <= issued

(* An id belongs to one finding. *)
OwnerInv ==
  /\ \A i \in Ids : "none" \in {req[i].f, reqRow[i].f} \/ req[i].f = reqRow[i].f
  /\ \A t \in Workers : pc[t] \in Deciding =>
       {req[loc[t].id].f, reqRow[loc[t].id].f} \subseteq {loc[t].f, "none"}
  /\ \A t \in Workers : pc[t] \in Deleting =>
       \A i \in loc[t].ids : {req[i].f, reqRow[i].f} \subseteq {loc[t].f, "none"}
  /\ \A t, u \in Workers :
       pc[t] \in Deciding /\ pc[u] \in Deciding /\ loc[t].id = loc[u].id => loc[t].f = loc[u].f
  /\ \A t, u \in Workers :
       pc[t] \in Deciding /\ pc[u] \in Deleting /\ loc[t].id \in loc[u].ids => loc[t].f = loc[u].f

(* overlap remembers who ran beside whom. *)
OverlapInv ==
  \A t, u \in Workers :
    pc[t] # "idle" /\ pc[u] # "idle" /\ loc[t].f = loc[u].f /\ t # u =>
      /\ overlap[loc[t].f] # {}
      /\ pc[t] \in Deleting => "deletion" \in overlap[loc[t].f]

FinalInv ==
  /\ \A i \in Ids : reqRow[i].status \in Terminal /\ overlap[reqRow[i].f] = {} =>
       req[i] \in {reqRow[i], NoRequest}
  /\ \A t \in Workers : pc[t] \in {"saveMem", "saveRow"} /\ overlap[loc[t].f] = {} =>
       /\ reqRow[loc[t].id].status \notin Terminal
       /\ pc[t] = "saveMem" => req[loc[t].id].status = loc[t].previous
       /\ pc[t] = "saveRow" => req[loc[t].id] = loc[t].rec

Unique(r, f) ==
  \A i, j \in Ids :
    /\ r[i].f = f /\ r[j].f = f /\ r[i].action = r[j].action
    /\ r[i].status \in Active /\ r[j].status \in Active
    => i = j

(* While the finding is handled by one thread at a time: memory and rows   *)
(* only differ where a save or a deletion is half done.                    *)
OneActiveOf(f) ==
  /\ Unique(req, f) /\ Unique(reqRow, f)
  /\ \A j \in Ids : f \in {req[j].f, reqRow[j].f} /\ req[j] # reqRow[j] =>
       \E t \in Workers : /\ loc[t].f = f
                          /\ pc[t] \in Deleting \/ (pc[t] = "saveRow" /\ loc[t].id = j)
  /\ \A t \in Workers : loc[t].f = f /\ pc[t] \in Deleting => \A j \in Ids : req[j].f # f
  /\ \A t \in Workers : loc[t].f = f /\ pc[t] = "saveMem" =>
       \A j \in Ids \ {loc[t].id} :
         req[j].f = f /\ req[j].action = loc[t].rec.action => req[j].status \notin Active

OneActiveInv == \A f \in Findings : Serial(f) /\ dbErrors = 0 => OneActiveOf(f)

(* Past request i of finding f there is one for another action than a. *)
Passed(r, f, a, i, j) ==
  \E k \in Ids : i < k /\ k < j /\ r[k].f = f /\ r[k].action # a

(* Requests of one finding and action have another action's between them. *)
Spaced(r, f) ==
  \A i, j \in Ids :
    r[i].f = f /\ r[j].f = f /\ r[j].action = r[i].action /\ i < j
    => Passed(r, f, r[i].action, i, j)

(* The requests once the thread that knows l has stored its record. *)
Stored(r, l) == [j \in Ids |-> IF j = l.id THEN l.rec ELSE r[j]]

SpacedOf(f) ==
  /\ Spaced(req, f) /\ Spaced(reqRow, f)
  /\ \A t \in Workers : loc[t].f = f /\ pc[t] = "saveMem" => Spaced(Stored(req, loc[t]), f)

SpacedInv ==
  ~ AllowReRequest => \A f \in Findings : Serial(f) /\ dbErrors = 0 => SpacedOf(f)

(* Every status has its event, or a thread about to append it. *)
Explained(i) ==
  \/ \E k \in DOMAIN ev[i] : ev[i][k].new = req[i].status
  \/ \E t \in Workers : /\ pc[t] \in Half /\ loc[t].id = i
                        /\ loc[t].rec.status = req[i].status
AuditInv ==
  Undisturbed =>
    /\ \A i \in Ids :
         req[i].status # "none" /\ "deletion" \notin overlap[req[i].f] => Explained(i)
    /\ \A t \in Workers : pc[t] \in Deleting /\ "deletion" \notin overlap[loc[t].f] =>
         \A j \in Ids : req[j].f # loc[t].f

Resubmissions(trail) == {k \in DOMAIN trail : trail[k].previous = "changes_requested"}
Chained(trail) ==
  /\ trail # <<>> => trail[1].previous = "none"
  /\ \A k \in 2..Len(trail) : trail[k].previous = trail[k - 1].new
Ends(trail) == IF trail = <<>> THEN "none" ELSE trail[Len(trail)].new

(* The trail accounts for a request with this status and version. *)
Replays(trail, status, version) ==
  /\ Chained(trail) /\ Ends(trail) = status
  /\ version = 1 + Cardinality(Resubmissions(trail))

(* The trail is one event short of the decision l is about to store. *)
Owes(trail, l) ==
  /\ Chained(trail) /\ Ends(trail) = l.previous
  /\ l.rec.version = 1 + Cardinality(Resubmissions(trail))
                       + (IF l.previous = "changes_requested" THEN 1 ELSE 0)

TrailInv ==
  Undisturbed =>
    /\ \A i \in Ids :
         /\ req[i].status # "none" /\ Serial(req[i].f)
         /\ \A t \in Workers : pc[t] \in Half => loc[t].id # i
         => Replays(ev[i], req[i].status, req[i].version)
    /\ \A t \in Workers : pc[t] \in Half \cup {"saveMem"} /\ Serial(loc[t].f) =>
         /\ Owes(ev[loc[t].id], loc[t])
         /\ pc[t] \in Half => req[loc[t].id] = loc[t].rec


-----------------------------------------------------------------------------
(* Types.                                                                  *)

LEMMA InitType == Init => TypeOK
<1> SUFFICES ASSUME Init PROVE TypeOK
  OBVIOUS
<1>1. NoRequest \in Request
  BY DEF NoRequest, Request, Active, Terminal
<1>2. IdleLocals \in Locals
  BY <1>1 DEF IdleLocals, Locals, Active, Terminal
<1>3. <<>> \in Seq(Event)
  OBVIOUS
<1>4. QED
  BY <1>1, <1>2, <1>3, ApprovalConstants DEF Init, TypeOK, Steps

LEMMA IdleTypes == NoRequest \in Request /\ IdleLocals \in Locals
<1>1. NoRequest \in Request
  BY DEF NoRequest, Request, Active, Terminal
<1>2. QED
  BY <1>1 DEF IdleLocals, Locals, Active, Terminal

(* A handler starts. *)
LEMMA StartMoves ==
  ASSUME TypeOK, NEW t \in Workers, NEW step \in Steps, NEW l \in Locals, Start(t, step, l)
  PROVE  /\ pc' \in [Workers -> Steps] /\ loc' \in [Workers -> Locals]
         /\ clock' \in 0..MaxHandlers
         /\ overlap' \in [Findings -> SUBSET {"decisions", "deletion"}]
         /\ pc[t] = "idle"
         /\ \A u \in Workers : /\ pc'[u] = (IF u = t THEN step ELSE pc[u])
                               /\ loc'[u] = (IF u = t THEN l ELSE loc[u])
         /\ \A g \in Findings : overlap[g] \subseteq overlap'[g]
         /\ \A g \in Findings : g # l.f => overlap'[g] = overlap[g]
         /\ l.f \in Findings => \A u \in Workers : pc[u] # "idle" /\ loc[u].f = l.f =>
              /\ overlap'[l.f] # {}
              /\ step = "delEv" \/ pc[u] \in Deleting => "deletion" \in overlap'[l.f]
<1> DEFINE kind(u) == IF step = "delEv" \/ pc[u] \in {"delEv", "delRow"}
                      THEN "deletion" ELSE "decisions"
           kinds == {kind(u) : u \in InFlight(l.f)}
<1>1. /\ pc[t] = "idle" /\ clock < MaxHandlers /\ clock' = clock + 1
      /\ pc' = [pc EXCEPT ![t] = step] /\ loc' = [loc EXCEPT ![t] = l]
      /\ overlap' = [overlap EXCEPT ![l.f] = @ \cup kinds]
  BY DEF Start
<1>2. kinds \subseteq {"decisions", "deletion"}
  OBVIOUS
<1>3. ASSUME NEW u \in Workers, pc[u] # "idle", loc[u].f = l.f
      PROVE  kind(u) \in kinds
  BY <1>3 DEF InFlight
<1>4. ASSUME NEW u \in Workers
      PROVE  step = "delEv" \/ pc[u] \in Deleting => kind(u) = "deletion"
  BY DEF Deleting
<1> HIDE DEF kinds, kind
<1>5. overlap' \in [Findings -> SUBSET {"decisions", "deletion"}]
  BY <1>1, <1>2 DEF TypeOK
<1>6. \A g \in Findings : overlap'[g] = IF g = l.f THEN overlap[g] \cup kinds ELSE overlap[g]
  BY <1>1 DEF TypeOK
<1>7. pc' \in [Workers -> Steps] /\ loc' \in [Workers -> Locals] /\ clock' \in 0..MaxHandlers
  BY <1>1, ApprovalConstants DEF TypeOK
<1>8. \A u \in Workers : /\ pc'[u] = (IF u = t THEN step ELSE pc[u])
                         /\ loc'[u] = (IF u = t THEN l ELSE loc[u])
  BY <1>1 DEF TypeOK
<1>9. ASSUME l.f \in Findings, NEW u \in Workers, pc[u] # "idle", loc[u].f = l.f
      PROVE  /\ overlap'[l.f] # {}
             /\ step = "delEv" \/ pc[u] \in Deleting => "deletion" \in overlap'[l.f]
  BY <1>3, <1>4, <1>6, <1>9
<1>10. QED
  BY <1>1, <1>5, <1>6, <1>7, <1>8, <1>9

(* A handler goes on or ends. *)
LEMMA GotoMoves ==
  ASSUME TypeOK, NEW t \in Workers, NEW from, NEW to \in Steps, Goto(t, from, to)
  PROVE  /\ pc' \in [Workers -> Steps] /\ loc' \in [Workers -> Locals]
         /\ UNCHANGED <<gates, issued, clock, dbErrors, crashes, overlap>>
         /\ pc[t] = from
         /\ \A u \in Workers :
              /\ pc'[u] = (IF u = t THEN to ELSE pc[u])
              /\ loc'[u] = (IF u = t /\ to = "idle" THEN IdleLocals ELSE loc[u])
<1>1. /\ pc[t] = from /\ pc' = [pc EXCEPT ![t] = to]
      /\ loc' = IF to = "idle" THEN [loc EXCEPT ![t] = IdleLocals] ELSE loc
      /\ UNCHANGED <<gates, issued, clock, dbErrors, crashes, overlap>>
  BY DEF Goto
<1>2. QED
  BY <1>1, IdleTypes DEF TypeOK

LEMMA EventType ==
  ASSUME NEW l \in Locals, l.rec.status # "none"
  PROVE  EventOf(l) \in Event
BY DEF Locals, Request, EventOf, Event, Active, Terminal

(* The locals of the three handlers. *)
LEMMA HandlerLocals ==
  ASSUME TypeOK
  PROVE  /\ \A f \in Findings, a \in Actions :
              issued < MaxRequests =>
              [f |-> f, id |-> issued + 1, previous |-> "none", at |-> clock + 1, ids |-> {},
               rec |-> [f |-> f, action |-> a, status |-> "pending", version |-> 1]] \in Locals
         /\ \A i \in Ids, new \in Active \cup Terminal :
              [f |-> req[i].f, id |-> i, previous |-> req[i].status, at |-> clock + 1,
               ids |-> {}, rec |-> Transitioned(req[i], new)] \in Locals
         /\ \A f \in Findings, mine \in SUBSET Ids :
              /\ [IdleLocals EXCEPT !.f = f, !.ids = mine] \in Locals
              /\ [IdleLocals EXCEPT !.f = f, !.ids = mine].f = f
              /\ [IdleLocals EXCEPT !.f = f, !.ids = mine].ids = mine
<1>0. issued \in Nat /\ clock + 1 \in Nat /\ Ids \subseteq Nat
  BY ApprovalConstants DEF TypeOK, Ids
<1>1. ASSUME NEW f \in Findings, NEW a \in Actions
      PROVE  [f |-> f, id |-> issued + 1, previous |-> "none", at |-> clock + 1, ids |-> {},
              rec |-> [f |-> f, action |-> a, status |-> "pending", version |-> 1]] \in Locals
  <2>1. [f |-> f, action |-> a, status |-> "pending", version |-> 1] \in Request
    BY DEF Request, Active
  <2>2. QED
    BY <1>0, <2>1 DEF Locals
<1>2. ASSUME NEW i \in Ids, NEW new \in Active \cup Terminal
      PROVE  [f |-> req[i].f, id |-> i, previous |-> req[i].status, at |-> clock + 1,
              ids |-> {}, rec |-> Transitioned(req[i], new)] \in Locals
  <2>1. req[i] \in Request
    BY DEF TypeOK
  <2>2. Transitioned(req[i], new) \in Request
    BY <2>1 DEF Transitioned, Request
  <2>3. req[i].f \in Findings \cup {"none"} /\ req[i].status \in Active \cup Terminal \cup {"none"}
    BY <2>1 DEF Request
  <2>4. QED
    BY <1>0, <2>2, <2>3 DEF Locals
<1>3. ASSUME NEW f \in Findings, NEW mine \in SUBSET Ids
      PROVE  /\ [IdleLocals EXCEPT !.f = f, !.ids = mine] \in Locals
             /\ [IdleLocals EXCEPT !.f = f, !.ids = mine].f = f
             /\ [IdleLocals EXCEPT !.f = f, !.ids = mine].ids = mine
  <2> DEFINE i == [IdleLocals EXCEPT !.f = f]
             l == [IdleLocals EXCEPT !.f = f, !.ids = mine]
  <2>1. l = [i EXCEPT !.ids = mine]
    BY Zenon
  <2>2. i \in Locals /\ i.f = f
    BY IdleTypes DEF Locals
  <2> HIDE DEF i, l
  <2>3. l \in Locals /\ l.f = f /\ l.ids = mine
    BY <2>1, <2>2 DEF Locals
  <2>4. QED
    BY <2>3, Zenon DEF l
<1>4. QED
  BY <1>1, <1>2, <1>3

-----------------------------------------------------------------------------
(* What each handler's step does, for the cases below.                     *)

LEMMA RequestFacts ==
  ASSUME TypeOK, NEW t \in Workers, NEW f \in Findings, NEW a \in Actions,
         RequestApproval(t, f, a)
  PROVE  \E l \in Locals :
           /\ Start(t, "saveMem", l)
           /\ l.f = f /\ l.id = issued + 1 /\ l.previous = "none"
           /\ l.rec.f = f /\ l.rec.action = a /\ l.rec.status = "pending" /\ l.rec.version = 1
           /\ issued < MaxRequests /\ issued' = issued + 1
           /\ FindActive(f, a) = {}
           /\ UNCHANGED <<stores, gates, dbErrors, crashes>>
<1> DEFINE l == [f |-> f, id |-> issued + 1, previous |-> "none", at |-> clock + 1, ids |-> {},
                 rec |-> [f |-> f, action |-> a, status |-> "pending", version |-> 1]]
<1>1. /\ Start(t, "saveMem", l) /\ issued < MaxRequests /\ issued' = issued + 1
      /\ FindActive(f, a) = {} /\ UNCHANGED <<stores, gates, dbErrors, crashes>>
  BY DEF RequestApproval
<1>2. l \in Locals
  BY <1>1, HandlerLocals
<1>3. /\ l.f = f /\ l.id = issued + 1 /\ l.previous = "none"
      /\ l.rec.f = f /\ l.rec.action = a /\ l.rec.status = "pending" /\ l.rec.version = 1
  OBVIOUS
<1> HIDE DEF l
<1>4. QED
  BY <1>1, <1>2, <1>3

LEMMA TransitionFacts ==
  ASSUME TypeOK, NEW t \in Workers, NEW i \in Ids, NEW new \in Active \cup Terminal,
         Transition(t, i, new)
  PROVE  \E l \in Locals :
           /\ Start(t, "saveMem", l)
           /\ l.f = req[i].f /\ l.id = i /\ l.previous = req[i].status
           /\ l.rec.f = req[i].f /\ l.rec.action = req[i].action /\ l.rec.status = new
           /\ l.rec.version = IF req[i].status = "changes_requested" /\ new = "pending"
                              THEN req[i].version + 1 ELSE req[i].version
           /\ req[i].status # "none" /\ new \in AllowedTransitions[req[i].status]
           /\ UNCHANGED <<stores, gates, issued, dbErrors, crashes>>
<1> DEFINE r == Transitioned(req[i], new)
           l == [f |-> req[i].f, id |-> i, previous |-> req[i].status, at |-> clock + 1,
                 ids |-> {}, rec |-> r]
<1>1. /\ Start(t, "saveMem", l) /\ req[i].status # "none"
      /\ new \in AllowedTransitions[req[i].status]
      /\ UNCHANGED <<stores, gates, issued, dbErrors, crashes>>
  BY DEF Transition
<1>2. l \in Locals
  BY HandlerLocals
<1>3. /\ r.f = req[i].f /\ r.action = req[i].action /\ r.status = new
      /\ r.version = IF req[i].status = "changes_requested" /\ new = "pending"
                     THEN req[i].version + 1 ELSE req[i].version
  BY DEF Transitioned
<1> HIDE DEF r
<1>4. l.f = req[i].f /\ l.id = i /\ l.previous = req[i].status /\ l.rec = r
  OBVIOUS
<1> HIDE DEF l
<1>5. QED
  BY <1>1, <1>2, <1>3, <1>4

LEMMA RemoveFacts ==
  ASSUME TypeOK, NEW t \in Workers, NEW f \in Findings, RemoveFinding(t, f)
  PROVE  \E l \in Locals :
           /\ Start(t, "delEv", l)
           /\ l.f = f /\ l.ids = {i \in Ids : req[i].f = f}
           /\ req' = [i \in Ids |-> IF req[i].f = f THEN NoRequest ELSE req[i]]
           /\ validation' = [validation EXCEPT ![f] = "none"]
           /\ proof' = [proof EXCEPT ![f] = "none"]
           /\ UNCHANGED <<reqRow, ev, evRow, issued, dbErrors, crashes>>
<1> DEFINE mine == {i \in Ids : req[i].f = f}
           l == [IdleLocals EXCEPT !.f = f, !.ids = mine]
<1>1. Start(t, "delEv", l)
  BY Zenon DEF RemoveFinding
<1>2. l \in Locals /\ l.f = f /\ l.ids = mine
  BY HandlerLocals, Zenon
<1> HIDE DEF l
<1>3. /\ req' = [i \in Ids |-> IF i \in mine THEN NoRequest ELSE req[i]]
      /\ validation' = [validation EXCEPT ![f] = "none"]
      /\ proof' = [proof EXCEPT ![f] = "none"]
  BY Zenon DEF RemoveFinding
<1>4. UNCHANGED <<reqRow, ev, evRow, issued, dbErrors, crashes>>
  BY Zenon DEF RemoveFinding
<1>5. req' = [i \in Ids |-> IF req[i].f = f THEN NoRequest ELSE req[i]]
  BY <1>3
<1>6. QED
  BY <1>1, <1>2, <1>3, <1>4, <1>5

(* A decision's step writes one request or one trail. *)
LEMMA PutTypes ==
  ASSUME TypeOK, NEW i \in Ids
  PROVE  /\ \A r \in Request : [req EXCEPT ![i] = r] \in [Ids -> Request]
         /\ \A r \in Request : [reqRow EXCEPT ![i] = r] \in [Ids -> Request]
         /\ \A e \in Event : [ev EXCEPT ![i] = Append(@, e)] \in [Ids -> Seq(Event)]
         /\ \A e \in Event : [evRow EXCEPT ![i] = Append(@, e)] \in [Ids -> Seq(Event)]
BY DEF TypeOK

LEMMA InitBasic == Init => BasicInv
<1> SUFFICES ASSUME Init PROVE BasicInv
  OBVIOUS
<1>1. TypeOK
  BY InitType
<1>2. QED
  BY <1>1 DEF Init, BasicInv, Known, Deciding, Deleting

LEMMA RehydratedType ==
  ASSUME NEW trail \in Seq(Event)
  PROVE  Rehydrated(trail) \in Seq(Event)
<1> DEFINE keys == [k \in DOMAIN trail |-> trail[k].at]
<1>1. \A k \in DOMAIN trail : trail[k] \in Event
  OBVIOUS
<1>2. keys \in [DOMAIN trail -> Int]
  BY <1>1 DEF Event
<1> HIDE DEF keys
<1>3. SortByKey(trail, keys) \in Seq(Event)
  BY <1>2, SortKeepsElements
<1>4. QED
  BY <1>3 DEF Rehydrated, keys

(* The thread t moves to step "to"; what it knows goes when it ends. *)
Moved(t, to) ==
  \A u \in Workers :
    /\ pc'[u] = (IF u = t THEN to ELSE pc[u])
    /\ loc'[u] = (IF u = t /\ to = "idle" THEN IdleLocals ELSE loc[u])

Quiet == UNCHANGED <<gates, issued, clock, dbErrors, crashes, overlap>>

LEMMA DecisionSteps ==
  ASSUME BasicInv, NEW t \in Workers,
         SaveMem(t) \/ SaveRow(t) \/ EvMem(t) \/ EvRow(t)
  PROVE  LET l == loc[t] IN
         /\ Decision(l) /\ Quiet /\ l \in Locals /\ l.rec \in Request
         /\ TypeOK'
         /\ \/ /\ pc[t] = "saveMem" /\ Moved(t, "saveRow") /\ UNCHANGED <<reqRow, ev, evRow>>
               /\ \A j \in Ids : req'[j] = IF j = l.id THEN l.rec ELSE req[j]
            \/ /\ pc[t] = "saveRow" /\ Moved(t, "evMem") /\ UNCHANGED <<req, ev, evRow>>
               /\ \A j \in Ids : reqRow'[j] = IF j = l.id THEN l.rec ELSE reqRow[j]
            \/ /\ pc[t] = "evMem" /\ Moved(t, "evRow") /\ UNCHANGED <<req, reqRow, evRow>>
               /\ \A j \in Ids : ev'[j] = IF j = l.id THEN Append(ev[j], EventOf(l)) ELSE ev[j]
            \/ /\ pc[t] = "evRow" /\ Moved(t, "idle") /\ UNCHANGED <<req, reqRow, ev>>
<1> DEFINE l == loc[t]
<1>0. TypeOK /\ l \in Locals
  BY DEF BasicInv, TypeOK
<1>a. pc[t] \in Deciding
  BY DEF SaveMem, SaveRow, EvMem, EvRow, Goto, Deciding
<1>b. Decision(l) /\ l.id \in Ids /\ l.rec \in Request /\ EventOf(l) \in Event
  <2>1. Decision(l) /\ l.rec \in Request
    BY <1>0, <1>a DEF BasicInv, Locals
  <2>2. l.rec.status # "none" /\ l.id \in Ids
    BY <2>1 DEF Decision, Statuses, Active, Terminal
  <2>3. QED
    BY <1>0, <2>1, <2>2, EventType
<1>c. {"idle", "saveMem", "saveRow", "evMem", "evRow"} \subseteq Steps
  BY DEF Steps
<1>d. ASSUME NEW from, NEW to \in Steps, Goto(t, from, to)
      PROVE  /\ Moved(t, to) /\ Quiet /\ pc[t] = from
             /\ pc' \in [Workers -> Steps] /\ loc' \in [Workers -> Locals]
             /\ req' \in [Ids -> Request] /\ reqRow' \in [Ids -> Request]
                /\ ev' \in [Ids -> Seq(Event)] /\ evRow' \in [Ids -> Seq(Event)] => TypeOK'
  <2>1. /\ pc' \in [Workers -> Steps] /\ loc' \in [Workers -> Locals]
        /\ UNCHANGED <<gates, issued, clock, dbErrors, crashes, overlap>>
        /\ pc[t] = from
        /\ \A u \in Workers :
              /\ pc'[u] = (IF u = t THEN to ELSE pc[u])
              /\ loc'[u] = (IF u = t /\ to = "idle" THEN IdleLocals ELSE loc[u])
    BY <1>0, <1>d, GotoMoves
  <2>2. QED
    BY <1>0, <2>1 DEF Moved, Quiet, TypeOK, gates
<1>1. CASE SaveMem(t)
  <2>1. Goto(t, "saveMem", "saveRow") /\ req' = [req EXCEPT ![l.id] = l.rec]
        /\ UNCHANGED <<reqRow, ev, evRow>>
    BY <1>1 DEF SaveMem
  <2>2. req' \in [Ids -> Request] /\ \A j \in Ids : req'[j] = IF j = l.id THEN l.rec ELSE req[j]
    BY <1>0, <1>b, <2>1 DEF TypeOK
  <2>3. TypeOK' /\ Moved(t, "saveRow") /\ Quiet /\ pc[t] = "saveMem"
    BY <1>0, <1>c, <1>d, <2>1, <2>2 DEF TypeOK
  <2>4. QED
    BY <1>0, <1>b, <2>1, <2>2, <2>3
<1>2. CASE SaveRow(t)
  <2>1. Goto(t, "saveRow", "evMem") /\ reqRow' = [reqRow EXCEPT ![l.id] = l.rec]
        /\ UNCHANGED <<req, ev, evRow>>
    BY <1>2 DEF SaveRow
  <2>2. reqRow' \in [Ids -> Request]
        /\ \A j \in Ids : reqRow'[j] = IF j = l.id THEN l.rec ELSE reqRow[j]
    BY <1>0, <1>b, <2>1 DEF TypeOK
  <2>3. TypeOK' /\ Moved(t, "evMem") /\ Quiet /\ pc[t] = "saveRow"
    BY <1>0, <1>c, <1>d, <2>1, <2>2 DEF TypeOK
  <2>4. QED
    BY <1>0, <1>b, <2>1, <2>2, <2>3
<1>3. CASE EvMem(t)
  <2> DEFINE e == EventOf(l)
  <2>1. Goto(t, "evMem", "evRow") /\ ev' = [ev EXCEPT ![l.id] = Append(@, e)]
        /\ UNCHANGED <<req, reqRow, evRow>>
    BY <1>3 DEF EvMem
  <2> HIDE DEF e
  <2>2. \A j \in Ids : ev'[j] = IF j = l.id THEN Append(ev[j], e) ELSE ev[j]
    BY <1>0, <2>1 DEF TypeOK
  <2>3. ev' \in [Ids -> Seq(Event)]
    BY <1>0, <1>b, <2>1, PutTypes DEF e
  <2>4. TypeOK' /\ Moved(t, "evRow") /\ Quiet /\ pc[t] = "evMem"
    BY <1>0, <1>c, <1>d, <2>1, <2>3 DEF TypeOK
  <2>5. QED
    BY <1>0, <1>b, <2>1, <2>2, <2>4 DEF e
<1>4. CASE EvRow(t)
  <2> DEFINE e == EventOf(l)
  <2>1. Goto(t, "evRow", "idle") /\ evRow' = [evRow EXCEPT ![l.id] = Append(@, e)]
        /\ UNCHANGED <<req, reqRow, ev>>
    BY <1>4 DEF EvRow
  <2> HIDE DEF e
  <2>3. evRow' \in [Ids -> Seq(Event)]
    BY <1>0, <1>b, <2>1, PutTypes DEF e
  <2>4. TypeOK' /\ Moved(t, "idle") /\ Quiet /\ pc[t] = "evRow"
    BY <1>0, <1>c, <1>d, <2>1, <2>3 DEF TypeOK
  <2>5. QED
    BY <1>0, <1>b, <2>1, <2>4
<1>5. QED
  BY <1>1, <1>2, <1>3, <1>4

LEMMA DeletionSteps ==
  ASSUME BasicInv, NEW t \in Workers, RemoveEvents(t) \/ RemoveRows(t)
  PROVE  LET l == loc[t] IN
         /\ l.f \in Findings /\ Quiet /\ TypeOK'
         /\ \/ /\ pc[t] = "delEv" /\ Moved(t, "delRow") /\ UNCHANGED <<req, reqRow, evRow>>
               /\ \A j \in Ids : ev'[j] = IF j \in l.ids THEN <<>> ELSE ev[j]
            \/ /\ pc[t] = "delRow" /\ Moved(t, "idle") /\ UNCHANGED <<req, ev>>
               /\ \A j \in Ids : reqRow'[j] = IF reqRow[j].f = l.f THEN NoRequest ELSE reqRow[j]
<1> DEFINE l == loc[t]
<1>0. TypeOK
  BY DEF BasicInv
<1>a. pc[t] \in Deleting /\ l.f \in Findings
  BY DEF RemoveEvents, RemoveRows, Goto, Deleting, BasicInv
<1>c. {"idle", "delEv", "delRow"} \subseteq Steps
  BY DEF Steps
<1>d. ASSUME NEW from, NEW to \in Steps, Goto(t, from, to)
      PROVE  /\ Moved(t, to) /\ Quiet /\ pc[t] = from
             /\ req' \in [Ids -> Request] /\ reqRow' \in [Ids -> Request]
                /\ ev' \in [Ids -> Seq(Event)] /\ evRow' \in [Ids -> Seq(Event)] => TypeOK'
  <2>1. /\ pc' \in [Workers -> Steps] /\ loc' \in [Workers -> Locals]
        /\ UNCHANGED <<gates, issued, clock, dbErrors, crashes, overlap>>
        /\ pc[t] = from
        /\ \A u \in Workers :
              /\ pc'[u] = (IF u = t THEN to ELSE pc[u])
              /\ loc'[u] = (IF u = t /\ to = "idle" THEN IdleLocals ELSE loc[u])
    BY <1>0, <1>d, GotoMoves
  <2>2. QED
    BY <1>0, <2>1 DEF Moved, Quiet, TypeOK, gates
<1>1. CASE RemoveEvents(t)
  <2>1. Goto(t, "delEv", "delRow") /\ UNCHANGED <<req, reqRow, evRow>>
        /\ ev' = [i \in Ids |-> IF i \in l.ids THEN <<>> ELSE ev[i]]
    BY <1>1 DEF RemoveEvents
  <2>2. ev' \in [Ids -> Seq(Event)] /\ \A j \in Ids : ev'[j] = IF j \in l.ids THEN <<>> ELSE ev[j]
    BY <1>0, <2>1 DEF TypeOK
  <2>3. TypeOK' /\ Moved(t, "delRow") /\ Quiet /\ pc[t] = "delEv"
    BY <1>0, <1>c, <1>d, <2>1, <2>2 DEF TypeOK
  <2>4. QED
    BY <1>a, <2>1, <2>2, <2>3
<1>2. CASE RemoveRows(t)
  <2>1. Goto(t, "delRow", "idle") /\ UNCHANGED <<req, ev>>
        /\ reqRow' = [i \in Ids |-> IF reqRow[i].f = l.f THEN NoRequest ELSE reqRow[i]]
        /\ evRow' = [i \in Ids |-> IF i \in l.ids THEN <<>> ELSE evRow[i]]
    BY <1>2 DEF RemoveRows
  <2>2. /\ reqRow' \in [Ids -> Request] /\ evRow' \in [Ids -> Seq(Event)]
        /\ \A j \in Ids : reqRow'[j] = IF reqRow[j].f = l.f THEN NoRequest ELSE reqRow[j]
    BY <1>0, <2>1, IdleTypes DEF TypeOK
  <2>3. TypeOK' /\ Moved(t, "idle") /\ Quiet /\ pc[t] = "delRow"
    BY <1>0, <1>c, <1>d, <2>1, <2>2 DEF TypeOK
  <2>4. QED
    BY <1>a, <2>1, <2>2, <2>3
<1>3. QED
  BY <1>1, <1>2

LEMMA ErrorStep ==
  ASSUME BasicInv, NEW t \in Workers, DbError(t)
  PROVE  /\ Moved(t, "idle") /\ UNCHANGED <<stores, gates, issued, clock, crashes, overlap>>
         /\ dbErrors' > 0 /\ TypeOK'
<1>1. TypeOK
  BY DEF BasicInv
<1>2. /\ pc' = [pc EXCEPT ![t] = "idle"] /\ loc' = [loc EXCEPT ![t] = IdleLocals]
      /\ dbErrors' = dbErrors + 1
      /\ UNCHANGED <<stores, gates, issued, clock, crashes, overlap>>
  BY DEF DbError
<1>3. Moved(t, "idle") /\ dbErrors' > 0 /\ dbErrors' \in Nat
  BY <1>1, <1>2 DEF TypeOK, Moved
<1>4. pc' \in [Workers -> Steps] /\ loc' \in [Workers -> Locals]
  BY <1>1, <1>2, IdleTypes DEF TypeOK, Steps
<1>5. TypeOK'
  BY <1>1, <1>2, <1>3, <1>4 DEF TypeOK, stores, gates
<1>6. QED
  BY <1>2, <1>3, <1>5

LEMMA RestartStep ==
  ASSUME BasicInv, Restart
  PROVE  /\ \A t \in Workers : pc'[t] = "idle" /\ loc'[t] = IdleLocals
         /\ req' = reqRow /\ crashes' > 0
         /\ UNCHANGED <<reqRow, evRow, gates, issued, clock, dbErrors, overlap>>
         /\ TypeOK'
<1>1. TypeOK
  BY DEF BasicInv
<1>2. /\ pc' = [t \in Workers |-> "idle"] /\ loc' = [t \in Workers |-> IdleLocals]
      /\ req' = reqRow /\ crashes' = crashes + 1
      /\ ev' = [i \in Ids |-> Rehydrated(evRow[i])]
      /\ UNCHANGED <<reqRow, evRow, gates, issued, clock, dbErrors, overlap>>
  BY DEF Restart
<1>3. ev' \in [Ids -> Seq(Event)]
  BY <1>1, <1>2, RehydratedType DEF TypeOK
<1>4. TypeOK'
  BY <1>1, <1>2, <1>3, IdleTypes DEF TypeOK, Steps, gates
<1>5. QED
  BY <1>1, <1>2, <1>4 DEF TypeOK

(* A handler with locals l starts, and its overlaps are remembered. *)
Started(t, step, l) ==
  /\ pc[t] = "idle"
  /\ \A u \in Workers : /\ pc'[u] = (IF u = t THEN step ELSE pc[u])
                        /\ loc'[u] = (IF u = t THEN l ELSE loc[u])
  /\ \A g \in Findings : overlap[g] \subseteq overlap'[g]
  /\ \A g \in Findings : g # l.f => overlap'[g] = overlap[g]
  /\ \A u \in Workers : pc[u] # "idle" /\ loc[u].f = l.f =>
       /\ overlap'[l.f] # {}
       /\ step = "delEv" \/ pc[u] \in Deleting => "deletion" \in overlap'[l.f]
  /\ UNCHANGED <<reqRow, ev, evRow, dbErrors, crashes>>

LEMMA RequestStep ==
  ASSUME BasicInv, NEW t \in Workers, NEW f \in Findings, NEW a \in Actions,
         RequestApproval(t, f, a)
  PROVE  /\ TypeOK' /\ issued < MaxRequests /\ issued' = issued + 1 /\ req' = req
         /\ FindActive(f, a) = {}
         /\ \E l \in Locals :
              /\ Started(t, "saveMem", l)
              /\ l.f = f /\ l.id = issued + 1 /\ l.previous = "none"
              /\ l.rec.f = f /\ l.rec.action = a /\ l.rec.status = "pending" /\ l.rec.version = 1
<1>0. TypeOK
  BY DEF BasicInv
<1>1. PICK l \in Locals :
           /\ Start(t, "saveMem", l)
           /\ l.f = f /\ l.id = issued + 1 /\ l.previous = "none"
           /\ l.rec.f = f /\ l.rec.action = a /\ l.rec.status = "pending" /\ l.rec.version = 1
           /\ issued < MaxRequests /\ issued' = issued + 1
           /\ FindActive(f, a) = {}
           /\ UNCHANGED <<stores, gates, dbErrors, crashes>>
  BY <1>0, RequestFacts
<1>2. "saveMem" \in Steps
  BY DEF Steps
<1>3. /\ Started(t, "saveMem", l)
      /\ pc' \in [Workers -> Steps] /\ loc' \in [Workers -> Locals] /\ clock' \in 0..MaxHandlers
      /\ overlap' \in [Findings -> SUBSET {"decisions", "deletion"}]
  BY <1>0, <1>1, <1>2, StartMoves DEF Started, stores
<1>4. issued' \in 0..MaxRequests
  BY <1>0, <1>1, ApprovalConstants DEF TypeOK
<1>5. TypeOK'
  BY <1>0, <1>1, <1>3, <1>4 DEF TypeOK, stores, gates
<1>6. QED
  BY <1>1, <1>3, <1>5 DEF stores

LEMMA TransitionStep ==
  ASSUME BasicInv, NEW t \in Workers, NEW i \in Ids, NEW new \in Active \cup Terminal,
         Transition(t, i, new)
  PROVE  /\ TypeOK' /\ issued' = issued /\ req' = req
         /\ req[i].f \in Findings /\ req[i].action \in Actions /\ req[i].status \in Active
         /\ \E l \in Locals :
              /\ Started(t, "saveMem", l)
              /\ l.f = req[i].f /\ l.id = i /\ l.previous = req[i].status
              /\ l.rec.f = req[i].f /\ l.rec.action = req[i].action /\ l.rec.status = new
              /\ new \in AllowedTransitions[req[i].status]
              /\ l.rec.version = IF req[i].status = "changes_requested"
                                 THEN req[i].version + 1 ELSE req[i].version
<1>0. TypeOK
  BY DEF BasicInv
<1>1. PICK l \in Locals :
           /\ Start(t, "saveMem", l)
           /\ l.f = req[i].f /\ l.id = i /\ l.previous = req[i].status
           /\ l.rec.f = req[i].f /\ l.rec.action = req[i].action /\ l.rec.status = new
           /\ l.rec.version = IF req[i].status = "changes_requested" /\ new = "pending"
                              THEN req[i].version + 1 ELSE req[i].version
           /\ req[i].status # "none" /\ new \in AllowedTransitions[req[i].status]
           /\ UNCHANGED <<stores, gates, issued, dbErrors, crashes>>
  BY <1>0, TransitionFacts
<1>2. "saveMem" \in Steps
  BY DEF Steps
<1>3. req[i].f \in Findings /\ req[i].action \in Actions /\ req[i].status \in Statuses
  BY <1>1 DEF BasicInv, Known, NoRequest
<1>4. /\ req[i].status \in Active
      /\ req[i].status = "changes_requested" => new = "pending"
  BY <1>1, <1>3 DEF AllowedTransitions, Statuses, Active, Terminal
<1>5. /\ Started(t, "saveMem", l)
      /\ pc' \in [Workers -> Steps] /\ loc' \in [Workers -> Locals] /\ clock' \in 0..MaxHandlers
      /\ overlap' \in [Findings -> SUBSET {"decisions", "deletion"}]
  BY <1>0, <1>1, <1>2, <1>3, StartMoves DEF Started, stores
<1>6. TypeOK'
  BY <1>0, <1>1, <1>5 DEF TypeOK, stores, gates
<1>7. QED
  BY <1>1, <1>3, <1>4, <1>5, <1>6 DEF stores

LEMMA RemoveStep ==
  ASSUME BasicInv, NEW t \in Workers, NEW f \in Findings, RemoveFinding(t, f)
  PROVE  /\ TypeOK' /\ issued' = issued
         /\ \A i \in Ids : req'[i] = IF req[i].f = f THEN NoRequest ELSE req[i]
         /\ \E l \in Locals :
              Started(t, "delEv", l) /\ l.f = f /\ l.ids = {i \in Ids : req[i].f = f}
<1>0. TypeOK
  BY DEF BasicInv
<1>1. PICK l \in Locals :
           /\ Start(t, "delEv", l)
           /\ l.f = f /\ l.ids = {i \in Ids : req[i].f = f}
           /\ req' = [i \in Ids |-> IF req[i].f = f THEN NoRequest ELSE req[i]]
           /\ validation' = [validation EXCEPT ![f] = "none"]
           /\ proof' = [proof EXCEPT ![f] = "none"]
           /\ UNCHANGED <<reqRow, ev, evRow, issued, dbErrors, crashes>>
  BY <1>0, RemoveFacts
<1>2. "delEv" \in Steps
  BY DEF Steps
<1>3. /\ Started(t, "delEv", l)
      /\ pc' \in [Workers -> Steps] /\ loc' \in [Workers -> Locals] /\ clock' \in 0..MaxHandlers
      /\ overlap' \in [Findings -> SUBSET {"decisions", "deletion"}]
  BY <1>0, <1>1, <1>2, StartMoves DEF Started
<1>4. req' \in [Ids -> Request]
  BY <1>0, <1>1, IdleTypes DEF TypeOK
<1>5. /\ validation' \in [Findings -> {"none", "true_positive", "false_positive"}]
      /\ proof' \in [Findings -> {"none", "verified", "not_verified"}]
  BY <1>0, <1>1 DEF TypeOK
<1>6. TypeOK'
  BY <1>0, <1>1, <1>3, <1>4, <1>5 DEF TypeOK
<1>7. QED
  BY <1>1, <1>3, <1>6

(* The gates leave the rest alone. *)
GateStep ==
  \E f \in Findings :
    \/ \E v \in {"true_positive", "false_positive"} : Validate(f, v)
    \/ \E s \in {"verified", "not_verified"} : Prove(f, s)

LEMMA GateType ==
  ASSUME TypeOK, GateStep
  PROVE  TypeOK' /\ UNCHANGED <<stores, pc, loc, issued, clock, dbErrors, crashes, overlap>>
<1>1. UNCHANGED <<stores, pc, loc, issued, clock, dbErrors, crashes, overlap>>
  BY DEF GateStep, Validate, Prove
<1>2. validation' \in [Findings -> {"none", "true_positive", "false_positive"}]
  BY DEF GateStep, Validate, Prove, TypeOK
<1>3. proof' \in [Findings -> {"none", "verified", "not_verified"}]
  BY DEF GateStep, Validate, Prove, TypeOK
<1>4. QED
  BY <1>1, <1>2, <1>3 DEF TypeOK, stores

-----------------------------------------------------------------------------
LEMMA BasicStep == BasicInv /\ [Next]_vars => BasicInv'
<1> SUFFICES ASSUME BasicInv, [Next]_vars PROVE BasicInv'
  OBVIOUS
<1>0. TypeOK /\ issued \in Nat
  BY DEF BasicInv, TypeOK
<1> USE DEF Deciding, Deleting
<1>1. CASE UNCHANGED vars
  BY <1>1 DEF vars, stores, gates, BasicInv, TypeOK, Decision
<1>2. CASE GateStep
  <2>1. TypeOK' /\ UNCHANGED <<req, reqRow, ev, pc, loc, issued, crashes>>
    BY <1>0, <1>2, GateType DEF stores
  <2>2. QED
    BY <2>1 DEF BasicInv, Decision
<1>3. ASSUME NEW t \in Workers, NEW f \in Findings, NEW a \in Actions, RequestApproval(t, f, a)
      PROVE  BasicInv'
  <2>1. /\ TypeOK' /\ issued < MaxRequests /\ issued' = issued + 1 /\ req' = req
    BY <1>3, RequestStep
  <2>2. PICK l \in Locals :
              /\ Started(t, "saveMem", l)
              /\ l.f = f /\ l.id = issued + 1 /\ l.previous = "none"
              /\ l.rec.f = f /\ l.rec.action = a /\ l.rec.status = "pending" /\ l.rec.version = 1
    BY <1>3, RequestStep
  <2>3. UNCHANGED <<reqRow, ev, crashes>>
    BY <2>2 DEF Started
  <2>4. Decision(l) /\ l.id <= issued'
    BY <1>0, <2>1, <2>2, ApprovalConstants DEF Decision, Statuses, Active, Ids, TypeOK
  <2>5. ASSUME NEW u \in Workers
        PROVE  /\ pc'[u] \in Deciding => Decision(loc'[u]) /\ loc'[u].id <= issued'
               /\ pc'[u] \in Deleting => loc'[u].f \in Findings
               /\ pc'[u] \in Deleting => \A i \in loc'[u].ids : i <= issued'
    <3>0. loc[u].id \in Nat /\ \A i \in loc[u].ids : i \in Nat
      BY <1>0, ApprovalConstants DEF TypeOK, Locals, Ids
    <3>1. CASE u = t
      BY <2>2, <2>4, <3>1 DEF Started
    <3>2. CASE u # t
      BY <1>0, <2>1, <2>2, <3>0, <3>2 DEF Started, BasicInv
    <3>3. QED
      BY <3>1, <3>2
  <2>6. \A i \in Ids : i > issued' => i > issued
    BY <1>0, <2>1 DEF Ids
  <2>7. QED
    BY <2>1, <2>3, <2>5, <2>6 DEF BasicInv
<1>4. ASSUME NEW t \in Workers, NEW i \in Ids, NEW new \in Active \cup Terminal,
             Transition(t, i, new)
      PROVE  BasicInv'
  <2>1. /\ TypeOK' /\ issued' = issued /\ req' = req
        /\ req[i].f \in Findings /\ req[i].action \in Actions /\ req[i].status \in Active
    BY <1>4, TransitionStep
  <2>2. PICK l \in Locals :
              /\ Started(t, "saveMem", l)
              /\ l.f = req[i].f /\ l.id = i /\ l.previous = req[i].status
              /\ l.rec.f = req[i].f /\ l.rec.action = req[i].action /\ l.rec.status = new
              /\ new \in AllowedTransitions[req[i].status]
    BY <1>4, TransitionStep
  <2>3. UNCHANGED <<reqRow, ev, crashes>>
    BY <2>2 DEF Started
  <2>a. i <= issued
    BY <1>0, <2>1 DEF BasicInv, NoRequest, Ids, Active
  <2>4. Decision(l) /\ l.id <= issued'
    BY <2>1, <2>2, <2>a DEF Decision, Statuses
  <2>5. ASSUME NEW u \in Workers
        PROVE  /\ pc'[u] \in Deciding => Decision(loc'[u]) /\ loc'[u].id <= issued'
               /\ pc'[u] \in Deleting => loc'[u].f \in Findings
               /\ pc'[u] \in Deleting => \A j \in loc'[u].ids : j <= issued'
    BY <2>1, <2>2, <2>4 DEF Started, BasicInv
  <2>6. QED
    BY <2>1, <2>3, <2>5 DEF BasicInv
<1>5. ASSUME NEW t \in Workers, NEW f \in Findings, RemoveFinding(t, f)
      PROVE  BasicInv'
  <2>1. /\ TypeOK' /\ issued' = issued
        /\ \A i \in Ids : req'[i] = IF req[i].f = f THEN NoRequest ELSE req[i]
    BY <1>5, RemoveStep
  <2>2. PICK l \in Locals :
              Started(t, "delEv", l) /\ l.f = f /\ l.ids = {i \in Ids : req[i].f = f}
    BY <1>5, RemoveStep
  <2>3. UNCHANGED <<reqRow, ev, crashes>>
    BY <2>2 DEF Started
  <2>4. \A i \in l.ids : i <= issued
    BY <1>0, <2>2, ApprovalConstants DEF BasicInv, NoRequest, Ids
  <2>5. ASSUME NEW u \in Workers
        PROVE  /\ pc'[u] \in Deciding => Decision(loc'[u]) /\ loc'[u].id <= issued'
               /\ pc'[u] \in Deleting => loc'[u].f \in Findings
               /\ pc'[u] \in Deleting => \A j \in loc'[u].ids : j <= issued'
    BY <2>1, <2>2, <2>4 DEF Started, BasicInv
  <2>6. \A i \in Ids : Known(req'[i]) /\ (i > issued => req'[i] = NoRequest)
    BY <2>1 DEF BasicInv, Known
  <2>7. QED
    BY <2>1, <2>3, <2>5, <2>6 DEF BasicInv
<1>6. ASSUME NEW t \in Workers, SaveMem(t) \/ SaveRow(t) \/ EvMem(t) \/ EvRow(t)
      PROVE  BasicInv'
  <2> DEFINE l == loc[t]
  <2>1. /\ Decision(l) /\ Quiet /\ TypeOK'
        /\ \/ /\ pc[t] = "saveMem" /\ Moved(t, "saveRow") /\ UNCHANGED <<reqRow, ev>>
              /\ \A j \in Ids : req'[j] = IF j = l.id THEN l.rec ELSE req[j]
           \/ /\ pc[t] = "saveRow" /\ Moved(t, "evMem") /\ UNCHANGED <<req, ev>>
              /\ \A j \in Ids : reqRow'[j] = IF j = l.id THEN l.rec ELSE reqRow[j]
           \/ /\ pc[t] = "evMem" /\ Moved(t, "evRow") /\ UNCHANGED <<req, reqRow>>
              /\ \A j \in Ids : ev'[j] = IF j = l.id THEN Append(ev[j], EventOf(l)) ELSE ev[j]
           \/ /\ pc[t] = "evRow" /\ Moved(t, "idle") /\ UNCHANGED <<req, reqRow, ev>>
    BY <1>6, DecisionSteps
  <2>2. issued' = issued /\ crashes' = crashes
    BY <2>1 DEF Quiet
  <2>3. Known(l.rec) /\ l.id <= issued
    BY <2>1 DEF Decision, Known, BasicInv
  <2>a. ~ (l.id > issued)
    BY <1>0, <2>1, <2>3 DEF Decision, Ids
  <2>4. \A u \in Workers : pc'[u] # "idle" => loc'[u] = loc[u]
    BY <2>1 DEF Moved
  <2>5. \A u \in Workers : /\ pc'[u] \in Deciding => pc[u] \in Deciding
                           /\ pc'[u] \in Deleting => pc[u] \in Deleting
    BY <2>1 DEF Moved
  <2>6. \A i \in Ids : Known(req'[i]) /\ Known(reqRow'[i])
    BY <2>1, <2>3 DEF BasicInv
  <2>7. \A i \in Ids : i > issued => /\ req'[i] = NoRequest /\ reqRow'[i] = NoRequest
                                     /\ crashes = 0 => ev'[i] = <<>>
    BY <2>1, <2>a DEF BasicInv
  <2> HIDE DEF l
  <2>8. QED
    BY <2>1, <2>2, <2>4, <2>5, <2>6, <2>7 DEF BasicInv
<1>7. ASSUME NEW t \in Workers, RemoveEvents(t) \/ RemoveRows(t)
      PROVE  BasicInv'
  <2> DEFINE l == loc[t]
  <2>1. /\ Quiet /\ TypeOK'
        /\ \/ /\ pc[t] = "delEv" /\ Moved(t, "delRow") /\ UNCHANGED <<req, reqRow>>
              /\ \A j \in Ids : ev'[j] = IF j \in l.ids THEN <<>> ELSE ev[j]
           \/ /\ pc[t] = "delRow" /\ Moved(t, "idle") /\ UNCHANGED <<req, ev>>
              /\ \A j \in Ids : reqRow'[j] = IF reqRow[j].f = l.f THEN NoRequest ELSE reqRow[j]
    BY <1>7, DeletionSteps
  <2>2. issued' = issued /\ crashes' = crashes
    BY <2>1 DEF Quiet
  <2>4. \A u \in Workers : pc'[u] # "idle" => loc'[u] = loc[u]
    BY <2>1 DEF Moved
  <2>5. \A u \in Workers : /\ pc'[u] \in Deciding => pc[u] \in Deciding
                           /\ pc'[u] \in Deleting => pc[u] \in Deleting
    BY <2>1 DEF Moved
  <2>6. \A i \in Ids : Known(req'[i]) /\ Known(reqRow'[i])
    BY <2>1 DEF BasicInv, Known
  <2>7. \A i \in Ids : i > issued => /\ req'[i] = NoRequest /\ reqRow'[i] = NoRequest
                                     /\ crashes = 0 => ev'[i] = <<>>
    BY <2>1 DEF BasicInv
  <2>8. QED
    BY <2>1, <2>2, <2>4, <2>5, <2>6, <2>7 DEF BasicInv
<1>8. ASSUME NEW t \in Workers, DbError(t)
      PROVE  BasicInv'
  <2>1. Moved(t, "idle") /\ UNCHANGED <<req, reqRow, ev, issued, crashes>> /\ TypeOK'
    BY <1>8, ErrorStep DEF stores
  <2>2. \A u \in Workers : pc'[u] # "idle" => pc'[u] = pc[u] /\ loc'[u] = loc[u]
    BY <2>1 DEF Moved
  <2>3. QED
    BY <2>1, <2>2 DEF BasicInv
<1>9. CASE Restart
  <2>1. /\ \A t \in Workers : pc'[t] = "idle" /\ loc'[t] = IdleLocals
        /\ req' = reqRow /\ crashes' > 0 /\ UNCHANGED <<reqRow, issued>> /\ TypeOK'
    BY <1>9, RestartStep
  <2>2. QED
    BY <2>1 DEF BasicInv
<1>10. QED
  BY <1>1, <1>2, <1>3, <1>4, <1>5, <1>6, <1>7, <1>8, <1>9
     DEF Next, Handle, Continue, GateStep

(* The records, trails and locals keep their types through every handler,  *)
(* failed commit and restart; a rehydrated trail is a trail                *)
(* (approval/store.py set_factory).                                        *)
THEOREM ApprovalTypes == Spec => []TypeOK
<1>1. BasicInv => TypeOK
  BY DEF BasicInv
<1>2. QED
  BY <1>1, InitBasic, BasicStep, PTL DEF Spec

-----------------------------------------------------------------------------
(* What a step is, as far as the requests, the trails in memory and the    *)
(* threads are concerned. l is what thread t knows.                        *)
Frame == UNCHANGED <<issued, dbErrors, crashes, overlap>>

StillShape == UNCHANGED <<req, reqRow, ev, pc, loc>> /\ Frame

RequestShape(t, l) ==
  /\ Started(t, "saveMem", l) /\ UNCHANGED req /\ issued' = issued + 1
  /\ l.f \in Findings /\ l.id \in Ids /\ l.id = issued + 1 /\ l.previous = "none"
  /\ l.rec.f = l.f /\ l.rec.status = "pending" /\ l.rec.version = 1
  /\ \A i \in Ids : req[i].f = l.f /\ req[i].action = l.rec.action => req[i].status \notin Active
  /\ ~ AllowReRequest => \A i \in Ids : req[i].f = l.f /\ req[i].action = l.rec.action =>
                           Passed(req, l.f, l.rec.action, i, l.id)

TransitionShape(t, l) ==
  /\ Started(t, "saveMem", l) /\ UNCHANGED <<req, issued>>
  /\ l.id \in Ids /\ l.f \in Findings /\ l.f = req[l.id].f
  /\ l.previous = req[l.id].status /\ l.previous \in Active
  /\ l.rec.f = l.f /\ l.rec.action = req[l.id].action
  /\ l.rec.status \in AllowedTransitions[l.previous]
  /\ l.rec.version = IF l.previous = "changes_requested"
                     THEN req[l.id].version + 1 ELSE req[l.id].version

RemoveShape(t, l) ==
  /\ Started(t, "delEv", l) /\ UNCHANGED issued
  /\ l.f \in Findings /\ l.ids = {i \in Ids : req[i].f = l.f}
  /\ \A i \in Ids : req'[i] = IF req[i].f = l.f THEN NoRequest ELSE req[i]

SaveMemShape(t, l) ==
  /\ pc[t] = "saveMem" /\ Moved(t, "saveRow") /\ UNCHANGED <<reqRow, ev>> /\ Frame /\ Decision(l)
  /\ \A j \in Ids : req'[j] = IF j = l.id THEN l.rec ELSE req[j]

SaveRowShape(t, l) ==
  /\ pc[t] = "saveRow" /\ Moved(t, "evMem") /\ UNCHANGED <<req, ev>> /\ Frame /\ Decision(l)
  /\ \A j \in Ids : reqRow'[j] = IF j = l.id THEN l.rec ELSE reqRow[j]

EvMemShape(t, l) ==
  /\ pc[t] = "evMem" /\ Moved(t, "evRow") /\ UNCHANGED <<req, reqRow>> /\ Frame /\ Decision(l)
  /\ \A j \in Ids : ev'[j] = IF j = l.id THEN Append(ev[j], EventOf(l)) ELSE ev[j]

EvRowShape(t, l) ==
  pc[t] = "evRow" /\ Moved(t, "idle") /\ UNCHANGED <<req, reqRow, ev>> /\ Frame

DelEvShape(t, l) ==
  /\ pc[t] = "delEv" /\ Moved(t, "delRow") /\ UNCHANGED <<req, reqRow>> /\ Frame
  /\ l.f \in Findings
  /\ \A j \in Ids : ev'[j] = IF j \in l.ids THEN <<>> ELSE ev[j]

DelRowShape(t, l) ==
  /\ pc[t] = "delRow" /\ Moved(t, "idle") /\ UNCHANGED <<req, ev>> /\ Frame
  /\ l.f \in Findings
  /\ \A j \in Ids : reqRow'[j] = IF reqRow[j].f = l.f THEN NoRequest ELSE reqRow[j]

ErrorShape(t) ==
  /\ Moved(t, "idle") /\ dbErrors' > 0
  /\ UNCHANGED <<req, reqRow, ev, issued, crashes, overlap>>

RestartShape ==
  /\ \A t \in Workers : pc'[t] = "idle" /\ loc'[t] = IdleLocals
  /\ req' = reqRow /\ crashes' > 0 /\ UNCHANGED <<reqRow, issued, dbErrors, overlap>>

StartShape(t, l) == RequestShape(t, l) \/ TransitionShape(t, l) \/ RemoveShape(t, l)

WriteShape(t, l) ==
  \/ SaveMemShape(t, l) \/ SaveRowShape(t, l) \/ EvMemShape(t, l) \/ EvRowShape(t, l)
  \/ DelEvShape(t, l) \/ DelRowShape(t, l)

StepShape ==
  \/ StillShape \/ RestartShape
  \/ \E t \in Workers : ErrorShape(t) \/ WriteShape(t, loc[t]) \/ \E l \in Locals : StartShape(t, l)

LEMMA GreatestElement ==
  ASSUME NEW n \in Nat, NEW S \in SUBSET (1..n), S # {}
  PROVE  \E x \in S : \A y \in S : y <= x
<1> DEFINE T == {m \in Nat : n - m \in S}
<1>1. PICK s \in S : TRUE
  OBVIOUS
<1>2. s \in 1..n /\ n - s \in Nat /\ n - (n - s) = s
  OBVIOUS
<1>3. T \in SUBSET Nat /\ T # {}
  BY <1>1, <1>2
<1>4. PICK m \in T : \A k \in T : <<k, m>> \notin OpToRel(<, Nat)
  <2> HIDE DEF T
  <2>1. QED
    BY <1>3, NatLessThanWellFounded, WFMin
<1>5. OpToRel(<, Nat) = {ss \in Nat \X Nat : ss[1] < ss[2]}
  BY Zenon DEF OpToRel
<1>6. \A k \in T : <<k, m>> \notin {ss \in Nat \X Nat : ss[1] < ss[2]}
  <2> HIDE DEF T
  <2>1. QED
    BY <1>4, <1>5, Zenon
<1>7. m \in Nat /\ n - m \in S
  BY <1>4
<1>8. ASSUME NEW y \in S PROVE y <= n - m
  <2>1. y \in 1..n /\ n - y \in Nat /\ n - (n - y) = y
    OBVIOUS
  <2>2. n - y \in T
    BY <2>1
  <2>3. PICK k \in Nat : k = n - y
    BY <2>1
  <2>4. <<k, m>> \in Nat \X Nat /\ <<k, m>>[1] = k /\ <<k, m>>[2] = m
    BY <1>7
  <2>5. ~ (k < m)
    BY <1>6, <2>2, <2>3, <2>4
  <2>6. QED
    BY <1>7, <2>1, <2>3, <2>5
<1>9. QED
  BY <1>7, <1>8

(* The request that lets a repeated one pass: the latest, not yet decided. *)
LEMMA RepeatedPastAnother ==
  ASSUME BasicInv, ~ AllowReRequest, NEW t \in Workers, NEW f \in Findings, NEW a \in Actions,
         RequestApproval(t, f, a), NEW i \in Ids, req[i].f = f, req[i].action = a
  PROVE  Passed(req, f, a, i, issued + 1)
<1> DEFINE mine == {j \in Ids : req[j].f = f}
           top == CHOOSE j \in mine : \A k \in mine : k <= j
<1>1. /\ FindActive(f, a) = {} /\ Latest(f).status \notin Terminal
  BY DEF RequestApproval
<1>2. mine \in SUBSET (1..MaxRequests) /\ mine # {} /\ MaxRequests \in Nat
  BY ApprovalConstants DEF Ids
<1>3. \E x \in mine : \A y \in mine : y <= x
  <2> HIDE DEF mine
  <2>1. QED
    BY <1>2, GreatestElement
<1>4. top \in mine /\ \A k \in mine : k <= top
  <2> HIDE DEF mine
  <2>1. QED
    BY <1>3
<1>5. Latest(f) = req[top]
  BY <1>2 DEF Latest
<1>6. PICK k \in Ids : k = top /\ req[k].f = f
  BY <1>4
<1>7. /\ i <= k /\ k <= issued
  <2>1. i \in mine
    OBVIOUS
  <2>2. i <= k
    <3> HIDE DEF mine, top
    <3>1. QED
      BY <1>4, <1>6, <2>1
  <2>3. f # "none" /\ NoRequest.f = "none"
    BY ApprovalConstants DEF NoRequest
  <2>4. ~ (k > issued)
    BY <1>6, <2>3 DEF BasicInv
  <2>5. k \in Int /\ issued \in Int
    BY ApprovalConstants DEF BasicInv, TypeOK, Ids
  <2>6. QED
    BY <2>2, <2>4, <2>5
<1>8. req[k].status \notin Terminal
  BY <1>1, <1>5, <1>6
<1>9. req[k].status \in Active
  <2>1. f # "none" /\ NoRequest.f = "none"
    BY ApprovalConstants DEF NoRequest
  <2>2. Known(req[k])
    BY DEF BasicInv
  <2>3. QED
    BY <1>6, <1>8, <2>1, <2>2 DEF Known, Statuses
<1>10. req[k].action # a
  BY <1>1, <1>6, <1>9 DEF FindActive
<1>11. i # k
  BY <1>10
<1>12. i < k /\ k < issued + 1
  BY <1>7, <1>11, ApprovalConstants DEF BasicInv, TypeOK, Ids
<1>13. QED
  BY <1>6, <1>10, <1>12 DEF Passed

LEMMA StepShapes == BasicInv /\ [Next]_vars => StepShape
<1> SUFFICES ASSUME BasicInv, [Next]_vars PROVE StepShape
  OBVIOUS
<1>0. TypeOK
  BY DEF BasicInv
<1>1. CASE UNCHANGED vars
  BY <1>1 DEF vars, stores, StepShape, StillShape, Frame
<1>2. CASE GateStep
  BY <1>0, <1>2, GateType DEF stores, StepShape, StillShape, Frame
<1>3. ASSUME NEW t \in Workers, NEW f \in Findings, NEW a \in Actions, RequestApproval(t, f, a)
      PROVE  StepShape
  <2>1. /\ issued < MaxRequests /\ issued' = issued + 1 /\ req' = req /\ FindActive(f, a) = {}
    BY <1>3, RequestStep
  <2>2. PICK l \in Locals :
              /\ Started(t, "saveMem", l)
              /\ l.f = f /\ l.id = issued + 1 /\ l.previous = "none"
              /\ l.rec.f = f /\ l.rec.action = a /\ l.rec.status = "pending" /\ l.rec.version = 1
    BY <1>3, RequestStep
  <2>3. issued + 1 \in Ids
    BY <1>0, <2>1, ApprovalConstants DEF TypeOK, Ids
  <2>4. \A i \in Ids : req[i].f = f /\ req[i].action = a => req[i].status \notin Active
    BY <2>1 DEF FindActive
  <2>a. ASSUME ~ AllowReRequest, NEW i \in Ids, req[i].f = f, req[i].action = a
        PROVE  Passed(req, f, a, i, issued + 1)
    BY <1>3, <2>a, RepeatedPastAnother
  <2>5. RequestShape(t, l)
    BY <2>1, <2>2, <2>3, <2>4, <2>a DEF RequestShape
  <2>6. QED
    BY <2>5 DEF StepShape, StartShape
<1>4. ASSUME NEW t \in Workers, NEW i \in Ids, NEW new \in Active \cup Terminal,
             Transition(t, i, new)
      PROVE  StepShape
  <2>1. /\ issued' = issued /\ req' = req
        /\ req[i].f \in Findings /\ req[i].action \in Actions /\ req[i].status \in Active
    BY <1>4, TransitionStep
  <2>2. PICK l \in Locals :
              /\ Started(t, "saveMem", l)
              /\ l.f = req[i].f /\ l.id = i /\ l.previous = req[i].status
              /\ l.rec.f = req[i].f /\ l.rec.action = req[i].action /\ l.rec.status = new
              /\ new \in AllowedTransitions[req[i].status]
              /\ l.rec.version = IF req[i].status = "changes_requested"
                                 THEN req[i].version + 1 ELSE req[i].version
    BY <1>4, TransitionStep
  <2>3. TransitionShape(t, l)
    BY <2>1, <2>2 DEF TransitionShape
  <2>4. QED
    BY <2>3 DEF StepShape, StartShape
<1>5. ASSUME NEW t \in Workers, NEW f \in Findings, RemoveFinding(t, f)
      PROVE  StepShape
  <2>1. PICK l \in Locals :
              Started(t, "delEv", l) /\ l.f = f /\ l.ids = {i \in Ids : req[i].f = f}
    BY <1>5, RemoveStep
  <2>2. issued' = issued /\ \A i \in Ids : req'[i] = IF req[i].f = f THEN NoRequest ELSE req[i]
    BY <1>5, RemoveStep
  <2>3. RemoveShape(t, l)
    BY <2>1, <2>2 DEF RemoveShape
  <2>4. QED
    BY <2>3 DEF StepShape, StartShape
<1>6. ASSUME NEW t \in Workers, SaveMem(t) \/ SaveRow(t) \/ EvMem(t) \/ EvRow(t)
      PROVE  StepShape
  <2>1. WriteShape(t, loc[t])
    BY <1>6, DecisionSteps
       DEF WriteShape, SaveMemShape, SaveRowShape, EvMemShape, EvRowShape, Quiet, Frame
  <2>2. QED
    BY <2>1 DEF StepShape
<1>7. ASSUME NEW t \in Workers, RemoveEvents(t) \/ RemoveRows(t)
      PROVE  StepShape
  <2>1. WriteShape(t, loc[t])
    BY <1>7, DeletionSteps DEF WriteShape, DelEvShape, DelRowShape, Quiet, Frame
  <2>2. QED
    BY <2>1 DEF StepShape
<1>8. ASSUME NEW t \in Workers, DbError(t)
      PROVE  StepShape
  <2>1. ErrorShape(t)
    BY <1>8, ErrorStep DEF ErrorShape, stores
  <2>2. QED
    BY <2>1 DEF StepShape
<1>9. CASE Restart
  BY <1>9, RestartStep DEF StepShape, RestartShape
<1>10. QED
  BY <1>1, <1>2, <1>3, <1>4, <1>5, <1>6, <1>7, <1>8, <1>9
     DEF Next, Handle, Continue, GateStep

-----------------------------------------------------------------------------
(* Ownership and overlaps.                                                 *)

LEMMA OwnerStep == BasicInv /\ OwnerInv /\ StepShape => OwnerInv'
<1> SUFFICES ASSUME BasicInv, OwnerInv, StepShape PROVE OwnerInv'
  OBVIOUS
<1>0. /\ "none" \notin Findings /\ NoRequest.f = "none" /\ issued \in Nat /\ Ids \subseteq Nat
      /\ \A u \in Workers : loc[u].id \in Nat /\ loc[u].ids \subseteq Ids
  BY ApprovalConstants DEF NoRequest, BasicInv, TypeOK, Ids, Locals
<1>a. \A u \in Workers : pc[u] \in Deciding =>
        loc[u].id \in Ids /\ loc[u].f \in Findings /\ loc[u].rec.f = loc[u].f /\ loc[u].id <= issued
  BY DEF BasicInv, Decision
<1>b. Deciding \cap Deleting = {} /\ "idle" \notin Deciding \cup Deleting
  BY DEF Deciding, Deleting
<1>1. CASE StillShape
  BY <1>1 DEF StillShape, OwnerInv
<1>2. CASE RestartShape
  BY <1>2, <1>b DEF RestartShape, OwnerInv
<1>3. ASSUME NEW t \in Workers, ErrorShape(t) \/ EvRowShape(t, loc[t])
      PROVE  OwnerInv'
  <2>1. /\ UNCHANGED <<req, reqRow>>
        /\ \A u \in Workers : pc'[u] # "idle" => pc'[u] = pc[u] /\ loc'[u] = loc[u]
    BY <1>3 DEF ErrorShape, EvRowShape, Moved
  <2>2. QED
    BY <2>1, <1>b DEF OwnerInv
<1>4. ASSUME NEW t \in Workers, SaveMemShape(t, loc[t]) \/ SaveRowShape(t, loc[t])
      PROVE  OwnerInv'
  <2> DEFINE l == loc[t]
  <2>1. /\ \A u \in Workers : loc'[u] = loc[u]
        /\ \A u \in Workers : pc'[u] \in Deciding => pc[u] \in Deciding
        /\ \A u \in Workers : pc'[u] \in Deleting => pc[u] \in Deleting
        /\ pc[t] \in Deciding
    BY <1>4 DEF SaveMemShape, SaveRowShape, Moved, Deciding, Deleting
  <2>2. \A j \in Ids : /\ req'[j].f = req[j].f \/ (j = l.id /\ req'[j].f = l.f)
                       /\ reqRow'[j].f = reqRow[j].f \/ (j = l.id /\ reqRow'[j].f = l.f)
    BY <1>4, <1>a, <2>1 DEF SaveMemShape, SaveRowShape
  <2> HIDE DEF l
  <2>3. l = loc[t]
    BY DEF l
  <2>4. \A i \in Ids : "none" \in {req'[i].f, reqRow'[i].f} \/ req'[i].f = reqRow'[i].f
    BY <1>0, <1>a, <2>1, <2>2, <2>3 DEF OwnerInv
  <2>5. \A u \in Workers : pc'[u] \in Deciding =>
          {req'[loc'[u].id].f, reqRow'[loc'[u].id].f} \subseteq {loc'[u].f, "none"}
    BY <1>0, <1>a, <2>1, <2>2, <2>3 DEF OwnerInv
  <2>6. ASSUME NEW u \in Workers, pc'[u] \in Deleting, NEW i \in loc'[u].ids
        PROVE  {req'[i].f, reqRow'[i].f} \subseteq {loc'[u].f, "none"}
    <3>1. pc[u] \in Deleting /\ loc'[u] = loc[u] /\ i \in loc[u].ids /\ i \in Ids
      BY <1>0, <2>1, <2>6
    <3>2. {req[i].f, reqRow[i].f} \subseteq {loc[u].f, "none"}
      BY <3>1 DEF OwnerInv
    <3>3. i = l.id => l.f = loc[u].f
      BY <2>1, <2>3, <3>1 DEF OwnerInv
    <3>4. QED
      BY <2>2, <3>1, <3>2, <3>3
  <2>7. QED
    BY <2>1, <2>4, <2>5, <2>6 DEF OwnerInv
<1>5. ASSUME NEW t \in Workers,
             EvMemShape(t, loc[t]) \/ DelEvShape(t, loc[t]) \/ DelRowShape(t, loc[t])
      PROVE  OwnerInv'
  <2>1. /\ \A u \in Workers : pc'[u] # "idle" => loc'[u] = loc[u]
        /\ \A u \in Workers : pc'[u] \in Deciding => pc[u] \in Deciding
        /\ \A u \in Workers : pc'[u] \in Deleting => pc[u] \in Deleting
    BY <1>5 DEF EvMemShape, DelEvShape, DelRowShape, Moved, Deciding, Deleting
  <2>2. req' = req /\ \A j \in Ids : reqRow'[j].f \in {reqRow[j].f, "none"}
    BY <1>5, <1>0 DEF EvMemShape, DelEvShape, DelRowShape
  <2>3. QED
    <3>1. \A u \in Workers : pc'[u] \in Deciding \cup Deleting => loc'[u] = loc[u]
      BY <1>b, <2>1
    <3>2. \A u \in Workers : pc'[u] \in Deciding =>
            {req'[loc'[u].id].f, reqRow'[loc'[u].id].f} \subseteq {loc'[u].f, "none"}
      BY <1>a, <2>1, <2>2, <3>1 DEF OwnerInv
    <3>3. ASSUME NEW u \in Workers, pc'[u] \in Deleting, NEW i \in loc'[u].ids
          PROVE  {req'[i].f, reqRow'[i].f} \subseteq {loc'[u].f, "none"}
      <4>1. pc[u] \in Deleting /\ loc'[u] = loc[u] /\ i \in loc[u].ids /\ i \in Ids
        BY <1>0, <2>1, <3>1, <3>3
      <4>2. {req[i].f, reqRow[i].f} \subseteq {loc[u].f, "none"}
        BY <4>1 DEF OwnerInv
      <4>3. QED
        BY <2>2, <4>1, <4>2
    <3>4. \A i \in Ids : "none" \in {req'[i].f, reqRow'[i].f} \/ req'[i].f = reqRow'[i].f
      BY <2>2 DEF OwnerInv
    <3>5. \A u, w \in Workers :
            pc'[u] \in Deciding /\ pc'[w] \in Deleting /\ loc'[u].id \in loc'[w].ids
              => loc'[u].f = loc'[w].f
      BY <2>1, <3>1 DEF OwnerInv
    <3>6. \A u, w \in Workers :
            pc'[u] \in Deciding /\ pc'[w] \in Deciding /\ loc'[u].id = loc'[w].id
              => loc'[u].f = loc'[w].f
      BY <2>1, <3>1 DEF OwnerInv
    <3>7. QED
      BY <3>2, <3>3, <3>4, <3>5, <3>6 DEF OwnerInv
<1>6. ASSUME NEW t \in Workers, NEW l \in Locals, RequestShape(t, l) \/ TransitionShape(t, l)
      PROVE  OwnerInv'
  <2>1. /\ UNCHANGED <<req, reqRow>> /\ l.id \in Ids /\ l.f \in Findings
        /\ \A u \in Workers : /\ pc'[u] = (IF u = t THEN "saveMem" ELSE pc[u])
                              /\ loc'[u] = (IF u = t THEN l ELSE loc[u])
    BY <1>6 DEF RequestShape, TransitionShape, Started
  <2>2. /\ {req[l.id].f, reqRow[l.id].f} \subseteq {l.f, "none"}
        /\ \A u \in Workers : pc[u] \in Deciding /\ loc[u].id = l.id => loc[u].f = l.f
        /\ \A u \in Workers : pc[u] \in Deleting /\ l.id \in loc[u].ids => loc[u].f = l.f
    <3>1. CASE RequestShape(t, l)
      <4>1. l.id = issued + 1 /\ l.id > issued
        BY <1>0, <3>1 DEF RequestShape
      <4>2. req[l.id] = NoRequest /\ reqRow[l.id] = NoRequest
        BY <2>1, <4>1 DEF BasicInv
      <4>3. \A u \in Workers : pc[u] \in Deciding => loc[u].id # l.id
        BY <1>0, <1>a, <4>1
      <4>4. \A u \in Workers : pc[u] \in Deleting => l.id \notin loc[u].ids
        BY <1>0, <4>1 DEF BasicInv
      <4>5. QED
        BY <1>0, <4>2, <4>3, <4>4
    <3>2. CASE TransitionShape(t, l)
      <4>1. req[l.id].f = l.f /\ l.f # "none"
        BY <1>0, <2>1, <3>2 DEF TransitionShape
      <4>2. {req[l.id].f, reqRow[l.id].f} \subseteq {l.f, "none"}
        BY <2>1, <4>1 DEF OwnerInv
      <4>3. \A u \in Workers : pc[u] \in Deciding /\ loc[u].id = l.id => loc[u].f = l.f
        BY <4>1 DEF OwnerInv
      <4>4. \A u \in Workers : pc[u] \in Deleting /\ l.id \in loc[u].ids => loc[u].f = l.f
        BY <4>1 DEF OwnerInv
      <4>5. QED
        BY <4>2, <4>3, <4>4
    <3>3. QED
      BY <1>6, <3>1, <3>2
  <2>3. "saveMem" \in Deciding /\ "saveMem" \notin Deleting
    BY DEF Deciding, Deleting
  <2>4. \A u \in Workers : pc'[u] \in Deciding =>
          {req[loc'[u].id].f, reqRow[loc'[u].id].f} \subseteq {loc'[u].f, "none"}
    BY <2>1, <2>2 DEF OwnerInv
  <2>5. \A u \in Workers : pc'[u] \in Deleting => u # t
    BY <2>1, <2>3
  <2>6. \A u, w \in Workers :
          pc'[u] \in Deciding /\ pc'[w] \in Deciding /\ loc'[u].id = loc'[w].id
            => loc'[u].f = loc'[w].f
    BY <2>1, <2>2 DEF OwnerInv
  <2>7. \A u, w \in Workers :
          pc'[u] \in Deciding /\ pc'[w] \in Deleting /\ loc'[u].id \in loc'[w].ids
            => loc'[u].f = loc'[w].f
    BY <2>1, <2>2, <2>5 DEF OwnerInv
  <2>8. QED
    BY <2>1, <2>4, <2>5, <2>6, <2>7 DEF OwnerInv
<1>7. ASSUME NEW t \in Workers, NEW l \in Locals, RemoveShape(t, l)
      PROVE  OwnerInv'
  <2>1. /\ UNCHANGED reqRow /\ l.f \in Findings /\ l.ids = {i \in Ids : req[i].f = l.f}
        /\ \A u \in Workers : /\ pc'[u] = (IF u = t THEN "delEv" ELSE pc[u])
                              /\ loc'[u] = (IF u = t THEN l ELSE loc[u])
        /\ \A i \in Ids : req'[i].f \in {req[i].f, "none"}
    BY <1>0, <1>7 DEF RemoveShape, Started
  <2>2. "delEv" \in Deleting /\ "delEv" \notin Deciding
    BY DEF Deciding, Deleting
  <2>3. \A u \in Workers : pc'[u] \in Deciding => u # t
    BY <2>1, <2>2
  <2>4. \A i \in l.ids : {req'[i].f, reqRow'[i].f} \subseteq {l.f, "none"}
    <3>1. ASSUME NEW i \in l.ids
          PROVE  {req'[i].f, reqRow'[i].f} \subseteq {l.f, "none"}
      <4>1. i \in Ids /\ req[i].f = l.f /\ l.f # "none"
        BY <1>0, <2>1
      <4>2. reqRow[i].f \in {l.f, "none"}
        BY <4>1 DEF OwnerInv
      <4>3. QED
        BY <2>1, <4>1, <4>2
    <3>2. QED
      BY <3>1
  <2>5. \A u \in Workers : pc[u] \in Deciding /\ loc[u].id \in l.ids => loc[u].f = l.f
    BY <1>0, <1>a, <2>1 DEF OwnerInv
  <2>6. ASSUME NEW u \in Workers, pc'[u] \in Deleting, NEW i \in loc'[u].ids
        PROVE  {req'[i].f, reqRow'[i].f} \subseteq {loc'[u].f, "none"}
    <3>1. CASE u = t
      BY <2>1, <2>4, <2>6, <3>1
    <3>2. CASE u # t
      <4>1. pc[u] \in Deleting /\ loc'[u] = loc[u] /\ i \in loc[u].ids /\ i \in Ids
        BY <1>0, <2>1, <2>6, <3>2
      <4>2. {req[i].f, reqRow[i].f} \subseteq {loc[u].f, "none"}
        BY <4>1 DEF OwnerInv
      <4>3. QED
        BY <2>1, <4>1, <4>2
    <3>3. QED
      BY <3>1, <3>2
  <2>7. \A u \in Workers : pc'[u] \in Deciding =>
          {req'[loc'[u].id].f, reqRow'[loc'[u].id].f} \subseteq {loc'[u].f, "none"}
    BY <1>0, <1>a, <2>1, <2>3 DEF OwnerInv
  <2>8. \A i \in Ids : "none" \in {req'[i].f, reqRow'[i].f} \/ req'[i].f = reqRow'[i].f
    BY <2>1 DEF OwnerInv
  <2>9. \A u, w \in Workers :
          pc'[u] \in Deciding /\ pc'[w] \in Deleting /\ loc'[u].id \in loc'[w].ids
            => loc'[u].f = loc'[w].f
    BY <2>1, <2>3, <2>5 DEF OwnerInv
  <2>10. \A u, w \in Workers :
          pc'[u] \in Deciding /\ pc'[w] \in Deciding /\ loc'[u].id = loc'[w].id
            => loc'[u].f = loc'[w].f
    BY <2>1, <2>3 DEF OwnerInv
  <2>11. QED
    BY <2>6, <2>7, <2>8, <2>9, <2>10 DEF OwnerInv
<1>8. QED
  BY <1>1, <1>2, <1>3, <1>4, <1>5, <1>6, <1>7 DEF StepShape, StartShape, WriteShape

LEMMA OverlapStep == BasicInv /\ OverlapInv /\ StepShape => OverlapInv'
<1> SUFFICES ASSUME BasicInv, OverlapInv, StepShape PROVE OverlapInv'
  OBVIOUS
<1>0. \A u \in Workers : pc[u] # "idle" => loc[u].f \in Findings
  BY DEF BasicInv, TypeOK, Steps, Deciding, Deleting, Decision
<1>1. CASE StillShape \/ RestartShape
  BY <1>1 DEF StillShape, RestartShape, Frame, OverlapInv
<1>2. ASSUME NEW t \in Workers, ErrorShape(t) \/ WriteShape(t, loc[t])
      PROVE  OverlapInv'
  <2>1. /\ UNCHANGED overlap
        /\ pc'[t] \in Deleting => pc[t] \in Deleting
        /\ pc'[t] # "idle" => pc[t] # "idle" /\ loc'[t] = loc[t]
        /\ \A u \in Workers : u # t => pc'[u] = pc[u] /\ loc'[u] = loc[u]
    BY <1>2 DEF ErrorShape, WriteShape, SaveMemShape, SaveRowShape, EvMemShape, EvRowShape,
                DelEvShape, DelRowShape, Moved, Frame, Deleting
  <2>2. \A u \in Workers : pc'[u] # "idle" =>
          /\ pc[u] # "idle" /\ loc'[u] = loc[u]
          /\ pc'[u] \in Deleting => pc[u] \in Deleting
    BY <2>1
  <2>3. QED
    BY <2>1, <2>2 DEF OverlapInv
<1>3. ASSUME NEW t \in Workers, NEW l \in Locals, StartShape(t, l)
      PROVE  OverlapInv'
  <2>1. PICK step \in {"saveMem", "delEv"} : Started(t, step, l) /\ l.f \in Findings
    BY <1>3 DEF StartShape, RequestShape, TransitionShape, RemoveShape
  <2>2. SUFFICES ASSUME NEW u \in Workers, NEW w \in Workers, u # w,
                        pc'[u] # "idle", pc'[w] # "idle", loc'[u].f = loc'[w].f
                 PROVE  /\ overlap'[loc'[u].f] # {}
                        /\ pc'[u] \in Deleting => "deletion" \in overlap'[loc'[u].f]
    BY DEF OverlapInv
  <2>3. CASE u = t
    BY <2>1, <2>2, <2>3 DEF Started, Deleting
  <2>4. CASE w = t
    BY <2>1, <2>2, <2>4 DEF Started
  <2>5. CASE u # t /\ w # t
    <3>1. /\ pc[u] = pc'[u] /\ pc[w] = pc'[w] /\ loc[u] = loc'[u] /\ loc[w] = loc'[w]
          /\ overlap[loc[u].f] \subseteq overlap'[loc[u].f]
      BY <1>0, <2>1, <2>2, <2>5 DEF Started
    <3>2. QED
      BY <2>2, <3>1 DEF OverlapInv
  <2>6. QED
    BY <2>3, <2>4, <2>5
<1>4. QED
  BY <1>1, <1>2, <1>3 DEF StepShape

(* Two decisions on one request overlap. *)
LEMMA SameRequestOverlaps ==
  ASSUME OwnerInv, OverlapInv, NEW t \in Workers, NEW u \in Workers, t # u,
         pc[t] \in Deciding, pc[u] \in Deciding, loc[t].id = loc[u].id
  PROVE  loc[t].f = loc[u].f /\ overlap[loc[t].f] # {}
<1>1. loc[t].f = loc[u].f /\ pc[t] # "idle" /\ pc[u] # "idle"
  BY DEF OwnerInv, Deciding
<1>2. QED
  BY <1>1 DEF OverlapInv

-----------------------------------------------------------------------------
(* A decision is final.                                                    *)

LEMMA FinalStep == BasicInv /\ OwnerInv /\ OverlapInv /\ FinalInv /\ StepShape => FinalInv'
<1> SUFFICES ASSUME BasicInv, OwnerInv, OverlapInv, FinalInv, StepShape PROVE FinalInv'
  OBVIOUS
<1> DEFINE Saving == {"saveMem", "saveRow"}
<1>0. /\ NoRequest.status = "none" /\ "none" \notin Terminal /\ issued \in Nat
      /\ Terminal \cap Active = {} /\ Saving \subseteq Deciding
  BY DEF NoRequest, BasicInv, TypeOK, Active, Terminal, Deciding
<1>a. \A i \in Ids : reqRow[i].status \in Terminal => reqRow[i].f \in Findings
  BY <1>0 DEF BasicInv, Known
<1>b. \A u \in Workers : pc[u] \in Saving =>
        /\ loc[u].id \in Ids /\ loc[u].f \in Findings /\ loc[u].rec.f = loc[u].f
        /\ pc[u] # "idle"
  BY DEF BasicInv, Decision, Deciding
<1>c. \A i \in Ids, u \in Workers :
        pc[u] \in Saving /\ loc[u].id = i /\ reqRow[i].status \in Terminal
          => reqRow[i].f = loc[u].f
  BY <1>0, <1>a, ApprovalConstants DEF OwnerInv
<1>1. CASE StillShape
  BY <1>1 DEF StillShape, Frame, FinalInv
<1>2. CASE RestartShape
  BY <1>2 DEF RestartShape, FinalInv
<1>3. ASSUME NEW t \in Workers, ErrorShape(t) \/ EvRowShape(t, loc[t]) \/ EvMemShape(t, loc[t])
                                \/ DelEvShape(t, loc[t])
      PROVE  FinalInv'
  <2>1. /\ UNCHANGED <<req, reqRow, overlap>>
        /\ \A u \in Workers : pc'[u] \in Saving => pc'[u] = pc[u] /\ loc'[u] = loc[u]
    BY <1>3 DEF ErrorShape, EvRowShape, EvMemShape, DelEvShape, Moved, Frame
  <2>2. QED
    BY <2>1 DEF FinalInv
<1>4. ASSUME NEW t \in Workers, DelRowShape(t, loc[t])
      PROVE  FinalInv'
  <2>1. /\ UNCHANGED <<req, overlap>> /\ \A j \in Ids : reqRow'[j] \in {reqRow[j], NoRequest}
        /\ \A u \in Workers : pc'[u] \in Saving => pc'[u] = pc[u] /\ loc'[u] = loc[u]
    BY <1>4 DEF DelRowShape, Moved, Frame
  <2>2. QED
    BY <1>0, <1>b, <2>1 DEF FinalInv
<1>5. ASSUME NEW t \in Workers, SaveMemShape(t, loc[t])
      PROVE  FinalInv'
  <2> DEFINE l == loc[t]
  <2>1. /\ pc[t] = "saveMem" /\ UNCHANGED <<reqRow, overlap>> /\ l.id \in Ids
        /\ \A u \in Workers : loc'[u] = loc[u] /\ pc'[u] = (IF u = t THEN "saveRow" ELSE pc[u])
        /\ \A j \in Ids : req'[j] = IF j = l.id THEN l.rec ELSE req[j]
    BY <1>5 DEF SaveMemShape, Moved, Frame, Decision
  <2>2. \A i \in Ids : reqRow'[i].status \in Terminal /\ overlap'[reqRow'[i].f] = {} =>
          req'[i] \in {reqRow'[i], NoRequest}
    BY <1>c, <2>1 DEF FinalInv
  <2>3. ASSUME NEW u \in Workers, pc'[u] \in Saving, overlap'[loc'[u].f] = {}
        PROVE  /\ reqRow'[loc'[u].id].status \notin Terminal
               /\ pc'[u] = "saveMem" => req'[loc'[u].id].status = loc'[u].previous
               /\ pc'[u] = "saveRow" => req'[loc'[u].id] = loc'[u].rec
    <3>1. CASE u = t
      BY <2>1, <2>3, <3>1 DEF FinalInv
    <3>2. CASE u # t
      <4>1. pc[u] \in Saving /\ pc[t] \in Saving /\ overlap[loc[u].f] = {}
        BY <2>1, <2>3, <3>2
      <4>2. loc[u].id # l.id
        BY <1>0, <3>2, <4>1, SameRequestOverlaps
      <4>3. QED
        BY <1>b, <2>1, <3>2, <4>1, <4>2 DEF FinalInv
    <3>3. QED
      BY <3>1, <3>2
  <2>4. QED
    BY <2>2, <2>3 DEF FinalInv
<1>6. ASSUME NEW t \in Workers, SaveRowShape(t, loc[t])
      PROVE  FinalInv'
  <2> DEFINE l == loc[t]
  <2>1. /\ pc[t] = "saveRow" /\ UNCHANGED <<req, overlap>> /\ l.id \in Ids /\ l.rec.f = l.f
        /\ \A u \in Workers : loc'[u] = loc[u] /\ pc'[u] = (IF u = t THEN "evMem" ELSE pc[u])
        /\ \A j \in Ids : reqRow'[j] = IF j = l.id THEN l.rec ELSE reqRow[j]
    BY <1>6 DEF SaveRowShape, Moved, Frame, Decision
  <2>2. \A i \in Ids : reqRow'[i].status \in Terminal /\ overlap'[reqRow'[i].f] = {} =>
          req'[i] \in {reqRow'[i], NoRequest}
    BY <2>1 DEF FinalInv
  <2>3. ASSUME NEW u \in Workers, pc'[u] \in Saving, overlap'[loc'[u].f] = {}
        PROVE  /\ reqRow'[loc'[u].id].status \notin Terminal
               /\ pc'[u] = "saveMem" => req'[loc'[u].id].status = loc'[u].previous
               /\ pc'[u] = "saveRow" => req'[loc'[u].id] = loc'[u].rec
    <3>1. u # t /\ pc[u] \in Saving /\ pc[t] \in Saving /\ overlap[loc[u].f] = {}
      BY <2>1, <2>3
    <3>2. loc[u].id # l.id
      BY <1>0, <3>1, SameRequestOverlaps
    <3>3. QED
      BY <1>b, <2>1, <3>1, <3>2 DEF FinalInv
  <2>4. QED
    BY <2>2, <2>3 DEF FinalInv
<1>7. ASSUME NEW t \in Workers, NEW l \in Locals, RequestShape(t, l) \/ TransitionShape(t, l)
      PROVE  FinalInv'
  <2>1. /\ UNCHANGED <<req, reqRow>> /\ l.id \in Ids /\ l.f \in Findings
        /\ \A u \in Workers : /\ pc'[u] = (IF u = t THEN "saveMem" ELSE pc[u])
                              /\ loc'[u] = (IF u = t THEN l ELSE loc[u])
        /\ \A g \in Findings : overlap[g] \subseteq overlap'[g]
    BY <1>7 DEF RequestShape, TransitionShape, Started
  <2>2. req[l.id].status = l.previous
    <3>1. CASE RequestShape(t, l)
      <4>1. l.id > issued /\ l.previous = "none"
        BY <1>0, <3>1 DEF RequestShape
      <4>2. QED
        BY <1>0, <2>1, <4>1 DEF BasicInv
    <3>2. QED
      BY <1>7, <3>1 DEF TransitionShape
  <2>3. overlap[l.f] = {} => reqRow[l.id].status \notin Terminal
    <3>1. CASE RequestShape(t, l)
      <4>1. l.id > issued
        BY <1>0, <3>1 DEF RequestShape
      <4>2. QED
        BY <1>0, <2>1, <4>1 DEF BasicInv
    <3>2. CASE TransitionShape(t, l)
      <4>1. req[l.id].status \in Active /\ req[l.id].f = l.f
        BY <3>2 DEF TransitionShape
      <4>2. reqRow[l.id].status \in Terminal => reqRow[l.id].f = l.f
        BY <1>a, <2>1, <4>1, ApprovalConstants DEF OwnerInv
      <4>3. "none" \notin Active
        BY DEF Active
      <4>4. QED
        BY <1>0, <2>1, <4>1, <4>2, <4>3 DEF FinalInv
    <3>3. QED
      BY <1>7, <3>1, <3>2
  <2>4. \A g \in Findings : overlap'[g] = {} => overlap[g] = {}
    BY <2>1
  <2>5. \A i \in Ids : reqRow'[i].status \in Terminal /\ overlap'[reqRow'[i].f] = {} =>
          req'[i] \in {reqRow'[i], NoRequest}
    BY <1>a, <2>1, <2>4 DEF FinalInv
  <2>6. ASSUME NEW u \in Workers, pc'[u] \in Saving, overlap'[loc'[u].f] = {}
        PROVE  /\ reqRow'[loc'[u].id].status \notin Terminal
               /\ pc'[u] = "saveMem" => req'[loc'[u].id].status = loc'[u].previous
               /\ pc'[u] = "saveRow" => req'[loc'[u].id] = loc'[u].rec
    <3>1. CASE u = t
      BY <2>1, <2>2, <2>3, <2>4, <2>6, <3>1
    <3>2. CASE u # t
      BY <1>b, <2>1, <2>4, <2>6, <3>2 DEF FinalInv
    <3>3. QED
      BY <3>1, <3>2
  <2>7. QED
    BY <2>5, <2>6 DEF FinalInv
<1>8. ASSUME NEW t \in Workers, NEW l \in Locals, RemoveShape(t, l)
      PROVE  FinalInv'
  <2>1. /\ UNCHANGED reqRow /\ l.f \in Findings
        /\ \A u \in Workers : pc'[u] \in Saving => u # t /\ pc'[u] = pc[u] /\ loc'[u] = loc[u]
        /\ \A g \in Findings : overlap'[g] = {} => overlap[g] = {}
        /\ \A i \in Ids : req'[i] = IF req[i].f = l.f THEN NoRequest ELSE req[i]
        /\ \A u \in Workers : pc[u] # "idle" /\ loc[u].f = l.f => overlap'[l.f] # {}
    BY <1>8 DEF RemoveShape, Started
  <2>2. \A i \in Ids : reqRow'[i].status \in Terminal /\ overlap'[reqRow'[i].f] = {} =>
          req'[i] \in {reqRow'[i], NoRequest}
    BY <1>a, <2>1 DEF FinalInv
  <2>3. ASSUME NEW u \in Workers, pc'[u] \in Saving, overlap'[loc'[u].f] = {}
        PROVE  /\ reqRow'[loc'[u].id].status \notin Terminal
               /\ pc'[u] = "saveMem" => req'[loc'[u].id].status = loc'[u].previous
               /\ pc'[u] = "saveRow" => req'[loc'[u].id] = loc'[u].rec
    <3>1. pc[u] \in Saving /\ pc'[u] = pc[u] /\ loc'[u] = loc[u] /\ overlap[loc[u].f] = {}
      BY <1>b, <2>1, <2>3
    <3>2. req[loc[u].id].f # l.f
      BY <1>0, <1>b, <2>1, <2>3, <3>1, ApprovalConstants DEF OwnerInv
    <3>3. req'[loc[u].id] = req[loc[u].id]
      BY <1>b, <2>1, <3>1, <3>2
    <3>4. QED
      BY <2>1, <3>1, <3>3 DEF FinalInv
  <2>4. QED
    BY <2>2, <2>3 DEF FinalInv
<1>9. QED
  BY <1>1, <1>2, <1>3, <1>4, <1>5, <1>6, <1>7, <1>8 DEF StepShape, StartShape, WriteShape

ReviewInv == BasicInv /\ OwnerInv /\ OverlapInv /\ FinalInv

LEMMA ReviewInit == Init => ReviewInv
<1> SUFFICES ASSUME Init PROVE ReviewInv
  OBVIOUS
<1>1. BasicInv
  BY InitBasic
<1>2. /\ \A i \in Ids : req[i] = NoRequest /\ reqRow[i] = NoRequest
      /\ \A t \in Workers : pc[t] = "idle"
  BY DEF Init
<1>3. NoRequest.f = "none" /\ NoRequest.status = "none"
  BY DEF NoRequest
<1>4. QED
  BY <1>1, <1>2, <1>3
     DEF ReviewInv, OwnerInv, OverlapInv, FinalInv, Deciding, Deleting, Terminal

LEMMA ReviewStep == ReviewInv /\ [Next]_vars => ReviewInv' /\ StepShape
BY BasicStep, StepShapes, OwnerStep, OverlapStep, FinalStep DEF ReviewInv

(* "approved/rejected are terminal" (approval/service.py:8): a decision in the *)
(* database is changed by no handler of _transition, restart or failed     *)
(* commit, whatever the number of reviewers, as long as the handlers of    *)
(* its finding do not overlap.                                             *)
THEOREM DecisionIsFinal == Spec => DecisionIsFinalWhenSerial
<1> DEFINE Final == \A i \in Ids :
       reqRow[i].status \in Terminal /\ overlap'[reqRow[i].f] = {}
         => reqRow'[i] \in {reqRow[i], NoRequest}
<1>1. ReviewInv /\ [Next]_vars => Final
  <2> SUFFICES ASSUME ReviewInv, StepShape, NEW i \in Ids, reqRow[i].status \in Terminal,
                      overlap'[reqRow[i].f] = {}, reqRow'[i] # reqRow[i], reqRow'[i] # NoRequest
               PROVE  FALSE
    BY ReviewStep
  <2>1. PICK t \in Workers : SaveRowShape(t, loc[t])
    BY DEF StepShape, StillShape, RestartShape, ErrorShape, StartShape, WriteShape,
           SaveMemShape, EvMemShape, EvRowShape, DelEvShape, DelRowShape,
           RequestShape, TransitionShape, RemoveShape, Started
  <2>2. pc[t] = "saveRow" /\ loc[t].id = i /\ overlap' = overlap
    BY <2>1 DEF SaveRowShape, Frame
  <2>3. reqRow[i].f \in Findings
    BY DEF ReviewInv, BasicInv, Known, NoRequest, Terminal
  <2>4. reqRow[i].f = loc[t].f
    BY <2>2, <2>3, ApprovalConstants DEF ReviewInv, OwnerInv, Deciding
  <2>5. QED
    BY <2>2, <2>4 DEF ReviewInv, FinalInv
<1>2. ReviewInv /\ [Next]_vars => [Final]_vars
  BY <1>1
<1>3. QED
  BY <1>2, ReviewInit, ReviewStep, PTL DEF Spec, DecisionIsFinalWhenSerial

-----------------------------------------------------------------------------
(* One active request.                                                     *)

LEMMA OneActiveStep ==
  ReviewInv /\ OneActiveInv /\ StepShape /\ ReviewInv' => OneActiveInv'
<1> SUFFICES ASSUME ReviewInv, OneActiveInv, StepShape, ReviewInv',
                    NEW f \in Findings, Serial(f)', (dbErrors = 0)'
             PROVE  OneActiveOf(f)'
  BY DEF OneActiveInv
<1>0. /\ NoRequest.f = "none" /\ NoRequest.status = "none" /\ "none" \notin Active
      /\ f # "none" /\ IdleLocals.f = "none"
      /\ "idle" \notin Deleting /\ "saveMem" \notin Deleting /\ "saveRow" \notin Deleting
      /\ "evMem" \notin Deleting /\ "evRow" \notin Deleting /\ "delEv" \in Deleting
      /\ "delRow" \in Deleting
  BY ApprovalConstants DEF NoRequest, IdleLocals, Active, Deleting
<1>1. Serial(f) /\ (dbErrors = 0 => OneActiveOf(f))
  <2>1. overlap[f] \subseteq overlap'[f]
    BY DEF StepShape, StillShape, RestartShape, ErrorShape, StartShape, WriteShape, Frame,
           SaveMemShape, SaveRowShape, EvMemShape, EvRowShape, DelEvShape, DelRowShape,
           RequestShape, TransitionShape, RemoveShape, Started
  <2>2. QED
    BY <2>1 DEF OneActiveInv, Serial
<1>2. \A u, w \in Workers : pc[u] # "idle" /\ pc[w] # "idle" /\ loc[u].f = f /\ loc[w].f = f => u = w
  BY <1>1 DEF ReviewInv, OverlapInv, Serial
<1>3. \A u, w \in Workers :
        pc'[u] # "idle" /\ pc'[w] # "idle" /\ loc'[u].f = f /\ loc'[w].f = f => u = w
  BY DEF ReviewInv, OverlapInv, Serial
<1>4. CASE StillShape
  BY <1>1, <1>4 DEF StillShape, Frame, OneActiveOf, Unique
<1>5. CASE RestartShape
  <2>2. \A t \in Workers : pc'[t] = "idle"
    BY <1>5 DEF RestartShape
  <2>3. req' = reqRow /\ reqRow' = reqRow
    BY <1>5 DEF RestartShape
  <2>4. Unique(req', f) /\ Unique(reqRow', f)
    BY <1>1, <1>5, <2>3 DEF RestartShape, OneActiveOf
  <2>5. QED
    BY <1>0, <2>2, <2>3, <2>4 DEF OneActiveOf
<1>6. ASSUME NEW t \in Workers, ErrorShape(t) PROVE FALSE
  BY <1>6 DEF ErrorShape
<1>7. ASSUME NEW t \in Workers, SaveMemShape(t, loc[t])
      PROVE  OneActiveOf(f)'
  <2> DEFINE l == loc[t]
  <2>1. /\ pc[t] = "saveMem" /\ UNCHANGED reqRow /\ l.id \in Ids /\ l.rec.f = l.f
        /\ l.f \in Findings /\ dbErrors = 0
        /\ \A u \in Workers : loc'[u] = loc[u] /\ pc'[u] = (IF u = t THEN "saveRow" ELSE pc[u])
        /\ \A j \in Ids : req'[j] = IF j = l.id THEN l.rec ELSE req[j]
    BY <1>7 DEF SaveMemShape, Moved, Frame, Decision
  <2>2. OneActiveOf(f)
    BY <1>1, <2>1
  <2>3. CASE l.f = f
    <3>1. Unique(req', f)
      BY <2>1, <2>2, <2>3 DEF OneActiveOf, Unique
    <3>2. Unique(reqRow', f)
      BY <2>1, <2>2 DEF OneActiveOf, Unique
    <3>3. ASSUME NEW j \in Ids, f \in {req'[j].f, reqRow'[j].f}, req'[j] # reqRow'[j]
          PROVE  \E u \in Workers :
                   /\ loc'[u].f = f
                   /\ pc'[u] \in Deleting \/ (pc'[u] = "saveRow" /\ loc'[u].id = j)
      <4>1. CASE j = l.id
        BY <2>1, <2>3, <4>1
      <4>2. CASE j # l.id
        <5>1. PICK u \in Workers : /\ loc[u].f = f
                                   /\ pc[u] \in Deleting \/ (pc[u] = "saveRow" /\ loc[u].id = j)
          BY <2>1, <2>2, <3>3, <4>2 DEF OneActiveOf
        <5>2. u # t
          BY <1>0, <2>1, <5>1
        <5>3. QED
          BY <2>1, <5>1, <5>2
      <4>3. QED
        BY <4>1, <4>2
    <3>4. \A u \in Workers : loc'[u].f = f /\ pc'[u] # "idle" => u = t
      BY <1>3, <2>1, <2>3
    <3>5. QED
      BY <1>0, <2>1, <3>1, <3>2, <3>3, <3>4 DEF OneActiveOf
  <2>4. CASE l.f # f
    <3>1. /\ req[l.id].f # f /\ reqRow[l.id].f # f /\ req'[l.id].f # f
      BY <1>0, <2>1, <2>4 DEF ReviewInv, OwnerInv, Deciding
    <3>2. \A j \in Ids : f \in {req'[j].f, reqRow'[j].f, req[j].f, reqRow[j].f} =>
            req'[j] = req[j] /\ reqRow'[j] = reqRow[j]
      BY <2>1, <3>1
    <3>3. \A u \in Workers : loc'[u].f = f => u # t /\ pc'[u] = pc[u] /\ loc'[u] = loc[u]
      BY <2>1, <2>4
    <3>4. \A u \in Workers : loc[u].f = f => pc'[u] = pc[u] /\ loc'[u] = loc[u]
      BY <2>1, <2>4
    <3>5. QED
      BY <2>2, <3>2, <3>3, <3>4 DEF OneActiveOf, Unique
  <2>5. QED
    BY <2>3, <2>4
<1>8. ASSUME NEW t \in Workers, SaveRowShape(t, loc[t])
      PROVE  OneActiveOf(f)'
  <2> DEFINE l == loc[t]
  <2>1. /\ pc[t] = "saveRow" /\ UNCHANGED req /\ l.id \in Ids /\ l.rec.f = l.f
        /\ l.f \in Findings /\ dbErrors = 0
        /\ \A u \in Workers : loc'[u] = loc[u] /\ pc'[u] = (IF u = t THEN "evMem" ELSE pc[u])
        /\ \A j \in Ids : reqRow'[j] = IF j = l.id THEN l.rec ELSE reqRow[j]
    BY <1>8 DEF SaveRowShape, Moved, Frame, Decision
  <2>2. OneActiveOf(f)
    BY <1>1, <2>1
  <2>3. CASE l.f = f
    <3>1. req[l.id] = l.rec
      BY <1>1, <2>1, <2>3 DEF ReviewInv, FinalInv, Serial
    <3>2. ASSUME NEW j \in Ids, f \in {req[j].f, reqRow'[j].f}
          PROVE  req[j] = reqRow'[j]
      <4>1. CASE j = l.id
        BY <2>1, <3>1, <4>1
      <4>2. CASE j # l.id
        <5>1. SUFFICES ASSUME req[j] # reqRow[j] PROVE FALSE
          BY <2>1, <4>2
        <5>2. PICK u \in Workers : /\ loc[u].f = f
                                   /\ pc[u] \in Deleting \/ (pc[u] = "saveRow" /\ loc[u].id = j)
          BY <2>1, <2>2, <3>2, <4>2, <5>1 DEF OneActiveOf
        <5>3. pc[u] # "idle" /\ pc[t] # "idle"
          BY <1>0, <2>1, <5>2
        <5>4. u = t
          BY <1>2, <2>3, <5>2, <5>3
        <5>5. QED
          BY <1>0, <2>1, <4>2, <5>2, <5>4
      <4>3. QED
        BY <4>1, <4>2
    <3>3. Unique(req, f)
      BY <2>2 DEF OneActiveOf
    <3>4. Unique(reqRow', f)
      BY <3>2, <3>3 DEF Unique
    <3>5. \A u \in Workers : loc'[u].f = f /\ pc'[u] # "idle" => u = t
      BY <1>3, <2>1, <2>3
    <3>6. QED
      BY <1>0, <2>1, <3>2, <3>3, <3>4, <3>5 DEF OneActiveOf
  <2>4. CASE l.f # f
    <3>1. /\ req[l.id].f # f /\ reqRow[l.id].f # f /\ reqRow'[l.id].f # f
      BY <1>0, <2>1, <2>4 DEF ReviewInv, OwnerInv, Deciding
    <3>2. \A j \in Ids : f \in {req'[j].f, reqRow'[j].f, req[j].f, reqRow[j].f} =>
            req'[j] = req[j] /\ reqRow'[j] = reqRow[j]
      BY <2>1, <3>1
    <3>3. \A u \in Workers : loc'[u].f = f => u # t /\ pc'[u] = pc[u] /\ loc'[u] = loc[u]
      BY <2>1, <2>4
    <3>4. \A u \in Workers : loc[u].f = f => pc'[u] = pc[u] /\ loc'[u] = loc[u]
      BY <2>1, <2>4
    <3>5. QED
      BY <2>2, <3>2, <3>3, <3>4 DEF OneActiveOf, Unique
  <2>5. QED
    BY <2>3, <2>4
<1>9. ASSUME NEW t \in Workers,
             EvMemShape(t, loc[t]) \/ EvRowShape(t, loc[t]) \/ DelEvShape(t, loc[t])
      PROVE  OneActiveOf(f)'
  <2>1. /\ UNCHANGED <<req, reqRow>> /\ dbErrors = 0
        /\ \A u \in Workers : pc'[u] # "idle" => loc'[u] = loc[u]
        /\ \A u \in Workers : pc'[u] \in Deleting <=> pc[u] \in Deleting
        /\ \A u \in Workers : pc'[u] = "saveRow" <=> pc[u] = "saveRow"
        /\ \A u \in Workers : pc'[u] = "saveMem" <=> pc[u] = "saveMem"
    BY <1>9 DEF EvMemShape, EvRowShape, DelEvShape, Moved, Frame, Deleting
  <2>2. OneActiveOf(f)
    BY <1>1, <2>1
  <2>3. \A u \in Workers : pc'[u] \in Deleting \cup {"saveRow", "saveMem"} => loc'[u] = loc[u]
    BY <1>0, <2>1
  <2>4. \A j \in Ids : f \in {req'[j].f, reqRow'[j].f} /\ req'[j] # reqRow'[j] =>
          \E u \in Workers : /\ loc'[u].f = f
                             /\ pc'[u] \in Deleting \/ (pc'[u] = "saveRow" /\ loc'[u].id = j)
    BY <2>1, <2>2, <2>3 DEF OneActiveOf
  <2>5. QED
    BY <2>1, <2>2, <2>3, <2>4 DEF OneActiveOf, Unique
<1>10. ASSUME NEW t \in Workers, DelRowShape(t, loc[t])
      PROVE  OneActiveOf(f)'
  <2> DEFINE l == loc[t]
  <2>1. /\ pc[t] = "delRow" /\ UNCHANGED req /\ l.f \in Findings /\ dbErrors = 0
        /\ \A u \in Workers : /\ pc'[u] = (IF u = t THEN "idle" ELSE pc[u])
                              /\ loc'[u] = (IF u = t THEN IdleLocals ELSE loc[u])
        /\ \A j \in Ids : reqRow'[j] = IF reqRow[j].f = l.f THEN NoRequest ELSE reqRow[j]
    BY <1>10 DEF DelRowShape, Moved, Frame
  <2>2. OneActiveOf(f)
    BY <1>1, <2>1
  <2>3. CASE l.f = f
    <3>1. \A j \in Ids : req'[j].f # f /\ reqRow'[j].f # f
      BY <1>0, <2>1, <2>2, <2>3 DEF OneActiveOf
    <3>2. QED
      BY <3>1 DEF OneActiveOf, Unique
  <2>4. CASE l.f # f
    <3>1. \A j \in Ids : f \in {req'[j].f, reqRow'[j].f, req[j].f, reqRow[j].f} =>
            req'[j] = req[j] /\ reqRow'[j] = reqRow[j]
      BY <1>0, <2>1, <2>4, ApprovalConstants DEF ReviewInv, OwnerInv
    <3>2. \A u \in Workers : loc'[u].f = f => u # t /\ pc'[u] = pc[u] /\ loc'[u] = loc[u]
      BY <1>0, <2>1
    <3>3. \A u \in Workers : loc[u].f = f => pc'[u] = pc[u] /\ loc'[u] = loc[u]
      BY <2>1, <2>4
    <3>4. QED
      BY <2>2, <3>1, <3>2, <3>3 DEF OneActiveOf, Unique
  <2>5. QED
    BY <2>3, <2>4
<1>11. ASSUME NEW t \in Workers, NEW l \in Locals, RequestShape(t, l) \/ TransitionShape(t, l)
      PROVE  OneActiveOf(f)'
  <2>1. /\ UNCHANGED <<req, reqRow>> /\ dbErrors = 0 /\ l.id \in Ids /\ pc[t] = "idle"
        /\ \A u \in Workers : /\ pc'[u] = (IF u = t THEN "saveMem" ELSE pc[u])
                              /\ loc'[u] = (IF u = t THEN l ELSE loc[u])
    BY <1>11 DEF RequestShape, TransitionShape, Started
  <2>2. OneActiveOf(f)
    BY <1>1, <2>1
  <2>3. l.f = f => \A j \in Ids \ {l.id} :
          req[j].f = f /\ req[j].action = l.rec.action => req[j].status \notin Active
    <3>1. CASE RequestShape(t, l)
      BY <3>1 DEF RequestShape
    <3>2. CASE TransitionShape(t, l)
      BY <2>2, <3>2 DEF TransitionShape, OneActiveOf, Unique
    <3>3. QED
      BY <1>11, <3>1, <3>2
  <2>4. \A j \in Ids : f \in {req'[j].f, reqRow'[j].f} /\ req'[j] # reqRow'[j] =>
          \E u \in Workers : /\ loc'[u].f = f
                             /\ pc'[u] \in Deleting \/ (pc'[u] = "saveRow" /\ loc'[u].id = j)
    <3>1. \A u \in Workers : pc[u] \in Deleting \/ pc[u] = "saveRow" => u # t
      BY <1>0, <2>1
    <3>2. QED
      BY <2>1, <2>2, <3>1 DEF OneActiveOf
  <2>5. \A u \in Workers : loc'[u].f = f /\ pc'[u] \in Deleting => \A j \in Ids : req'[j].f # f
    BY <1>0, <2>1, <2>2 DEF OneActiveOf
  <2>6. \A u \in Workers : loc'[u].f = f /\ pc'[u] = "saveMem" =>
          \A j \in Ids \ {loc'[u].id} :
            req'[j].f = f /\ req'[j].action = loc'[u].rec.action => req'[j].status \notin Active
    BY <2>1, <2>2, <2>3 DEF OneActiveOf
  <2>7. QED
    BY <2>1, <2>2, <2>4, <2>5, <2>6 DEF OneActiveOf, Unique
<1>12. ASSUME NEW t \in Workers, NEW l \in Locals, RemoveShape(t, l)
      PROVE  OneActiveOf(f)'
  <2>1. /\ UNCHANGED reqRow /\ dbErrors = 0 /\ pc[t] = "idle" /\ l.f \in Findings
        /\ \A u \in Workers : /\ pc'[u] = (IF u = t THEN "delEv" ELSE pc[u])
                              /\ loc'[u] = (IF u = t THEN l ELSE loc[u])
        /\ \A i \in Ids : req'[i] = IF req[i].f = l.f THEN NoRequest ELSE req[i]
    BY <1>12 DEF RemoveShape, Started
  <2>2. OneActiveOf(f)
    BY <1>1, <2>1
  <2>3. CASE l.f = f
    <3>1. \A j \in Ids : req'[j].f # f
      BY <1>0, <2>1, <2>3
    <3>2. loc'[t].f = f /\ pc'[t] \in Deleting
      BY <1>0, <2>1, <2>3
    <3>3. Unique(reqRow', f)
      BY <2>1, <2>2 DEF OneActiveOf
    <3>4. QED
      BY <3>1, <3>2, <3>3 DEF OneActiveOf, Unique
  <2>4. CASE l.f # f
    <3>1. \A j \in Ids : f \in {req'[j].f, reqRow'[j].f, req[j].f, reqRow[j].f} =>
            req'[j] = req[j] /\ reqRow'[j] = reqRow[j]
      BY <1>0, <2>1, <2>4, ApprovalConstants DEF ReviewInv, OwnerInv
    <3>2. \A u \in Workers : loc'[u].f = f => u # t /\ pc'[u] = pc[u] /\ loc'[u] = loc[u]
      BY <2>1, <2>4
    <3>3. \A u \in Workers : loc[u].f = f /\ pc[u] # "idle" => pc'[u] = pc[u] /\ loc'[u] = loc[u]
      BY <2>1
    <3>4. \A j \in Ids : f \in {req'[j].f, reqRow'[j].f} /\ req'[j] # reqRow'[j] =>
            \E u \in Workers : /\ loc'[u].f = f
                               /\ pc'[u] \in Deleting \/ (pc'[u] = "saveRow" /\ loc'[u].id = j)
      <4>1. \A u \in Workers : pc[u] \in Deleting \/ pc[u] = "saveRow" => pc[u] # "idle"
        BY <1>0
      <4>2. QED
        BY <2>2, <3>1, <3>3, <4>1 DEF OneActiveOf
    <3>5. QED
      BY <2>2, <3>1, <3>2, <3>4 DEF OneActiveOf, Unique
  <2>5. QED
    BY <2>3, <2>4
<1>13. QED
  BY <1>4, <1>5, <1>6, <1>7, <1>8, <1>9, <1>10, <1>11, <1>12
     DEF StepShape, StartShape, WriteShape

(* request_approval's idempotency: two POSTs never leave two active        *)
(* requests of the same finding and action, across restarts and any number *)
(* of other findings' handlers, as long as the handlers of the finding do  *)
(* not overlap and no commit failed (approval/service.py find_active).     *)
THEOREM OneActiveRequest == Spec => []OneActiveRequestWhenSerial
<1>1. Init => OneActiveInv
  <2> SUFFICES ASSUME Init PROVE OneActiveInv
    OBVIOUS
  <2>1. /\ \A i \in Ids : req[i] = NoRequest /\ reqRow[i] = NoRequest
        /\ \A t \in Workers : pc[t] = "idle"
    BY DEF Init
  <2>2. NoRequest.f = "none" /\ "none" \notin Findings
    BY ApprovalConstants DEF NoRequest
  <2>3. QED
    BY <2>1, <2>2 DEF OneActiveInv, OneActiveOf, Unique, Deleting
<1>2. ReviewInv /\ OneActiveInv => OneActiveRequestWhenSerial
  <2> SUFFICES ASSUME ReviewInv, OneActiveInv, NEW i \in Ids, NEW j \in Ids,
                      req[i].status \in Active, req[j].status \in Active,
                      req[i].f = req[j].f, req[i].action = req[j].action,
                      Serial(req[i].f), ~ (dbErrors > 0)
               PROVE  i = j
    BY DEF OneActiveRequestWhenSerial
  <2>1. dbErrors = 0 /\ req[i].f \in Findings
    BY DEF ReviewInv, BasicInv, TypeOK, Known, NoRequest, Active
  <2>2. QED
    BY <2>1 DEF OneActiveInv, OneActiveOf, Unique
<1>3. QED
  BY <1>1, <1>2, ReviewInit, ReviewStep, OneActiveStep, PTL DEF Spec

-----------------------------------------------------------------------------
(* Repeated requests.                                                      *)

LEMMA SpacedAlike ==
  ASSUME NEW r, NEW q, NEW f,
         \A j \in Ids : f \in {r[j].f, q[j].f} => r[j].f = q[j].f /\ r[j].action = q[j].action,
         Spaced(r, f)
  PROVE  Spaced(q, f)
<1> SUFFICES ASSUME NEW i \in Ids, NEW j \in Ids, q[i].f = f, q[j].f = f,
                    q[j].action = q[i].action, i < j
             PROVE  Passed(q, f, q[i].action, i, j)
  BY DEF Spaced
<1>1. /\ r[i].f = f /\ r[j].f = f /\ r[i].action = q[i].action
      /\ r[j].action = q[j].action
  OBVIOUS
<1>2. Passed(r, f, r[i].action, i, j)
  BY <1>1 DEF Spaced
<1>3. PICK k \in Ids : i < k /\ k < j /\ r[k].f = f /\ r[k].action # r[i].action
  BY <1>2 DEF Passed
<1>4. q[k].f = f /\ q[k].action # q[i].action
  BY <1>1, <1>3
<1>5. QED
  BY <1>3, <1>4 DEF Passed

LEMMA SpacedNone ==
  ASSUME NEW r, NEW f, \A j \in Ids : r[j].f # f
  PROVE  Spaced(r, f)
BY DEF Spaced

(* A new request is stored behind all others of its finding. *)
LEMMA SpacedNewcomer ==
  ASSUME BasicInv, NEW t \in Workers, NEW l \in Locals, RequestShape(t, l), ~ AllowReRequest,
         Spaced(req, l.f)
  PROVE  Spaced(Stored(req, l), l.f)
<1> DEFINE q == Stored(req, l)
           f == l.f
<1>0. /\ l.id \in Ids /\ l.id = issued + 1 /\ l.rec.f = f /\ f \in Findings
      /\ \A i \in Ids : req[i].f = f /\ req[i].action = l.rec.action =>
           Passed(req, f, l.rec.action, i, l.id)
  BY DEF RequestShape
<1>1. /\ \A i \in Ids : i \in Int
      /\ issued \in Int
  BY ApprovalConstants DEF BasicInv, TypeOK, Ids
<1>2. \A i \in Ids : req[i].f = f => i < l.id
  <2>1. f # "none" /\ NoRequest.f = "none"
    BY <1>0, ApprovalConstants DEF NoRequest
  <2>2. \A i \in Ids : req[i].f = f => ~ (i > issued)
    BY <2>1 DEF BasicInv
  <2>3. QED
    BY <1>0, <1>1, <2>2
<1>3. q[l.id] = l.rec /\ \A i \in Ids : i # l.id => q[i] = req[i]
  BY <1>0 DEF Stored
<1> SUFFICES ASSUME NEW i \in Ids, NEW j \in Ids, q[i].f = f, q[j].f = f,
                    q[j].action = q[i].action, i < j
             PROVE  Passed(q, f, q[i].action, i, j)
  BY DEF Spaced
<1> HIDE DEF q, f
<1>4. i # l.id
  BY <1>0, <1>1, <1>2, <1>3
<1>5. q[i] = req[i]
  BY <1>3, <1>4
<1>6. Passed(req, f, q[i].action, i, j)
  <2>1. CASE j = l.id
    BY <1>0, <1>3, <1>5, <2>1
  <2>2. CASE j # l.id
    <3>1. q[j] = req[j]
      BY <1>3, <2>2
    <3>2. QED
      BY <1>5, <3>1 DEF Spaced, f
  <2>3. QED
    BY <2>1, <2>2
<1>7. PICK k \in Ids : i < k /\ k < j /\ req[k].f = f /\ req[k].action # q[i].action
  BY <1>6 DEF Passed
<1>8. k # l.id
  BY <1>0, <1>1, <1>2, <1>7
<1>9. QED
  BY <1>3, <1>7, <1>8 DEF Passed

LEMMA SpacedStep ==
  ASSUME ReviewInv, ReviewInv', OneActiveInv', SpacedInv, StepShape
  PROVE  SpacedInv'
<1> SUFFICES ASSUME ~ AllowReRequest, NEW f \in Findings, Serial(f)', (dbErrors = 0)'
             PROVE  SpacedOf(f)'
  BY DEF SpacedInv
<1>0. /\ NoRequest.f = "none" /\ f # "none" /\ IdleLocals.f = "none"
      /\ "delEv" \in Deleting /\ "delRow" \in Deleting
  BY ApprovalConstants DEF NoRequest, IdleLocals, Deleting
<1>1. Serial(f) /\ (dbErrors = 0 => SpacedOf(f))
  <2>1. overlap[f] \subseteq overlap'[f]
    BY DEF StepShape, StillShape, RestartShape, ErrorShape, StartShape, WriteShape, Frame,
           SaveMemShape, SaveRowShape, EvMemShape, EvRowShape, DelEvShape, DelRowShape,
           RequestShape, TransitionShape, RemoveShape, Started
  <2>2. QED
    BY <2>1 DEF SpacedInv, Serial
<1>2. \A u, w \in Workers : pc[u] # "idle" /\ pc[w] # "idle" /\ loc[u].f = f /\ loc[w].f = f => u = w
  BY <1>1 DEF ReviewInv, OverlapInv, Serial
<1>3. \A u, w \in Workers :
        pc'[u] # "idle" /\ pc'[w] # "idle" /\ loc'[u].f = f /\ loc'[w].f = f => u = w
  BY DEF ReviewInv, OverlapInv, Serial
<1>4. CASE StillShape
  BY <1>1, <1>4 DEF StillShape, Frame, SpacedOf
<1>5. CASE RestartShape
  BY <1>1, <1>5 DEF RestartShape, SpacedOf
<1>6. ASSUME NEW t \in Workers, ErrorShape(t) PROVE FALSE
  BY <1>6 DEF ErrorShape
<1>7. ASSUME NEW t \in Workers, SaveMemShape(t, loc[t])
      PROVE  SpacedOf(f)'
  <2> DEFINE l == loc[t]
  <2>1. /\ pc[t] = "saveMem" /\ UNCHANGED reqRow /\ l.id \in Ids /\ l.rec.f = l.f
        /\ l.f \in Findings /\ dbErrors = 0
        /\ \A u \in Workers : loc'[u] = loc[u] /\ pc'[u] = (IF u = t THEN "saveRow" ELSE pc[u])
        /\ \A j \in Ids : req'[j] = IF j = l.id THEN l.rec ELSE req[j]
    BY <1>7 DEF SaveMemShape, Moved, Frame, Decision
  <2>2. SpacedOf(f) /\ Spaced(reqRow', f)
    BY <1>1, <2>1 DEF SpacedOf
  <2>3. CASE l.f = f
    <3>1. \A j \in Ids : req'[j] = Stored(req, l)[j]
      BY <2>1 DEF Stored
    <3>2. Spaced(Stored(req, l), f)
      BY <2>1, <2>2, <2>3 DEF SpacedOf
    <3>3. Spaced(req', f)
      <4> HIDE DEF l
      <4>1. QED
        BY <3>1, <3>2, SpacedAlike
    <3>4. \A u \in Workers : loc'[u].f = f => pc'[u] # "saveMem"
      BY <1>3, <2>1, <2>3
    <3>5. QED
      BY <2>2, <3>3, <3>4 DEF SpacedOf
  <2>4. CASE l.f # f
    <3>1. req[l.id].f # f /\ req'[l.id].f # f
      BY <1>0, <2>1, <2>4 DEF ReviewInv, OwnerInv, Deciding
    <3>2. \A j \in Ids : f \in {req[j].f, req'[j].f} => req[j] = req'[j]
      BY <2>1, <3>1
    <3>3. Spaced(req', f)
      BY <2>2, <3>2, SpacedAlike DEF SpacedOf
    <3>4. ASSUME NEW u \in Workers, loc'[u].f = f, pc'[u] = "saveMem"
          PROVE  Spaced(Stored(req', loc'[u]), f)
      <4>1. u # t /\ loc'[u] = loc[u] /\ pc[u] = "saveMem"
        BY <2>1, <3>4
      <4>2. PICK m \in Locals : m = loc[u]
        BY DEF ReviewInv, BasicInv, TypeOK
      <4>3. Spaced(Stored(req, m), f)
        BY <2>2, <3>4, <4>1, <4>2 DEF SpacedOf
      <4>4. \A j \in Ids : f \in {Stored(req, m)[j].f, Stored(req', m)[j].f} =>
              Stored(req, m)[j] = Stored(req', m)[j]
        BY <3>2 DEF Stored
      <4>5. Spaced(Stored(req', m), f)
        BY <4>3, <4>4, SpacedAlike
      <4>6. QED
        BY <4>1, <4>2, <4>5
    <3>5. QED
      BY <2>2, <3>3, <3>4 DEF SpacedOf
  <2>5. QED
    BY <2>3, <2>4
<1>8. ASSUME NEW t \in Workers, SaveRowShape(t, loc[t])
      PROVE  SpacedOf(f)'
  <2> DEFINE l == loc[t]
  <2>1. /\ pc[t] = "saveRow" /\ UNCHANGED req /\ l.id \in Ids /\ l.rec.f = l.f
        /\ l.f \in Findings /\ dbErrors = 0
        /\ \A u \in Workers : loc'[u] = loc[u] /\ pc'[u] = (IF u = t THEN "evMem" ELSE pc[u])
        /\ \A j \in Ids : reqRow'[j] = IF j = l.id THEN l.rec ELSE reqRow[j]
    BY <1>8 DEF SaveRowShape, Moved, Frame, Decision
  <2>2. SpacedOf(f) /\ Spaced(req', f)
    BY <1>1, <2>1 DEF SpacedOf
  <2>3. Spaced(reqRow', f)
    <3>1. CASE l.f = f
      <4>1. OneActiveOf(f)'
        BY DEF OneActiveInv
      <4>2. \A u \in Workers : loc'[u].f = f => pc'[u] \notin Deleting /\ pc'[u] # "saveRow"
        BY <1>3, <2>1, <3>1 DEF Deleting
      <4>3. \A j \in Ids : f \in {req'[j].f, reqRow'[j].f} => req'[j] = reqRow'[j]
        BY <4>1, <4>2 DEF OneActiveOf
      <4>4. QED
        BY <2>2, <4>3, SpacedAlike
    <3>2. CASE l.f # f
      <4>1. reqRow[l.id].f # f /\ reqRow'[l.id].f # f
        BY <1>0, <2>1, <3>2 DEF ReviewInv, OwnerInv, Deciding
      <4>2. \A j \in Ids : f \in {reqRow[j].f, reqRow'[j].f} => reqRow[j] = reqRow'[j]
        BY <2>1, <4>1
      <4>3. QED
        BY <2>2, <4>2, SpacedAlike DEF SpacedOf
    <3>3. QED
      BY <3>1, <3>2
  <2>4. \A u \in Workers : pc'[u] = "saveMem" => pc[u] = "saveMem" /\ loc'[u] = loc[u]
    BY <2>1
  <2>5. QED
    BY <2>1, <2>2, <2>3, <2>4 DEF SpacedOf
<1>9. ASSUME NEW t \in Workers,
             EvMemShape(t, loc[t]) \/ EvRowShape(t, loc[t]) \/ DelEvShape(t, loc[t])
      PROVE  SpacedOf(f)'
  <2>1. /\ UNCHANGED <<req, reqRow>> /\ dbErrors = 0
        /\ \A u \in Workers : pc'[u] = "saveMem" => pc[u] = "saveMem" /\ loc'[u] = loc[u]
    BY <1>9 DEF EvMemShape, EvRowShape, DelEvShape, Moved, Frame
  <2>2. QED
    BY <1>1, <2>1 DEF SpacedOf
<1>10. ASSUME NEW t \in Workers, DelRowShape(t, loc[t])
      PROVE  SpacedOf(f)'
  <2> DEFINE l == loc[t]
  <2>1. /\ UNCHANGED req /\ l.f \in Findings /\ dbErrors = 0
        /\ \A u \in Workers : pc'[u] = "saveMem" => pc[u] = "saveMem" /\ loc'[u] = loc[u]
        /\ \A j \in Ids : reqRow'[j] = IF reqRow[j].f = l.f THEN NoRequest ELSE reqRow[j]
    BY <1>10 DEF DelRowShape, Moved, Frame
  <2>2. SpacedOf(f)
    BY <1>1, <2>1
  <2>3. Spaced(reqRow', f)
    <3>1. CASE l.f = f
      <4>1. \A j \in Ids : reqRow'[j].f # f
        BY <1>0, <2>1, <3>1
      <4>2. QED
        BY <4>1, SpacedNone
    <3>2. CASE l.f # f
      <4>1. \A j \in Ids : f \in {reqRow[j].f, reqRow'[j].f} => reqRow[j] = reqRow'[j]
        BY <1>0, <2>1, <3>2
      <4>2. QED
        BY <2>2, <4>1, SpacedAlike DEF SpacedOf
    <3>3. QED
      BY <3>1, <3>2
  <2>4. QED
    BY <2>1, <2>2, <2>3 DEF SpacedOf
<1>11. ASSUME NEW t \in Workers, NEW l \in Locals, RequestShape(t, l) \/ TransitionShape(t, l)
      PROVE  SpacedOf(f)'
  <2>1. /\ UNCHANGED <<req, reqRow>> /\ dbErrors = 0 /\ l.id \in Ids /\ pc[t] = "idle"
        /\ \A u \in Workers : /\ pc'[u] = (IF u = t THEN "saveMem" ELSE pc[u])
                              /\ loc'[u] = (IF u = t THEN l ELSE loc[u])
    BY <1>11 DEF RequestShape, TransitionShape, Started
  <2>2. SpacedOf(f)
    BY <1>1, <2>1
  <2>3. l.f = f => Spaced(Stored(req, l), f)
    <3> SUFFICES ASSUME l.f = f PROVE Spaced(Stored(req, l), f)
      OBVIOUS
    <3>1. CASE RequestShape(t, l)
      BY <2>2, <3>1, SpacedNewcomer DEF SpacedOf, ReviewInv
    <3>2. CASE TransitionShape(t, l)
      <4>1. \A j \in Ids : /\ Stored(req, l)[j].f = req[j].f
                           /\ Stored(req, l)[j].action = req[j].action
        BY <3>2 DEF TransitionShape, Stored
      <4>2. QED
        BY <2>2, <4>1, SpacedAlike DEF SpacedOf
    <3>3. QED
      BY <1>11, <3>1, <3>2
  <2>4. QED
    BY <2>1, <2>2, <2>3 DEF SpacedOf
<1>12. ASSUME NEW t \in Workers, NEW l \in Locals, RemoveShape(t, l)
      PROVE  SpacedOf(f)'
  <2>1. /\ UNCHANGED reqRow /\ dbErrors = 0 /\ pc[t] = "idle" /\ l.f \in Findings
        /\ \A u \in Workers : /\ pc'[u] = (IF u = t THEN "delEv" ELSE pc[u])
                              /\ loc'[u] = (IF u = t THEN l ELSE loc[u])
        /\ \A i \in Ids : req'[i] = IF req[i].f = l.f THEN NoRequest ELSE req[i]
    BY <1>12 DEF RemoveShape, Started
  <2>2. SpacedOf(f)
    BY <1>1, <2>1
  <2>3. CASE l.f = f
    <3>1. \A j \in Ids : req'[j].f # f
      BY <1>0, <2>1, <2>3
    <3>2. Spaced(req', f)
      BY <3>1, SpacedNone
    <3>3. \A u \in Workers : loc'[u].f = f => pc'[u] # "saveMem"
      BY <1>3, <2>1, <2>3
    <3>4. QED
      BY <2>1, <2>2, <3>2, <3>3 DEF SpacedOf
  <2>4. CASE l.f # f
    <3>1. \A j \in Ids : f \in {req[j].f, req'[j].f} => req[j] = req'[j]
      BY <1>0, <2>1, <2>4
    <3>2. Spaced(req', f)
      BY <2>2, <3>1, SpacedAlike DEF SpacedOf
    <3>3. ASSUME NEW u \in Workers, loc'[u].f = f, pc'[u] = "saveMem"
          PROVE  Spaced(Stored(req', loc'[u]), f)
      <4>1. loc'[u] = loc[u] /\ pc[u] = "saveMem"
        BY <2>1, <3>3
      <4>2. PICK m \in Locals : m = loc[u]
        BY DEF ReviewInv, BasicInv, TypeOK
      <4>3. Spaced(Stored(req, m), f)
        BY <2>2, <3>3, <4>1, <4>2 DEF SpacedOf
      <4>4. \A j \in Ids : f \in {Stored(req, m)[j].f, Stored(req', m)[j].f} =>
              Stored(req, m)[j] = Stored(req', m)[j]
        BY <3>1 DEF Stored
      <4>5. Spaced(Stored(req', m), f)
        BY <4>3, <4>4, SpacedAlike
      <4>6. QED
        BY <4>1, <4>2, <4>5
    <3>4. QED
      BY <2>1, <2>2, <3>2, <3>3 DEF SpacedOf
  <2>5. QED
    BY <2>3, <2>4
<1>13. QED
  BY <1>4, <1>5, <1>6, <1>7, <1>8, <1>9, <1>10, <1>11, <1>12
     DEF StepShape, StartShape, WriteShape

(* With the default policy (allow_re_request_after_terminal off) a finding  *)
(* and action are requested again only past a request for another action,  *)
(* because request_approval looks at the latest request of the finding     *)
(* whatever its action (approval/service.py:109). For any number of        *)
(* findings, actions, reviewers and restarts, while handlers of the        *)
(* finding do not overlap and no commit failed.                            *)
THEOREM RepeatsAreExplained == Spec => []ReRequestNeedsAnotherAction
<1>1. Init => OneActiveInv /\ SpacedInv
  <2> SUFFICES ASSUME Init PROVE OneActiveInv /\ SpacedInv
    OBVIOUS
  <2>1. /\ \A i \in Ids : req[i] = NoRequest /\ reqRow[i] = NoRequest
        /\ \A t \in Workers : pc[t] = "idle"
    BY DEF Init
  <2>2. NoRequest.f = "none" /\ "none" \notin Findings
    BY ApprovalConstants DEF NoRequest
  <2>3. QED
    BY <2>1, <2>2
       DEF OneActiveInv, OneActiveOf, Unique, Deleting, SpacedInv, SpacedOf, Spaced
<1>2. ReviewInv /\ SpacedInv => ReRequestNeedsAnotherAction
  <2> SUFFICES ASSUME ReviewInv, SpacedInv, ~ AllowReRequest, dbErrors = 0,
                      NEW i \in Ids, NEW j \in Ids, req[i].status # "none", i < j,
                      Serial(req[i].f), req[j].f = req[i].f, req[j].action = req[i].action
               PROVE  \E k \in (i + 1)..(j - 1) :
                        req[k].f = req[i].f /\ req[k].action # req[i].action
    BY DEF ReRequestNeedsAnotherAction
  <2>1. req[i].f \in Findings
    BY DEF ReviewInv, BasicInv, Known, NoRequest
  <2>2. PICK k \in Ids : /\ i < k /\ k < j
                        /\ req[k].f = req[i].f /\ req[k].action # req[i].action
    BY <2>1 DEF SpacedInv, SpacedOf, Spaced, Passed
  <2>3. k \in (i + 1)..(j - 1)
    BY <2>2, ApprovalConstants DEF Ids
  <2>4. QED
    BY <2>2, <2>3
<1>3. ReviewInv /\ OneActiveInv /\ SpacedInv /\ [Next]_vars
        => ReviewInv' /\ OneActiveInv' /\ SpacedInv'
  <2> SUFFICES ASSUME ReviewInv, OneActiveInv, SpacedInv, [Next]_vars
               PROVE  ReviewInv' /\ OneActiveInv' /\ SpacedInv'
    OBVIOUS
  <2>1. ReviewInv' /\ StepShape
    BY ReviewStep
  <2>2. OneActiveInv'
    BY <2>1, OneActiveStep
  <2>3. QED
    BY <2>1, <2>2, SpacedStep
<1>4. QED
  BY <1>1, <1>2, <1>3, ReviewInit, PTL DEF Spec

-----------------------------------------------------------------------------
(* The audit trail explains the status.                                    *)

LEMMA AuditStep ==
  ReviewInv /\ AuditInv /\ StepShape /\ ReviewInv' => AuditInv'
<1> SUFFICES ASSUME ReviewInv, AuditInv, StepShape, ReviewInv', Undisturbed'
             PROVE  /\ \A i \in Ids : req'[i].status # "none"
                                        /\ "deletion" \notin overlap'[req'[i].f] => Explained(i)'
                    /\ \A t \in Workers :
                         pc'[t] \in Deleting /\ "deletion" \notin overlap'[loc'[t].f] =>
                           \A j \in Ids : req'[j].f # loc'[t].f
  BY DEF AuditInv
<1>0. /\ NoRequest.f = "none" /\ NoRequest.status = "none" /\ "none" \notin Findings
      /\ {"idle", "saveMem", "saveRow", "evMem", "evRow"} \cap Deleting = {}
      /\ {"delEv", "delRow"} \subseteq Deleting
      /\ {"idle", "saveMem", "evRow", "delEv", "delRow"} \cap Half = {}
      /\ {"saveRow", "evMem"} \subseteq Half
  BY ApprovalConstants DEF NoRequest, Deleting, Half
<1>a. \A i \in Ids : req[i].status # "none" => req[i].f \in Findings
  BY <1>0 DEF ReviewInv, BasicInv, Known
<1>b. \A u \in Workers : pc[u] \in Deleting => loc[u].f \in Findings
  BY DEF ReviewInv, BasicInv
<1>c. crashes' = 0 /\ dbErrors' = 0
  BY DEF Undisturbed
<1>1. CASE RestartShape
  BY <1>1, <1>c DEF RestartShape
<1>2. ASSUME NEW t \in Workers, ErrorShape(t) PROVE FALSE
  BY <1>2, <1>c DEF ErrorShape
<1>3. CASE StillShape
  <2>1. Undisturbed
    BY <1>3, <1>c DEF StillShape, Frame, Undisturbed
  <2>2. QED
    BY <1>3, <2>1 DEF StillShape, Frame, AuditInv, Explained
<1>4. ASSUME NEW t \in Workers, SaveMemShape(t, loc[t])
      PROVE AuditInv'
  <2> DEFINE l == loc[t]
  <2>1. /\ pc[t] = "saveMem" /\ UNCHANGED <<ev, overlap>> /\ l.id \in Ids /\ l.rec.f = l.f
        /\ \A u \in Workers : loc'[u] = loc[u] /\ pc'[u] = (IF u = t THEN "saveRow" ELSE pc[u])
        /\ \A j \in Ids : req'[j] = IF j = l.id THEN l.rec ELSE req[j]
        /\ Undisturbed
    BY <1>4, <1>c DEF SaveMemShape, Moved, Frame, Decision, Undisturbed
  <2>2. ASSUME NEW i \in Ids, req'[i].status # "none", "deletion" \notin overlap'[req'[i].f]
        PROVE  Explained(i)'
    <3>1. CASE i = l.id
      BY <1>0, <2>1, <3>1 DEF Explained
    <3>2. CASE i # l.id
      <4>1. Explained(i) /\ req'[i] = req[i]
        BY <2>1, <2>2, <3>2 DEF AuditInv
      <4>2. QED
        BY <1>0, <2>1, <4>1 DEF Explained
    <3>3. QED
      BY <3>1, <3>2
  <2>3. ASSUME NEW u \in Workers, pc'[u] \in Deleting, "deletion" \notin overlap'[loc'[u].f],
               NEW j \in Ids
        PROVE  req'[j].f # loc'[u].f
    <3>1. u # t /\ pc[u] \in Deleting /\ loc'[u] = loc[u] /\ pc[u] # "idle" /\ pc[t] # "idle"
      BY <1>0, <2>1, <2>3
    <3>2. l.f # loc[u].f
      BY <2>1, <2>3, <3>1 DEF ReviewInv, OverlapInv
    <3>3. req[j].f # loc[u].f
      BY <2>1, <2>3, <3>1 DEF AuditInv
    <3>4. QED
      BY <2>1, <3>1, <3>2, <3>3
  <2>4. QED
    BY <2>2, <2>3 DEF AuditInv
<1>5. ASSUME NEW t \in Workers, SaveRowShape(t, loc[t]) \/ EvRowShape(t, loc[t])
                                \/ DelRowShape(t, loc[t])
      PROVE AuditInv'
  <2>1. /\ UNCHANGED <<req, ev, overlap>> /\ Undisturbed
        /\ \A u \in Workers : pc'[u] # "idle" => loc'[u] = loc[u]
        /\ \A u \in Workers : pc'[u] \in Deleting => pc[u] \in Deleting
        /\ \A u \in Workers : pc[u] \in Half => pc'[u] \in Half
    BY <1>5, <1>c DEF SaveRowShape, EvRowShape, DelRowShape, Moved, Frame, Undisturbed,
                      Deleting, Half
  <2>2. \A u \in Workers : pc'[u] \in Half \cup Deleting => loc'[u] = loc[u]
    BY <1>0, <2>1
  <2>3. \A i \in Ids : Explained(i) => Explained(i)'
    BY <2>1, <2>2 DEF Explained
  <2>4. QED
    BY <2>1, <2>2, <2>3 DEF AuditInv
<1>6. ASSUME NEW t \in Workers, EvMemShape(t, loc[t])
      PROVE AuditInv'
  <2> DEFINE l == loc[t]
             e == EventOf(l)
  <2>1. /\ UNCHANGED <<req, overlap>> /\ Undisturbed /\ pc[t] = "evMem"
        /\ \A u \in Workers : loc'[u] = loc[u] /\ pc'[u] = (IF u = t THEN "evRow" ELSE pc[u])
        /\ \A j \in Ids : ev'[j] = IF j = l.id THEN Append(ev[j], e) ELSE ev[j]
    BY <1>6, <1>c DEF EvMemShape, Moved, Frame, Undisturbed
  <2>2. e.new = l.rec.status
    BY DEF EventOf
  <2>3. \A j \in Ids : ev[j] \in Seq(Event)
    BY DEF ReviewInv, BasicInv, TypeOK
  <2> HIDE DEF e
  <2>4. ASSUME NEW i \in Ids, Explained(i)
        PROVE  Explained(i)'
    <3>1. CASE i = l.id
      <4>1. ev[i] \in Seq(Event) /\ ev'[i] = Append(ev[i], e)
        BY <2>1, <2>3, <3>1
      <4>2. /\ Len(ev[i]) + 1 \in DOMAIN ev'[i] /\ ev'[i][Len(ev[i]) + 1] = e
            /\ \A k \in DOMAIN ev[i] : k \in DOMAIN ev'[i] /\ ev'[i][k] = ev[i][k]
        BY <4>1
      <4>3. CASE \E k \in DOMAIN ev[i] : ev[i][k].new = req[i].status
        BY <2>1, <4>2, <4>3 DEF Explained
      <4>4. ASSUME NEW u \in Workers, pc[u] \in Half, loc[u].id = i,
                   loc[u].rec.status = req[i].status
            PROVE  Explained(i)'
        <5>1. CASE u = t
          <6>1. ev'[i][Len(ev[i]) + 1].new = req'[i].status
            BY <2>1, <2>2, <4>2, <4>4, <5>1
          <6>2. QED
            BY <4>2, <6>1 DEF Explained
        <5>2. CASE u # t
          BY <2>1, <4>4, <5>2 DEF Explained
        <5>3. QED
          BY <5>1, <5>2
      <4>5. QED
        BY <2>4, <4>3, <4>4 DEF Explained
    <3>2. CASE i # l.id
      BY <2>1, <2>4, <3>2 DEF Explained
    <3>3. QED
      BY <3>1, <3>2
  <2>5. \A u \in Workers : pc'[u] \in Deleting => pc[u] \in Deleting
    BY <1>0, <2>1
  <2>6. QED
    BY <2>1, <2>4, <2>5 DEF AuditInv
<1>7. ASSUME NEW t \in Workers, DelEvShape(t, loc[t])
      PROVE AuditInv'
  <2> DEFINE l == loc[t]
  <2>1. /\ UNCHANGED <<req, overlap>> /\ Undisturbed /\ pc[t] = "delEv" /\ l.f \in Findings
        /\ \A u \in Workers : loc'[u] = loc[u] /\ pc'[u] = (IF u = t THEN "delRow" ELSE pc[u])
        /\ \A j \in Ids : ev'[j] = IF j \in l.ids THEN <<>> ELSE ev[j]
    BY <1>7, <1>c DEF DelEvShape, Moved, Frame, Undisturbed
  <2>2. ASSUME NEW i \in Ids, req'[i].status # "none", "deletion" \notin overlap'[req'[i].f]
        PROVE  Explained(i)'
    <3>1. req[i].status # "none" /\ "deletion" \notin overlap[req[i].f] /\ req[i].f \in Findings
      BY <1>a, <2>1, <2>2
    <3>2. i \notin l.ids
      <4>1. SUFFICES ASSUME i \in l.ids PROVE FALSE
        OBVIOUS
      <4>2. pc[t] \in Deleting /\ req[i].f = l.f
        BY <1>0, <2>1, <3>1, <4>1 DEF ReviewInv, OwnerInv
      <4>3. QED
        BY <2>1, <3>1, <4>2 DEF AuditInv
    <3>3. Explained(i)
      BY <2>1, <3>1 DEF AuditInv
    <3>4. \A u \in Workers : pc[u] \in Half => u # t
      BY <1>0, <2>1
    <3>5. ev'[i] = ev[i] /\ \A u \in Workers : pc[u] \in Half => pc'[u] \in Half
      BY <2>1, <3>2, <3>4
    <3>6. QED
      BY <2>1, <3>3, <3>5 DEF Explained
  <2>3. \A u \in Workers : pc'[u] \in Deleting => pc[u] \in Deleting
    BY <1>0, <2>1
  <2>4. QED
    BY <2>1, <2>2, <2>3 DEF AuditInv
<1>8. ASSUME NEW t \in Workers, NEW l \in Locals, StartShape(t, l)
      PROVE AuditInv'
  <2>1. PICK step \in {"saveMem", "delEv"} :
          /\ Started(t, step, l) /\ l.f \in Findings
          /\ step = "saveMem" => req' = req
          /\ step = "delEv" =>
               \A i \in Ids : req'[i] = IF req[i].f = l.f THEN NoRequest ELSE req[i]
    BY <1>8 DEF StartShape, RequestShape, TransitionShape, RemoveShape
  <2>2. /\ UNCHANGED ev /\ Undisturbed /\ pc[t] = "idle"
        /\ \A u \in Workers : /\ pc'[u] = (IF u = t THEN step ELSE pc[u])
                              /\ loc'[u] = (IF u = t THEN l ELSE loc[u])
        /\ \A g \in Findings : "deletion" \notin overlap'[g] => "deletion" \notin overlap[g]
        /\ \A i \in Ids : req'[i] \in {req[i], NoRequest}
    BY <1>c, <2>1 DEF Started, Undisturbed
  <2>3. ASSUME NEW i \in Ids, req'[i].status # "none", "deletion" \notin overlap'[req'[i].f]
        PROVE  Explained(i)'
    <3>1. req'[i] = req[i]
      BY <1>0, <2>2, <2>3
    <3>2. Explained(i)
      BY <1>a, <2>2, <2>3, <3>1 DEF AuditInv
    <3>3. \A u \in Workers : pc[u] \in Half => u # t
      BY <1>0, <2>2
    <3>4. QED
      BY <2>2, <3>1, <3>2, <3>3 DEF Explained
  <2>4. ASSUME NEW u \in Workers, pc'[u] \in Deleting, "deletion" \notin overlap'[loc'[u].f],
               NEW j \in Ids
        PROVE  req'[j].f # loc'[u].f
    <3>1. CASE u = t
      <4>1. step = "delEv" /\ loc'[u] = l
        BY <1>0, <2>1, <2>2, <2>4, <3>1
      <4>2. QED
        BY <1>0, <2>1, <4>1
    <3>2. CASE u # t
      <4>1. pc[u] \in Deleting /\ loc'[u] = loc[u] /\ loc[u].f \in Findings
        BY <1>b, <2>2, <2>4, <3>2
      <4>2. req[j].f # loc[u].f
        BY <2>2, <2>4, <4>1 DEF AuditInv
      <4>3. req'[j].f \in {req[j].f, "none"}
        BY <1>0, <2>2
      <4>4. QED
        BY <1>0, <4>1, <4>2, <4>3
    <3>3. QED
      BY <3>1, <3>2
  <2>5. QED
    BY <2>3, <2>4 DEF AuditInv
<1>9. QED
  BY <1>1, <1>2, <1>3, <1>4, <1>5, <1>6, <1>7, <1>8 DEF StepShape, WriteShape, AuditInv

LEMMA AuditInit == Init => AuditInv
<1> SUFFICES ASSUME Init PROVE AuditInv
  OBVIOUS
<1>1. /\ \A i \in Ids : req[i] = NoRequest
      /\ \A t \in Workers : pc[t] = "idle"
  BY DEF Init
<1>2. QED
  BY <1>1 DEF AuditInv, NoRequest, Deleting

(* The audit trail of record_event explains every stored status once the   *)
(* request's handlers ended, for any number of reviewers whose decisions   *)
(* overlap and overwrite each other, as long as no deletion of the finding *)
(* overlapped them and no commit failed or process restarted in between.   *)
THEOREM AuditTrailExplains == Spec => []AuditExplainsStatus
<1>1. ReviewInv /\ AuditInv => AuditExplainsStatus
  <2> SUFFICES ASSUME AuditInv, Undisturbed, NEW i \in Ids, req[i].status # "none", Idle(i),
                      "deletion" \notin overlap[req[i].f]
               PROVE  \E k \in DOMAIN ev[i] : ev[i][k].new = req[i].status
    BY DEF AuditExplainsStatus
  <2>1. Explained(i)
    BY DEF AuditInv
  <2>2. \A t \in Workers : pc[t] \in Half => loc[t].id # i
    BY DEF Idle, Half
  <2>3. QED
    BY <2>1, <2>2 DEF Explained
<1>2. QED
  BY <1>1, AuditInit, AuditStep, ReviewInit, ReviewStep, PTL DEF Spec

-----------------------------------------------------------------------------
(* The trail replays the request.                                          *)

LEMMA ResubmissionsOfAppend ==
  ASSUME NEW trail \in Seq(Event), NEW e \in Event
  PROVE  /\ Cardinality(Resubmissions(trail)) \in Nat
         /\ Cardinality(Resubmissions(Append(trail, e))) =
              Cardinality(Resubmissions(trail))
                + (IF e.previous = "changes_requested" THEN 1 ELSE 0)
<1> DEFINE n == Len(trail)
           S == Resubmissions(trail)
           T == Resubmissions(Append(trail, e))
<1>1. /\ n \in Nat /\ DOMAIN trail = 1..n /\ DOMAIN Append(trail, e) = 1..(n + 1)
      /\ Append(trail, e)[n + 1] = e /\ \A k \in 1..n : Append(trail, e)[k] = trail[k]
  OBVIOUS
<1>2. S \subseteq 1..n /\ n + 1 \notin S
  BY <1>1 DEF Resubmissions
<1>3. T = IF e.previous = "changes_requested" THEN S \cup {n + 1} ELSE S
  <2>1. \A k \in 1..n : k \in T <=> k \in S
    BY <1>1 DEF Resubmissions
  <2>2. n + 1 \in T <=> e.previous = "changes_requested"
    BY <1>1 DEF Resubmissions
  <2>3. T \subseteq 1..(n + 1)
    BY <1>1 DEF Resubmissions
  <2> HIDE DEF S, T
  <2>4. \A k \in 1..(n + 1) : k \in 1..n \/ k = n + 1
    BY <1>1
  <2> HIDE DEF n
  <2>5. CASE e.previous = "changes_requested"
    BY <1>2, <2>1, <2>2, <2>3, <2>4, <2>5
  <2>6. CASE e.previous # "changes_requested"
    <3>1. T \subseteq S
      BY <2>1, <2>2, <2>3, <2>4, <2>6
    <3>2. S \subseteq T
      BY <1>2, <2>1
    <3>3. T = S
      BY <3>1, <3>2
    <3>4. QED
      BY <2>6, <3>3
  <2>7. QED
    BY <2>5, <2>6
<1> HIDE DEF n, S, T
<1>4. IsFiniteSet(1..n)
  BY <1>1, FS_Interval
<1>5. IsFiniteSet(S) /\ Cardinality(S) \in Nat
  BY <1>2, <1>4, FS_Subset, FS_CardinalityType
<1>6. Cardinality(S \cup {n + 1}) = Cardinality(S) + 1
  BY <1>2, <1>5, FS_AddElement
<1>7. Cardinality(T) = Cardinality(S) + (IF e.previous = "changes_requested" THEN 1 ELSE 0)
  BY <1>3, <1>5, <1>6
<1>8. QED
  BY <1>5, <1>7 DEF S, T

(* A new request has no trail yet. *)
LEMMA OwesFirst ==
  ASSUME NEW l, l.previous = "none", l.rec.version = 1
  PROVE  Owes(<<>>, l)
<1>1. Resubmissions(<<>>) = {}
  BY DEF Resubmissions
<1>2. Chained(<<>>) /\ Ends(<<>>) = "none"
  BY DEF Chained, Ends
<1>3. Cardinality(Resubmissions(<<>>)) = 0
  BY <1>1, FS_EmptySet
<1>4. QED
  BY <1>2, <1>3 DEF Owes

(* A decision on a request the trail accounts for. *)
LEMMA OwesNext ==
  ASSUME NEW trail \in Seq(Event), NEW r \in Request, NEW l,
         Replays(trail, r.status, r.version), l.previous = r.status,
         l.rec.version = IF r.status = "changes_requested" THEN r.version + 1 ELSE r.version
  PROVE  Owes(trail, l)
<1>1. Cardinality(Resubmissions(trail)) \in Nat
  <2>1. PICK e : e \in Event
    <3>1. [previous |-> "pending", new |-> "pending", at |-> 0] \in Event
      BY DEF Event, Active
    <3>2. QED
      BY <3>1
  <2>2. QED
    BY <2>1, ResubmissionsOfAppend
<1>2. QED
  BY <1>1 DEF Owes, Replays

(* The event closes the gap. *)
LEMMA OwesPaid ==
  ASSUME NEW trail \in Seq(Event), NEW l \in Locals, l.rec.status # "none", Owes(trail, l)
  PROVE  Replays(Append(trail, EventOf(l)), l.rec.status, l.rec.version)
<1> DEFINE e == EventOf(l)
           n == Len(trail)
           w == Append(trail, e)
<1>1. e \in Event /\ e.previous = l.previous /\ e.new = l.rec.status
  BY EventType DEF EventOf
<1> HIDE DEF e
<1>2. /\ n \in Nat /\ w # <<>> /\ Len(w) = n + 1 /\ w[n + 1] = e
      /\ \A k \in 1..n : w[k] = trail[k]
      /\ trail = <<>> <=> n = 0
  BY <1>1
<1>3. \A k \in 1..n : trail[k].new # "none"
  <2>1. \A k \in 1..n : trail[k] \in Event
    OBVIOUS
  <2>2. QED
    BY <2>1 DEF Event, Active, Terminal
<1> HIDE DEF n, w
<1>4. Ends(w) = l.rec.status
  BY <1>1, <1>2 DEF Ends
<1>5. n > 0 => trail[n].new = l.previous
  BY <1>2 DEF Owes, Ends, n
<1>6. n = 0 => l.previous = "none"
  BY <1>2 DEF Owes, Ends
<1>7. w[1].previous = "none"
  <2>1. CASE n = 0
    BY <1>1, <1>2, <1>6, <2>1
  <2>2. CASE n > 0
    <3>1. trail # <<>> /\ 1 \in 1..n
      BY <1>2, <2>2
    <3>2. QED
      BY <1>2, <3>1 DEF Owes, Chained
  <2>3. QED
    BY <1>2, <2>1, <2>2
<1>8. ASSUME NEW k \in 2..Len(w) PROVE w[k].previous = w[k - 1].new
  <2>1. CASE k = n + 1
    <3>1. n > 0 /\ n \in 1..n /\ k - 1 = n
      BY <1>2, <2>1
    <3>2. QED
      BY <1>1, <1>2, <1>5, <2>1, <3>1
  <2>2. CASE k # n + 1
    <3>1. k \in 2..n /\ k \in 1..n /\ k - 1 \in 1..n
      BY <1>2, <2>2
    <3>2. trail[k].previous = trail[k - 1].new
      BY <3>1 DEF Owes, Chained, n
    <3>3. QED
      BY <1>2, <3>1, <3>2
  <2>3. QED
    BY <2>1, <2>2
<1>9. Chained(w)
  BY <1>7, <1>8 DEF Chained
<1>10. l.rec.version = 1 + Cardinality(Resubmissions(w))
  <2>1. /\ Cardinality(Resubmissions(trail)) \in Nat
        /\ Cardinality(Resubmissions(w)) =
              Cardinality(Resubmissions(trail))
                + (IF e.previous = "changes_requested" THEN 1 ELSE 0)
    BY <1>1, ResubmissionsOfAppend DEF w
  <2>2. QED
    BY <1>1, <2>1 DEF Owes
<1>11. QED
  BY <1>4, <1>9, <1>10 DEF Replays, w, e

LEMMA TrailStep ==
  ReviewInv /\ AuditInv /\ TrailInv /\ StepShape /\ ReviewInv' => TrailInv'
<1> DEFINE Unpaid(i) == \A t \in Workers : pc[t] \in Half => loc[t].id # i
           Open == Half \cup {"saveMem"}
<1> SUFFICES ASSUME ReviewInv, AuditInv, TrailInv, StepShape, ReviewInv', Undisturbed'
             PROVE  TrailInv'
  BY DEF TrailInv
<1>0. /\ NoRequest.status = "none" /\ NoRequest.f = "none" /\ "none" \notin Findings
      /\ {"idle", "saveMem", "evRow", "delEv", "delRow"} \cap Half = {}
      /\ {"idle", "evRow", "delEv", "delRow"} \cap Open = {}
      /\ {"saveRow", "evMem"} \subseteq Half /\ Open \subseteq Deciding
      /\ "delEv" \in Deleting /\ "idle" \notin Deciding
  BY ApprovalConstants DEF NoRequest, Half, Deciding, Deleting
<1>a. \A i \in Ids : req[i].status # "none" => req[i].f \in Findings
  BY <1>0 DEF ReviewInv, BasicInv, Known
<1>b. \A u \in Workers : pc[u] \in Open =>
        /\ loc[u].id \in Ids /\ loc[u].f \in Findings /\ loc[u].rec.f = loc[u].f
        /\ pc[u] \in Deciding /\ pc[u] # "idle"
  BY <1>0 DEF ReviewInv, BasicInv, Decision
<1>c. crashes' = 0 /\ dbErrors' = 0
  BY DEF Undisturbed
<1>d. \A u, w \in Workers : pc[u] \in Open /\ pc[w] \in Open /\ u # w /\ Serial(loc[u].f)
        => loc[u].id # loc[w].id
  BY <1>b, SameRequestOverlaps DEF ReviewInv, Serial
<1>1. CASE RestartShape
  BY <1>1, <1>c DEF RestartShape
<1>2. ASSUME NEW t \in Workers, ErrorShape(t) PROVE FALSE
  BY <1>2, <1>c DEF ErrorShape
<1>3. ASSUME StillShape \/ \E t \in Workers : SaveRowShape(t, loc[t]) \/ EvRowShape(t, loc[t])
                                              \/ DelRowShape(t, loc[t])
      PROVE  TrailInv'
  <2>1. /\ UNCHANGED <<req, ev, overlap>> /\ Undisturbed
        /\ \A u \in Workers : pc'[u] # "idle" => loc'[u] = loc[u]
        /\ \A u \in Workers : pc'[u] \in Open <=> pc[u] \in Open
        /\ \A u \in Workers : pc'[u] \in Half <=> pc[u] \in Half
    BY <1>3, <1>c DEF StillShape, SaveRowShape, EvRowShape, DelRowShape, Moved, Frame,
                      Undisturbed, Half
  <2>2. \A u \in Workers : pc[u] \in Open => loc'[u] = loc[u]
    BY <1>0, <2>1
  <2>3. \A u \in Workers : pc[u] \in Half => pc[u] \in Open
    OBVIOUS
  <2>4. \A i \in Ids : Unpaid(i)' => Unpaid(i)
    BY <2>1, <2>2, <2>3
  <2>5. QED
    BY <2>1, <2>2, <2>4 DEF TrailInv, Serial
<1>4. ASSUME NEW t \in Workers, SaveMemShape(t, loc[t])
      PROVE  TrailInv'
  <2> DEFINE l == loc[t]
  <2>1. /\ pc[t] = "saveMem" /\ UNCHANGED <<ev, overlap>> /\ l.id \in Ids
        /\ \A u \in Workers : loc'[u] = loc[u] /\ pc'[u] = (IF u = t THEN "saveRow" ELSE pc[u])
        /\ \A j \in Ids : req'[j] = IF j = l.id THEN l.rec ELSE req[j]
        /\ Undisturbed
    BY <1>4, <1>c DEF SaveMemShape, Moved, Frame, Decision, Undisturbed
  <2>2. ASSUME NEW i \in Ids, Unpaid(i)', req'[i].status # "none", overlap'[req'[i].f] = {}
        PROVE  Replays(ev'[i], req'[i].status, req'[i].version)
    <3>1. pc'[t] \in Half /\ loc'[t].id = l.id
      BY <1>0, <2>1
    <3>2. i # l.id
      BY <2>2, <3>1
    <3>3. Unpaid(i) /\ req'[i] = req[i]
      BY <1>0, <2>1, <2>2, <3>2
    <3>4. QED
      BY <2>1, <2>2, <3>3 DEF TrailInv, Serial
  <2>3. ASSUME NEW u \in Workers, pc'[u] \in Open, overlap'[loc'[u].f] = {}
        PROVE  Owes(ev'[loc'[u].id], loc'[u]) /\ (pc'[u] \in Half => req'[loc'[u].id] = loc'[u].rec)
    <3>1. pc[u] \in Open /\ Serial(loc[u].f) /\ pc[t] \in Open
      BY <2>1, <2>3 DEF Serial
    <3>2. Owes(ev[loc[u].id], loc[u]) /\ (pc[u] \in Half => req[loc[u].id] = loc[u].rec)
      BY <2>1, <3>1 DEF TrailInv
    <3>3. u # t => loc[u].id # l.id
      BY <1>d, <3>1
    <3>4. QED
      BY <1>b, <2>1, <3>1, <3>2, <3>3
  <2>4. QED
    BY <2>2, <2>3 DEF TrailInv, Serial
<1>5. ASSUME NEW t \in Workers, EvMemShape(t, loc[t])
      PROVE  TrailInv'
  <2> DEFINE l == loc[t]
             e == EventOf(l)
  <2>1. /\ UNCHANGED <<req, overlap>> /\ Undisturbed /\ pc[t] = "evMem" /\ l.id \in Ids
        /\ \A u \in Workers : loc'[u] = loc[u] /\ pc'[u] = (IF u = t THEN "evRow" ELSE pc[u])
        /\ \A j \in Ids : ev'[j] = IF j = l.id THEN Append(ev[j], e) ELSE ev[j]
        /\ l.rec.status # "none"
    BY <1>5, <1>c DEF EvMemShape, Moved, Frame, Undisturbed, Decision, Statuses, Active, Terminal
  <2>2. pc[t] \in Open /\ pc[t] \in Half /\ ev[l.id] \in Seq(Event) /\ l \in Locals
    BY <1>0, <2>1 DEF ReviewInv, BasicInv, TypeOK
  <2>3. Serial(l.f) =>
          /\ Replays(Append(ev[l.id], e), l.rec.status, l.rec.version)
          /\ req[l.id] = l.rec
    BY <2>1, <2>2, OwesPaid DEF TrailInv
  <2> HIDE DEF e
  <2>4. ASSUME NEW i \in Ids, Unpaid(i)', req'[i].status # "none", overlap'[req'[i].f] = {}
        PROVE  Replays(ev'[i], req'[i].status, req'[i].version)
    <3>1. CASE i = l.id
      <4>1. req[i].f \in Findings /\ Serial(req[i].f)
        BY <1>a, <2>1, <2>4 DEF Serial
      <4>2. req[i].f = l.f
        BY <1>0, <1>b, <2>2, <3>1, <4>1 DEF ReviewInv, OwnerInv
      <4>3. QED
        BY <2>1, <2>3, <3>1, <4>1, <4>2
    <3>2. CASE i # l.id
      <4>1. Unpaid(i)
        BY <2>1, <2>4, <3>2
      <4>2. QED
        BY <2>1, <2>4, <3>2, <4>1 DEF TrailInv, Serial
    <3>3. QED
      BY <3>1, <3>2
  <2>5. ASSUME NEW u \in Workers, pc'[u] \in Open, overlap'[loc'[u].f] = {}
        PROVE  Owes(ev'[loc'[u].id], loc'[u]) /\ (pc'[u] \in Half => req'[loc'[u].id] = loc'[u].rec)
    <3>1. u # t /\ pc[u] \in Open /\ Serial(loc[u].f) /\ pc'[u] = pc[u]
      BY <1>0, <2>1, <2>5 DEF Serial
    <3>2. loc[u].id # l.id
      BY <1>d, <2>2, <3>1
    <3>3. QED
      BY <1>b, <2>1, <3>1, <3>2 DEF TrailInv
  <2>6. QED
    BY <2>4, <2>5 DEF TrailInv, Serial
<1>6. ASSUME NEW t \in Workers, DelEvShape(t, loc[t])
      PROVE  TrailInv'
  <2> DEFINE l == loc[t]
  <2>1. /\ UNCHANGED <<req, overlap>> /\ Undisturbed /\ pc[t] = "delEv" /\ l.f \in Findings
        /\ \A u \in Workers : loc'[u] = loc[u] /\ pc'[u] = (IF u = t THEN "delRow" ELSE pc[u])
        /\ \A j \in Ids : ev'[j] = IF j \in l.ids THEN <<>> ELSE ev[j]
    BY <1>6, <1>c DEF DelEvShape, Moved, Frame, Undisturbed
  <2>2. \A u \in Workers : /\ pc'[u] \in Open <=> pc[u] \in Open
                           /\ pc'[u] \in Half <=> pc[u] \in Half
    BY <1>0, <2>1
  <2>3. ASSUME NEW i \in Ids, Unpaid(i)', req'[i].status # "none", overlap'[req'[i].f] = {}
        PROVE  Replays(ev'[i], req'[i].status, req'[i].version)
    <3>1. req[i].f \in Findings /\ Serial(req[i].f) /\ "deletion" \notin overlap[req[i].f]
      BY <1>a, <2>1, <2>3 DEF Serial
    <3>2. i \notin l.ids
      <4>1. SUFFICES ASSUME i \in l.ids PROVE FALSE
        OBVIOUS
      <4>2. pc[t] \in Deleting /\ req[i].f = l.f
        BY <1>0, <2>1, <3>1, <4>1 DEF ReviewInv, OwnerInv
      <4>3. QED
        BY <2>1, <3>1, <4>2 DEF AuditInv
    <3>3. Unpaid(i)
      BY <2>1, <2>2, <2>3
    <3>4. QED
      BY <2>1, <2>3, <3>1, <3>2, <3>3 DEF TrailInv
  <2>4. ASSUME NEW u \in Workers, pc'[u] \in Open, overlap'[loc'[u].f] = {}
        PROVE  Owes(ev'[loc'[u].id], loc'[u]) /\ (pc'[u] \in Half => req'[loc'[u].id] = loc'[u].rec)
    <3>1. u # t /\ pc[u] \in Open /\ Serial(loc[u].f) /\ pc[t] \in Deleting
      BY <1>0, <2>1, <2>4 DEF Serial
    <3>2. loc[u].id \notin l.ids
      <4>1. SUFFICES ASSUME loc[u].id \in l.ids PROVE FALSE
        OBVIOUS
      <4>2. loc[u].f = l.f /\ pc[u] # "idle" /\ pc[t] # "idle"
        BY <1>b, <2>1, <3>1, <4>1 DEF ReviewInv, OwnerInv
      <4>3. QED
        BY <3>1, <4>2 DEF ReviewInv, OverlapInv, Serial
    <3>3. QED
      BY <1>b, <2>1, <2>2, <3>1, <3>2 DEF TrailInv
  <2>5. QED
    BY <2>3, <2>4 DEF TrailInv, Serial
<1>7. ASSUME NEW t \in Workers, NEW l \in Locals, StartShape(t, l)
      PROVE  TrailInv'
  <2>1. PICK step \in {"saveMem", "delEv"} :
          /\ Started(t, step, l) /\ l.f \in Findings
          /\ step = "saveMem" => req' = req
          /\ step = "delEv" =>
               \A i \in Ids : req'[i] = IF req[i].f = l.f THEN NoRequest ELSE req[i]
          /\ step = "saveMem" => RequestShape(t, l) \/ TransitionShape(t, l)
    BY <1>7 DEF StartShape, RequestShape, TransitionShape, RemoveShape
  <2>2. /\ UNCHANGED ev /\ Undisturbed /\ pc[t] = "idle"
        /\ \A u \in Workers : /\ pc'[u] = (IF u = t THEN step ELSE pc[u])
                              /\ loc'[u] = (IF u = t THEN l ELSE loc[u])
        /\ \A g \in Findings : Serial(g)' => Serial(g)
        /\ \A i \in Ids : req'[i] = req[i] \/ req'[i] = NoRequest
        /\ \A u \in Workers : pc[u] # "idle" /\ loc[u].f = l.f => ~ Serial(l.f)'
    BY <1>c, <2>1 DEF Started, Undisturbed, Serial
  <2>3. \A u \in Workers : /\ pc[u] \in Half => u # t /\ pc'[u] \in Half
                           /\ pc'[u] \in Half => pc[u] \in Half /\ u # t
    BY <1>0, <2>1, <2>2
  <2>4. ASSUME NEW i \in Ids, Unpaid(i)', req'[i].status # "none", overlap'[req'[i].f] = {}
        PROVE  Replays(ev'[i], req'[i].status, req'[i].version)
    <3>1. req'[i] = req[i] /\ Unpaid(i)
      BY <1>0, <2>2, <2>3, <2>4
    <3>2. Serial(req[i].f)
      BY <1>a, <2>2, <2>4, <3>1 DEF Serial
    <3>3. QED
      BY <2>2, <2>4, <3>1, <3>2 DEF TrailInv
  <2>5. ASSUME NEW u \in Workers, pc'[u] \in Open, overlap'[loc'[u].f] = {}
        PROVE  Owes(ev'[loc'[u].id], loc'[u]) /\ (pc'[u] \in Half => req'[loc'[u].id] = loc'[u].rec)
    <3>1. CASE u = t
      <4>1. step = "saveMem" /\ loc'[u] = l /\ pc'[u] \notin Half /\ Serial(l.f)'
        BY <1>0, <2>1, <2>2, <2>5, <3>1 DEF Serial
      <4>2. Serial(l.f)
        BY <2>1, <2>2, <4>1
      <4>3. Owes(ev[l.id], l)
        <5>1. CASE RequestShape(t, l)
          <6>1. l.id \in Ids /\ l.id > issued /\ l.previous = "none" /\ l.rec.version = 1
            BY <5>1 DEF RequestShape, ReviewInv, BasicInv, TypeOK
          <6>2. ev[l.id] = <<>>
            BY <2>2, <6>1 DEF ReviewInv, BasicInv, Undisturbed
          <6>3. QED
            BY <6>1, <6>2, OwesFirst
        <5>2. CASE TransitionShape(t, l)
          <6> DEFINE r == req[l.id]
          <6>1. /\ l.id \in Ids /\ l.f = r.f /\ l.previous = r.status /\ r.status \in Active
                /\ l.rec.version = IF r.status = "changes_requested"
                                   THEN r.version + 1 ELSE r.version
            BY <5>2 DEF TransitionShape
          <6>2. r \in Request /\ ev[l.id] \in Seq(Event) /\ r.status # "none" /\ Serial(r.f)
            BY <4>2, <6>1 DEF ReviewInv, BasicInv, TypeOK, Active
          <6>3. Unpaid(l.id)
            <7>1. SUFFICES ASSUME NEW w \in Workers, pc[w] \in Half, loc[w].id = l.id
                           PROVE  FALSE
              OBVIOUS
            <7>2. pc[w] \in Open
              BY <7>1
            <7>3. loc[w].f = l.f
              BY <1>0, <1>b, <2>1, <6>1, <7>1, <7>2 DEF ReviewInv, OwnerInv
            <7>4. QED
              BY <1>b, <2>2, <4>1, <7>2, <7>3
          <6>4. Replays(ev[l.id], r.status, r.version)
            BY <2>2, <6>1, <6>2, <6>3 DEF TrailInv
          <6> HIDE DEF r
          <6>5. QED
            BY <6>1, <6>2, <6>4, OwesNext
        <5>3. QED
          BY <2>1, <4>1, <5>1, <5>2
      <4>4. QED
        BY <2>2, <4>1, <4>3
    <3>2. CASE u # t
      <4>1. /\ pc'[u] = pc[u] /\ loc'[u] = loc[u] /\ pc[u] \in Open
            /\ Serial(loc[u].f) /\ loc[u].f # l.f
        BY <1>b, <2>2, <2>5, <3>2 DEF Serial
      <4>2. req'[loc[u].id] = req[loc[u].id]
        <5>1. req[loc[u].id].f # l.f
          BY <1>0, <1>b, <2>1, <4>1 DEF ReviewInv, OwnerInv
        <5>2. QED
          BY <1>b, <2>1, <4>1, <5>1
      <4>3. QED
        BY <2>2, <4>1, <4>2 DEF TrailInv
    <3>3. QED
      BY <3>1, <3>2
  <2>6. QED
    BY <2>4, <2>5 DEF TrailInv, Serial
<1>8. QED
  BY <1>1, <1>2, <1>3, <1>4, <1>5, <1>6, <1>7 DEF StepShape, WriteShape

(* Replaying the events record_event appended gives exactly the stored     *)
(* request: the chain of statuses, its last status and the review cycle    *)
(* _transition counts, for a finding whose handlers did not overlap and    *)
(* while no commit failed and no restart happened.                         *)
THEOREM TrailReplays == Spec => []TrailReplaysRequest
<1>1. Init => TrailInv
  <2> SUFFICES ASSUME Init PROVE TrailInv
    OBVIOUS
  <2>1. /\ \A i \in Ids : req[i] = NoRequest
        /\ \A t \in Workers : pc[t] = "idle"
    BY DEF Init
  <2>2. QED
    BY <2>1 DEF TrailInv, NoRequest, Half
<1>2. ReviewInv /\ TrailInv => TrailReplaysRequest
  <2> SUFFICES ASSUME ReviewInv, TrailInv, Undisturbed, NEW i \in Ids,
                      req[i].status # "none", Idle(i), Serial(req[i].f)
               PROVE  /\ ev[i] # <<>> /\ ev[i][1].previous = "none"
                      /\ \A k \in 2..Len(ev[i]) : ev[i][k].previous = ev[i][k - 1].new
                      /\ ev[i][Len(ev[i])].new = req[i].status
                      /\ req[i].version =
                           1 + Cardinality({k \in DOMAIN ev[i] :
                                              ev[i][k].previous = "changes_requested"})
    BY DEF TrailReplaysRequest
  <2>1. \A t \in Workers : pc[t] \in Half => loc[t].id # i
    BY DEF Idle, Half
  <2>2. Replays(ev[i], req[i].status, req[i].version)
    BY <2>1 DEF TrailInv
  <2>3. ev[i] # <<>>
    BY <2>2 DEF Replays, Ends
  <2>4. QED
    BY <2>2, <2>3 DEF Replays, Chained, Ends, Resubmissions
<1>3. QED
  BY <1>1, <1>2, AuditInit, AuditStep, TrailStep, ReviewInit, ReviewStep, PTL DEF Spec
=============================================================================
