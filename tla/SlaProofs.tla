----------------------------- MODULE SlaProofs -----------------------------
(***************************************************************************)
(* Proofs about Sla, for any number of findings, request threads and        *)
(* priorities: type correctness, and at most one escalation per SLA         *)
(* whatever the threads do; in a system that deletes no finding, and while  *)
(* no commit has failed, no escalation is lost and the trail in memory is   *)
(* the durable one.                                                         *)
(***************************************************************************)
EXTENDS Sla, TLAPS

(* A record that check_sla may still breach.                                *)
Open(r) == r.status \notin {"resolved", "breached"} /\ r.due # NoDue

NoEventOf(f, g) == \A i \in DOMAIN esc[f] : esc[f][i].gen # g

(* Exactly the threads inside check_and_persist_sla hold the lock.          *)
LockInv == \A t \in Threads : pc[t] \in CheckSteps <=> lock = t

(* Identities are handed out in order.                                      *)
GenInv ==
  /\ \A f \in Findings : sla[f].gen <= created
  /\ \A f \in Findings : \A i \in DOMAIN esc[f] : esc[f][i].gen <= created
  /\ \A t \in Threads : loc[t].rec.gen <= created

(* A record that may still breach has not been escalated.                   *)
OpenInv == \A f \in Findings : Open(sla[f]) => NoEventOf(f, sla[f].gen)

(* What a thread in the middle of a handler knows about its record.         *)
ThreadInv(t) ==
  /\ pc[t] \in {"escMem", "escRow"} => loc[t].event
  /\ pc[t] \in CheckSteps /\ loc[t].event
       => loc[t].rec.status = "breached" /\ loc[t].rec.level >= 1
  /\ pc[t] = "checkMem" /\ Open(loc[t].rec)
       => NoEventOf(loc[t].f, loc[t].rec.gen)
  /\ pc[t] \in {"checkMem", "checkRow", "escMem"} /\ loc[t].event
       => NoEventOf(loc[t].f, loc[t].rec.gen)
  /\ pc[t] \in {"checkRow", "escMem"} /\ loc[t].event
                                      /\ sla[loc[t].f].gen = loc[t].rec.gen
       => ~ Open(sla[loc[t].f])
  /\ pc[t] = "resolveMem" => loc[t].rec.status = "resolved"
  /\ pc[t] = "startMem" => loc[t].rec.level = 0

(* The inductive invariant behind AtMostOneEscalation.                      *)
EscalationInv ==
  /\ TypeOK
  /\ LockInv
  /\ GenInv
  /\ OpenInv
  /\ \A t \in Threads : ThreadInv(t)
  /\ AtMostOneEscalation

----------------------------------------------------------------------------
(* What one evaluation of a record can do, from SLAService.check_sla.       *)
LEMMA CheckSlaFacts ==
  ASSUME NEW r \in SLARecord, NEW now \in Nat
  PROVE  LET upd == CheckSla(r, now) IN
         /\ upd \in SLARecord
         /\ upd.gen = r.gen
         /\ Open(upd) => Open(r)
         /\ Breaches(r, now) => Open(r) /\ upd.status = "breached"
                                       /\ upd.level = r.level + 1
         /\ ~ Breaches(r, now) => upd.level = r.level
  <1> USE DEF SLARecord, Statuses
  <1>1. CASE r.status = "resolved"
    BY <1>1 DEF CheckSla, Breaches, Open
  <1>2. CASE r.status # "resolved" /\ r.due = NoDue
    BY <1>2 DEF CheckSla, Breaches, Open
  <1>3. CASE Breaches(r, now)
    <2>1. CheckSla(r, now) =
            [gen |-> r.gen, priority |-> r.priority, due |-> r.due,
             status |-> "breached", level |-> r.level + 1, breachedAt |-> now]
      BY <1>3 DEF CheckSla, Breaches
    <2> QED BY <1>3, <2>1 DEF Breaches, Open
  <1>4. CASE r.status = "breached" /\ r.due # NoDue
    BY <1>4 DEF CheckSla, Breaches, Open
  <1>5. CASE r.status \notin {"resolved", "breached"} /\ r.due # NoDue
                                                     /\ ~ Breaches(r, now)
    BY <1>5 DEF CheckSla, Open
  <1> QED BY <1>1, <1>2, <1>3, <1>4, <1>5 DEF Breaches

LEMMA IdleLocalsType == IdleLocals \in Locals /\ IdleLocals.rec = NoRecord
  BY SlaConstants DEF IdleLocals, Locals, SLARecord, NoRecord, NoDue, Statuses

LEMMA NoRecordFacts == NoRecord \in SLARecord /\ ~ Open(NoRecord) /\ NoRecord.gen = 0
  BY DEF NoRecord, SLARecord, Open, NoDue, Statuses

LEMMA CreateSlaType ==
  ASSUME NEW p \in Priorities, NEW started \in Nat
  PROVE  CreateSla(p, started) \in SLARecord /\ CreateSla(p, started).level = 0
                                             /\ CreateSla(p, started).gen = 0
  BY SlaConstants DEF CreateSla, SLARecord, Statuses, NoDue

(* Identities are numbers.                                                  *)
LEMMA GenTypes ==
  ASSUME TypeOK
  PROVE  /\ created \in Nat
         /\ \A f \in Findings : sla[f].gen \in Nat
         /\ \A f \in Findings : \A i \in DOMAIN esc[f] : esc[f][i].gen \in Nat
         /\ \A t \in Threads : loc[t].rec.gen \in Nat
  <1>1. created \in Nat /\ \A f \in Findings : sla[f].gen \in Nat
    BY DEF TypeOK, SLARecord
  <1>2. ASSUME NEW f \in Findings, NEW i \in DOMAIN esc[f] PROVE esc[f][i].gen \in Nat
    <2>1. esc[f] \in Seq(EscalationEvent) BY DEF TypeOK
    <2>2. esc[f][i] \in EscalationEvent BY <2>1
    <2> QED BY <2>2 DEF EscalationEvent
  <1>3. \A t \in Threads : loc[t].rec.gen \in Nat
    BY DEF TypeOK, Locals, SLARecord
  <1> QED BY <1>1, <1>2, <1>3

(* The initial state satisfies the inductive invariant.                     *)
LEMMA EscalationInit == Init => EscalationInv
  <1> SUFFICES ASSUME Init PROVE EscalationInv OBVIOUS
  <1> USE DEF Init
  <1>1. TypeOK
    BY IdleLocalsType, NoRecordFacts, SlaConstants DEF TypeOK, PcValues, Threads
  <1>2. LockInv
    BY SlaConstants DEF LockInv, Threads, CheckSteps
  <1>3. GenInv /\ OpenInv /\ AtMostOneEscalation
    BY IdleLocalsType, NoRecordFacts DEF GenInv, OpenInv, AtMostOneEscalation
  <1>4. \A t \in Threads : ThreadInv(t)
    BY DEF ThreadInv, CheckSteps
  <1> QED BY <1>1, <1>2, <1>3, <1>4 DEF EscalationInv

----------------------------------------------------------------------------
(* The steps of Next, grouped by what they do to the state the invariant    *)
(* reads.                                                                   *)

(* A step that leaves records, events, lock and threads alone.              *)
LEMMA QuietStep ==
  ASSUME EscalationInv, TypeOK', UNCHANGED <<sla, esc, lock, pc, loc, created>>
  PROVE  EscalationInv'
  <1>1. LockInv' /\ GenInv' /\ OpenInv' /\ AtMostOneEscalation'
    BY DEF EscalationInv, LockInv, GenInv, OpenInv, AtMostOneEscalation, NoEventOf
  <1>2. \A t \in Threads : ThreadInv(t)'
    BY DEF EscalationInv, ThreadInv, NoEventOf
  <1> QED BY <1>1, <1>2 DEF EscalationInv

(* A handler ends; if its thread held the lock, it is released.             *)
LEMMA ReturnStep ==
  ASSUME EscalationInv, TypeOK', NEW t \in Threads,
         UNCHANGED <<sla, esc, created>>, Return(t),
         lock' = IF lock = t THEN "free" ELSE lock
  PROVE  EscalationInv'
  <1> USE DEF Return
  <1>1. pc' = [pc EXCEPT ![t] = "idle"] /\ loc' = [loc EXCEPT ![t] = IdleLocals]
    OBVIOUS
  <1>2. LockInv'
    BY SlaConstants DEF EscalationInv, TypeOK, LockInv, CheckSteps, Threads
  <1>3. GenInv'
    BY IdleLocalsType, NoRecordFacts DEF EscalationInv, TypeOK, GenInv
  <1>4. OpenInv' /\ AtMostOneEscalation'
    BY DEF EscalationInv, OpenInv, AtMostOneEscalation, NoEventOf
  <1>5. \A u \in Threads : ThreadInv(u)'
    BY DEF EscalationInv, TypeOK, ThreadInv, NoEventOf, CheckSteps
  <1> QED BY <1>2, <1>3, <1>4, <1>5 DEF EscalationInv

(* A handler outside the lock moves on without touching records or events.  *)
LEMMA OutsideStep ==
  ASSUME EscalationInv, TypeOK', NEW t \in Threads,
         UNCHANGED <<sla, esc, created, lock>>,
         NEW step \in PcValues \ CheckSteps, NEW l \in Locals,
         pc[t] \notin CheckSteps,
         pc' = [pc EXCEPT ![t] = step], loc' = [loc EXCEPT ![t] = l],
         l.rec.gen <= created,
         step = "resolveMem" => l.rec.status = "resolved",
         step = "startMem" => l.rec.level = 0
  PROVE  EscalationInv'
  <1>2. LockInv'
    BY DEF EscalationInv, TypeOK, LockInv, Threads
  <1>3. GenInv'
    BY DEF EscalationInv, TypeOK, GenInv
  <1>4. OpenInv' /\ AtMostOneEscalation'
    BY DEF EscalationInv, OpenInv, AtMostOneEscalation, NoEventOf
  <1>5. \A u \in Threads : ThreadInv(u)'
    BY DEF EscalationInv, TypeOK, ThreadInv, NoEventOf, CheckSteps
  <1> QED BY <1>2, <1>3, <1>4, <1>5 DEF EscalationInv

(* Entering the lock with an evaluated record.                              *)
LEMMA CheckReadStep ==
  ASSUME EscalationInv, TypeOK', NEW t \in Threads, NEW f \in Findings,
         NEW now \in Nat, CheckRead(t, f, now)
  PROVE  EscalationInv'
  <1> DEFINE upd == CheckSla(sla[f], now)
             l == [f |-> f, rec |-> upd, now |-> now, event |-> Breaches(sla[f], now)]
  <1>0. sla[f] \in SLARecord BY DEF EscalationInv, TypeOK
  <1>1. CASE upd = sla[f] /\ UNCHANGED <<lock, pc, loc>>
    BY <1>1, QuietStep DEF CheckRead, stores, budget
  <1>2. CASE lock' = t /\ Call(t, "checkMem", f, upd, now, Breaches(sla[f], now))
    <2>1. /\ pc' = [pc EXCEPT ![t] = "checkMem"] /\ loc' = [loc EXCEPT ![t] = l]
          /\ lock = "free" /\ lock' = t /\ UNCHANGED <<sla, esc, created>>
      BY <1>2 DEF Call, CheckRead, stores, budget
    <2>2. /\ upd.gen = sla[f].gen
          /\ Open(upd) => Open(sla[f])
          /\ Breaches(sla[f], now) => Open(sla[f]) /\ upd.status = "breached"
                                                   /\ upd.level = sla[f].level + 1
      BY <1>0, CheckSlaFacts
    <2>a. sla[f].level \in Nat
      BY <1>0 DEF SLARecord
    <2>b. l.f = f /\ l.rec = upd /\ (l.event <=> Breaches(sla[f], now))
      OBVIOUS
    <2> HIDE DEF l, upd
    <2>3. LockInv'
      BY <2>1, SlaConstants DEF EscalationInv, TypeOK, LockInv, CheckSteps, Threads
    <2>4. GenInv'
      BY <2>1, <2>2, <2>b DEF EscalationInv, TypeOK, GenInv
    <2>5. OpenInv' /\ AtMostOneEscalation'
      BY <2>1 DEF EscalationInv, OpenInv, AtMostOneEscalation, NoEventOf
    <2>6. ASSUME NEW u \in Threads PROVE ThreadInv(u)'
      <3>1. CASE u # t
        BY <2>1, <3>1 DEF EscalationInv, TypeOK, ThreadInv, NoEventOf
      <3>2. CASE u = t
        <4>1. pc'[u] = "checkMem" /\ loc'[u] = l
          BY <2>1, <3>2 DEF EscalationInv, TypeOK
        <4>2. Open(upd) \/ Breaches(sla[f], now) => NoEventOf(f, upd.gen)
          BY <2>2 DEF EscalationInv, OpenInv
        <4> QED BY <2>1, <2>2, <2>a, <2>b, <4>1, <4>2
                DEF ThreadInv, NoEventOf, CheckSteps
      <3> QED BY <3>1, <3>2
    <2> QED BY <2>3, <2>4, <2>5, <2>6 DEF EscalationInv
  <1> QED BY <1>1, <1>2 DEF CheckRead

(* record_sla_record's memory half, from the lock or from a resolve: the    *)
(* record written is closed, or has no event yet.                           *)
LEMMA CheckMemStep ==
  ASSUME EscalationInv, TypeOK', NEW t \in Threads, CheckMem(t)
  PROVE  EscalationInv'
  <1>1. /\ pc[t] = "checkMem" /\ pc' = [pc EXCEPT ![t] = "checkRow"]
        /\ sla' = [sla EXCEPT ![loc[t].f] = loc[t].rec]
        /\ UNCHANGED <<loc, esc, lock, created>>
    BY DEF CheckMem, Goto, budget
  <1>2. loc[t].f \in Findings
    BY DEF EscalationInv, TypeOK, Locals
  <1>3. LockInv'
    BY <1>1 DEF EscalationInv, TypeOK, LockInv, CheckSteps
  <1>4. GenInv'
    BY <1>1, <1>2 DEF EscalationInv, TypeOK, GenInv
  <1>5. ASSUME NEW g \in Findings, Open(sla[g])' PROVE NoEventOf(g, sla[g].gen)'
    <2>1. CASE g = loc[t].f
      BY <1>1, <1>5, <2>1 DEF EscalationInv, TypeOK, ThreadInv, NoEventOf
    <2>2. CASE g # loc[t].f
      BY <1>1, <1>5, <2>2 DEF EscalationInv, TypeOK, OpenInv, NoEventOf
    <2> QED BY <2>1, <2>2
  <1>6. AtMostOneEscalation'
    BY <1>1 DEF EscalationInv, AtMostOneEscalation
  <1>7. ASSUME NEW u \in Threads PROVE ThreadInv(u)'
    <2>1. CASE u = t
      <3>1. pc'[u] = "checkRow" /\ loc'[u] = loc[t] /\ sla'[loc[t].f] = loc[t].rec
        BY <1>1, <1>2, <2>1 DEF EscalationInv, TypeOK
      <3> QED BY <1>1, <3>1 DEF EscalationInv, ThreadInv, NoEventOf, Open, CheckSteps
    <2>2. CASE u # t
      <3>1. pc'[u] = pc[u] /\ loc'[u] = loc[u] /\ pc[u] \notin CheckSteps
        BY <1>1, <2>2 DEF EscalationInv, TypeOK, LockInv, CheckSteps
      <3> QED BY <1>1, <3>1 DEF EscalationInv, ThreadInv, NoEventOf, CheckSteps
    <2> QED BY <2>1, <2>2
  <1>8. OpenInv'
    BY <1>5 DEF OpenInv, Open
  <1> QED BY <1>3, <1>4, <1>6, <1>7, <1>8 DEF EscalationInv

(* Writing a record outside the lock: it is closed, or its identity is new. *)
LEMMA UnlockedWriteStep ==
  ASSUME EscalationInv, TypeOK', NEW t \in Threads, NEW f \in Findings,
         NEW rec \in SLARecord, NEW step \in {"startRow", "resolveRow", "delEsc"},
         NEW l \in Locals,
         pc[t] \notin CheckSteps, UNCHANGED <<esc, lock>>,
         pc' = [pc EXCEPT ![t] = step], loc' = [loc EXCEPT ![t] = l],
         sla' = [sla EXCEPT ![f] = rec],
         created <= created', rec.gen <= created', l.rec.gen <= created',
         Open(rec) => rec.gen > created
  PROVE  EscalationInv'
  <1>1. LockInv'
    BY DEF EscalationInv, TypeOK, LockInv, CheckSteps
  <1>2. GenInv'
    <2>0. created' \in Nat /\ rec.gen \in Nat /\ l.rec.gen \in Nat
      BY DEF TypeOK, Locals, SLARecord
    <2>1. ASSUME NEW g \in Findings PROVE sla'[g].gen <= created'
      <3>1. sla'[g] = sla[g] \/ sla'[g] = rec
        BY DEF EscalationInv, TypeOK
      <3> QED BY <2>0, <3>1, GenTypes DEF EscalationInv, GenInv
    <2>2. ASSUME NEW g \in Findings, NEW i \in DOMAIN esc'[g]
          PROVE  esc'[g][i].gen <= created'
      BY <2>0, GenTypes DEF EscalationInv, GenInv
    <2>3. ASSUME NEW u \in Threads PROVE loc'[u].rec.gen <= created'
      <3>1. loc'[u] = loc[u] \/ loc'[u] = l
        BY DEF EscalationInv, TypeOK
      <3> QED BY <2>0, <3>1, GenTypes DEF EscalationInv, GenInv
    <2> QED BY <2>1, <2>2, <2>3 DEF GenInv
  <1>3. OpenInv'
    <2>1. ASSUME NEW g \in Findings, Open(sla[g])' PROVE NoEventOf(g, sla[g].gen)'
      <3>1. CASE g # f
        BY <2>1, <3>1 DEF EscalationInv, TypeOK, OpenInv, NoEventOf
      <3>2. CASE g = f
        <4>1. sla'[g] = rec /\ rec.gen > created /\ rec.gen \in Nat
          BY <2>1, <3>2 DEF EscalationInv, TypeOK, SLARecord
        <4> QED BY <4>1, GenTypes DEF EscalationInv, GenInv, NoEventOf
      <3> QED BY <3>1, <3>2
    <2> QED BY <2>1 DEF OpenInv, Open
  <1>4. AtMostOneEscalation'
    BY DEF EscalationInv, AtMostOneEscalation
  <1>5. ASSUME NEW u \in Threads PROVE ThreadInv(u)'
    <2>1. CASE u = t
      BY <2>1 DEF EscalationInv, TypeOK, ThreadInv, CheckSteps
    <2>2. CASE u # t
      <3>1. pc'[u] = pc[u] /\ loc'[u] = loc[u]
        BY <2>2 DEF EscalationInv, TypeOK
      <3>2. loc[u].rec.gen <= created /\ loc[u].rec.gen \in Nat /\ created \in Nat
        BY DEF EscalationInv, GenInv, TypeOK, Locals, SLARecord
      <3>3. rec.gen = loc[u].rec.gen => ~ Open(rec)
        BY <3>2
      <3>4. sla'[loc[u].f] = sla[loc[u].f] \/ sla'[loc[u].f] = rec
        BY DEF EscalationInv, TypeOK, Locals
      <3> QED BY <3>1, <3>3, <3>4 DEF EscalationInv, ThreadInv, NoEventOf
    <2> QED BY <2>1, <2>2
  <1> QED BY <1>1, <1>2, <1>3, <1>4, <1>5 DEF EscalationInv

(* Leaving the row write with an event to record.                           *)
LEMMA CheckRowStep ==
  ASSUME EscalationInv, TypeOK', NEW t \in Threads, CheckRow(t)
  PROVE  EscalationInv'
  <1>0. pc[t] = "checkRow" /\ lock = t /\ UNCHANGED <<sla, esc, created>>
    BY DEF CheckRow, budget, EscalationInv, LockInv, CheckSteps
  <1>1. CASE ~ loc[t].event
    BY <1>0, <1>1, ReturnStep DEF CheckRow, ReturnReleasing
  <1>2. CASE loc[t].event
    <2>1. pc' = [pc EXCEPT ![t] = "escMem"] /\ UNCHANGED <<loc, lock>>
      BY <1>2 DEF CheckRow, Goto
    <2>2. LockInv'
      BY <1>0, <2>1 DEF EscalationInv, TypeOK, LockInv, CheckSteps
    <2>3. GenInv' /\ OpenInv' /\ AtMostOneEscalation'
      BY <1>0, <2>1 DEF EscalationInv, GenInv, OpenInv, AtMostOneEscalation, NoEventOf
    <2>4. ASSUME NEW u \in Threads PROVE ThreadInv(u)'
      BY <1>0, <1>2, <2>1 DEF EscalationInv, TypeOK, ThreadInv, NoEventOf, CheckSteps
    <2> QED BY <2>2, <2>3, <2>4 DEF EscalationInv
  <1> QED BY <1>1, <1>2

(* The escalation event is appended: its SLA had none, and is closed.       *)
LEMMA EscMemStep ==
  ASSUME EscalationInv, TypeOK', NEW t \in Threads, EscMem(t)
  PROVE  EscalationInv'
  <1> DEFINE f == loc[t].f
             e == EventOf(loc[t])
  <1>1. /\ pc[t] = "escMem" /\ pc' = [pc EXCEPT ![t] = "escRow"]
        /\ esc' = [esc EXCEPT ![f] = Append(@, e)]
        /\ UNCHANGED <<loc, sla, lock, created>>
    BY DEF EscMem, Goto, budget
  <1>2. f \in Findings /\ e.gen = loc[t].rec.gen
    BY DEF EscalationInv, TypeOK, Locals, EventOf
  <1>3. /\ loc[t].event /\ NoEventOf(f, e.gen)
        /\ sla[f].gen = e.gen => ~ Open(sla[f])
    BY <1>1, <1>2 DEF EscalationInv, ThreadInv
  <1> HIDE DEF f, e
  <1>4. /\ \A g \in Findings : g # f => esc'[g] = esc[g]
        /\ esc'[f] = Append(esc[f], e)
    BY <1>1, <1>2 DEF EscalationInv, TypeOK
  <1>5. esc[f] \in Seq(EscalationEvent)
    BY <1>2 DEF EscalationInv, TypeOK
  <1>6. /\ DOMAIN esc'[f] = 1..(Len(esc[f]) + 1) /\ DOMAIN esc[f] = 1..Len(esc[f])
        /\ Len(esc[f]) \in Nat
        /\ esc'[f][Len(esc[f]) + 1] = e
        /\ \A i \in DOMAIN esc[f] : esc'[f][i] = esc[f][i]
    BY <1>4, <1>5
  <1>7. LockInv'
    BY <1>1 DEF EscalationInv, TypeOK, LockInv, CheckSteps
  <1>8. GenInv'
    <2>1. e.gen <= created
      BY <1>2 DEF EscalationInv, GenInv
    <2>2. ASSUME NEW g \in Findings, NEW i \in DOMAIN esc'[g] PROVE esc'[g][i].gen <= created
      <3>1. CASE g = f /\ i = Len(esc[f]) + 1
        BY <1>6, <2>1, <3>1
      <3>2. CASE g = f /\ i # Len(esc[f]) + 1
        <4>1. i \in DOMAIN esc[f] BY <1>6, <3>2
        <4> QED BY <1>2, <1>6, <3>2, <4>1 DEF EscalationInv, GenInv
      <3>3. CASE g # f
        BY <1>4, <3>3 DEF EscalationInv, GenInv
      <3> QED BY <3>1, <3>2, <3>3
    <2> QED BY <1>1, <2>2 DEF EscalationInv, GenInv
  <1>9. OpenInv'
    <2>1. ASSUME NEW g \in Findings, Open(sla[g]) PROVE NoEventOf(g, sla[g].gen)'
      <3>1. CASE g = f
        <4>1. sla[g].gen # e.gen BY <1>3, <2>1, <3>1
        <4>2. NoEventOf(f, sla[f].gen) BY <1>2, <2>1, <3>1 DEF EscalationInv, OpenInv
        <4>3. ASSUME NEW i \in DOMAIN esc'[f] PROVE esc'[f][i].gen # sla[f].gen
          <5>1. i = Len(esc[f]) + 1 \/ i \in DOMAIN esc[f] BY <1>6
          <5> QED BY <1>6, <3>1, <4>1, <4>2, <5>1 DEF NoEventOf
        <4> QED BY <1>1, <3>1, <4>3 DEF NoEventOf
      <3>2. CASE g # f
        BY <1>1, <1>4, <2>1, <3>2 DEF EscalationInv, OpenInv, NoEventOf
      <3> QED BY <3>1, <3>2
    <2> QED BY <1>1, <2>1 DEF OpenInv, Open
  <1>10. AtMostOneEscalation'
    <2>1. ASSUME NEW g \in Findings, NEW i \in DOMAIN esc'[g], NEW j \in DOMAIN esc'[g],
                 esc'[g][i].gen = esc'[g][j].gen
          PROVE  i = j
      <3>1. CASE g # f
        BY <1>4, <2>1, <3>1 DEF EscalationInv, AtMostOneEscalation
      <3>2. CASE g = f
        <4>1. /\ i = Len(esc[f]) + 1 \/ i \in DOMAIN esc[f]
              /\ j = Len(esc[f]) + 1 \/ j \in DOMAIN esc[f]
          BY <1>6, <3>2
        <4> QED BY <1>2, <1>3, <1>6, <2>1, <3>2, <4>1
                DEF EscalationInv, AtMostOneEscalation, NoEventOf
      <3> QED BY <3>1, <3>2
    <2> QED BY <2>1 DEF AtMostOneEscalation
  <1>11. ASSUME NEW u \in Threads PROVE ThreadInv(u)'
    <2>1. CASE u = t
      BY <1>1, <1>3, <2>1 DEF EscalationInv, TypeOK, ThreadInv, CheckSteps
    <2>2. CASE u # t
      <3>1. pc'[u] = pc[u] /\ loc'[u] = loc[u] /\ pc[u] \notin CheckSteps
        BY <1>1, <2>2 DEF EscalationInv, TypeOK, LockInv, CheckSteps
      <3> QED BY <3>1 DEF EscalationInv, ThreadInv, CheckSteps
    <2> QED BY <2>1, <2>2
  <1> QED BY <1>7, <1>8, <1>9, <1>10, <1>11 DEF EscalationInv

(* Deleting a finding drops its events, and only those.                     *)
LEMMA DeleteEscStep ==
  ASSUME EscalationInv, TypeOK', NEW t \in Threads, DeleteEsc(t)
  PROVE  EscalationInv'
  <1>1. /\ pc[t] = "delEsc" /\ pc' = [pc EXCEPT ![t] = "delRow"]
        /\ esc' = [esc EXCEPT ![loc[t].f] = <<>>]
        /\ UNCHANGED <<loc, sla, lock, created>>
    BY DEF DeleteEsc, Goto, budget
  <1>2. \A g \in Findings : esc'[g] = esc[g] \/ DOMAIN esc'[g] = {}
    BY <1>1 DEF EscalationInv, TypeOK
  <1>3. \A g \in Findings : \A n : NoEventOf(g, n) => NoEventOf(g, n)'
    BY <1>2 DEF NoEventOf
  <1>4. LockInv'
    BY <1>1 DEF EscalationInv, TypeOK, LockInv, CheckSteps
  <1>5. GenInv'
    BY <1>1, <1>2 DEF EscalationInv, GenInv
  <1>6. OpenInv'
    BY <1>1, <1>3 DEF EscalationInv, OpenInv, Open
  <1>7. AtMostOneEscalation'
    BY <1>2 DEF EscalationInv, AtMostOneEscalation
  <1>8. ASSUME NEW u \in Threads PROVE ThreadInv(u)'
    <2>1. CASE u = t
      BY <1>1, <2>1 DEF EscalationInv, TypeOK, ThreadInv, CheckSteps
    <2>2. CASE u # t
      <3>1. pc'[u] = pc[u] /\ loc'[u] = loc[u] /\ loc[u].f \in Findings
        BY <1>1, <2>2 DEF EscalationInv, TypeOK, Locals
      <3> QED BY <1>1, <1>3, <3>1 DEF EscalationInv, ThreadInv, Open
    <2> QED BY <2>1, <2>2
  <1> QED BY <1>4, <1>5, <1>6, <1>7, <1>8 DEF EscalationInv

----------------------------------------------------------------------------
(* Every step keeps the types.                                              *)

(* Moving a thread keeps the types of the control state.                    *)
LEMMA CallType ==
  ASSUME TypeOK, NEW t \in Threads, NEW step \in PcValues, NEW l \in Locals,
         pc' = [pc EXCEPT ![t] = step], loc' = [loc EXCEPT ![t] = l]
  PROVE  pc' \in [Threads -> PcValues] /\ loc' \in [Threads -> Locals]
  BY DEF TypeOK

LEMMA TypeStep ==
  ASSUME EscalationInv, Next
  PROVE  TypeOK'
  <1> USE DEF stores, budget
  <1>0. TypeOK BY DEF EscalationInv
  <1>a. \A t \in Threads : loc[t].f \in Findings /\ loc[t].rec \in SLARecord
                          /\ loc[t].now \in Nat
    BY <1>0 DEF TypeOK, Locals
  <1>b. \A step \in CheckSteps \cup {"idle", "startMem", "startRow", "resolveMem",
              "resolveRow", "delEsc", "delRow", "delEscRow"} : step \in PcValues
    BY DEF PcValues
  <1>1. CASE Tick \/ (\E f \in Findings, p \in Priorities : AssessRisk(f, p))
                  \/ EvalBegin \/ (\E f \in Findings : EvalGone(f))
    <2>1. CASE Tick BY <1>0, <2>1 DEF Tick, TypeOK
    <2>2. ASSUME NEW f \in Findings, NEW p \in Priorities, AssessRisk(f, p) PROVE TypeOK'
      BY <1>0, <2>2 DEF AssessRisk, TypeOK
    <2>3. CASE EvalBegin BY <1>0, <2>3 DEF EvalBegin, TypeOK
    <2>4. ASSUME NEW f \in Findings, EvalGone(f) PROVE TypeOK'
      BY <1>0, <2>4 DEF EvalGone, TypeOK
    <2> QED BY <1>1, <2>1, <2>2, <2>3, <2>4
  <1>2. ASSUME NEW t \in Threads, NEW f \in Findings, StartRead(t, f) PROVE TypeOK'
    <2> DEFINE l == [f |-> f, rec |-> CreateSla(risk[f], clock), now |-> 0, event |-> FALSE]
    <2>1. l \in Locals
      BY <1>0, <1>2, CreateSlaType DEF StartRead, TypeOK, Locals
    <2>2. pc' = [pc EXCEPT ![t] = "startMem"] /\ loc' = [loc EXCEPT ![t] = l]
      BY <1>2 DEF StartRead, Call
    <2> HIDE DEF l
    <2>3. pc' \in [Threads -> PcValues] /\ loc' \in [Threads -> Locals]
      BY <1>0, <1>b, <2>1, <2>2, CallType DEF CheckSteps
    <2> QED BY <1>0, <1>2, <2>3 DEF StartRead, TypeOK
  <1>3. ASSUME NEW t \in Threads, NEW f \in Findings, NEW now \in Nat,
               CheckRead(t, f, now), todo' \in SUBSET Findings
        PROVE  TypeOK'
    <2> DEFINE l == [f |-> f, rec |-> CheckSla(sla[f], now), now |-> now,
                     event |-> Breaches(sla[f], now)]
    <2>1. l \in Locals
      <3>1. CheckSla(sla[f], now) \in SLARecord
        BY <1>0, CheckSlaFacts DEF TypeOK
      <3>2. Breaches(sla[f], now) \in BOOLEAN
        BY DEF Breaches
      <3> QED BY <3>1, <3>2 DEF Locals
    <2>2. CASE lock' = t /\ Call(t, "checkMem", f, CheckSla(sla[f], now), now,
                                 Breaches(sla[f], now))
      <3>1. pc' = [pc EXCEPT ![t] = "checkMem"] /\ loc' = [loc EXCEPT ![t] = l]
        BY <2>2 DEF Call
      <3> HIDE DEF l
      <3>2. pc' \in [Threads -> PcValues] /\ loc' \in [Threads -> Locals]
        BY <1>0, <1>b, <2>1, <3>1, CallType DEF CheckSteps
      <3> QED BY <1>0, <1>3, <2>2, <3>2 DEF CheckRead, TypeOK
    <2>3. CASE UNCHANGED <<lock, pc, loc>>
      BY <1>0, <1>3, <2>3 DEF CheckRead, TypeOK
    <2> QED BY <1>3, <2>2, <2>3 DEF CheckRead
  <1>4. ASSUME NEW t \in Threads, NEW f \in Findings, ResolveRead(t, f) PROVE TypeOK'
    <2> DEFINE l == [f |-> f, rec |-> ResolveSla(sla[f]), now |-> 0, event |-> FALSE]
    <2>1. l \in Locals
      <3>1. sla[f] \in SLARecord BY <1>0 DEF TypeOK
      <3>2. ResolveSla(sla[f]) \in SLARecord BY <3>1 DEF ResolveSla, SLARecord, Statuses
      <3> QED BY <3>2 DEF Locals
    <2>2. pc' = [pc EXCEPT ![t] = "resolveMem"] /\ loc' = [loc EXCEPT ![t] = l]
      BY <1>4 DEF ResolveRead, Call
    <2> HIDE DEF l
    <2>3. pc' \in [Threads -> PcValues] /\ loc' \in [Threads -> Locals]
      BY <1>0, <1>b, <2>1, <2>2, CallType DEF CheckSteps
    <2> QED BY <1>0, <1>4, <2>3 DEF ResolveRead, TypeOK
  <1>5. ASSUME NEW t \in Threads, NEW f \in Findings, DeleteMem(t, f) PROVE TypeOK'
    <2> DEFINE l == [f |-> f, rec |-> NoRecord, now |-> 0, event |-> FALSE]
    <2>1. l \in Locals
      BY NoRecordFacts DEF Locals
    <2>2. pc' = [pc EXCEPT ![t] = "delEsc"] /\ loc' = [loc EXCEPT ![t] = l]
      BY <1>5 DEF DeleteMem, Call
    <2> HIDE DEF l
    <2>3. pc' \in [Threads -> PcValues] /\ loc' \in [Threads -> Locals]
      BY <1>0, <1>b, <2>1, <2>2, CallType DEF CheckSteps
    <2> QED BY <1>0, <1>5, <2>3, NoRecordFacts DEF DeleteMem, TypeOK
  <1>6. ASSUME NEW t \in Threads, StartMem(t) PROVE TypeOK'
    <2> DEFINE rec == [loc[t].rec EXCEPT !.gen = created + 1]
               l == [f |-> loc[t].f, rec |-> rec, now |-> 0, event |-> FALSE]
    <2>1. rec \in SLARecord
      <3>1. created + 1 \in Nat BY <1>0 DEF TypeOK
      <3>2. loc[t].rec \in SLARecord BY <1>a
      <3> QED BY <3>1, <3>2 DEF SLARecord
    <2>2. l \in Locals
      BY <1>a, <2>1 DEF Locals
    <2>3. /\ pc' = [pc EXCEPT ![t] = "startRow"] /\ loc' = [loc EXCEPT ![t] = l]
          /\ sla' = [sla EXCEPT ![loc[t].f] = rec] /\ created' = created + 1
      BY <1>6 DEF StartMem, Call
    <2> HIDE DEF l, rec
    <2>4. pc' \in [Threads -> PcValues] /\ loc' \in [Threads -> Locals]
      BY <1>0, <1>b, <2>2, <2>3, CallType DEF CheckSteps
    <2>5. sla' \in [Findings -> SLARecord] /\ created' \in Nat
      BY <1>0, <1>a, <2>1, <2>3 DEF TypeOK
    <2> QED BY <1>0, <1>6, <2>4, <2>5 DEF StartMem, TypeOK
  <1>7. ASSUME NEW t \in Threads, EscMem(t) \/ EscRow(t) PROVE TypeOK'
    <2>1. loc[t].rec.level - 1 \in Nat /\ loc[t].rec.level \in Nat /\ loc[t].rec.gen \in Nat
      <3>1. loc[t].rec.level >= 1
        BY <1>7 DEF EscMem, EscRow, EscalationInv, ThreadInv, CheckSteps
      <3> QED BY <1>a, <3>1 DEF SLARecord
    <2>2. EventOf(loc[t]) \in EscalationEvent
      BY <1>a, <2>1 DEF EventOf, EscalationEvent
    <2>3. CASE EscMem(t)
      BY <1>0, <1>a, <1>b, <2>2, <2>3 DEF EscMem, Goto, TypeOK, CheckSteps
    <2>4. CASE EscRow(t)
      BY <1>0, <1>a, <1>b, <2>2, <2>4, IdleLocalsType
         DEF EscRow, ReturnReleasing, Return, TypeOK, CheckSteps
    <2> QED BY <1>7, <2>3, <2>4
  <1>8. ASSUME NEW t \in Threads, \/ StartRow(t) \/ ResolveRow(t) \/ CheckMem(t)
                                  \/ CheckRow(t) \/ ResolveMem(t)
        PROVE  TypeOK'
    <2> USE <1>0, <1>a, <1>b DEF TypeOK, CheckSteps
    <2>1. CASE StartRow(t) \/ ResolveRow(t)
      <3>1. /\ Return(t) /\ slaRow' = [slaRow EXCEPT ![loc[t].f] = loc[t].rec]
            /\ UNCHANGED <<risk, sla, esc, escRow, lock, todo, cycleNow, clock, budget>>
        BY <2>1 DEF StartRow, ResolveRow, UpsertAndReturn
      <3> QED BY <3>1, IdleLocalsType DEF Return
    <2>2. CASE CheckMem(t) \/ ResolveMem(t)
      BY <2>2 DEF CheckMem, ResolveMem, Goto
    <2>3. CASE CheckRow(t) /\ loc[t].event
      BY <2>3 DEF CheckRow, Goto
    <2>4. CASE CheckRow(t) /\ ~ loc[t].event
      BY <2>4, IdleLocalsType DEF CheckRow, Return, ReturnReleasing
    <2> QED BY <1>8, <2>1, <2>2, <2>3, <2>4
  <1>9. ASSUME NEW t \in Threads, \/ DeleteEsc(t) \/ DeleteRow(t) \/ DeleteEscRow(t)
                                  \/ DbError(t)
        PROVE  TypeOK'
    <2> USE <1>0, <1>a, <1>b DEF TypeOK, CheckSteps
    <2>1. CASE DeleteEsc(t)
      BY <2>1 DEF DeleteEsc, Goto
    <2>2. CASE DeleteRow(t)
      BY <2>2, NoRecordFacts DEF DeleteRow, Goto
    <2>3. CASE DeleteEscRow(t)
      BY <2>3, IdleLocalsType DEF DeleteEscRow, Return
    <2>4. CASE DbError(t)
      BY <2>4, IdleLocalsType DEF DbError, DbRaises, Return
    <2> QED BY <1>9, <2>1, <2>2, <2>3, <2>4
  <1>10. ASSUME NEW t \in Workers, Request(t) PROVE TypeOK'
    <2>1. t \in Threads /\ \A now \in 0..MaxTime : now \in Nat
      BY SlaConstants DEF Threads
    <2>2. ASSUME NEW f \in Findings, NEW now \in 0..MaxTime, ApiCheck(t, f, now) PROVE TypeOK'
      BY <1>0, <1>3, <2>1, <2>2 DEF ApiCheck, TypeOK
    <2> QED BY <1>2, <1>4, <1>5, <1>10, <2>1, <2>2 DEF Request
  <1>11. CASE EvalStep
    <2>1. ASSUME NEW f \in Findings, EvalCheck(f) PROVE TypeOK'
      <3>1. evaluator \in Threads /\ cycleNow \in Nat /\ todo' \in SUBSET Findings
        BY <1>0, <2>1 DEF Threads, EvalCheck, TypeOK
      <3> QED BY <1>3, <2>1, <3>1 DEF EvalCheck
    <2> QED BY <1>1, <1>11, <2>1 DEF EvalStep
  <1> QED BY <1>1, <1>6, <1>7, <1>8, <1>9, <1>10, <1>11 DEF Next, Continue

----------------------------------------------------------------------------
(* The invariant is inductive: one step per action of Next.                 *)
LEMMA EscalationStep == EscalationInv /\ [Next]_vars => EscalationInv'
  <1> SUFFICES ASSUME EscalationInv, [Next]_vars PROVE EscalationInv'
    OBVIOUS
  <1>1. CASE UNCHANGED vars
    <2>1. TypeOK' BY <1>1 DEF EscalationInv, TypeOK, vars, stores, budget
    <2> QED BY <1>1, <2>1, QuietStep DEF vars, stores, budget
  <1>2. CASE Next
    <2> USE <1>2, TypeStep DEF stores, budget
    <2>1. \A t \in Threads : /\ loc[t] \in Locals /\ loc[t].rec.gen <= created
                            /\ loc[t].f \in Findings /\ loc[t].rec \in SLARecord
      BY DEF EscalationInv, TypeOK, GenInv, Locals
    <2>2. created \in Nat /\ NoRecord \in SLARecord /\ NoRecord.gen = 0
          /\ \A f \in Findings : sla[f] \in SLARecord /\ sla[f].gen <= created
      BY NoRecordFacts DEF EscalationInv, TypeOK, GenInv
    <2>3. CASE \/ Tick \/ EvalBegin
               \/ \E f \in Findings, p \in Priorities : AssessRisk(f, p)
               \/ \E f \in Findings : EvalGone(f)
      <3>1. UNCHANGED <<sla, esc, lock, pc, loc, created>>
        BY <2>3 DEF Tick, EvalBegin, AssessRisk, EvalGone
      <3> QED BY <3>1, QuietStep
    <2>4. ASSUME NEW t \in Threads, NEW f \in Findings, StartRead(t, f)
          PROVE  EscalationInv'
      <3> DEFINE l == [f |-> f, rec |-> CreateSla(risk[f], clock), now |-> 0,
                       event |-> FALSE]
      <3>1. risk[f] \in Priorities /\ clock \in Nat
        BY <2>4 DEF StartRead, EscalationInv, TypeOK
      <3>2. l \in Locals /\ l.rec.gen = 0 /\ l.rec.level = 0
        BY <3>1, CreateSlaType DEF Locals
      <3>3. /\ pc[t] = "idle" /\ UNCHANGED <<sla, esc, created, lock>>
            /\ pc' = [pc EXCEPT ![t] = "startMem"] /\ loc' = [loc EXCEPT ![t] = l]
        BY <2>4 DEF StartRead, Call
      <3> HIDE DEF l
      <3>4. l.rec.gen <= created /\ "startMem" \in PcValues \ CheckSteps
        BY <2>2, <3>2 DEF PcValues, CheckSteps
      <3> QED BY <3>2, <3>3, <3>4, OutsideStep DEF CheckSteps
    <2>5. ASSUME NEW t \in Threads, NEW f \in Findings, ResolveRead(t, f)
          PROVE  EscalationInv'
      <3> DEFINE l == [f |-> f, rec |-> ResolveSla(sla[f]), now |-> 0, event |-> FALSE]
      <3>1. /\ ResolveSla(sla[f]) \in SLARecord
            /\ ResolveSla(sla[f]).gen = sla[f].gen
            /\ ResolveSla(sla[f]).status = "resolved"
        BY <2>2 DEF ResolveSla, SLARecord, Statuses
      <3>2. l \in Locals /\ l.rec.gen <= created /\ l.rec.status = "resolved"
        BY <2>2, <3>1 DEF Locals
      <3>3. /\ pc[t] = "idle" /\ UNCHANGED <<sla, esc, created, lock>>
            /\ pc' = [pc EXCEPT ![t] = "resolveMem"] /\ loc' = [loc EXCEPT ![t] = l]
        BY <2>5 DEF ResolveRead, Call
      <3> HIDE DEF l
      <3> QED BY <3>2, <3>3, OutsideStep DEF PcValues, CheckSteps
    <2>6. ASSUME NEW t \in Threads, NEW f \in Findings, DeleteMem(t, f)
          PROVE  EscalationInv'
      <3> DEFINE l == [f |-> f, rec |-> NoRecord, now |-> 0, event |-> FALSE]
      <3>1. l \in Locals /\ l.rec.gen = 0
        BY <2>2 DEF Locals
      <3>2. /\ pc[t] = "idle" /\ UNCHANGED <<esc, created, lock>>
            /\ sla' = [sla EXCEPT ![f] = NoRecord]
            /\ pc' = [pc EXCEPT ![t] = "delEsc"] /\ loc' = [loc EXCEPT ![t] = l]
        BY <2>6 DEF DeleteMem, Call
      <3> HIDE DEF l
      <3>3. created <= created' /\ NoRecord.gen <= created' /\ l.rec.gen <= created'
        BY <2>2, <3>1, <3>2
      <3> QED BY <2>2, <3>1, <3>2, <3>3, NoRecordFacts, UnlockedWriteStep DEF CheckSteps
    <2>7. ASSUME NEW t \in Threads, StartMem(t) PROVE EscalationInv'
      <3> DEFINE rec == [loc[t].rec EXCEPT !.gen = created + 1]
                 l == [f |-> loc[t].f, rec |-> rec, now |-> 0, event |-> FALSE]
      <3>1. rec \in SLARecord /\ rec.gen = created + 1
        BY <2>1, <2>2 DEF SLARecord
      <3>2. l \in Locals /\ l.rec = rec
        BY <2>1, <3>1 DEF Locals
      <3>3. /\ pc[t] = "startMem" /\ UNCHANGED <<esc, lock>>
            /\ created' = created + 1 /\ sla' = [sla EXCEPT ![loc[t].f] = rec]
            /\ pc' = [pc EXCEPT ![t] = "startRow"] /\ loc' = [loc EXCEPT ![t] = l]
        BY <2>7 DEF StartMem, Call
      <3>4. created <= created' /\ rec.gen <= created' /\ rec.gen > created
        BY <2>2, <3>1, <3>3
      <3> HIDE DEF l, rec
      <3> QED BY <2>1, <3>1, <3>2, <3>3, <3>4, UnlockedWriteStep DEF CheckSteps
    <2>8. ASSUME NEW t \in Threads, ResolveMem(t) PROVE EscalationInv'
      <3>1. /\ pc[t] = "resolveMem" /\ UNCHANGED <<esc, created, lock, loc>>
            /\ sla' = [sla EXCEPT ![loc[t].f] = loc[t].rec]
            /\ pc' = [pc EXCEPT ![t] = "resolveRow"]
        BY <2>8 DEF ResolveMem, Goto
      <3>2. loc' = [loc EXCEPT ![t] = loc[t]]
        BY <3>1 DEF EscalationInv, TypeOK
      <3>3. ~ Open(loc[t].rec)
        BY <3>1 DEF EscalationInv, ThreadInv, Open
      <3>4. created <= created' /\ loc[t].rec.gen <= created'
        BY <2>1, <2>2, <3>1
      <3> QED BY <2>1, <3>1, <3>2, <3>3, <3>4, UnlockedWriteStep DEF CheckSteps
    <2>9. ASSUME NEW t \in Threads, DeleteRow(t) PROVE EscalationInv'
      <3>1. /\ pc[t] = "delRow" /\ UNCHANGED <<sla, esc, created, lock, loc>>
            /\ pc' = [pc EXCEPT ![t] = "delEscRow"]
        BY <2>9 DEF DeleteRow, Goto
      <3>2. loc' = [loc EXCEPT ![t] = loc[t]]
        BY <3>1 DEF EscalationInv, TypeOK
      <3> QED BY <2>1, <3>1, <3>2, OutsideStep DEF CheckSteps, PcValues
    <2>10. ASSUME NEW t \in Threads, StartRow(t) \/ ResolveRow(t) \/ DeleteEscRow(t)
           PROVE  EscalationInv'
      <3>1. /\ pc[t] \in {"startRow", "resolveRow", "delEscRow"} /\ Return(t)
            /\ UNCHANGED <<sla, esc, created, lock>>
        BY <2>10 DEF StartRow, ResolveRow, UpsertAndReturn, DeleteEscRow
      <3>2. lock # t
        BY <3>1 DEF EscalationInv, LockInv, CheckSteps
      <3> QED BY <3>1, <3>2, ReturnStep
    <2>11. ASSUME NEW t \in Threads, EscRow(t) PROVE EscalationInv'
      <3>1. lock = t /\ Return(t) /\ lock' = "free" /\ UNCHANGED <<sla, esc, created>>
        BY <2>11 DEF EscRow, ReturnReleasing, EscalationInv, LockInv, CheckSteps
      <3> QED BY <3>1, ReturnStep
    <2>12. ASSUME NEW t \in Threads, DbError(t) PROVE EscalationInv'
      BY <2>12, ReturnStep DEF DbError, DbRaises
    <2>13. ASSUME NEW t \in Workers, Request(t) PROVE EscalationInv'
      <3>1. t \in Threads /\ \A now \in 0..MaxTime : now \in Nat
        BY SlaConstants DEF Threads
      <3> QED BY <2>4, <2>5, <2>6, <2>13, <3>1, CheckReadStep DEF Request, ApiCheck
    <2>14. CASE \E f \in Findings : EvalCheck(f)
      <3>1. evaluator \in Threads /\ cycleNow \in Nat
        BY DEF Threads, EscalationInv, TypeOK
      <3> QED BY <2>14, <3>1, CheckReadStep DEF EvalCheck
    <2>15. ASSUME NEW t \in Threads, Continue(t) PROVE EscalationInv'
      BY <2>7, <2>8, <2>9, <2>10, <2>11, <2>15, CheckMemStep, CheckRowStep, EscMemStep,
         DeleteEscStep
         DEF Continue
    <2> QED BY <1>2, <2>3, <2>12, <2>13, <2>14, <2>15 DEF Next, EvalStep
  <1> QED BY <1>1, <1>2

(* Type correctness of the SLA tracker under every interleaving.            *)
THEOREM SlaTypeCorrect == Spec => []TypeOK
  <1>1. EscalationInv => TypeOK BY DEF EscalationInv
  <1> QED BY <1>1, EscalationInit, EscalationStep, PTL DEF Spec

(* check_and_persist_sla never emits two escalations for one SLA, for any   *)
(* number of request threads racing the evaluator.                          *)
THEOREM EscalatedAtMostOnce == Spec => []AtMostOneEscalation
  <1>1. EscalationInv => AtMostOneEscalation BY DEF EscalationInv
  <1> QED BY <1>1, EscalationInit, EscalationStep, PTL DEF Spec

----------------------------------------------------------------------------
(* Systems that delete no finding: no escalation is lost. *)

(* The escalation of an SLA is on its way: its thread holds the lock.       *)
Pending(f, g) ==
  \E t \in Threads :
    /\ pc[t] \in {"checkRow", "escMem"}
    /\ loc[t].event /\ loc[t].f = f /\ loc[t].rec.gen = g

(* A raised level is accounted for by an event, or by one on its way.       *)
Accounted(f, r) == r.level > 0 => ~ NoEventOf(f, r.gen) \/ Pending(f, r.gen)

(* The strengthening behind NoLostEscalation: the copies of a record held   *)
(* by a resolve and by a check that is about to write it are accounted for  *)
(* as well as the stored ones.                                              *)
AccountInv ==
  /\ \A f \in Findings : Accounted(f, sla[f])
  /\ \A t \in Threads :
       /\ pc[t] = "resolveMem" => Accounted(loc[t].f, loc[t].rec)
       /\ pc[t] = "checkMem" /\ ~ loc[t].event /\ loc[t].rec.level > 0
            => ~ NoEventOf(loc[t].f, loc[t].rec.gen)

(* The strengthening behind EscalationTrailDurable: the two trails differ   *)
(* by the one event its thread is about to insert.                          *)
TrailInv ==
  /\ (\A t \in Threads : pc[t] # "escRow") => escRow = esc
  /\ \A t \in Threads : pc[t] = "escRow" =>
       esc = [escRow EXCEPT ![loc[t].f] = Append(@, EventOf(loc[t]))]

(* No handler is deleting a finding.                                        *)
NoDeletion == \A t \in Threads : pc[t] \notin {"delEsc", "delRow", "delEscRow"}

RecordingInv ==
  /\ EscalationInv
  /\ NoDeletion
  /\ dbErrors = 0 => AccountInv /\ TrailInv

----------------------------------------------------------------------------
(* Only one thread is between the lock and its release.                     *)
LEMMA OneChecker ==
  ASSUME EscalationInv, NEW t \in Threads, NEW u \in Threads,
         pc[t] \in CheckSteps, pc[u] \in CheckSteps
  PROVE  t = u
  BY DEF EscalationInv, LockInv

(* Nothing but the threads' clocks and the assessments moves.               *)
LEMMA RecordingQuiet ==
  ASSUME AccountInv, TrailInv, UNCHANGED <<sla, esc, escRow, pc, loc>>
  PROVE  AccountInv' /\ TrailInv'
  <1>1. TrailInv' BY DEF TrailInv, EventOf
  <1>2. \A f \in Findings : \A n : Pending(f, n) => Pending(f, n)'
    BY DEF Pending
  <1>3. \A f \in Findings : \A n : ~ NoEventOf(f, n) => ~ NoEventOf(f, n)'
    BY DEF NoEventOf
  <1>4. AccountInv' BY <1>2, <1>3 DEF AccountInv, Accounted, Pending, NoEventOf
  <1> QED BY <1>1, <1>4

(* A handler outside the lock takes a step: what it stores, and what it     *)
(* keeps for a resolve, is accounted for.                                   *)
LEMMA RecordingOutside ==
  ASSUME EscalationInv, AccountInv, TrailInv,
         NEW t \in Threads, NEW step \in PcValues \ CheckSteps, NEW l \in Locals,
         pc[t] \notin CheckSteps, UNCHANGED <<esc, escRow>>,
         pc' = [pc EXCEPT ![t] = step], loc' = [loc EXCEPT ![t] = l],
         \A g \in Findings : sla'[g] = sla[g] \/ Accounted(g, sla'[g]),
         step = "resolveMem" => Accounted(l.f, l.rec)
  PROVE  AccountInv' /\ TrailInv'
  <1>1. \A u \in Threads : u # t => pc'[u] = pc[u] /\ loc'[u] = loc[u]
    BY DEF EscalationInv, TypeOK
  <1>2. pc'[t] = step /\ loc'[t] = l
    BY DEF EscalationInv, TypeOK
  <1>3. TrailInv'
    BY <1>1, <1>2 DEF TrailInv, CheckSteps, EventOf
  <1>4. \A f, n : Pending(f, n) => Pending(f, n)'
    BY <1>1 DEF Pending, CheckSteps
  <1>5. \A f, n : ~ NoEventOf(f, n) => ~ NoEventOf(f, n)'
    BY DEF NoEventOf
  <1>6. ASSUME NEW f \in Findings PROVE Accounted(f, sla[f])'
    <2>1. Accounted(f, sla'[f]) BY DEF AccountInv
    <2> QED BY <1>4, <1>5, <2>1 DEF Accounted
  <1>7. ASSUME NEW u \in Threads, pc'[u] = "resolveMem"
        PROVE  Accounted(loc[u].f, loc[u].rec)'
    <2>1. Accounted(loc'[u].f, loc'[u].rec)
      BY <1>1, <1>2, <1>7 DEF AccountInv
    <2> QED BY <1>4, <1>5, <2>1 DEF Accounted
  <1>8. ASSUME NEW u \in Threads, pc'[u] = "checkMem", ~ loc'[u].event,
               loc'[u].rec.level > 0
        PROVE  ~ NoEventOf(loc[u].f, loc[u].rec.gen)'
    BY <1>1, <1>2, <1>5, <1>8 DEF AccountInv, CheckSteps
  <1> QED BY <1>3, <1>6, <1>7, <1>8 DEF AccountInv

(* Entering the lock: no event is on its way, so a level that was already   *)
(* raised has its event.                                                    *)
LEMMA RecordingCheckRead ==
  ASSUME EscalationInv, AccountInv, TrailInv, NEW t \in Threads, NEW f \in Findings,
         NEW now \in Nat, CheckRead(t, f, now)
  PROVE  AccountInv' /\ TrailInv'
  <1> DEFINE upd == CheckSla(sla[f], now)
             l == [f |-> f, rec |-> upd, now |-> now, event |-> Breaches(sla[f], now)]
  <1>1. CASE UNCHANGED <<lock, pc, loc>>
    BY <1>1, RecordingQuiet DEF CheckRead, stores
  <1>2. CASE lock' = t /\ Call(t, "checkMem", f, upd, now, Breaches(sla[f], now))
    <2>1. /\ pc' = [pc EXCEPT ![t] = "checkMem"] /\ loc' = [loc EXCEPT ![t] = l]
          /\ lock = "free" /\ pc[t] = "idle" /\ UNCHANGED <<sla, esc, escRow>>
      BY <1>2 DEF Call, CheckRead, stores
    <2>2. \A u \in Threads : pc[u] \notin CheckSteps
      BY <2>1, SlaConstants DEF EscalationInv, LockInv, Threads
    <2>3. upd.gen = sla[f].gen /\ (~ Breaches(sla[f], now) => upd.level = sla[f].level)
      BY CheckSlaFacts DEF EscalationInv, TypeOK
    <2>4. l.f = f /\ l.rec = upd /\ (l.event <=> Breaches(sla[f], now))
      OBVIOUS
    <2> HIDE DEF upd, l
    <2>5. \A u \in Threads : u # t => pc'[u] = pc[u] /\ loc'[u] = loc[u]
      BY <2>1 DEF EscalationInv, TypeOK
    <2>6. pc'[t] = "checkMem" /\ loc'[t] = l
      BY <2>1 DEF EscalationInv, TypeOK
    <2>7. TrailInv'
      BY <2>1, <2>2, <2>5, <2>6 DEF TrailInv, CheckSteps
    <2>8. \A g, n : ~ Pending(g, n)
      BY <2>2 DEF Pending, CheckSteps
    <2>9. \A g, n : NoEventOf(g, n)' <=> NoEventOf(g, n)
      BY <2>1 DEF NoEventOf
    <2>10. \A g \in Findings : Accounted(g, sla[g])'
      BY <2>1, <2>8, <2>9 DEF AccountInv, Accounted
    <2>11. ASSUME NEW u \in Threads, pc'[u] = "resolveMem"
           PROVE  Accounted(loc[u].f, loc[u].rec)'
      BY <2>5, <2>6, <2>8, <2>9, <2>11 DEF AccountInv, Accounted
    <2>12. ASSUME NEW u \in Threads, pc'[u] = "checkMem", ~ loc'[u].event,
                  loc'[u].rec.level > 0
           PROVE  ~ NoEventOf(loc[u].f, loc[u].rec.gen)'
      <3>1. u = t
        BY <2>2, <2>5, <2>12 DEF CheckSteps
      <3> QED BY <2>3, <2>4, <2>6, <2>8, <2>9, <2>12, <3>1 DEF AccountInv, Accounted
    <2> QED BY <2>7, <2>10, <2>11, <2>12 DEF AccountInv
  <1> QED BY <1>1, <1>2 DEF CheckRead

(* Inside the lock, up to the event: the record written is accounted for by *)
(* its old event or by the one the thread now carries.                      *)
LEMMA RecordingCheckMem ==
  ASSUME EscalationInv, AccountInv, TrailInv, NEW t \in Threads, CheckMem(t)
  PROVE  AccountInv' /\ TrailInv'
  <1>1. /\ pc[t] = "checkMem" /\ pc' = [pc EXCEPT ![t] = "checkRow"]
        /\ sla' = [sla EXCEPT ![loc[t].f] = loc[t].rec]
        /\ UNCHANGED <<loc, esc, escRow>>
    BY DEF CheckMem, Goto
  <1>2. \A u \in Threads : u # t => pc'[u] = pc[u] /\ pc[u] \notin CheckSteps
    BY <1>1, OneChecker DEF EscalationInv, TypeOK, CheckSteps
  <1>3. pc'[t] = "checkRow"
    BY <1>1 DEF EscalationInv, TypeOK
  <1>4. TrailInv'
    BY <1>1, <1>2, <1>3 DEF TrailInv, CheckSteps, EventOf
  <1>5. \A g, n : ~ Pending(g, n)
    BY <1>1, <1>2 DEF Pending, CheckSteps
  <1>6. \A g, n : NoEventOf(g, n)' <=> NoEventOf(g, n)
    BY <1>1 DEF NoEventOf
  <1>7. ASSUME NEW g \in Findings PROVE Accounted(g, sla[g])'
    <2>1. CASE g # loc[t].f
      BY <1>1, <1>5, <1>6, <2>1 DEF AccountInv, Accounted, EscalationInv, TypeOK
    <2>2. CASE g = loc[t].f
      <3>1. sla'[g] = loc[t].rec
        BY <1>1, <2>2 DEF EscalationInv, TypeOK
      <3>2. CASE loc[t].event
        <4>1. Pending(g, sla[g].gen)'
          BY <1>1, <1>3, <2>2, <3>1, <3>2 DEF Pending
        <4> QED BY <4>1 DEF Accounted
      <3>3. CASE ~ loc[t].event
        BY <1>1, <1>6, <2>2, <3>1, <3>3 DEF AccountInv, Accounted
      <3> QED BY <3>2, <3>3
    <2> QED BY <2>1, <2>2
  <1>8. ASSUME NEW u \in Threads
        PROVE  /\ pc'[u] = "resolveMem" => Accounted(loc[u].f, loc[u].rec)'
               /\ pc'[u] # "checkMem"
    BY <1>1, <1>2, <1>3, <1>5, <1>6 DEF AccountInv, Accounted, CheckSteps
  <1> QED BY <1>4, <1>7, <1>8 DEF AccountInv

LEMMA RecordingCheckRow ==
  ASSUME EscalationInv, AccountInv, TrailInv, NEW t \in Threads, CheckRow(t)
  PROVE  AccountInv' /\ TrailInv'
  <1>1. pc[t] = "checkRow" /\ UNCHANGED <<sla, esc, escRow>>
    BY DEF CheckRow
  <1>2. \A u \in Threads : u # t => /\ pc'[u] = pc[u] /\ loc'[u] = loc[u]
                                   /\ pc[u] \notin CheckSteps
    BY <1>1, OneChecker
       DEF EscalationInv, TypeOK, CheckSteps, CheckRow, Goto, ReturnReleasing, Return
  <1>3. IF loc[t].event THEN pc'[t] = "escMem" /\ loc'[t] = loc[t] ELSE pc'[t] = "idle"
    BY DEF EscalationInv, TypeOK, CheckRow, Goto, ReturnReleasing, Return
  <1>4. TrailInv'
    BY <1>1, <1>2, <1>3 DEF TrailInv, CheckSteps
  <1>5. \A g, n : Pending(g, n) => Pending(g, n)'
    BY <1>1, <1>2, <1>3 DEF Pending, CheckSteps
  <1>6. \A g, n : NoEventOf(g, n)' <=> NoEventOf(g, n)
    BY <1>1 DEF NoEventOf
  <1>7. \A g \in Findings : Accounted(g, sla[g])'
    BY <1>1, <1>5, <1>6 DEF AccountInv, Accounted
  <1>8. ASSUME NEW u \in Threads
        PROVE  /\ pc'[u] = "resolveMem" => Accounted(loc[u].f, loc[u].rec)'
               /\ pc'[u] # "checkMem"
    BY <1>2, <1>3, <1>5, <1>6 DEF AccountInv, Accounted, CheckSteps
  <1> QED BY <1>4, <1>7, <1>8 DEF AccountInv

(* The event joins the trail in memory: what was on its way has arrived.    *)
LEMMA RecordingEscMem ==
  ASSUME EscalationInv, AccountInv, TrailInv, NEW t \in Threads, EscMem(t)
  PROVE  AccountInv' /\ TrailInv'
  <1> DEFINE f == loc[t].f
             e == EventOf(loc[t])
  <1>1. /\ pc[t] = "escMem" /\ pc' = [pc EXCEPT ![t] = "escRow"]
        /\ esc' = [esc EXCEPT ![f] = Append(@, e)]
        /\ UNCHANGED <<loc, sla, escRow>>
    BY DEF EscMem, Goto
  <1>2. f \in Findings /\ e.gen = loc[t].rec.gen
    BY DEF EscalationInv, TypeOK, Locals, EventOf
  <1>3. \A u \in Threads : u # t => pc'[u] = pc[u] /\ pc[u] \notin CheckSteps
    BY <1>1, OneChecker DEF EscalationInv, TypeOK, CheckSteps
  <1>4. pc'[t] = "escRow"
    BY <1>1 DEF EscalationInv, TypeOK
  <1>5. TrailInv'
    <2>1. escRow = esc
      BY <1>1, <1>3 DEF TrailInv, CheckSteps
    <2>2. \A u \in Threads : pc'[u] = "escRow" => u = t
      BY <1>3 DEF CheckSteps
    <2>3. e' = e
      BY <1>1 DEF EventOf
    <2> QED BY <1>1, <1>4, <2>1, <2>2, <2>3 DEF TrailInv
  <1> HIDE DEF e
  <1>6. esc[f] \in Seq(EscalationEvent) /\ esc'[f] = Append(esc[f], e)
    BY <1>1, <1>2 DEF EscalationInv, TypeOK
  <1>7. /\ DOMAIN esc'[f] = 1..(Len(esc[f]) + 1) /\ DOMAIN esc[f] = 1..Len(esc[f])
        /\ Len(esc[f]) \in Nat /\ esc'[f][Len(esc[f]) + 1] = e
        /\ \A i \in DOMAIN esc[f] : i \in DOMAIN esc'[f] /\ esc'[f][i] = esc[f][i]
    BY <1>6
  <1>8. \A g \in Findings : \A n : ~ NoEventOf(g, n) => ~ NoEventOf(g, n)'
    <2>1. \A g \in Findings : g # f => esc'[g] = esc[g]
      BY <1>1 DEF EscalationInv, TypeOK
    <2> QED BY <1>7, <2>1 DEF NoEventOf
  <1>9. ASSUME NEW g \in Findings, NEW n, g = f, n = e.gen PROVE ~ NoEventOf(g, n)'
    <2>1. Len(esc[f]) + 1 \in DOMAIN esc'[f]
      BY <1>7
    <2> QED BY <1>7, <1>9, <2>1 DEF NoEventOf
  <1>10. \A g \in Findings : \A n : Pending(g, n) => g = f /\ n = e.gen
    BY <1>2, <1>3 DEF Pending, CheckSteps
  <1>11. ASSUME NEW g \in Findings, NEW r, Accounted(g, r)
         PROVE  r.level > 0 => ~ NoEventOf(g, r.gen)'
    <2>1. CASE ~ NoEventOf(g, r.gen)
      BY <1>8, <2>1
    <2>2. CASE Pending(g, r.gen)
      BY <1>9, <1>10, <2>2
    <2> QED BY <1>11, <2>1, <2>2 DEF Accounted
  <1>12. \A g \in Findings : Accounted(g, sla[g])'
    BY <1>1, <1>11 DEF AccountInv, Accounted
  <1>13. ASSUME NEW u \in Threads
         PROVE  /\ pc'[u] = "resolveMem" => Accounted(loc[u].f, loc[u].rec)'
                /\ pc'[u] # "checkMem"
    <2>1. loc[u].f \in Findings /\ loc'[u] = loc[u]
      BY <1>1 DEF EscalationInv, TypeOK, Locals
    <2> QED BY <1>3, <1>4, <1>11, <2>1 DEF AccountInv, Accounted, CheckSteps
  <1> QED BY <1>5, <1>12, <1>13 DEF AccountInv

(* The insert makes the two trails one again.                               *)
LEMMA RecordingEscRow ==
  ASSUME EscalationInv, AccountInv, TrailInv, NEW t \in Threads, EscRow(t)
  PROVE  AccountInv' /\ TrailInv'
  <1>1. /\ pc[t] = "escRow" /\ pc' = [pc EXCEPT ![t] = "idle"]
        /\ loc' = [loc EXCEPT ![t] = IdleLocals] /\ UNCHANGED <<sla, esc>>
        /\ escRow' = [escRow EXCEPT ![loc[t].f] = Append(@, EventOf(loc[t]))]
    BY DEF EscRow, ReturnReleasing, Return
  <1>2. \A u \in Threads : u # t => /\ pc'[u] = pc[u] /\ loc'[u] = loc[u]
                                   /\ pc[u] \notin CheckSteps
    BY <1>1, OneChecker DEF EscalationInv, TypeOK, CheckSteps
  <1>3. pc'[t] = "idle"
    BY <1>1 DEF EscalationInv, TypeOK
  <1>4. TrailInv'
    BY <1>1, <1>2, <1>3 DEF TrailInv, CheckSteps
  <1>5. \A g, n : ~ Pending(g, n)
    BY <1>1, <1>2 DEF Pending, CheckSteps
  <1>6. \A g, n : NoEventOf(g, n)' <=> NoEventOf(g, n)
    BY <1>1 DEF NoEventOf
  <1>7. \A g \in Findings : Accounted(g, sla[g])'
    BY <1>1, <1>5, <1>6 DEF AccountInv, Accounted
  <1>8. ASSUME NEW u \in Threads
        PROVE  /\ pc'[u] = "resolveMem" => Accounted(loc[u].f, loc[u].rec)'
               /\ pc'[u] # "checkMem"
    BY <1>2, <1>3, <1>5, <1>6 DEF AccountInv, Accounted, CheckSteps
  <1> QED BY <1>4, <1>7, <1>8 DEF AccountInv

----------------------------------------------------------------------------
LEMMA RecordingInit == Init => RecordingInv
  <1> SUFFICES ASSUME Init PROVE RecordingInv OBVIOUS
  <1>1. NoDeletion BY DEF Init, NoDeletion
  <1>2. AccountInv BY DEF Init, AccountInv, Accounted, NoRecord
  <1>3. TrailInv BY DEF Init, TrailInv
  <1> QED BY <1>1, <1>2, <1>3, EscalationInit DEF RecordingInv

(* Without deletions in Ops, no handler starts deleting.                    *)
LEMMA NoDeletionStep ==
  ASSUME "delete" \notin Ops, EscalationInv, NoDeletion, Next
  PROVE  NoDeletion'
  <1> USE DEF NoDeletion
  <1>1. \A t \in Threads : ~ DeleteEsc(t) /\ ~ DeleteRow(t) /\ ~ DeleteEscRow(t)
    BY DEF DeleteEsc, DeleteRow, DeleteEscRow
  <1>2. ASSUME NEW t \in Threads,
               NEW step \in PcValues \ {"delEsc", "delRow", "delEscRow"},
               pc' = [pc EXCEPT ![t] = step]
        PROVE  NoDeletion'
    BY <1>2 DEF EscalationInv, TypeOK
  <1>3. \A step \in CheckSteps \cup {"idle", "startMem", "startRow", "resolveMem",
                                    "resolveRow"} :
          step \in PcValues \ {"delEsc", "delRow", "delEscRow"}
    BY DEF PcValues, CheckSteps
  <1>4. ASSUME NEW t \in Threads, Continue(t) \/ DbError(t)
        PROVE  \E step \in CheckSteps \cup {"idle", "startRow", "resolveRow"} :
                 pc' = [pc EXCEPT ![t] = step]
    <2>1. CASE StartMem(t) BY <2>1 DEF StartMem, Call
    <2>2. CASE StartRow(t) \/ ResolveRow(t)
      BY <2>2 DEF StartRow, ResolveRow, UpsertAndReturn, Return
    <2>3. CASE CheckMem(t) \/ ResolveMem(t) \/ EscMem(t)
      BY <2>3 DEF CheckMem, ResolveMem, EscMem, Goto, CheckSteps
    <2>4. CASE CheckRow(t)
      BY <2>4 DEF CheckRow, Goto, ReturnReleasing, Return, CheckSteps
    <2>5. CASE EscRow(t) BY <2>5 DEF EscRow, ReturnReleasing, Return
    <2>6. CASE DbError(t) BY <2>6 DEF DbError, DbRaises, Return
    <2> QED BY <1>1, <1>4, <2>1, <2>2, <2>3, <2>4, <2>5, <2>6 DEF Continue
  <1>5. ASSUME NEW t \in Threads, NEW f \in Findings, NEW now, CheckRead(t, f, now)
        PROVE  NoDeletion'
    <2>1. UNCHANGED pc \/ pc' = [pc EXCEPT ![t] = "checkMem"]
      BY <1>5 DEF CheckRead, Call
    <2> QED BY <1>2, <1>3, <2>1 DEF CheckSteps
  <1>6. ASSUME NEW t \in Workers, Request(t) PROVE NoDeletion'
    <2>1. t \in Threads BY DEF Threads
    <2>2. ASSUME NEW f \in Findings, StartRead(t, f) PROVE NoDeletion'
      BY <1>2, <1>3, <2>1, <2>2 DEF StartRead, Call
    <2>3. ASSUME NEW f \in Findings, ResolveRead(t, f) PROVE NoDeletion'
      BY <1>2, <1>3, <2>1, <2>3 DEF ResolveRead, Call
    <2> QED BY <1>5, <1>6, <2>1, <2>2, <2>3 DEF Request, ApiCheck, DeleteMem
  <1>7. CASE \/ Tick \/ EvalBegin
             \/ \E f \in Findings, p \in Priorities : AssessRisk(f, p)
             \/ \E f \in Findings : EvalGone(f)
    BY <1>7 DEF Tick, EvalBegin, AssessRisk, EvalGone
  <1>8. CASE \E f \in Findings : EvalCheck(f)
    <2>1. evaluator \in Threads BY DEF Threads
    <2> QED BY <1>5, <1>8, <2>1 DEF EvalCheck
  <1>9. ASSUME NEW t \in Threads, Continue(t) \/ DbError(t) PROVE NoDeletion'
    BY <1>2, <1>3, <1>4, <1>9
  <1> QED BY <1>6, <1>7, <1>8, <1>9 DEF Next, EvalStep

(* The invariant is inductive: one step per action of Next.                 *)
LEMMA RecordingStep ==
  ASSUME "delete" \notin Ops
  PROVE  RecordingInv /\ [Next]_vars => RecordingInv'
  <1> SUFFICES ASSUME RecordingInv, [Next]_vars PROVE RecordingInv' OBVIOUS
  <1>1. EscalationInv /\ EscalationInv'
    BY EscalationStep DEF RecordingInv
  <1>2. CASE UNCHANGED vars
    BY <1>1, <1>2, RecordingQuiet DEF RecordingInv, NoDeletion, vars, stores, budget
  <1>3. CASE Next
    <2>1. NoDeletion'
      BY <1>1, <1>3, NoDeletionStep DEF RecordingInv
    <2> SUFFICES ASSUME dbErrors' = 0 PROVE AccountInv' /\ TrailInv'
      BY <1>1, <2>1 DEF RecordingInv
    <2> USE DEF stores, budget
    <2>2. \A t \in Threads : ~ DbError(t)
      BY <1>1 DEF DbError, DbRaises, EscalationInv, TypeOK
    <2>3. dbErrors = 0
      BY <1>3, <2>2 DEF Next, Tick, AssessRisk, Request, StartRead, ApiCheck, CheckRead,
         ResolveRead, DeleteMem, Continue, StartMem, StartRow, ResolveRow, UpsertAndReturn,
         CheckMem, CheckRow, EscMem, EscRow, ResolveMem, DeleteEsc, DeleteRow, DeleteEscRow,
         EvalStep, EvalBegin, EvalCheck, EvalGone
    <2>4. AccountInv /\ TrailInv
      BY <2>3 DEF RecordingInv
    <2>5. \A t \in Threads : /\ loc[t] \in Locals /\ loc[t].f \in Findings
                            /\ loc[t].rec \in SLARecord
      BY <1>1 DEF EscalationInv, TypeOK, Locals
    <2>6. CASE \/ Tick \/ EvalBegin
               \/ \E f \in Findings, p \in Priorities : AssessRisk(f, p)
               \/ \E f \in Findings : EvalGone(f)
      <3>1. UNCHANGED <<sla, esc, escRow, pc, loc>>
        BY <2>6 DEF Tick, EvalBegin, AssessRisk, EvalGone
      <3> QED BY <2>4, <3>1, RecordingQuiet
    <2>7. ASSUME NEW t \in Threads, NEW f \in Findings, StartRead(t, f)
          PROVE  AccountInv' /\ TrailInv'
      <3>1. PICK l \in Locals : loc' = [loc EXCEPT ![t] = l]
        <4>1. risk[f] \in Priorities /\ clock \in Nat
          BY <1>1, <2>7 DEF StartRead, EscalationInv, TypeOK
        <4>2. [f |-> f, rec |-> CreateSla(risk[f], clock), now |-> 0, event |-> FALSE]
                \in Locals
          BY <4>1, CreateSlaType DEF Locals
        <4> QED BY <2>7, <4>2 DEF StartRead, Call
      <3>2. /\ pc[t] = "idle" /\ UNCHANGED <<sla, esc, escRow>>
            /\ pc' = [pc EXCEPT ![t] = "startMem"]
        BY <2>7 DEF StartRead, Call
      <3> QED BY <1>1, <2>4, <3>1, <3>2, RecordingOutside DEF PcValues, CheckSteps
    <2>8. ASSUME NEW t \in Threads, NEW f \in Findings, ResolveRead(t, f)
          PROVE  AccountInv' /\ TrailInv'
      <3> DEFINE l == [f |-> f, rec |-> ResolveSla(sla[f]), now |-> 0, event |-> FALSE]
      <3>1. sla[f] \in SLARecord
        BY <1>1 DEF EscalationInv, TypeOK
      <3>2. /\ ResolveSla(sla[f]) \in SLARecord /\ ResolveSla(sla[f]).gen = sla[f].gen
            /\ ResolveSla(sla[f]).level = sla[f].level
        BY <3>1 DEF ResolveSla, SLARecord, Statuses
      <3>3. l \in Locals /\ l.f = f /\ l.rec = ResolveSla(sla[f])
        BY <3>2 DEF Locals
      <3>4. /\ pc[t] = "idle" /\ UNCHANGED <<sla, esc, escRow>>
            /\ pc' = [pc EXCEPT ![t] = "resolveMem"] /\ loc' = [loc EXCEPT ![t] = l]
        BY <2>8 DEF ResolveRead, Call
      <3> HIDE DEF l
      <3>5. Accounted(l.f, l.rec)
        BY <2>4, <3>2, <3>3 DEF AccountInv, Accounted
      <3> QED BY <1>1, <2>4, <3>3, <3>4, <3>5, RecordingOutside DEF PcValues, CheckSteps
    <2>9. ASSUME NEW t \in Threads, StartMem(t) PROVE AccountInv' /\ TrailInv'
      <3> DEFINE rec == [loc[t].rec EXCEPT !.gen = created + 1]
                 l == [f |-> loc[t].f, rec |-> rec, now |-> 0, event |-> FALSE]
      <3>1. /\ pc[t] = "startMem" /\ UNCHANGED <<esc, escRow>>
            /\ sla' = [sla EXCEPT ![loc[t].f] = rec]
            /\ pc' = [pc EXCEPT ![t] = "startRow"] /\ loc' = [loc EXCEPT ![t] = l]
        BY <2>9 DEF StartMem, Call
      <3>2. created + 1 \in Nat
        BY <1>1 DEF EscalationInv, TypeOK
      <3>3. rec \in SLARecord /\ rec.level = loc[t].rec.level
        BY <2>5, <3>2 DEF SLARecord
      <3>4. l \in Locals
        BY <2>5, <3>3 DEF Locals
      <3>5. loc[t].rec.level = 0
        BY <1>1, <3>1 DEF EscalationInv, ThreadInv
      <3> HIDE DEF rec, l
      <3>6. Accounted(loc[t].f, rec)
        BY <3>3, <3>5 DEF Accounted
      <3>7. \A g \in Findings : sla'[g] = sla[g] \/ Accounted(g, sla'[g])
        BY <1>1, <3>1, <3>6 DEF EscalationInv, TypeOK
      <3> QED BY <1>1, <2>4, <3>1, <3>4, <3>7, RecordingOutside DEF PcValues, CheckSteps
    <2>10. ASSUME NEW t \in Threads, ResolveMem(t) PROVE AccountInv' /\ TrailInv'
      <3>1. /\ pc[t] = "resolveMem" /\ UNCHANGED <<esc, escRow, loc>>
            /\ sla' = [sla EXCEPT ![loc[t].f] = loc[t].rec]
            /\ pc' = [pc EXCEPT ![t] = "resolveRow"]
        BY <2>10 DEF ResolveMem, Goto
      <3>2. loc' = [loc EXCEPT ![t] = loc[t]]
        BY <1>1, <3>1 DEF EscalationInv, TypeOK
      <3>3. \A g \in Findings : sla'[g] = sla[g] \/ Accounted(g, sla'[g])
        BY <1>1, <2>4, <3>1 DEF EscalationInv, TypeOK, AccountInv
      <3> QED BY <1>1, <2>4, <2>5, <3>1, <3>2, <3>3, RecordingOutside
              DEF PcValues, CheckSteps
    <2>11. ASSUME NEW t \in Threads, StartRow(t) \/ ResolveRow(t)
           PROVE  AccountInv' /\ TrailInv'
      <3>1. /\ pc[t] \in {"startRow", "resolveRow"} /\ UNCHANGED <<sla, esc, escRow>>
            /\ pc' = [pc EXCEPT ![t] = "idle"] /\ loc' = [loc EXCEPT ![t] = IdleLocals]
        BY <2>11 DEF StartRow, ResolveRow, UpsertAndReturn, Return
      <3> QED BY <1>1, <2>4, <3>1, IdleLocalsType, RecordingOutside
              DEF PcValues, CheckSteps
    <2>12. ASSUME NEW t \in Threads, Continue(t) PROVE AccountInv' /\ TrailInv'
      <3>1. ~ DeleteEsc(t) /\ ~ DeleteRow(t) /\ ~ DeleteEscRow(t)
        BY DEF DeleteEsc, DeleteRow, DeleteEscRow, RecordingInv, NoDeletion
      <3> QED BY <1>1, <2>4, <2>9, <2>10, <2>11, <2>12, <3>1, RecordingCheckMem,
                 RecordingCheckRow, RecordingEscMem, RecordingEscRow
              DEF Continue
    <2>13. ASSUME NEW t \in Workers, Request(t) PROVE AccountInv' /\ TrailInv'
      <3>1. t \in Threads /\ \A now \in 0..MaxTime : now \in Nat
        BY SlaConstants DEF Threads
      <3> QED BY <1>1, <2>4, <2>7, <2>8, <2>13, <3>1, RecordingCheckRead
              DEF Request, ApiCheck, DeleteMem
    <2>14. CASE \E f \in Findings : EvalCheck(f)
      <3>1. evaluator \in Threads /\ cycleNow \in Nat
        BY <1>1 DEF Threads, EscalationInv, TypeOK
      <3> QED BY <1>1, <2>4, <2>14, <3>1, RecordingCheckRead DEF EvalCheck
    <2> QED BY <1>3, <2>2, <2>6, <2>12, <2>13, <2>14 DEF Next, EvalStep
  <1> QED BY <1>2, <1>3

(* When the lock is free, no event is on its way and none is half recorded. *)
LEMMA RecordingImplies == RecordingInv => NoLostEscalation /\ EscalationTrailDurable
  <1> SUFFICES ASSUME RecordingInv, lock = "free", dbErrors = 0
               PROVE  /\ escRow = esc
                      /\ \A f \in Findings :
                           sla[f].level > 0 => EventsOf(f, sla[f].gen) # {}
    BY DEF NoLostEscalation, EscalationTrailDurable
  <1>1. \A t \in Threads : pc[t] \notin CheckSteps
    BY SlaConstants DEF RecordingInv, EscalationInv, LockInv, Threads
  <1>2. escRow = esc
    BY <1>1 DEF RecordingInv, TrailInv, CheckSteps
  <1>3. ASSUME NEW f \in Findings, sla[f].level > 0 PROVE EventsOf(f, sla[f].gen) # {}
    <2>1. ~ NoEventOf(f, sla[f].gen)
      BY <1>1, <1>3 DEF RecordingInv, AccountInv, Accounted, Pending, CheckSteps
    <2> QED BY <2>1 DEF NoEventOf, EventsOf
  <1> QED BY <1>2, <1>3

(* No escalation is lost: whatever checks, resolutions and replacements of  *)
(* SLAs interleave, an SLA whose level check_and_persist_sla raised has its *)
(* escalation event once the lock is released.                              *)
THEOREM EscalationNeverLost ==
  ASSUME "delete" \notin Ops
  PROVE  Spec => []NoLostEscalation
  <1>1. RecordingInv => NoLostEscalation BY RecordingImplies
  <1>2. RecordingInv /\ [Next]_vars => RecordingInv' BY RecordingStep
  <1> QED BY <1>1, <1>2, RecordingInit, PTL DEF Spec

(* The escalation trail in memory is the one in the database whenever no    *)
(* check is under way and no commit has failed.                             *)
THEOREM TrailIsDurable ==
  ASSUME "delete" \notin Ops
  PROVE  Spec => []EscalationTrailDurable
  <1>1. RecordingInv => EscalationTrailDurable BY RecordingImplies
  <1>2. RecordingInv /\ [Next]_vars => RecordingInv' BY RecordingStep
  <1> QED BY <1>1, <1>2, RecordingInit, PTL DEF Spec
============================================================================
