----------------------------- MODULE ApiProofs -----------------------------
(***************************************************************************)
(* Proofs about DefectDojo, Notifications and BenchmarkReports, for any    *)
(* findings, users, reports, request threads and numbers of requests,      *)
(* faults and events.                                                      *)
(***************************************************************************)
EXTENDS DefectDojo, Notifications, BenchmarkReports, FiniteSetTheorems, TLAPS

-----------------------------------------------------------------------------
(* DefectDojo. *)

Tickets == {t \in [status : {"none", "error", "created"}, remote_id : Nat] :
              t.status = "created" => t.remote_id > 0}
Jobs == [at : {"free", "next", "ticket", "mem", "row"}, queue : Seq(Tracked),
         ticket : Tickets, sync : BOOLEAN]

DojoTypes ==
  /\ tickets \in [Tracked -> Tickets] /\ ticketRows \in [Tracked -> Tickets]
  /\ remote \in [Tracked -> Nat] /\ asked \in [Tracked -> Nat] /\ excused \in [Tracked -> Nat]
  /\ clerk \in [DojoWorkers -> Jobs] /\ overlapped \in BOOLEAN

(* What every thread is at, and the id it carries. *)
Working == {"ticket", "mem", "row"}
Storing == {"mem", "row"}
Sound(q, n) ==
  /\ q.at \in Working => q.queue # <<>>
  /\ q.at \in Storing => /\ q.ticket.status \in {"error", "created"}
                         /\ q.ticket.remote_id <= n[Head(q.queue)]
  /\ q.at = "free" => q = Free

DojoBasic ==
  /\ DojoTypes
  /\ \A w \in DojoWorkers : Sound(clerk[w], remote)
  /\ \A f \in Tracked : tickets[f].remote_id <= remote[f] /\ ticketRows[f].remote_id <= remote[f]

(* The one request in progress while none overlap. *)
Current(c) == IF \E w \in DojoWorkers : c[w] # Free
              THEN c[CHOOSE w \in DojoWorkers : c[w] # Free] ELSE Free

(* What it knows of the tickets in memory. *)
Knows(q, t) ==
  /\ q.at \in {"ticket", "mem"} /\ q.sync => t[Head(q.queue)].status # "created"
  /\ q.at = "row" => t[Head(q.queue)] = q.ticket

(* It was asked for a ticket by hand and has made no remote finding: still *)
(* to be tried, or refused and not yet recorded.                           *)
Owes(q, f, steps) ==
  /\ q.at \in Working /\ Head(q.queue) = f /\ ~q.sync
  /\ q.at = "ticket" \/ (q.at \in steps /\ q.ticket.status = "error")

(* It made the remote finding it is about to record. *)
Made(q, f, steps) == q.at \in steps /\ Head(q.queue) = f /\ q.ticket.status = "created"

One(b) == IF b THEN 1 ELSE 0

(* n remote findings are accounted for by a tickets asked for by hand, x   *)
(* losses and the one that a ticket, m in memory or r in the rows, names.  *)
Account(q, f, m, r, n, a, x) ==
  /\ n + One(Owes(q, f, {"mem"})) <= a + x + One(m.status = "created" \/ Made(q, f, {"mem"}))
  /\ n + One(Owes(q, f, Storing)) <= a + x + One(r.status = "created" \/ Made(q, f, Storing))

AccountInv ==
  ~overlapped =>
    /\ \A v, w \in DojoWorkers : clerk[v] # Free /\ clerk[w] # Free => v = w
    /\ Knows(Current(clerk), tickets)
    /\ \A f \in Tracked :
         Account(Current(clerk), f, tickets[f], ticketRows[f], remote[f], asked[f], excused[f])

DojoInv == DojoBasic /\ AccountInv

LEMMA FreeJob == Free \in Jobs /\ Free.at = "free" /\ ~ Free.sync
BY DEF Free, Job, Jobs, NoTicket, Tickets

LEMMA CurrentIs ==
  ASSUME NEW c, NEW w \in DojoWorkers, \A v \in DojoWorkers \ {w} : c[v] = Free
  PROVE  Current(c) = c[w]
BY DEF Current

(* What every turn of a thread has to show. *)
LEMMA Turn ==
  ASSUME DojoInv, NEW w \in DojoWorkers, NEW j \in Jobs,
         clerk' = [clerk EXCEPT ![w] = j],
         tickets' \in [Tracked -> Tickets], ticketRows' \in [Tracked -> Tickets],
         remote' \in [Tracked -> Nat], asked' \in [Tracked -> Nat],
         excused' \in [Tracked -> Nat], overlapped' \in BOOLEAN,
         \A f \in Tracked : /\ remote[f] <= remote'[f]
                            /\ tickets'[f].remote_id <= remote'[f]
                            /\ ticketRows'[f].remote_id <= remote'[f],
         Sound(j, remote'),
         ~overlapped' => ~overlapped /\ \A v \in DojoWorkers \ {w} : clerk[v] = Free,
         /\ ~overlapped' /\ Knows(clerk[w], tickets)
         /\ \A f \in Tracked : Account(clerk[w], f, tickets[f], ticketRows[f], remote[f],
                                       asked[f], excused[f])
         => /\ Knows(j, tickets')
            /\ \A f \in Tracked : Account(j, f, tickets'[f], ticketRows'[f], remote'[f],
                                          asked'[f], excused'[f])
  PROVE  DojoInv'
<1>1. /\ clerk' \in [DojoWorkers -> Jobs] /\ clerk'[w] = j
      /\ \A v \in DojoWorkers \ {w} : clerk'[v] = clerk[v]
  BY DEF DojoInv, DojoBasic, DojoTypes
<1>2. DojoTypes'
  BY <1>1 DEF DojoTypes
<1>3. ASSUME NEW v \in DojoWorkers PROVE Sound(clerk'[v], remote')
  <2>1. CASE v = w
    BY <1>1, <2>1
  <2>2. CASE v # w
    <3>1. clerk'[v] = clerk[v] /\ Sound(clerk[v], remote) /\ clerk[v] \in Jobs
      BY <1>1, <2>2 DEF DojoInv, DojoBasic, DojoTypes
    <3>2. clerk[v].at \in Storing =>
            /\ Head(clerk[v].queue) \in Tracked
            /\ clerk[v].ticket.remote_id \in Nat
      BY <3>1 DEF Sound, Jobs, Tickets, Storing, Working
    <3>3. remote \in [Tracked -> Nat]
      BY DEF DojoInv, DojoBasic, DojoTypes
    <3>4. QED
      BY <3>1, <3>2, <3>3 DEF Sound
  <2>3. QED
    BY <2>1, <2>2
<1>4. DojoBasic'
  BY <1>2, <1>3 DEF DojoBasic
<1>5. ASSUME ~overlapped' PROVE AccountInv'
  <2>1. \A v \in DojoWorkers \ {w} : clerk[v] = Free /\ clerk'[v] = Free
    BY <1>1, <1>5
  <2>2. Current(clerk) = clerk[w] /\ Current(clerk') = j
    BY <1>1, <2>1, CurrentIs
  <2>3. /\ Knows(clerk[w], tickets)
        /\ \A f \in Tracked : Account(clerk[w], f, tickets[f], ticketRows[f], remote[f],
                                       asked[f], excused[f])
    BY <1>5, <2>2 DEF DojoInv, AccountInv
  <2>4. /\ Knows(Current(clerk'), tickets')
        /\ \A f \in Tracked : Account(Current(clerk'), f, tickets'[f], ticketRows'[f], remote'[f],
                                      asked'[f], excused'[f])
    BY <1>5, <2>2, <2>3
  <2>5. \A v, u \in DojoWorkers : clerk'[v] # Free /\ clerk'[u] # Free => v = u
    BY <2>1
  <2>6. QED
    BY <2>4, <2>5 DEF AccountInv
<1>6. AccountInv'
  BY <1>5 DEF AccountInv
<1>7. QED
  BY <1>4, <1>6 DEF DojoInv

(* What a thread at work has and can turn into. *)
LEMMA JobFacts ==
  ASSUME DojoInv, NEW w \in DojoWorkers
  PROVE  LET q == clerk[w] IN
         /\ q \in Jobs /\ Sound(q, remote)
         /\ q.at # "free" /\ ~overlapped => \A v \in DojoWorkers \ {w} : clerk[v] = Free
         /\ q.queue # <<>> => /\ Head(q.queue) \in Tracked /\ Drop(q) \in Jobs
                              /\ Proceed(q) \in Jobs /\ Job("ticket", q.queue, TRUE) \in Jobs
         /\ \A t \in Tickets : ToStore(q, t) \in Jobs
<1> DEFINE q == clerk[w]
<1>1. q \in Jobs /\ Sound(q, remote)
  BY DEF DojoInv, DojoBasic, DojoTypes
<1>2. q.at # "free" /\ ~overlapped => \A v \in DojoWorkers \ {w} : clerk[v] = Free
  BY FreeJob DEF DojoInv, AccountInv
<1>3. NoTicket \in Tickets
  BY DEF NoTicket, Tickets
<1> HIDE DEF q
<1>4. q.queue \in Seq(Tracked)
  BY <1>1 DEF Jobs
<1>5. q.queue # <<>> => /\ Head(q.queue) \in Tracked /\ Tail(q.queue) \in Seq(Tracked)
  BY <1>4
<1>6. \A s \in Seq(Tracked) : Job("next", s, TRUE) \in Jobs /\ Job("ticket", s, TRUE) \in Jobs
  BY <1>3 DEF Job, Jobs
<1>7. q.queue # <<>> => Drop(q) \in Jobs /\ Proceed(q) \in Jobs
  BY <1>5, <1>6, FreeJob DEF Drop, Proceed
<1>8. \A t \in Tickets : ToStore(q, t) \in Jobs
  BY <1>1 DEF ToStore, Jobs
<1>9. QED
  BY <1>1, <1>2, <1>4, <1>5, <1>6, <1>7, <1>8 DEF q

LEMMA CreateCallStep ==
  ASSUME DojoInv, NEW w \in DojoWorkers, NEW f \in Tracked, CreateCall(w, f)
  PROVE  DojoInv'
<1> USE DEF Working, Storing
<1>1. PICK j \in Jobs : j = Job("ticket", <<f>>, FALSE)
  <2>1. Job("ticket", <<f>>, FALSE) \in Jobs
    BY DEF Job, Jobs, NoTicket, Tickets
  <2>2. QED
    BY <2>1
<1>2. /\ clerk' = [clerk EXCEPT ![w] = j] /\ clerk[w] = Free
      /\ UNCHANGED <<tickets, ticketRows, remote, excused>>
      /\ asked' = [asked EXCEPT ![f] = @ + 1]
      /\ overlapped' = (overlapped \/ BusyClerks \ {w} # {})
  BY <1>1 DEF CreateCall, Overlap
<1>3. j.at = "ticket" /\ j.queue = <<f>> /\ Head(j.queue) = f /\ j.sync = FALSE /\ j.queue # <<>>
  BY <1>1 DEF Job
<1>4. DojoTypes /\ DojoBasic
  BY DEF DojoInv, DojoBasic
<1>5. /\ asked' \in [Tracked -> Nat]
      /\ \A g \in Tracked : asked'[g] = IF g = f THEN asked[g] + 1 ELSE asked[g]
  BY <1>2, <1>4 DEF DojoTypes
<1>6. overlapped' \in BOOLEAN
  BY <1>2, <1>4 DEF DojoTypes
<1>7. ~overlapped' => ~overlapped /\ \A v \in DojoWorkers \ {w} : clerk[v] = Free
  BY <1>2 DEF BusyClerks
<1>8. Sound(j, remote')
  BY <1>3 DEF Sound
<1>9. ASSUME NEW g \in Tracked,
             Account(clerk[w], g, tickets[g], ticketRows[g], remote[g], asked[g], excused[g])
      PROVE  Account(j, g, tickets'[g], ticketRows'[g], remote'[g], asked'[g], excused'[g])
  <2>1. \A st : ~ Owes(Free, g, st) /\ (st \subseteq Storing => ~ Made(Free, g, st))
    BY FreeJob DEF Owes, Made
  <2>2. \A st : (Owes(j, g, st) => g = f) /\ (st \subseteq Storing => ~ Made(j, g, st))
    BY <1>3 DEF Owes, Made
  <2>3. remote[g] \in Nat /\ asked[g] \in Nat /\ excused[g] \in Nat
    BY <1>4 DEF DojoTypes
  <2>4. QED
    BY <1>2, <1>5, <1>9, <2>1, <2>2, <2>3 DEF Account, One
<1>10. Knows(j, tickets')
  BY <1>3 DEF Knows
<1>11. \A g \in Tracked : remote[g] <= remote'[g]
  BY <1>2, <1>4 DEF DojoTypes
<1>12. QED
  BY <1>2, <1>4, <1>5, <1>6, <1>7, <1>8, <1>9, <1>10, <1>11, Turn DEF DojoBasic, DojoTypes

(* A turn that leaves the tickets, the tracker and the counts alone. *)
LEMMA SilentTurn ==
  ASSUME DojoInv, NEW w \in DojoWorkers, NEW j \in Jobs,
         clerk' = [clerk EXCEPT ![w] = j],
         UNCHANGED <<tickets, ticketRows, remote, asked, excused>>,
         overlapped' \in BOOLEAN, Sound(j, remote),
         ~overlapped' => ~overlapped /\ \A v \in DojoWorkers \ {w} : clerk[v] = Free,
         Knows(clerk[w], tickets) => Knows(j, tickets),
         \A f \in Tracked : /\ \A st \in {{"mem"}, Storing} : Owes(j, f, st) => Owes(clerk[w], f, st)
                            /\ \A st \in {{"mem"}, Storing} : Made(clerk[w], f, st) => Made(j, f, st)
  PROVE  DojoInv'
<1>1. DojoTypes /\ DojoBasic
  BY DEF DojoInv, DojoBasic
<1>2. ASSUME NEW g \in Tracked,
             Account(clerk[w], g, tickets[g], ticketRows[g], remote[g], asked[g], excused[g])
      PROVE  Account(j, g, tickets[g], ticketRows[g], remote[g], asked[g], excused[g])
  <2>1. remote[g] \in Nat /\ asked[g] \in Nat /\ excused[g] \in Nat
    BY <1>1 DEF DojoTypes
  <2>2. One(Owes(j, g, {"mem"})) <= One(Owes(clerk[w], g, {"mem"}))
    BY DEF One
  <2>3. One(Owes(j, g, Storing)) <= One(Owes(clerk[w], g, Storing))
    BY DEF One
  <2>4. \A b : One(b) \in {0, 1}
    BY DEF One
  <2>5. One(tickets[g].status = "created" \/ Made(clerk[w], g, {"mem"}))
          <= One(tickets[g].status = "created" \/ Made(j, g, {"mem"}))
    BY DEF One
  <2>6. One(ticketRows[g].status = "created" \/ Made(clerk[w], g, Storing))
          <= One(ticketRows[g].status = "created" \/ Made(j, g, Storing))
    BY DEF One
  <2>7. QED
    BY <1>2, <2>1, <2>2, <2>3, <2>4, <2>5, <2>6 DEF Account
<1>3. \A g \in Tracked : remote[g] <= remote'[g]
  BY <1>1 DEF DojoTypes
<1>4. QED
  BY <1>1, <1>2, <1>3, Turn DEF DojoBasic, DojoTypes

LEMMA SyncCallStep ==
  ASSUME DojoInv, NEW w \in DojoWorkers, SyncCall(w)
  PROVE  DojoInv'
<1>1. PICK j \in Jobs : j = Job("next", FindingList, TRUE)
  <2>1. Job("next", FindingList, TRUE) \in Jobs
    BY DojoAssumption DEF Job, Jobs, NoTicket, Tickets
  <2>2. QED
    BY <2>1
<1>2. /\ clerk' = [clerk EXCEPT ![w] = j] /\ clerk[w] = Free
      /\ UNCHANGED <<tickets, ticketRows, remote, asked, excused>>
      /\ overlapped' = (overlapped \/ BusyClerks \ {w} # {})
  BY <1>1 DEF SyncCall, Overlap
<1>3. j.at = "next"
  BY <1>1 DEF Job
<1>4. overlapped' \in BOOLEAN
  BY <1>2 DEF DojoInv, DojoBasic, DojoTypes
<1>5. ~overlapped' => ~overlapped /\ \A v \in DojoWorkers \ {w} : clerk[v] = Free
  BY <1>2 DEF BusyClerks
<1>6. Sound(j, remote) /\ Knows(j, tickets)
  BY <1>3 DEF Sound, Knows, Working, Storing
<1>7. \A f \in Tracked : /\ \A st \in {{"mem"}, Storing} : ~ Owes(j, f, st)
                         /\ \A st \in {{"mem"}, Storing} : ~ Made(clerk[w], f, st)
  BY <1>2, <1>3, FreeJob DEF Owes, Made, Working, Storing
<1>8. QED
  BY <1>2, <1>4, <1>5, <1>6, <1>7, SilentTurn

LEMMA SyncNextStep ==
  ASSUME DojoInv, NEW w \in DojoWorkers, SyncNext(w)
  PROVE  DojoInv'
<1> DEFINE q == clerk[w]
           next == IF q.queue = <<>> THEN Free
                   ELSE IF tickets[Head(q.queue)].status \in Synced THEN Drop(q)
                   ELSE Job("ticket", q.queue, TRUE)
<1>1. next \in Jobs
  BY JobFacts, FreeJob
<1>2. /\ q.at = "next" /\ clerk' = [clerk EXCEPT ![w] = next]
      /\ UNCHANGED <<tickets, ticketRows, remote, asked, excused, overlapped>>
  BY DEF SyncNext
<1>3. PICK j \in Jobs : j = next
  BY <1>1
<1>4. \/ j = Free
      \/ j.at = "next"
      \/ /\ j.at = "ticket" /\ j.queue = q.queue /\ q.queue # <<>> /\ j.sync
         /\ tickets[Head(j.queue)].status # "created"
  BY <1>3 DEF Job, Drop, Synced
<1>5. Sound(j, remote) /\ Knows(j, tickets)
  BY <1>4, FreeJob DEF Sound, Knows, Working, Storing
<1>6. \A f \in Tracked : /\ \A st \in {{"mem"}, Storing} : ~ Owes(j, f, st)
                         /\ \A st \in {{"mem"}, Storing} : ~ Made(q, f, st)
  BY <1>2, <1>4, FreeJob DEF Owes, Made, Working, Storing
<1>7. ~overlapped' => ~overlapped /\ \A v \in DojoWorkers \ {w} : clerk[v] = Free
  BY <1>2, JobFacts
<1>8. overlapped' \in BOOLEAN
  BY <1>2 DEF DojoInv, DojoBasic, DojoTypes
<1> HIDE DEF next
<1>9. /\ clerk' = [clerk EXCEPT ![w] = j]
      /\ UNCHANGED <<tickets, ticketRows, remote, asked, excused>>
  BY <1>2, <1>3
<1>10. /\ Knows(clerk[w], tickets) => Knows(j, tickets)
       /\ \A f \in Tracked :
            /\ \A st \in {{"mem"}, Storing} : Owes(j, f, st) => Owes(clerk[w], f, st)
            /\ \A st \in {{"mem"}, Storing} : Made(clerk[w], f, st) => Made(j, f, st)
  BY <1>5, <1>6
<1> HIDE DEF q
<1>11. QED
  BY <1>5, <1>7, <1>8, <1>9, <1>10, SilentTurn

(* The answer to a POST: "made" findings appear in the tracker, "lost" of  *)
(* them without a ticket.                                                  *)
LEMMA PostTurn ==
  ASSUME DojoInv, NEW w \in DojoWorkers, NEW f \in Tracked, NEW made \in {0, 1}, NEW lost \in {0, 1},
         NEW t \in Tickets, NEW j \in Jobs,
         clerk[w].at = "ticket", f = Head(clerk[w].queue),
         clerk' = [clerk EXCEPT ![w] = j],
         j = Free \/ j = ToStore(clerk[w], t),
         t.status \in {"error", "created"}, t.remote_id <= remote[f] + made,
         made = lost \/ (made = 1 /\ lost = 0 /\ j = ToStore(clerk[w], t) /\ t.status = "created"),
         remote' \in [Tracked -> Nat], excused' \in [Tracked -> Nat],
         \A g \in Tracked : /\ remote'[g] = IF g = f THEN remote[g] + made ELSE remote[g]
                            /\ excused'[g] = IF g = f THEN excused[g] + lost ELSE excused[g],
         UNCHANGED <<tickets, ticketRows, asked, overlapped>>
  PROVE  DojoInv'
<1> DEFINE q == clerk[w]
<1>1. DojoTypes /\ DojoBasic /\ q \in Jobs
  BY DEF DojoInv, DojoBasic, DojoTypes
<1>2. \/ j = Free
      \/ j.at = "mem" /\ j.queue = q.queue /\ j.ticket = t /\ j.sync = q.sync
  BY DEF ToStore
<1>3. q.queue # <<>>
  BY <1>1 DEF DojoBasic, Sound, Working
<1>4. Sound(j, remote')
  BY <1>2, <1>3, FreeJob DEF Sound, Working, Storing
<1>5. Knows(q, tickets) => Knows(j, tickets)
  BY <1>2, FreeJob DEF Knows
<1>6. ASSUME NEW g \in Tracked, Knows(q, tickets),
             Account(q, g, tickets[g], ticketRows[g], remote[g], asked[g], excused[g])
      PROVE  Account(j, g, tickets'[g], ticketRows'[g], remote'[g], asked'[g], excused'[g])
  <2>1. remote[g] \in Nat /\ asked[g] \in Nat /\ excused[g] \in Nat
    BY <1>1 DEF DojoTypes
  <2>2. CASE g # f
    <3>1. \A st \in {{"mem"}, Storing} : ~ Owes(q, g, st) /\ ~ Made(q, g, st)
      BY <2>2 DEF Owes, Made
    <3>2. \A st \in {{"mem"}, Storing} : ~ Owes(j, g, st) /\ ~ Made(j, g, st)
      BY <1>2, <2>2, FreeJob DEF Owes, Made, Working, Storing
    <3>3. QED
      BY <1>6, <2>2, <3>1, <3>2 DEF Account, One
  <2>3. CASE g = f
    <3>1. /\ \A st \in {{"mem"}, Storing} : Owes(q, g, st) <=> ~ q.sync
          /\ \A st \in {{"mem"}, Storing} : ~ Made(q, g, st)
      BY <2>3 DEF Owes, Made, Working, Storing
    <3>2. /\ remote[g] + One(~ q.sync) <= asked[g] + excused[g] + One(tickets[g].status = "created")
          /\ remote[g] + One(~ q.sync) <= asked[g] + excused[g] + One(ticketRows[g].status = "created")
      BY <1>6, <3>1 DEF Account, One
    <3>3. q.sync => tickets[g].status # "created"
      BY <1>6, <2>3 DEF Knows
    <3>4. \A st \in {{"mem"}, Storing} : Owes(j, g, st) => ~ q.sync /\ t.status = "error"
      BY <1>2, FreeJob DEF Owes, Working, Storing
    <3>5. CASE made = lost
      <4>1. /\ One(Owes(j, g, {"mem"})) <= One(~ q.sync)
            /\ One(Owes(j, g, Storing)) <= One(~ q.sync)
        BY <3>4 DEF One
      <4>2. /\ One(tickets[g].status = "created")
                 <= One(tickets[g].status = "created" \/ Made(j, g, {"mem"}))
            /\ One(ticketRows[g].status = "created")
                 <= One(ticketRows[g].status = "created" \/ Made(j, g, Storing))
        BY DEF One
      <4>3. \A b : One(b) \in {0, 1}
        BY DEF One
      <4>4. remote'[g] = remote[g] + made /\ excused'[g] = excused[g] + made
        BY <2>3, <3>5
      <4>5. QED
        BY <2>1, <3>2, <4>1, <4>2, <4>3, <4>4 DEF Account
    <3>6. CASE made = 1 /\ lost = 0 /\ j = ToStore(q, t) /\ t.status = "created"
      <4>1. \A st \in {{"mem"}, Storing} : ~ Owes(j, g, st) /\ Made(j, g, st)
        BY <1>2, <2>3, <3>4, <3>6 DEF Made, Storing, ToStore
      <4>2. remote'[g] = remote[g] + 1 /\ excused'[g] = excused[g]
        BY <2>1, <2>3, <3>6
      <4>3. remote[g] <= asked[g] + excused[g]
        BY <2>1, <3>2, <3>3 DEF One
      <4>4. QED
        BY <2>1, <4>1, <4>2, <4>3 DEF Account, One
    <3>7. QED
      BY <3>5, <3>6
  <2>4. QED
    BY <2>2, <2>3
<1>7. \A g \in Tracked : /\ remote[g] <= remote'[g]
                         /\ tickets'[g].remote_id <= remote'[g]
                         /\ ticketRows'[g].remote_id <= remote'[g]
  BY <1>1 DEF DojoBasic, DojoTypes, Tickets
<1>8. ~overlapped' => ~overlapped /\ \A v \in DojoWorkers \ {w} : clerk[v] = Free
  BY JobFacts
<1> HIDE DEF q
<1>9. /\ tickets' \in [Tracked -> Tickets] /\ ticketRows' \in [Tracked -> Tickets]
      /\ asked' \in [Tracked -> Nat] /\ overlapped' \in BOOLEAN
  BY <1>1 DEF DojoTypes
<1>10. /\ ~overlapped' /\ Knows(clerk[w], tickets)
       /\ \A g \in Tracked : Account(clerk[w], g, tickets[g], ticketRows[g], remote[g],
                                     asked[g], excused[g])
       => /\ Knows(j, tickets')
          /\ \A g \in Tracked : Account(j, g, tickets'[g], ticketRows'[g], remote'[g],
                                        asked'[g], excused'[g])
  BY <1>5, <1>6 DEF q
<1>11. QED
  BY <1>4, <1>7, <1>8, <1>9, <1>10, Turn

LEMMA PostStep ==
  ASSUME DojoInv, NEW w \in DojoWorkers,
         NotEnabled(w) \/ PostCreated(w) \/ PostRefused(w) \/ PostTimesOut(w) \/ PostRaises(w)
  PROVE  DojoInv'
<1> DEFINE q == clerk[w]
           f == Head(q.queue)
<1>1. q.at = "ticket" /\ UNCHANGED <<tickets, ticketRows, asked, overlapped>>
  BY DEF NotEnabled, PostCreated, PostRefused, PostTimesOut, PostRaises
<1>2. f \in Tracked /\ DojoTypes
  BY <1>1, JobFacts DEF Sound, Working, DojoInv, DojoBasic
<1>3. remote[f] \in Nat
  BY <1>2 DEF DojoTypes
<1>4. Ticket("error", 0) \in Tickets /\ Ticket("created", remote[f] + 1) \in Tickets
  BY <1>3 DEF Ticket, Tickets
<1>5. /\ Ticket("error", 0).status = "error" /\ Ticket("error", 0).remote_id = 0
      /\ Ticket("created", remote[f] + 1).status = "created"
      /\ Ticket("created", remote[f] + 1).remote_id = remote[f] + 1
  BY DEF Ticket
<1> HIDE DEF f
<1>a. f = Head(clerk[w].queue)
  BY DEF f
<1>b. \A m \in {0, 1} :
        /\ [remote EXCEPT ![f] = @ + m] \in [Tracked -> Nat]
        /\ [excused EXCEPT ![f] = @ + m] \in [Tracked -> Nat]
        /\ \A g \in Tracked :
             /\ [remote EXCEPT ![f] = @ + m][g] = IF g = f THEN remote[g] + m ELSE remote[g]
             /\ [excused EXCEPT ![f] = @ + m][g] = IF g = f THEN excused[g] + m ELSE excused[g]
  BY <1>2 DEF DojoTypes
<1>c. /\ remote \in [Tracked -> Nat] /\ excused \in [Tracked -> Nat]
      /\ \A g \in Tracked : remote[g] + 0 = remote[g] /\ excused[g] + 0 = excused[g]
  BY <1>2 DEF DojoTypes
<1>6. CASE NotEnabled(w) \/ PostRefused(w)
  <2>1. PICK t \in Tickets : t = Ticket("error", 0)
    BY <1>4
  <2>2. PICK j \in Jobs : j = ToStore(clerk[w], t)
    BY JobFacts
  <2>3. clerk' = [clerk EXCEPT ![w] = j] /\ UNCHANGED <<remote, excused>>
    BY <1>6, <2>1, <2>2 DEF NotEnabled, PostRefused
  <2>4. \A g \in Tracked : /\ remote'[g] = IF g = f THEN remote[g] + 0 ELSE remote[g]
                           /\ excused'[g] = IF g = f THEN excused[g] + 0 ELSE excused[g]
    BY <1>c, <2>3
  <2>5. t.status = "error" /\ t.remote_id <= remote[f] + 0
    BY <1>3, <1>5, <2>1
  <2>6. QED
    BY <1>1, <1>2, <1>a, <1>c, <2>2, <2>3, <2>4, <2>5, PostTurn
<1>7. CASE PostCreated(w)
  <2>1. PICK t \in Tickets : t = Ticket("created", remote[f] + 1)
    BY <1>4
  <2>2. PICK j \in Jobs : j = ToStore(clerk[w], t)
    BY JobFacts
  <2>3. clerk' = [clerk EXCEPT ![w] = j] /\ remote' = [remote EXCEPT ![f] = @ + 1] /\ excused' = excused
    BY <1>7, <2>1, <2>2 DEF PostCreated, f
  <2>4. /\ remote' \in [Tracked -> Nat]
        /\ \A g \in Tracked : /\ remote'[g] = IF g = f THEN remote[g] + 1 ELSE remote[g]
                              /\ excused'[g] = IF g = f THEN excused[g] + 0 ELSE excused[g]
    BY <1>b, <1>c, <2>3
  <2>5. t.status = "created" /\ t.remote_id <= remote[f] + 1
    BY <1>3, <1>5, <2>1
  <2>6. excused' \in [Tracked -> Nat]
    BY <1>c, <2>3
  <2>7. QED
    BY <1>1, <1>2, <1>a, <2>2, <2>3, <2>4, <2>5, <2>6, PostTurn
<1>8. CASE PostTimesOut(w) \/ PostRaises(w)
  <2>1. PICK t \in Tickets : t = Ticket("error", 0)
    BY <1>4
  <2>2. ToStore(clerk[w], t) \in Jobs
    BY JobFacts
  <2>3. PICK made \in {0, 1}, j \in {Free, ToStore(clerk[w], t)} :
          /\ clerk' = [clerk EXCEPT ![w] = j]
          /\ remote' = [remote EXCEPT ![f] = @ + made]
          /\ excused' = [excused EXCEPT ![f] = @ + made]
    BY <1>8, <2>1 DEF PostTimesOut, PostRaises, f
  <2>4. j \in Jobs
    BY <2>2, <2>3, FreeJob
  <2>5. /\ remote' \in [Tracked -> Nat] /\ excused' \in [Tracked -> Nat]
        /\ \A g \in Tracked : /\ remote'[g] = IF g = f THEN remote[g] + made ELSE remote[g]
                              /\ excused'[g] = IF g = f THEN excused[g] + made ELSE excused[g]
    BY <1>b, <2>3
  <2>6. t.status = "error" /\ t.remote_id <= remote[f] + made
    BY <1>3, <1>5, <2>1
  <2>7. QED
    BY <1>1, <1>2, <1>a, <2>3, <2>4, <2>5, <2>6, PostTurn
<1>9. QED
  BY <1>6, <1>7, <1>8

LEMMA PersistMemStep ==
  ASSUME DojoInv, NEW w \in DojoWorkers, PersistMem(w)
  PROVE  DojoInv'
<1> DEFINE q == clerk[w]
           f == Head(q.queue)
<1>1. /\ q.at = "mem" /\ tickets' = [tickets EXCEPT ![f] = q.ticket]
      /\ clerk' = [clerk EXCEPT ![w].at = "row"]
      /\ UNCHANGED <<ticketRows, remote, asked, excused, overlapped>>
  BY DEF PersistMem
<1>2. DojoTypes /\ DojoBasic /\ q \in Jobs /\ q.queue # <<>> /\ f \in Tracked
      /\ q.ticket \in Tickets /\ q.ticket.remote_id <= remote[f]
      /\ q.ticket.status \in {"error", "created"}
  BY <1>1, JobFacts DEF Sound, Working, Storing, DojoInv, DojoBasic, Jobs
<1>3. PICK j \in Jobs : /\ clerk' = [clerk EXCEPT ![w] = j] /\ j.at = "row" /\ j.queue = q.queue
                        /\ j.ticket = q.ticket /\ j.sync = q.sync
  <2> DEFINE k == [q EXCEPT !.at = "row"]
  <2>1. /\ k \in Jobs /\ k.at = "row" /\ k.queue = q.queue /\ k.ticket = q.ticket
        /\ k.sync = q.sync
    BY <1>2 DEF Jobs
  <2>2. clerk' = [clerk EXCEPT ![w] = k]
    BY <1>1
  <2> HIDE DEF k
  <2>3. QED
    BY <2>1, <2>2
<1>4. /\ tickets' \in [Tracked -> Tickets]
      /\ \A g \in Tracked : tickets'[g] = IF g = f THEN q.ticket ELSE tickets[g]
  BY <1>1, <1>2 DEF DojoTypes
<1>5. Sound(j, remote') /\ Knows(j, tickets')
  BY <1>1, <1>2, <1>3, <1>4 DEF Sound, Knows, Working, Storing
<1>6. ASSUME NEW g \in Tracked, Knows(q, tickets),
             Account(q, g, tickets[g], ticketRows[g], remote[g], asked[g], excused[g])
      PROVE  Account(j, g, tickets'[g], ticketRows'[g], remote'[g], asked'[g], excused'[g])
  <2>1. remote[g] \in Nat /\ asked[g] \in Nat /\ excused[g] \in Nat
    BY <1>2 DEF DojoTypes
  <2>2. /\ Owes(j, g, Storing) <=> Owes(q, g, Storing)
        /\ Made(j, g, Storing) <=> Made(q, g, Storing)
        /\ ~ Owes(j, g, {"mem"}) /\ ~ Made(j, g, {"mem"})
        /\ Owes(q, g, {"mem"}) <=> g = f /\ ~ q.sync /\ q.ticket.status = "error"
        /\ Made(q, g, {"mem"}) <=> g = f /\ q.ticket.status = "created"
    BY <1>1, <1>3 DEF Owes, Made, Working, Storing
  <2>3. remote[g] + One(Owes(j, g, Storing))
          <= asked[g] + excused[g] + One(ticketRows[g].status = "created" \/ Made(j, g, Storing))
    BY <1>6, <2>2 DEF Account, One
  <2>4. CASE g # f
    <3>1. remote[g] <= asked[g] + excused[g] + One(tickets[g].status = "created")
      BY <1>6, <2>1, <2>2, <2>4 DEF Account, One
    <3>2. QED
      BY <1>1, <1>4, <2>1, <2>2, <2>3, <2>4, <3>1 DEF Account, One
  <2>5. CASE g = f
    <3>1. q.sync => tickets[g].status # "created"
      BY <1>1, <1>6, <2>5 DEF Knows
    <3>2. remote[g] <= asked[g] + excused[g] + One(q.ticket.status = "created")
      BY <1>2, <1>6, <2>1, <2>2, <2>5, <3>1 DEF Account, One
    <3>3. QED
      BY <1>1, <1>4, <2>1, <2>2, <2>3, <2>5, <3>2 DEF Account, One
  <2>6. QED
    BY <2>4, <2>5
<1>7. \A g \in Tracked : /\ remote[g] <= remote'[g]
                         /\ tickets'[g].remote_id <= remote'[g]
                         /\ ticketRows'[g].remote_id <= remote'[g]
  BY <1>1, <1>2, <1>4 DEF DojoBasic, DojoTypes
<1>8. ~overlapped' => ~overlapped /\ \A v \in DojoWorkers \ {w} : clerk[v] = Free
  BY <1>1, JobFacts
<1>9. /\ ticketRows' \in [Tracked -> Tickets] /\ remote' \in [Tracked -> Nat]
      /\ asked' \in [Tracked -> Nat] /\ excused' \in [Tracked -> Nat] /\ overlapped' \in BOOLEAN
  BY <1>1, <1>2 DEF DojoTypes
<1>10. /\ ~overlapped' /\ Knows(clerk[w], tickets)
       /\ \A g \in Tracked : Account(clerk[w], g, tickets[g], ticketRows[g], remote[g],
                                     asked[g], excused[g])
       => /\ Knows(j, tickets')
          /\ \A g \in Tracked : Account(j, g, tickets'[g], ticketRows'[g], remote'[g],
                                        asked'[g], excused'[g])
  BY <1>5, <1>6
<1> HIDE DEF q, f
<1>11. QED
  BY <1>3, <1>4, <1>5, <1>7, <1>8, <1>9, <1>10, Turn

LEMMA PersistRowStep ==
  ASSUME DojoInv, NEW w \in DojoWorkers, PersistRow(w)
  PROVE  DojoInv'
<1> DEFINE q == clerk[w]
           f == Head(q.queue)
<1>1. /\ q.at = "row" /\ ticketRows' = [ticketRows EXCEPT ![f] = q.ticket]
      /\ clerk' = [clerk EXCEPT ![w] = Proceed(q)]
      /\ UNCHANGED <<tickets, remote, asked, excused, overlapped>>
  BY DEF PersistRow
<1>2. DojoTypes /\ DojoBasic /\ q \in Jobs /\ q.queue # <<>> /\ f \in Tracked
      /\ q.ticket \in Tickets /\ q.ticket.remote_id <= remote[f]
      /\ q.ticket.status \in {"error", "created"}
  BY <1>1, JobFacts DEF Sound, Working, Storing, DojoInv, DojoBasic, Jobs
<1>3. PICK j \in Jobs : j = Proceed(q)
  BY <1>2, JobFacts
<1>4. j = Free \/ j.at = "next"
  BY <1>3 DEF Proceed, Drop, Job
<1>5. /\ ticketRows' \in [Tracked -> Tickets]
      /\ \A g \in Tracked : ticketRows'[g] = IF g = f THEN q.ticket ELSE ticketRows[g]
  BY <1>1, <1>2 DEF DojoTypes
<1>6. Sound(j, remote') /\ Knows(j, tickets')
  BY <1>4, FreeJob DEF Sound, Knows, Working, Storing
<1>7. ASSUME NEW g \in Tracked, Knows(q, tickets),
             Account(q, g, tickets[g], ticketRows[g], remote[g], asked[g], excused[g])
      PROVE  Account(j, g, tickets'[g], ticketRows'[g], remote'[g], asked'[g], excused'[g])
  <2>1. remote[g] \in Nat /\ asked[g] \in Nat /\ excused[g] \in Nat
    BY <1>2 DEF DojoTypes
  <2>2. \A st \in {{"mem"}, Storing} : ~ Owes(j, g, st) /\ ~ Made(j, g, st)
    BY <1>4, FreeJob DEF Owes, Made, Working, Storing
  <2>3. ~ Owes(q, g, {"mem"}) /\ ~ Made(q, g, {"mem"})
    BY <1>1 DEF Owes, Made
  <2>4. remote[g] <= asked[g] + excused[g] + One(tickets[g].status = "created")
    BY <1>7, <2>1, <2>3 DEF Account, One
  <2>5. remote[g] <= asked[g] + excused[g] + One(ticketRows'[g].status = "created")
    <3>1. CASE g = f
      BY <1>1, <1>5, <1>7, <2>4, <3>1 DEF Knows
    <3>2. CASE g # f
      <4>1. ~ Made(q, g, Storing)
        BY <3>2 DEF Made
      <4>2. QED
        BY <1>5, <1>7, <2>1, <3>2, <4>1 DEF Account, One
    <3>3. QED
      BY <3>1, <3>2
  <2>6. QED
    BY <1>1, <2>1, <2>2, <2>4, <2>5 DEF Account, One
<1>8. \A g \in Tracked : /\ remote[g] <= remote'[g]
                         /\ tickets'[g].remote_id <= remote'[g]
                         /\ ticketRows'[g].remote_id <= remote'[g]
  BY <1>1, <1>2, <1>5 DEF DojoBasic, DojoTypes
<1>9. ~overlapped' => ~overlapped /\ \A v \in DojoWorkers \ {w} : clerk[v] = Free
  BY <1>1, JobFacts
<1>10. /\ tickets' \in [Tracked -> Tickets] /\ remote' \in [Tracked -> Nat]
       /\ asked' \in [Tracked -> Nat] /\ excused' \in [Tracked -> Nat] /\ overlapped' \in BOOLEAN
  BY <1>1, <1>2 DEF DojoTypes
<1>11. /\ ~overlapped' /\ Knows(clerk[w], tickets)
       /\ \A g \in Tracked : Account(clerk[w], g, tickets[g], ticketRows[g], remote[g],
                                     asked[g], excused[g])
       => /\ Knows(j, tickets')
          /\ \A g \in Tracked : Account(j, g, tickets'[g], ticketRows'[g], remote'[g],
                                        asked'[g], excused'[g])
  BY <1>6, <1>7
<1>12. clerk' = [clerk EXCEPT ![w] = j]
  BY <1>1, <1>3
<1> HIDE DEF q, f
<1>13. QED
  BY <1>5, <1>6, <1>8, <1>9, <1>10, <1>11, <1>12, Turn

LEMMA PersistFailsStep ==
  ASSUME DojoInv, NEW w \in DojoWorkers, PersistFails(w)
  PROVE  DojoInv'
<1> DEFINE q == clerk[w]
<1>1. /\ q.at = "row" /\ clerk' = [clerk EXCEPT ![w] = Free]
      /\ excused' = [g \in Tracked |-> excused[g] + (IF w \in Unwritten(g) THEN 1 ELSE 0)]
      /\ UNCHANGED <<tickets, ticketRows, remote, asked, overlapped>>
  BY DEF PersistFails
<1>2. DojoTypes /\ DojoBasic
  BY DEF DojoInv, DojoBasic
<1>3. PICK j \in Jobs : j = Free
  BY FreeJob
<1>4. /\ Sound(j, remote') /\ Knows(j, tickets')
      /\ \A g : \A st \in {{"mem"}, Storing} : ~ Owes(j, g, st) /\ ~ Made(j, g, st)
  BY <1>3, FreeJob DEF Sound, Knows, Owes, Made, Working, Storing
<1>5. \A g \in Tracked : w \in Unwritten(g) <=> Made(q, g, Storing)
  BY <1>1 DEF Unwritten, Made, Storing
<1>6. /\ excused' \in [Tracked -> Nat]
      /\ \A g \in Tracked : excused'[g] = excused[g] + One(Made(q, g, Storing))
  BY <1>1, <1>2, <1>5 DEF DojoTypes, One
<1>7. ASSUME NEW g \in Tracked,
             Account(q, g, tickets[g], ticketRows[g], remote[g], asked[g], excused[g])
      PROVE  Account(j, g, tickets'[g], ticketRows'[g], remote'[g], asked'[g], excused'[g])
  <2>1. remote[g] \in Nat /\ asked[g] \in Nat /\ excused[g] \in Nat
    BY <1>2 DEF DojoTypes
  <2>2. ~ Made(q, g, {"mem"})
    BY <1>1 DEF Made
  <2>3. remote[g] <= asked[g] + excused[g] + One(tickets[g].status = "created")
    BY <1>7, <2>1, <2>2 DEF Account, One
  <2>4. remote[g] <= asked[g] + excused[g]
                       + One(ticketRows[g].status = "created" \/ Made(q, g, Storing))
    BY <1>7, <2>1 DEF Account, One
  <2>5. remote[g] <= asked[g] + excused'[g] + One(tickets[g].status = "created")
    BY <1>6, <2>1, <2>3 DEF One
  <2>6. remote[g] <= asked[g] + excused'[g] + One(ticketRows[g].status = "created")
    BY <1>6, <2>1, <2>4 DEF One
  <2>7. QED
    BY <1>1, <1>4, <2>1, <2>5, <2>6 DEF Account, One
<1>8. \A g \in Tracked : /\ remote[g] <= remote'[g]
                         /\ tickets'[g].remote_id <= remote'[g]
                         /\ ticketRows'[g].remote_id <= remote'[g]
  BY <1>1, <1>2 DEF DojoBasic, DojoTypes
<1>9. ~overlapped' => ~overlapped /\ \A v \in DojoWorkers \ {w} : clerk[v] = Free
  BY <1>1, JobFacts
<1>10. /\ tickets' \in [Tracked -> Tickets] /\ ticketRows' \in [Tracked -> Tickets]
       /\ remote' \in [Tracked -> Nat] /\ asked' \in [Tracked -> Nat] /\ overlapped' \in BOOLEAN
  BY <1>1, <1>2 DEF DojoTypes
<1>11. /\ ~overlapped' /\ Knows(clerk[w], tickets)
       /\ \A g \in Tracked : Account(clerk[w], g, tickets[g], ticketRows[g], remote[g],
                                     asked[g], excused[g])
       => /\ Knows(j, tickets')
          /\ \A g \in Tracked : Account(j, g, tickets'[g], ticketRows'[g], remote'[g],
                                        asked'[g], excused'[g])
  BY <1>4, <1>7
<1>12. clerk' = [clerk EXCEPT ![w] = j]
  BY <1>1, <1>3
<1> HIDE DEF q
<1>13. QED
  BY <1>4, <1>6, <1>8, <1>9, <1>10, <1>11, <1>12, Turn

(* A restart loses what a thread had not written, and says so. *)
LEMMA DojoRestartStep ==
  ASSUME DojoInv, DojoRestart
  PROVE  DojoInv'
<1>1. /\ tickets' = ticketRows /\ clerk' = [w \in DojoWorkers |-> Free]
      /\ excused' = [g \in Tracked |-> excused[g] + (IF Unwritten(g) # {} THEN 1 ELSE 0)]
      /\ UNCHANGED <<ticketRows, remote, asked, overlapped>>
  BY DEF DojoRestart
<1>2. DojoTypes /\ DojoBasic
  BY DEF DojoInv, DojoBasic
<1>3. DojoTypes'
  BY <1>1, <1>2, FreeJob DEF DojoTypes
<1>4. Sound(Free, remote')
  BY FreeJob DEF Sound, Working, Storing
<1>5. DojoBasic'
  BY <1>1, <1>2, <1>3, <1>4 DEF DojoBasic
<1>6. Current(clerk') = Free
  BY <1>1 DEF Current
<1>7. ASSUME ~overlapped PROVE AccountInv'
  <2> DEFINE q == Current(clerk)
  <2>1. q = Free \/ \E w \in DojoWorkers : q = clerk[w]
    BY DEF Current
  <2>2. ASSUME NEW g \in Tracked
        PROVE  Account(Free, g, ticketRows[g], ticketRows[g], remote[g], asked[g], excused'[g])
    <3>1. /\ remote[g] \in Nat /\ asked[g] \in Nat /\ excused[g] \in Nat
          /\ excused'[g] = excused[g] + (IF Unwritten(g) # {} THEN 1 ELSE 0)
      BY <1>1, <1>2 DEF DojoTypes
    <3>2. Made(q, g, Storing) => Unwritten(g) # {}
      BY <2>1, FreeJob DEF Made, Storing, Unwritten
    <3>3. Account(q, g, tickets[g], ticketRows[g], remote[g], asked[g], excused[g])
      BY <1>7 DEF DojoInv, AccountInv
    <3> HIDE DEF q
    <3>4. remote[g] <= asked[g] + excused[g]
                         + One(ticketRows[g].status = "created" \/ Made(q, g, Storing))
      BY <3>1, <3>3 DEF Account, One
    <3>5. remote[g] <= asked[g] + excused'[g] + One(ticketRows[g].status = "created")
      BY <3>1, <3>2, <3>4 DEF One
    <3>6. \A st \in {{"mem"}, Storing} : ~ Owes(Free, g, st) /\ ~ Made(Free, g, st)
      BY FreeJob DEF Owes, Made, Working, Storing
    <3>7. excused'[g] \in Nat
      BY <3>1
    <3>8. QED
      BY <3>1, <3>5, <3>6, <3>7 DEF Account, One
  <2>3. Knows(Free, tickets')
    BY FreeJob DEF Knows
  <2>4. QED
    BY <1>1, <1>6, <2>2, <2>3 DEF AccountInv
<1>8. AccountInv'
  BY <1>1, <1>7 DEF AccountInv
<1>9. QED
  BY <1>5, <1>8 DEF DojoInv

LEMMA InitDojo == DojoInit => DojoInv
<1> SUFFICES ASSUME DojoInit PROVE DojoInv
  OBVIOUS
<1>1. DojoTypes
  BY FreeJob DEF DojoInit, DojoTypes, Tickets, NoTicket
<1>2. \A w \in DojoWorkers : clerk[w] = Free
  BY DEF DojoInit
<1>3. DojoBasic
  BY <1>1, <1>2, FreeJob DEF DojoBasic, DojoInit, NoTicket, Sound, Working, Storing
<1>4. Current(clerk) = Free
  BY <1>2 DEF Current
<1>5. \A g \in Tracked : \A st \in {{"mem"}, Storing} : ~ Owes(Free, g, st) /\ ~ Made(Free, g, st)
  BY FreeJob DEF Owes, Made, Working, Storing
<1>6. \A g \in Tracked :
        Account(Free, g, tickets[g], ticketRows[g], remote[g], asked[g], excused[g])
  BY <1>5 DEF DojoInit, NoTicket, Account, One
<1>7. AccountInv
  BY <1>2, <1>4, <1>6, FreeJob DEF AccountInv, Knows
<1>8. QED
  BY <1>3, <1>7 DEF DojoInv

LEMMA DojoStutter ==
  ASSUME DojoInv, UNCHANGED dojoVars
  PROVE  DojoInv'
<1>1. /\ tickets' = tickets /\ ticketRows' = ticketRows /\ remote' = remote /\ clerk' = clerk
      /\ asked' = asked /\ excused' = excused /\ overlapped' = overlapped
  BY DEF dojoVars
<1>2. DojoBasic'
  BY <1>1 DEF DojoInv, DojoBasic, DojoTypes
<1>3. AccountInv'
  BY <1>1 DEF DojoInv, AccountInv
<1>4. QED
  BY <1>2, <1>3 DEF DojoInv

LEMMA DojoInvariant == DojoSpec => []DojoInv
<1>1. ASSUME DojoInv, [DojoNext]_dojoVars PROVE DojoInv'
  BY <1>1, CreateCallStep, SyncCallStep, SyncNextStep, PostStep, PersistMemStep, PersistRowStep,
     PersistFailsStep, DojoRestartStep, DojoStutter DEF DojoNext
<1>2. QED
  BY <1>1, InitDojo, PTL DEF DojoSpec

(* create_ticket posts whenever it is asked, sync_findings only for what   *)
(* has no ticket: however many requests, lost answers, failed commits and  *)
(* restarts there are, while requests do not overlap, every finding that   *)
(* appears twice in the tracker was asked for by hand again or lost its    *)
(* record.                                                                 *)
THEOREM DuplicatesExplained == DojoSpec => []DuplicatesHaveACause
<1>1. ASSUME DojoInv PROVE DuplicatesHaveACause
  <2> SUFFICES ASSUME ~overlapped, NEW f \in Tracked
               PROVE  remote[f] <= 1 + asked[f] + excused[f]
    BY DEF DuplicatesHaveACause
  <2>1. remote[f] \in Nat /\ asked[f] \in Nat /\ excused[f] \in Nat
    BY <1>1 DEF DojoInv, DojoBasic, DojoTypes
  <2>2. Account(Current(clerk), f, tickets[f], ticketRows[f], remote[f], asked[f], excused[f])
    BY <1>1 DEF DojoInv, AccountInv
  <2>3. QED
    BY <2>1, <2>2 DEF Account, One
<1>2. QED
  BY <1>1, DojoInvariant, PTL

(* _persist_ticket and the reload at a start: whatever is lost in between, *)
(* no ticket names a finding that the tracker does not have, and a sync    *)
(* that lost nothing leaves the ticket of each finding in memory and in    *)
(* its row alike.                                                          *)
THEOREM TicketsAreTrue == DojoSpec => []TicketsTellTheTruth
<1>1. ASSUME DojoInv PROVE TicketsTellTheTruth
  <2> SUFFICES ASSUME NEW f \in Tracked, BusyClerks = {}, ~overlapped, asked[f] = 0,
                      excused[f] = 0, remote[f] > 0
               PROVE  tickets[f].status = "created" /\ ticketRows[f] = tickets[f]
    BY <1>1 DEF TicketsTellTheTruth, DojoInv, DojoBasic
  <2>1. remote[f] \in Nat /\ tickets[f] \in Tickets /\ ticketRows[f] \in Tickets
    BY <1>1 DEF DojoInv, DojoBasic, DojoTypes
  <2>2. Current(clerk) = Free
    BY DEF BusyClerks, Current
  <2>3. Account(Free, f, tickets[f], ticketRows[f], remote[f], asked[f], excused[f])
    BY <1>1, <2>2 DEF DojoInv, AccountInv
  <2>4. \A st \in {{"mem"}, Storing} : ~ Made(Free, f, st)
    BY FreeJob DEF Made, Storing
  <2>5. /\ remote[f] <= One(tickets[f].status = "created")
        /\ remote[f] <= One(ticketRows[f].status = "created")
    BY <2>1, <2>3, <2>4 DEF Account, One
  <2>6. remote[f] = 1 /\ tickets[f].status = "created" /\ ticketRows[f].status = "created"
    BY <2>1, <2>5 DEF One
  <2>7. tickets[f].remote_id = 1 /\ ticketRows[f].remote_id = 1
    BY <1>1, <2>1, <2>6 DEF DojoInv, DojoBasic, Tickets
  <2>8. QED
    BY <2>1, <2>6, <2>7 DEF Tickets
<1>2. QED
  BY <1>1, DojoInvariant, PTL

-----------------------------------------------------------------------------
(* Notifications. *)

(* A mark is never taken away or given to another user: what a request     *)
(* found of its user's marks still holds when it commits, and what it was  *)
(* answered "ok" for stays read.                                           *)
NotifyInv ==
  /\ IsFiniteSet(news) /\ DOMAIN okayed = Readers /\ DOMAIN marker = ReadWorkers
  /\ \A w \in ReadWorkers : marker[w].at = "commit" =>
       /\ marker[w].user \in Readers
       /\ marker[w].wanted \subseteq marker[w].ids \cup ReadFor(marker[w].user)
  /\ \A u \in Readers : okayed[u] \subseteq ReadFor(u)

LEMMA InitNotify == NotifyInit => NotifyInv
BY FS_EmptySet DEF NotifyInit, NotifyInv, NoMark, ReadFor

LEMMA EventStep ==
  ASSUME NotifyInv, NEW f \in Reviewed, EventHappens(f) \/ FindingRemoved(f)
  PROVE  NotifyInv'
<1>1. reads' = reads /\ marker' = marker /\ okayed' = okayed
  BY DEF EventHappens, FindingRemoved
<1>2. IsFiniteSet(news')
  <2>1. CASE EventHappens(f)
    <3>1. PICK n \in Derivable(f) : news' = news \cup {n}
      BY <2>1 DEF EventHappens
    <3>2. QED
      BY <3>1, FS_AddElement DEF NotifyInv
  <2>2. CASE FindingRemoved(f)
    BY <2>2, FS_Subset DEF FindingRemoved, NotifyInv
  <2>3. QED
    BY <2>1, <2>2
<1>3. QED
  BY <1>1, <1>2 DEF NotifyInv, ReadFor

LEMMA StartMarkStep ==
  ASSUME NotifyInv, NEW w \in ReadWorkers, NEW u \in Readers, NEW wanted,
         StartMark(w, u, wanted)
  PROVE  NotifyInv'
<1> DEFINE m == [at |-> "commit", user |-> u, ids |-> wanted \ OwnMarks(u), wanted |-> wanted]
<1>1. /\ marker' = [marker EXCEPT ![w] = m]
      /\ news' = news /\ reads' = reads /\ okayed' = okayed
  BY DEF StartMark
<1>2. m.user = u /\ m.wanted = wanted /\ wanted \subseteq m.ids \cup ReadFor(u)
  BY DEF OwnMarks, ReadFor
<1> HIDE DEF m
<1>3. DOMAIN marker' = ReadWorkers /\ marker'[w] = m
      /\ \A v \in ReadWorkers : v # w => marker'[v] = marker[v]
  BY <1>1 DEF NotifyInv
<1>4. ASSUME NEW v \in ReadWorkers, marker'[v].at = "commit"
      PROVE  /\ marker'[v].user \in Readers
             /\ marker'[v].wanted \subseteq marker'[v].ids \cup ReadFor(marker'[v].user)
  BY <1>2, <1>3, <1>4 DEF NotifyInv
<1>5. \A v : ReadFor(v)' = ReadFor(v)
  BY <1>1 DEF ReadFor
<1>6. QED
  BY <1>1, <1>3, <1>4, <1>5 DEF NotifyInv, ReadFor

LEMMA CommitStep ==
  ASSUME NotifyInv, NEW w \in ReadWorkers, CommitMarks(w)
  PROVE  NotifyInv'
<1> DEFINE m == marker[w]
<1>1. /\ m.at = "commit" /\ m.ids \cap DOMAIN reads = {}
      /\ reads' = [n \in m.ids \cup DOMAIN reads |-> IF n \in m.ids THEN m.user ELSE reads[n]]
      /\ okayed' = [okayed EXCEPT ![m.user] = @ \cup m.wanted]
      /\ marker' = [marker EXCEPT ![w] = NoMark] /\ news' = news
  BY DEF CommitMarks
<1>2. m.user \in Readers /\ m.wanted \subseteq m.ids \cup ReadFor(m.user)
  BY <1>1 DEF NotifyInv
<1> HIDE DEF m
<1>3. ASSUME NEW u, NEW n \in DOMAIN reads, reads[n] = u PROVE n \in DOMAIN reads' /\ reads'[n] = u
  BY <1>1, <1>3
<1>4. ASSUME NEW n \in m.ids PROVE n \in DOMAIN reads' /\ reads'[n] = m.user
  BY <1>1
<1>5. ASSUME NEW v \in ReadWorkers, marker'[v].at = "commit"
      PROVE  /\ marker'[v].user \in Readers
             /\ \A n \in marker'[v].wanted :
                  n \in marker'[v].ids \/ (n \in DOMAIN reads' /\ reads'[n] = marker'[v].user)
  <2>1. v # w /\ marker'[v] = marker[v]
    BY <1>1, <1>5 DEF NotifyInv, NoMark
  <2>2. QED
    BY <1>3, <1>5, <2>1 DEF NotifyInv, ReadFor
<1>6. ASSUME NEW u \in Readers, NEW n \in okayed'[u]
      PROVE  n \in DOMAIN reads' /\ reads'[n] = u
  <2>1. n \in okayed[u] \/ (u = m.user /\ n \in m.wanted)
    BY <1>1, <1>2, <1>6 DEF NotifyInv
  <2>2. n \in ReadFor(u) \/ (u = m.user /\ n \in m.ids)
    BY <1>2, <2>1 DEF NotifyInv
  <2>3. QED
    BY <1>3, <1>4, <2>2 DEF ReadFor
<1>7. DOMAIN okayed' = Readers /\ DOMAIN marker' = ReadWorkers /\ IsFiniteSet(news')
  BY <1>1 DEF NotifyInv
<1>8. QED
  BY <1>5, <1>6, <1>7 DEF NotifyInv, ReadFor

LEMMA RefusedStep ==
  ASSUME NotifyInv, NEW w \in ReadWorkers, CommitRefused(w)
  PROVE  NotifyInv'
BY DEF CommitRefused, NotifyInv, ReadFor, NoMark

LEMMA NotifyInvariant == NotifySpec => []NotifyInv
<1>1. ASSUME NotifyInv, [NotifyNext]_notifyVars PROVE NotifyInv'
  <2>1. CASE NotifyNext
    BY <1>1, <2>1, EventStep, StartMarkStep, CommitStep, RefusedStep
       DEF NotifyNext, MarkRead, MarkAllRead
  <2>2. CASE UNCHANGED notifyVars
    BY <1>1, <2>2 DEF notifyVars, NotifyInv, ReadFor
  <2>3. QED
    BY <1>1, <2>1, <2>2
<1>2. QED
  BY <1>1, InitNotify, PTL DEF NotifySpec

(* The two steps of a marking, a query and a commit, and a table keyed by  *)
(* the notification alone: whichever requests of whichever users cross,    *)
(* what a user was told is read stays read and is not counted as unread.   *)
THEOREM OkIsRead == NotifySpec => []OkMeansRead
<1>1. ASSUME NotifyInv PROVE OkMeansRead
  <2> SUFFICES ASSUME NEW u \in Readers
               PROVE  okayed[u] \subseteq ReadFor(u)
                      /\ UnreadCount(u) <= Cardinality(news \ okayed[u])
    BY DEF OkMeansRead
  <2>1. okayed[u] \subseteq ReadFor(u)
    BY <1>1 DEF NotifyInv
  <2>2. IsFiniteSet(news \ okayed[u]) /\ news \ ReadFor(u) \in SUBSET (news \ okayed[u])
    BY <1>1, <2>1, FS_Subset DEF NotifyInv
  <2>3. QED
    BY <2>1, <2>2, FS_Subset DEF UnreadCount
<1>2. QED
  BY <1>1, NotifyInvariant, PTL

-----------------------------------------------------------------------------
(* BenchmarkReports. *)

(* Only reports with a row are about to be answered or have been, and every *)
(* row is served. Whoever waits for its row, or gave up, promised nothing.  *)
RowsFirst ==
  /\ answered \subseteq rows /\ rows \subseteq reports
  /\ \A e : At("answer", e) \in progress => e \in rows
  /\ \A e : At("row", e) \in progress => e \in reports

LEMMA StepsDiffer == \A d, e : At("row", d) # At("answer", e)
BY DEF At

LEMMA SameStep == \A s, d, e : At(s, d) = At(s, e) => d = e
<1> SUFFICES ASSUME NEW s, NEW d, NEW e, At(s, d) = At(s, e) PROVE d = e
  OBVIOUS
<1>1. At(s, d).entry = d /\ At(s, e).entry = e
  BY DEF At
<1> QED BY <1>1

LEMMA RowsFirstStep == RowsFirst /\ [BenchNext]_benchVars => RowsFirst'
<1> SUFFICES ASSUME RowsFirst, [BenchNext]_benchVars PROVE RowsFirst'
  OBVIOUS
<1>1. ASSUME NEW id \in BenchRequests, NEW report \in Reports, RunBenchmark(id, report)
      PROVE  RowsFirst'
  <2>1. PICK e : e = Entry(id, report)
    OBVIOUS
  <2>2. /\ reports' = reports \cup {e} /\ progress' = progress \cup {At("row", e)}
        /\ UNCHANGED <<rows, answered>>
    BY <1>1, <2>1 DEF RunBenchmark
  <2> QED BY <2>2, StepsDiffer, SameStep DEF RowsFirst
<1>2. ASSUME NEW e \in reports, StoreReport(e) PROVE RowsFirst'
  <2>1. /\ rows' = rows \cup {e} /\ UNCHANGED <<reports, answered>>
        /\ progress' = (progress \ {At("row", e)}) \cup {At("answer", e)}
    BY <1>2 DEF StoreReport
  <2> QED BY <2>1, StepsDiffer, SameStep DEF RowsFirst
<1>3. ASSUME NEW e \in reports, StoreFails(e) PROVE RowsFirst'
  BY <1>3 DEF StoreFails, RowsFirst
<1>4. ASSUME NEW e \in reports, AnswerReport(e) PROVE RowsFirst'
  BY <1>4 DEF AnswerReport, RowsFirst
<1>5. CASE BenchRestart
  BY <1>5 DEF BenchRestart, RowsFirst
<1>6. CASE UNCHANGED benchVars
  BY <1>6 DEF benchVars, RowsFirst
<1> QED BY <1>1, <1>2, <1>3, <1>4, <1>5, <1>6 DEF BenchNext

(* A benchmark report a client was given is served from then on, after any  *)
(* interleaving of requests, failed rows and restarts: its row is written   *)
(* before the answer, and a restart serves the rows.                        *)
THEOREM BenchmarkReportsSurvive == BenchSpec => []AnsweredReportsSurvive
<1>1. BenchInit => RowsFirst
  BY DEF BenchInit, RowsFirst
<1>2. RowsFirst => AnsweredReportsSurvive
  BY DEF RowsFirst, AnsweredReportsSurvive
<1> QED BY <1>1, <1>2, RowsFirstStep, PTL DEF BenchSpec
=============================================================================
