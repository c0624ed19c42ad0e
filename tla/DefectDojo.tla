------------------------------ MODULE DefectDojo ------------------------------
(***************************************************************************)
(* Tickets in DefectDojo (defectdojo/service.py, defectdojo/client.py,     *)
(* api/routes/defectdojo.py): one local record per finding, in memory and  *)
(* as a row, and the findings that exist in the remote tracker.            *)
(*                                                                         *)
(* The remote side is modelled from how the client uses it: a POST either  *)
(* creates a finding or does not, and its answer may be an identifier, an  *)
(* HTTP error, a timeout, or something the client cannot read.  Payloads   *)
(* are left out.                                                           *)
(***************************************************************************)
EXTENDS Integers, Sequences

CONSTANTS
  FindingList,   \* finding_store.all(): the findings, in order
  DojoWorkers,   \* request threads
  MaxCalls,      \* bound: ticket and sync requests
  MaxFaults      \* bound: lost answers, failed commits and restarts

Tracked == {FindingList[i] : i \in DOMAIN FindingList}

ASSUME DojoAssumption ==
  FindingList \in Seq(Tracked) /\ MaxCalls \in Nat /\ MaxFaults \in Nat

VARIABLES
  enabled,     \* the configuration the process was started with
  tickets,     \* _TICKETS
  ticketRows,  \* DefectDojoTicketRow
  remote,      \* finding -> how many remote findings exist for it
  clerk,       \* what each thread is doing
  calls, faults,
  asked,       \* finding -> how often a ticket was asked for by hand
  excused,     \* finding -> remote findings whose creation was not recorded
  overlapped   \* two requests were in progress at once

dojoVars == <<enabled, tickets, ticketRows, remote, clerk, calls, faults, asked, excused, overlapped>>

(* A ticket: its status and the number of its remote finding, 0 if none. *)
NoTicket == [status |-> "none", remote_id |-> 0]
Ticket(status, id) == [status |-> status, remote_id |-> id]

(* A thread: the findings it still has to handle, the ticket it is about   *)
(* to store, and whether it is a sync.                                     *)
Job(at, queue, sync) == [at |-> at, queue |-> queue, ticket |-> NoTicket, sync |-> sync]
Free == Job("free", <<>>, FALSE)

DojoInit ==
  /\ enabled \in BOOLEAN
  /\ tickets = [f \in Tracked |-> NoTicket] /\ ticketRows = tickets
  /\ remote = [f \in Tracked |-> 0]
  /\ clerk = [w \in DojoWorkers |-> Free]
  /\ calls = 0 /\ faults = 0
  /\ asked = [f \in Tracked |-> 0] /\ excused = [f \in Tracked |-> 0]
  /\ overlapped = FALSE

BusyClerks == {w \in DojoWorkers : clerk[w] # Free}
Overlap(w) == overlapped' = (overlapped \/ BusyClerks \ {w} # {})

(* POST /defectdojo/create/{finding_id}: always a new ticket. *)
CreateCall(w, f) ==
  /\ clerk[w] = Free /\ calls < MaxCalls
  /\ clerk' = [clerk EXCEPT ![w] = Job("ticket", <<f>>, FALSE)]
  /\ calls' = calls + 1 /\ asked' = [asked EXCEPT ![f] = @ + 1]
  /\ Overlap(w)
  /\ UNCHANGED <<enabled, tickets, ticketRows, remote, faults, excused>>

(* POST /defectdojo/sync *)
SyncCall(w) ==
  /\ clerk[w] = Free /\ calls < MaxCalls
  /\ clerk' = [clerk EXCEPT ![w] = Job("next", FindingList, TRUE)]
  /\ calls' = calls + 1
  /\ Overlap(w)
  /\ UNCHANGED <<enabled, tickets, ticketRows, remote, faults, asked, excused>>

Drop(q) == Job("next", Tail(q.queue), TRUE)

(* After a finding is done: the next one of a sync, or the answer. *)
Proceed(q) == IF q.sync THEN Drop(q) ELSE Free

Synced == {"created", "synced"}

(* Mutant: a sync skips the pending tickets instead of the created ones. *)
SyncNextAgain(w) ==
  /\ clerk[w].at = "next"
  /\ clerk' = [clerk EXCEPT ![w] =
       IF @.queue = <<>> THEN Free
       ELSE IF tickets[Head(@.queue)].status = "pending" THEN Drop(@)
       ELSE Job("ticket", @.queue, TRUE)]
  /\ UNCHANGED <<enabled, tickets, ticketRows, remote, calls, faults, asked, excused, overlapped>>

(* The loop of sync_findings: what has a ticket is skipped. *)
SyncNext(w) ==
  /\ clerk[w].at = "next"
  /\ clerk' = [clerk EXCEPT ![w] =
       IF @.queue = <<>> THEN Free
       ELSE IF tickets[Head(@.queue)].status \in Synced THEN Drop(@)
       ELSE Job("ticket", @.queue, TRUE)]
  /\ UNCHANGED <<enabled, tickets, ticketRows, remote, calls, faults, asked, excused, overlapped>>

ToStore(q, t) == [at |-> "mem", queue |-> q.queue, ticket |-> t, sync |-> q.sync]

(* create_ticket without the integration: an error is recorded. *)
NotEnabled(w) ==
  /\ clerk[w].at = "ticket" /\ ~enabled
  /\ clerk' = [clerk EXCEPT ![w] = ToStore(@, Ticket("error", 0))]
  /\ UNCHANGED <<enabled, tickets, ticketRows, remote, calls, faults, asked, excused, overlapped>>

(* create_finding answers 200 or 201 with an id. *)
PostCreated(w) ==
  /\ clerk[w].at = "ticket" /\ enabled
  /\ LET f == Head(clerk[w].queue)
     IN  /\ remote' = [remote EXCEPT ![f] = @ + 1]
         /\ clerk' = [clerk EXCEPT ![w] = ToStore(@, Ticket("created", remote[f] + 1))]
  /\ UNCHANGED <<enabled, tickets, ticketRows, calls, faults, asked, excused, overlapped>>

(* It refuses, or cannot be reached: DefectDojoClientError. *)
PostRefused(w) ==
  /\ clerk[w].at = "ticket" /\ enabled
  /\ clerk' = [clerk EXCEPT ![w] = ToStore(@, Ticket("error", 0))]
  /\ UNCHANGED <<enabled, tickets, ticketRows, remote, calls, faults, asked, excused, overlapped>>

(* Mutant: a timeout is taken for success. *)
PostTimesOutCreated(w) ==
  /\ clerk[w].at = "ticket" /\ enabled /\ faults < MaxFaults
  /\ LET f == Head(clerk[w].queue)
     IN  /\ remote' = remote
         /\ excused' = excused
         /\ clerk' = [clerk EXCEPT ![w] = ToStore(@, Ticket("created", remote[f] + 1))]
  /\ faults' = faults + 1
  /\ UNCHANGED <<enabled, tickets, ticketRows, calls, asked, overlapped>>

(* httpx.TimeoutException: the finding may exist remotely; an error is     *)
(* recorded.                                                               *)
PostTimesOut(w) ==
  /\ clerk[w].at = "ticket" /\ enabled /\ faults < MaxFaults
  /\ \E made \in {0, 1} :
       LET f == Head(clerk[w].queue)
       IN  /\ remote' = [remote EXCEPT ![f] = @ + made]
           /\ excused' = [excused EXCEPT ![f] = @ + made]
           /\ clerk' = [clerk EXCEPT ![w] = ToStore(@, Ticket("error", 0))]
  /\ faults' = faults + 1
  /\ UNCHANGED <<enabled, tickets, ticketRows, calls, asked, overlapped>>

(* Any other failure of the call (a broken connection, an answer that is   *)
(* not JSON or has no id) is not caught: nothing is recorded, and a sync   *)
(* ends there.                                                             *)
PostRaises(w) ==
  /\ clerk[w].at = "ticket" /\ enabled /\ faults < MaxFaults
  /\ \E made \in {0, 1} :
       LET f == Head(clerk[w].queue)
       IN  /\ remote' = [remote EXCEPT ![f] = @ + made]
           /\ excused' = [excused EXCEPT ![f] = @ + made]
  /\ clerk' = [clerk EXCEPT ![w] = Free]
  /\ faults' = faults + 1
  /\ UNCHANGED <<enabled, tickets, ticketRows, calls, asked, overlapped>>

(* _persist_ticket *)
PersistMem(w) ==
  /\ clerk[w].at = "mem"
  /\ tickets' = [tickets EXCEPT ![Head(clerk[w].queue)] = clerk[w].ticket]
  /\ clerk' = [clerk EXCEPT ![w].at = "row"]
  /\ UNCHANGED <<enabled, ticketRows, remote, calls, faults, asked, excused, overlapped>>

PersistRow(w) ==
  /\ clerk[w].at = "row"
  /\ ticketRows' = [ticketRows EXCEPT ![Head(clerk[w].queue)] = clerk[w].ticket]
  /\ clerk' = [clerk EXCEPT ![w] = Proceed(@)]
  /\ UNCHANGED <<enabled, tickets, remote, calls, faults, asked, excused, overlapped>>

(* The tickets of remote findings that a thread holds and has not written. *)
Unwritten(f) ==
  {w \in DojoWorkers : /\ clerk[w].at \in {"mem", "row"} /\ Head(clerk[w].queue) = f
                       /\ clerk[w].ticket.status = "created"}

(* The commit fails: the ticket stays in memory, the request ends. *)
PersistFails(w) ==
  /\ clerk[w].at = "row" /\ faults < MaxFaults
  /\ excused' = [f \in Tracked |-> excused[f] + (IF w \in Unwritten(f) THEN 1 ELSE 0)]
  /\ clerk' = [clerk EXCEPT ![w] = Free]
  /\ faults' = faults + 1
  /\ UNCHANGED <<enabled, tickets, ticketRows, remote, calls, asked, overlapped>>

(* A crash, and set_defectdojo_store_factory at the next start. *)
DojoRestart ==
  /\ faults < MaxFaults
  /\ tickets' = ticketRows
  /\ excused' = [f \in Tracked |-> excused[f] + (IF Unwritten(f) # {} THEN 1 ELSE 0)]
  /\ clerk' = [w \in DojoWorkers |-> Free]
  /\ faults' = faults + 1
  /\ UNCHANGED <<enabled, ticketRows, remote, calls, asked, overlapped>>

DojoNext ==
  \/ \E w \in DojoWorkers, f \in Tracked : CreateCall(w, f)
  \/ \E w \in DojoWorkers :
       \/ SyncCall(w) \/ SyncNext(w) \/ NotEnabled(w)
       \/ PostCreated(w) \/ PostRefused(w) \/ PostTimesOut(w) \/ PostRaises(w)
       \/ PersistMem(w) \/ PersistRow(w) \/ PersistFails(w)
  \/ DojoRestart

DojoSpec == DojoInit /\ [][DojoNext]_dojoVars

-----------------------------------------------------------------------------
(* Every duplicate in the tracker has a cause one can name: beside the     *)
(* first, a finding has at most one remote finding for each ticket asked   *)
(* for by hand and each creation whose record was lost.  A sync never      *)
(* duplicates by itself, unless two requests overlap.                      *)
DuplicatesHaveACause ==
  ~overlapped => \A f \in Tracked : remote[f] <= 1 + asked[f] + excused[f]

(* What the tickets say of the tracker is true: a ticket that names a      *)
(* remote finding names one that exists, and a remote finding that nobody  *)
(* is storing and that was recorded is known to a ticket, unless a later   *)
(* ticket asked for by hand replaced it.                                   *)
TicketsTellTheTruth ==
  \A f \in Tracked :
    /\ tickets[f].remote_id <= remote[f] /\ ticketRows[f].remote_id <= remote[f]
    /\ (BusyClerks = {} /\ ~overlapped /\ asked[f] = 0 /\ excused[f] = 0 /\ remote[f] > 0)
         => tickets[f].status = "created" /\ ticketRows[f] = tickets[f]
=============================================================================
