---------------------------- MODULE Notifications ----------------------------
(***************************************************************************)
(* Notifications (api/routes/notifications.py): derived at each request    *)
(* from the events of other parts, with the read marks in a table whose    *)
(* primary key is the notification id alone (db/models.py).                *)
(*                                                                         *)
(* A notification is known by its id.  Marking runs in two steps, the      *)
(* query for an existing mark and the commit of the new ones: the database *)
(* refuses a commit that inserts an id that is already there.              *)
(***************************************************************************)
EXTENDS Integers, Sequences, FiniteSets

CONSTANTS
  Readers,          \* the users who read notifications
  ReadWorkers,      \* request threads
  Reviewed,         \* findings that events are about
  MaxLevel,         \* escalation levels of an SLA
  MaxEvents,        \* bound: events
  MaxMarks          \* bound: marking requests

ASSUME NotificationAssumption ==
  MaxLevel \in Nat /\ MaxEvents \in Nat /\ MaxMarks \in Nat

VARIABLES
  news,      \* ids of what _derive_notifications finds
  events,    \* how many events there have been
  reads,     \* NotificationReadRow: id -> user
  marker,    \* what each thread is doing
  marks,     \* marking requests so far
  okayed     \* user -> ids whose marking was answered "ok"

notifyVars == <<news, events, reads, marker, marks, okayed>>

NoMark == [at |-> "idle", user |-> "none", ids |-> {}, wanted |-> {}]

NotifyInit ==
  /\ news = {} /\ events = 0
  /\ reads = [n \in {} |-> "none"]
  /\ marker = [w \in ReadWorkers |-> NoMark]
  /\ marks = 0
  /\ okayed = [u \in Readers |-> {}]

(* The events: an escalation to a level, an approval event, a validation   *)
(* and a proof.  An id names the finding, not the event, except for        *)
(* approval events, which are numbered: a second validation of a finding   *)
(* is no new notification.                                                 *)
Levels(f) == {n \in 1..MaxLevel : <<"sla", f, n>> \in news}
Derivable(f) ==
  {<<"sla", f, Cardinality(Levels(f)) + 1>>, <<"validation", f>>, <<"proof", f>>,
   <<"approval", f, events>>}

EventHappens(f) ==
  /\ events < MaxEvents
  /\ \E n \in Derivable(f) :
       /\ n[1] = "sla" => n[3] <= MaxLevel
       /\ news' = news \cup {n}
  /\ events' = events + 1
  /\ UNCHANGED <<reads, marker, marks, okayed>>

(* Deleting a repository removes the records of its findings, and with     *)
(* them their notifications; the marks stay.                               *)
FindingRemoved(f) ==
  /\ \E n \in news : n[2] = f
  /\ news' = {n \in news : n[2] # f}
  /\ UNCHANGED <<events, reads, marker, marks, okayed>>

(* _apply_read_state: what is shown to a user as read. *)
ReadFor(u) == {n \in DOMAIN reads : reads[n] = u}

(* Mutant: the query does not ask for the user. *)
OwnMarksAnyone(u) == DOMAIN reads

(* The marks that the queries of a marking request find. *)
OwnMarks(u) == {n \in DOMAIN reads : reads[n] = u}

StartMark(w, u, wanted) ==
  /\ marker[w] = NoMark /\ marks < MaxMarks
  /\ marks' = marks + 1
  /\ marker' = [marker EXCEPT ![w] =
       [at |-> "commit", user |-> u, ids |-> wanted \ OwnMarks(u), wanted |-> wanted]]
  /\ UNCHANGED <<news, events, reads, okayed>>

(* POST /notifications/{id}/read: the id is not checked against anything;  *)
(* here it is one the user has been shown.                                 *)
MarkRead(w, u) == \E n \in news : StartMark(w, u, {n})

(* POST /notifications/read-all: what is derived now. *)
MarkAllRead(w, u) == StartMark(w, u, news)

(* The commit, when no id is there: all rows, and "ok". *)
CommitMarks(w) ==
  /\ marker[w].at = "commit" /\ marker[w].ids \cap DOMAIN reads = {}
  /\ LET m == marker[w]
     IN  /\ reads' = [n \in m.ids \cup DOMAIN reads |->
                      IF n \in m.ids THEN m.user ELSE reads[n]]
         /\ okayed' = [okayed EXCEPT ![m.user] = @ \cup m.wanted]
  /\ marker' = [marker EXCEPT ![w] = NoMark]
  /\ UNCHANGED <<news, events, marks>>

(* IntegrityError: no row of the request is kept, and it ends with 500. *)
CommitRefused(w) ==
  /\ marker[w].at = "commit" /\ marker[w].ids \cap DOMAIN reads # {}
  /\ marker' = [marker EXCEPT ![w] = NoMark]
  /\ UNCHANGED <<news, events, reads, marks, okayed>>

NotifyNext ==
  \/ \E f \in Reviewed : EventHappens(f) \/ FindingRemoved(f)
  \/ \E w \in ReadWorkers, u \in Readers : MarkRead(w, u) \/ MarkAllRead(w, u)
  \/ \E w \in ReadWorkers : CommitMarks(w) \/ CommitRefused(w)

NotifySpec == NotifyInit /\ [][NotifyNext]_notifyVars

(* list_notifications: the unread count a user sees. *)
UnreadCount(u) == Cardinality(news \ ReadFor(u))

-----------------------------------------------------------------------------
(* An "ok" can be relied on: a notification whose marking was answered     *)
(* "ok" is read for that user from then on, whatever other requests do,    *)
(* and is never counted as unread again.                                   *)
OkMeansRead ==
  \A u \in Readers :
    okayed[u] \subseteq ReadFor(u) /\ UnreadCount(u) <= Cardinality(news \ okayed[u])
=============================================================================
