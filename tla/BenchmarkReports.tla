--------------------------- MODULE BenchmarkReports ---------------------------
(***************************************************************************)
(* The stored benchmark reports (benchmark/service.py, routes/benchmark.py) *)
(* while POST /benchmark/semgrep requests run side by side: a report goes   *)
(* into memory, then into its row, then to the client, and the row's commit *)
(* or the process may fail in between.                                      *)
(*                                                                         *)
(* What a report says is the business of Benchmark; ids are fresh.          *)
(***************************************************************************)
EXTENDS Integers

CONSTANTS
  BenchRequests,     \* the requests, each with the id run generates for it
  Reports,           \* the reports a benchmark may come to
  MaxRowErrors,      \* bound: report rows that cannot be written
  MaxBenchRestarts   \* bound: restarts

ASSUME BenchmarkReportsAssumption == MaxRowErrors \in Nat /\ MaxBenchRestarts \in Nat

VARIABLES
  reports,       \* _REPORTS
  rows,          \* BenchmarkReportRow
  progress,      \* what the requests under way hold, and how far they are
  begun,         \* the requests that reached the store
  answered,      \* the reports clients have been given
  rowErrors, benchRestarts

benchVars == <<reports, rows, progress, begun, answered, rowErrors, benchRestarts>>

Entry(id, report) == [id |-> id, report |-> report]
At(step, entry) == [step |-> step, entry |-> entry]

BenchInit ==
  /\ reports = {} /\ rows = {} /\ progress = {} /\ begun = {} /\ answered = {}
  /\ rowErrors = 0 /\ benchRestarts = 0

(* BenchmarkService.run up to the write of the row. An invalid or unknown   *)
(* fixture name is refused before anything is stored.                       *)
RunBenchmark(id, report) ==
  /\ id \notin begun
  /\ begun' = begun \cup {id}
  /\ reports' = reports \cup {Entry(id, report)}
  /\ progress' = progress \cup {At("row", Entry(id, report))}
  /\ UNCHANGED <<rows, answered, rowErrors, benchRestarts>>

(* Mutant: the row is never written.                                        *)
StoreReportUnwritten(e) ==
  /\ At("row", e) \in progress
  /\ progress' = (progress \ {At("row", e)}) \cup {At("answer", e)}
  /\ UNCHANGED <<reports, rows, begun, answered, rowErrors, benchRestarts>>

(* db_upsert. *)
StoreReport(e) ==
  /\ At("row", e) \in progress
  /\ rows' = rows \cup {e}
  /\ progress' = (progress \ {At("row", e)}) \cup {At("answer", e)}
  /\ UNCHANGED <<reports, begun, answered, rowErrors, benchRestarts>>

(* Its commit raises: the request ends with an error, the report stays in   *)
(* memory and is listed.                                                    *)
StoreFails(e) ==
  /\ At("row", e) \in progress /\ rowErrors < MaxRowErrors
  /\ rowErrors' = rowErrors + 1
  /\ progress' = progress \ {At("row", e)}
  /\ UNCHANGED <<reports, rows, begun, answered, benchRestarts>>

(* The route answers with the report. *)
AnswerReport(e) ==
  /\ At("answer", e) \in progress
  /\ answered' = answered \cup {e}
  /\ progress' = progress \ {At("answer", e)}
  /\ UNCHANGED <<reports, rows, begun, rowErrors, benchRestarts>>

(* The process restarts: set_benchmark_store_factory reads the rows.        *)
BenchRestart ==
  /\ benchRestarts < MaxBenchRestarts
  /\ benchRestarts' = benchRestarts + 1
  /\ reports' = rows /\ progress' = {}
  /\ UNCHANGED <<rows, begun, answered, rowErrors>>

BenchNext ==
  \/ \E id \in BenchRequests, report \in Reports : RunBenchmark(id, report)
  \/ \E e \in reports : StoreReport(e) \/ StoreFails(e) \/ AnswerReport(e)
  \/ BenchRestart

BenchSpec == BenchInit /\ [][BenchNext]_benchVars

-----------------------------------------------------------------------------
(* A report that a client was given is served from then on, whatever other  *)
(* requests do, whichever rows fail, and after every restart.               *)
AnsweredReportsSurvive == answered \subseteq reports
=============================================================================
