------------------------------ MODULE Benchmark ------------------------------
(***************************************************************************)
(* The benchmark (benchmark/): our engine and, when it is installed, the   *)
(* Semgrep CLI scan one fixture; both results are scored against the       *)
(* fixture's ground truth, compared, and kept as a report.                 *)
(*                                                                         *)
(* Our engine is the Scan operator of Taint.  Of Semgrep only its outcome  *)
(* is modelled: how the subprocess ended and the raw results it printed.   *)
(* Messages, fingerprints and durations are left out.                      *)
(***************************************************************************)
EXTENDS Taint, BenchmarkReports

CONSTANTS
  Fixtures,        \* fixture directories: name -> sequence of files
  SemgrepOutputs   \* the sequences of raw results the CLI may print

Tolerance == 3
NoFunction == "none"
Undefined == -1       \* a ratio with a zero denominator

Abs(n) == IF n < 0 THEN -n ELSE n

-----------------------------------------------------------------------------
(* Ground truth.                                                           *)

Case(file, function, type, vulnerable, source, sink) ==
  [file |-> file, function |-> function, vulnerability_type |-> type,
   expected_vulnerable |-> vulnerable, source_line |-> source, sink_line |-> sink]

FixtureGroundTruth ==
  "vulnerable_python_app" :>
    <<Case("app.py", "get_user", "sql_injection", TRUE, 12, 15),
      Case("app.py", "get_user_safe", "sql_injection", FALSE, 23, 25),
      Case("app.py", "run_command", "command_injection", TRUE, 33, 34),
      Case("app.py", "run_command_safe", "command_injection", FALSE, 50, 51),
      Case("app.py", "fetch_url", "ssrf", TRUE, 37, 40),
      Case("app.py", "fetch_safe", "ssrf", FALSE, 44, 47),
      Case("db.py", "execute", "sql_injection", TRUE, 14, 17),
      Case("db.py", "query_users", "sql_injection", TRUE, 19, 20)>>

GroundTruth(fixture) ==
  IF fixture \in DOMAIN FixtureGroundTruth THEN FixtureGroundTruth[fixture] ELSE <<>>

VulnerableCases(fixture) == SelectSeq(GroundTruth(fixture), LAMBDA c : c.expected_vulnerable)
SafeCases(fixture) == SelectSeq(GroundTruth(fixture), LAMBDA c : ~c.expected_vulnerable)

-----------------------------------------------------------------------------
(* The findings of the two tools, normalised.                              *)

BenchmarkFinding(file, function, type, line) ==
  [file |-> file, function |-> function, vulnerability_type |-> type, line |-> line]

(* to_benchmark_finding: the line is the source's, the function is known   *)
(* when the source is the "def" line.                                      *)
ToBenchmarkFinding(file, fn, f) ==
  BenchmarkFinding(file.name, IF f.path[1].text = "def" THEN fn.name ELSE NoFunction,
                   f.vulnerability_type, f.source_line)

(* _scan_fixture, in the order ScanService.scan sorts: file, sink line,    *)
(* source line.  A file that does not parse has no finding.                *)
ScanFile(file) ==
  LET found == UNION {{fn} \X Scan(fn).findings : fn \in file.functions}
      before(a, b) == \/ a[2].sink_line < b[2].sink_line
                      \/ a[2].sink_line = b[2].sink_line /\ a[2].source_line < b[2].source_line
      sorted == SetToSortSeq(found, before)
  IN  IF file.error THEN <<>>
      ELSE [i \in DOMAIN sorted |-> ToBenchmarkFinding(file, sorted[i][1], sorted[i][2])]

ScanFixture(fixture) ==
  LET files == Fixtures[fixture]
  IN  FlattenSeq([i \in DOMAIN files |-> ScanFile(files[i])])

(* _canonical_type; a rule id is the set of words it contains.  Any other  *)
(* id is its own type, which no case and no finding of ours has.           *)
CanonicalType(words) ==
  CASE "sql" \in words -> "sql_injection"
    [] words \cap {"command", "shell", "subprocess"} # {} /\ "sql" \notin words -> "command_injection"
    [] words \cap {"ssrf", "url", "request"} # {}
         /\ words \cap {"sql", "command", "shell", "subprocess"} = {} -> "ssrf"
    [] OTHER -> "other"

(* parse_semgrep_json: a result without a path or a line number is dropped. *)
ParseSemgrep(raw) ==
  LET usable == SelectSeq(raw, LAMBDA r : r.path # "" /\ r.line # 0)
  IN  [i \in DOMAIN usable |->
         BenchmarkFinding(usable[i].path, usable[i].function,
                          CanonicalType(usable[i].words), usable[i].line)]

(* SemgrepRunner.run: every failure is a result with an error and without  *)
(* findings; only a missing CLI makes the tool unavailable.                *)
SemgrepFailures == {"rules missing", "timeout", "failed to start", "output too large",
                    "exit code", "malformed JSON"}
NoError == "none"
SemgrepResult(available, findings, error) ==
  [available |-> available, findings |-> findings, error |-> error]
SemgrepRun ==
  {SemgrepResult(FALSE, <<>>, "not installed")}
    \cup {SemgrepResult(TRUE, <<>>, e) : e \in SemgrepFailures}
    \cup {SemgrepResult(TRUE, ParseSemgrep(raw), NoError) : raw \in SemgrepOutputs}

-----------------------------------------------------------------------------
(* Matching and metrics.                                                   *)

Near(a, b) == Abs(a - b) <= Tolerance

Same(a, b) ==
  /\ a.file = b.file /\ a.vulnerability_type = b.vulnerability_type
  /\ \/ Near(a.line, b.line)
     \/ a.function # NoFunction /\ a.function = b.function

MatchesCase(f, c) ==
  /\ f.file = c.file /\ f.vulnerability_type = c.vulnerability_type
  /\ Near(f.line, c.source_line) \/ Near(f.line, c.sink_line) \/ f.function = c.function

(* match_cross_tool: our findings in turn, each with the first of the      *)
(* remaining findings of the other tool that is the same.                  *)
MatchCrossTool(ours, theirs) ==
  FoldLeft(LAMBDA acc, f :
             LET partners == {i \in DOMAIN acc.rest : Same(f, acc.rest[i])}
                 first == CHOOSE i \in partners : \A j \in partners : i <= j
             IN  IF partners = {} THEN [acc EXCEPT !.ours_only = Append(@, f)]
                 ELSE [acc EXCEPT !.shared = Append(@, f), !.rest = RemoveAt(@, first)],
           [shared |-> <<>>, ours_only |-> <<>>, rest |-> theirs], ours)

(* Mutant: a case is not used up by the finding that matches it. *)
ClassifyReusing(findings, cases) ==
  FoldLeft(LAMBDA acc, f :
             LET open == {i \in DOMAIN cases :
                            cases[i].expected_vulnerable /\ MatchesCase(f, cases[i])}
                 first == CHOOSE i \in open : \A j \in open : i <= j
             IN  IF open = {} THEN [acc EXCEPT !.false_positives = Append(@, f)]
                 ELSE [acc EXCEPT !.matched = Append(@, first)],
           [matched |-> <<>>, false_positives |-> <<>>], findings)

(* classify: a vulnerable case is used up by the first finding that        *)
(* matches it; every other finding is a false positive, whether it matches *)
(* a safe case or nothing (which of the two does not show in the result).  *)
Classify(findings, cases) ==
  FoldLeft(LAMBDA acc, f :
             LET open == {i \in DOMAIN cases : /\ cases[i].expected_vulnerable
                                               /\ i \notin ToSet(acc.matched)
                                               /\ MatchesCase(f, cases[i])}
                 first == CHOOSE i \in open : \A j \in open : i <= j
             IN  IF open = {} THEN [acc EXCEPT !.false_positives = Append(@, f)]
                 ELSE [acc EXCEPT !.matched = Append(@, first)],
           [matched |-> <<>>, false_positives |-> <<>>], findings)

(* A quotient in ten-thousandths, rounded. *)
Ratio(n, d) == IF d = 0 THEN Undefined ELSE (20000 * n + d) \div (2 * d)

F1(p, r) ==
  IF p = Undefined \/ r = Undefined THEN Undefined
  ELSE IF p + r = 0 THEN Undefined ELSE (4 * p * r + p + r) \div (2 * (p + r))

ComputeMetrics(findings, fixture) ==
  LET c == Classify(findings, VulnerableCases(fixture) \o SafeCases(fixture))
      tp == Len(c.matched)
      fp == Len(c.false_positives)
      fn == Len(VulnerableCases(fixture)) - tp
      p == Ratio(tp, tp + fp)
      r == Ratio(tp, tp + fn)
  IN  [tp |-> tp, fp |-> fp, fn |-> fn, precision |-> p, recall |-> r, f1 |-> F1(p, r),
       total |-> Len(findings)]

Types(findings) == {f.vulnerability_type : f \in ToSet(findings)}

(* _build_comparison *)
BuildComparison(ours, theirs, cases) ==
  LET m == MatchCrossTool(ours, theirs)
      all == ToSet(ours) \cup ToSet(theirs)
      reported == {i \in DOMAIN cases : ~cases[i].expected_vulnerable
                                          /\ \E f \in all : MatchesCase(f, cases[i])}
  IN  IF theirs = <<>>
        THEN [shared |-> <<>>, ours_only |-> ours, semgrep_only |-> <<>>,
              types |-> Types(ours), safe_reported |-> {}]
        ELSE [shared |-> m.shared, ours_only |-> m.ours_only, semgrep_only |-> m.rest,
              types |-> Types(m.shared), safe_reported |-> {cases[i].function : i \in reported}]

OurFindings == [fixture \in DOMAIN Fixtures |-> ScanFixture(fixture)]

BenchmarkReport(fixture, semgrep) ==
  LET ours == OurFindings[fixture]
  IN  [fixture |-> fixture, ground_truth_count |-> Len(GroundTruth(fixture)),
       ours |-> ours, semgrep |-> semgrep,
       our_metrics |-> ComputeMetrics(ours, fixture),
       semgrep_metrics |-> IF semgrep.available THEN <<ComputeMetrics(semgrep.findings, fixture)>>
                           ELSE <<>>,
       comparison |-> BuildComparison(ours, semgrep.findings, GroundTruth(fixture))]

(* What BenchmarkService.run may come to: the reports of the store.        *)
RunReports ==
  {BenchmarkReport(fixture, semgrep) : fixture \in DOMAIN Fixtures, semgrep \in SemgrepRun}

-----------------------------------------------------------------------------
(* The most cases that findings could be credited with, one finding each. *)
BestMatching(findings, cases) ==
  LET vulnerable == {i \in DOMAIN cases : cases[i].expected_vulnerable}
      credits(S) == \E g \in [S -> vulnerable] :
                      /\ \A i, j \in S : g[i] = g[j] => i = j
                      /\ \A i \in S : MatchesCase(findings[i], cases[g[i]])
  IN  Max({Cardinality(S) : S \in {T \in SUBSET DOMAIN findings : credits(T)}})

InLineOrder(findings) ==
  \A i, j \in DOMAIN findings : i < j => findings[i].line <= findings[j].line

(* What the report says of Semgrep can be relied on: every finding is      *)
(* counted once, as a case or as a false positive; when the tool lists its *)
(* findings by line the greedy matcher credits it with as many cases as    *)
(* any assignment could; F1 is undefined exactly when no case was found;   *)
(* and the comparison splits the findings of both tools without losing or  *)
(* doubling one.                                                           *)
MetricsAreRight ==
  \A e \in reports :
    LET r == e.report
        cases == VulnerableCases(r.fixture) \o SafeCases(r.fixture)
        cmp == r.comparison
    IN  /\ \A m \in ToSet(r.semgrep_metrics) :
             /\ m.tp + m.fp = Len(r.semgrep.findings) /\ m.fn >= 0
             /\ InLineOrder(r.semgrep.findings) => m.tp = BestMatching(r.semgrep.findings, cases)
             /\ m.f1 = Undefined <=> m.tp = 0
        /\ Len(cmp.shared) + Len(cmp.ours_only) = Len(r.ours)
        /\ Len(cmp.shared) + Len(cmp.semgrep_only) = Len(r.semgrep.findings)

(* On the fixture with ground truth our engine reports every vulnerable    *)
(* case and none of the safe ones (tests/test_benchmark.py).               *)
EngineAgreesWithGroundTruth ==
  \A e \in reports :
    e.report.fixture \in DOMAIN FixtureGroundTruth
      => e.report.our_metrics.fn = 0 /\ e.report.our_metrics.fp = 0
=============================================================================
