------------------------------- MODULE Taint -------------------------------
(***************************************************************************)
(* SCAN: the taint engine (scan/taint_engine.py), the four rules           *)
(* (scan/rules/) and ScanService.scan, on small function bodies, beside an *)
(* interpreter that runs the same body along every path it can take.       *)
(*                                                                         *)
(* A statement or an expression is a record with an "op"; a program is one *)
(* function, [params, body].  Lines are numbers; the text of a line is     *)
(* left out except where the engine compares it (two sources on one line). *)
(***************************************************************************)
EXTENDS Integers, Sequences, FiniteSets, FiniteSetsExt, SequencesExt

CONSTANTS
  Programs,    \* the functions to analyse
  MaxIter      \* how often the interpreter runs a loop body at most

ASSUME MaxIterAssumption == MaxIter \in Nat \ {0}

-----------------------------------------------------------------------------
(* Rules.                                                                  *)

Rules == {"sql_injection", "command_injection", "ssrf", "deserialization"}

SqlMethods == {"execute", "executemany", "executescript"}
SqlObjectNames == {"cursor", "curs", "cur", "conn", "con", "connection", "db",
                   "database", "engine", "session", "handle"}
CommandSinks == {"os.system", "os.popen", "subprocess.run", "subprocess.call",
                 "subprocess.Popen", "subprocess.check_call", "subprocess.check_output"}
HttpRequestFuncs ==
  {"requests.get", "requests.post", "requests.put", "requests.delete", "requests.patch",
   "requests.head", "requests.options", "requests.request", "httpx.get", "httpx.post",
   "httpx.put", "httpx.delete", "httpx.patch", "httpx.request", "urllib.request.urlopen"}
DeserializationSinks ==
  {"pickle.loads", "pickle.load", "cPickle.loads", "cPickle.load", "_pickle.loads",
   "_pickle.load", "_cPickle.loads", "_cPickle.load", "marshal.loads", "marshal.load",
   "shelve.open", "jsonpickle.decode", "jsonpickle.loads"}
YamlLoadFuncs == {"yaml.load", "yaml.unsafe_load"}

(* A call: its dotted function, the last name of its receiver and its      *)
(* method, its positional arguments and its keywords.                      *)
SafeLoaders == {"SafeLoader", "FullLoader"}

Keyword(c, names) == {k \in DOMAIN c.kw : k \in names}

(* The expression whose taint matters: the url= keyword or the second      *)
(* argument of *.request for SSRF, else the first argument.                *)
NoExpr == [op |-> "none"]
SinkExpression(rule, c) ==
  CASE rule = "ssrf" /\ "url" \in DOMAIN c.kw -> c.kw["url"]
    [] rule = "ssrf" /\ c.name = "request" -> IF Len(c.args) >= 2 THEN c.args[2] ELSE NoExpr
    [] OTHER -> IF c.args # <<>> THEN c.args[1] ELSE NoExpr

(* Mutant: a class that wraps its connection is not recognised. *)
MatchSqlSinkBare(c) == c.name \in SqlMethods /\ c.recv \in SqlObjectNames

MatchSqlSink(c) == c.name \in SqlMethods /\ (c.recv = "self" \/ c.recv \in SqlObjectNames)

(* An argument vector is not parsed by a shell. *)
MatchCommandSink(c) == c.func \in CommandSinks /\ c.args # <<>> /\ c.args[1].op # "list"

MatchHttpSink(c) == c.func \in HttpRequestFuncs /\ SinkExpression("ssrf", c) # NoExpr

(* yaml.load with a safe or a full loader is no sink. *)
MatchDeserializationSink(c) ==
  /\ c.args # <<>>
  /\ \/ c.func \in DeserializationSinks
     \/ /\ c.func \in YamlLoadFuncs
        /\ ~("Loader" \in DOMAIN c.kw /\ c.kw["Loader"].x \in SafeLoaders)

MatchSink(rule, c) ==
  CASE rule = "sql_injection"     -> MatchSqlSink(c)
    [] rule = "command_injection" -> MatchCommandSink(c)
    [] rule = "ssrf"              -> MatchHttpSink(c)
    [] rule = "deserialization"   -> MatchDeserializationSink(c)

NoneConstant == [op |-> "const", x |-> "None"]

(* A parameterized query: a second argument or keyword that is not None. *)
SqlSanitized(c) ==
  \/ Len(c.args) >= 2 /\ c.args[2] # NoneConstant
  \/ \E k \in Keyword(c, {"parameters", "params"}) : c.kw[k] # NoneConstant

YamlSanitized(c) ==
  c.func \in YamlLoadFuncs /\ "Loader" \in DOMAIN c.kw /\ c.kw["Loader"].x = "SafeLoader"

IsSanitized(rule, c) ==
  \/ rule = "sql_injection" /\ SqlSanitized(c)
  \/ rule = "deserialization" /\ YamlSanitized(c)

(* request_source: request.json and its subscripts are request_json; every *)
(* other attribute, and every .get(...), is request_param.                 *)
RequestKind(e) == IF e.attr = "json" /\ ~e.get THEN "request_json" ELSE "request_param"
RequestKinds == {"request_json", "request_param"}

(* taint_confidence, in hundredths. *)
Intermediate == {"assignment", "propagation", "string_construction"}
Confidence(path, kind) ==
  (IF kind \in RequestKinds THEN 90 ELSE 70)
    - (IF Cardinality({i \in DOMAIN path : path[i].type \in Intermediate}) >= 3 THEN 10 ELSE 0)

-----------------------------------------------------------------------------
(* Taint of an expression.                                                 *)

Step(type, line, text) == [type |-> type, line |-> line, text |-> text]
Clean == [steps |-> <<>>, kind |-> "none"]
Tainted(t) == t.steps # <<>>

Merge(parts) ==
  FoldLeft(LAMBDA acc, s : IF s \in ToSet(acc) THEN acc ELSE Append(acc, s), <<>>,
           FlattenSeq([i \in DOMAIN parts |-> parts[i].steps]))

(* Mutant: the kind of the first part, whatever the others are. *)
KindFirst(parts) == parts[1].kind

Kind(parts) ==
  LET requests == SelectSeq(parts, LAMBDA p : p.kind \in RequestKinds)
  IN  IF requests # <<>> THEN requests[1].kind ELSE parts[1].kind

StringOps == {"fstring", "add", "format"}
Combining == {"list", "ifexp"}
Passing == {"str", "attribute", "subscript"}

RECURSIVE TaintOf(_, _, _)

TaintOf(e, line, tainted) ==
  LET all == [i \in DOMAIN e.args |-> TaintOf(e.args[i], line, tainted)]
      parts == SelectSeq(all, Tainted)
      extended(type) == [steps |-> Append(Merge(parts), Step(type, line, "")), kind |-> Kind(parts)]
  IN  CASE e.op = "name" -> IF e.x \in DOMAIN tainted THEN tainted[e.x] ELSE Clean
        [] e.op = "request" ->
             [steps |-> <<Step("source", line, RequestKind(e))>>, kind |-> RequestKind(e)]
        [] e.op \in StringOps -> IF parts = <<>> THEN Clean ELSE extended("string_construction")
        [] e.op \in Combining -> IF parts = <<>> THEN Clean ELSE extended("propagation")
        [] e.op \in Passing ->
             IF parts = <<>> THEN Clean
             ELSE [parts[1] EXCEPT !.steps = Append(@, Step("propagation", line, ""))]
        [] OTHER -> Clean       \* constants, other operators, calls that are no source

(* _collect_calls: the calls in an expression, at any depth. *)
RECURSIVE Calls(_)

Calls(e) ==
  IF e.op \in {"const", "name", "request"} THEN {}
  ELSE UNION {Calls(a) : a \in ToSet(e.args)}
         \cup (IF e.op = "call" THEN {e} \cup UNION {Calls(e.kw[k]) : k \in DOMAIN e.kw} ELSE {})

-----------------------------------------------------------------------------
(* The engine.  An analysis state is [tainted, findings, returns, leaky]:  *)
(* leaky are the lines of the functions whose summary says returns_taint.  *)

(* _emit_finding: the id of a finding is its type, source and sink line. *)
Finding(rule, line, t) ==
  LET path == Append(t.steps, Step("sink", line, ""))
  IN  [vulnerability_type |-> rule, source_line |-> path[1].line, sink_line |-> line,
       kind |-> t.kind, path |-> path, confidence |-> Confidence(path, t.kind)]

(* The calls of an expression that are sinks of the rule, not sanitized. *)
OpenSinks(rule, e) == {c \in Calls(e) : MatchSink(rule, c) /\ ~IsSanitized(rule, c)}

(* _check_sinks *)
CheckSinks(rule, e, line, st) ==
  LET targets == {SinkExpression(rule, c) : c \in OpenSinks(rule, e)}
      taints == {TaintOf(x, line, st.tainted) : x \in targets \ {NoExpr}}
  IN  [st EXCEPT !.findings = @ \cup {Finding(rule, line, t) : t \in {u \in taints : Tainted(u)}}]

(* dict.update: the second map wins. *)
Update(t, u) == u @@ t

Bind(x, t, st) == [st EXCEPT !.tainted = Update(@, x :> t)]

(* _apply_assign.  A clean value leaves the old taint of the name alone. *)
ApplyAssign(s, st) ==
  LET t == TaintOf(s.val, s.line, st.tainted)
      copies == s.val.op \in {"name", "request"}
      steps == IF copies THEN Append(t.steps, Step("assignment", s.line, "")) ELSE t.steps
  IN  IF Tainted(t) THEN Bind(s.x, [t EXCEPT !.steps = steps], st) ELSE st

ApplyAugAssign(s, st) ==
  LET t == TaintOf(s.val, s.line, st.tainted)
      base == IF s.x \in DOMAIN st.tainted THEN st.tainted[s.x] ELSE t
  IN  IF Tainted(base)
        THEN Bind(s.x, [base EXCEPT !.steps = Append(@, Step("propagation", s.line, ""))], st)
        ELSE st

RECURSIVE ApplyStmt(_, _, _)

(* _analyze_block *)
Block(rule, stmts, st) == FoldLeft(LAMBDA acc, s : ApplyStmt(rule, s, acc), st, stmts)

(* Mutant: what the first branch taints is lost. *)
JoinedLast(acc, out) == out

(* dict.update with the taint a block leaves: the union of the branches. *)
Joined(acc, out) == [out EXCEPT !.tainted = Update(acc.tainted, @)]

(* The blocks of a compound statement in the engine's order; of a try the  *)
(* handlers are last.                                                      *)
Blocks(s) ==
  CASE s.op \in {"if", "while", "for"} -> <<s.body, s.orelse>>
    [] s.op = "try" -> <<s.body, s.orelse, s.final>> \o s.handlers
    [] s.op = "with" -> <<s.body>>

(* Both branches start from the taint before the statement; each block of  *)
(* a try starts from what the one before it left.                          *)
Compound(rule, s, st) ==
  FoldLeft(LAMBDA acc, b :
             Joined(acc, Block(rule, b, IF s.op = "try" THEN acc ELSE [acc EXCEPT !.tainted = st.tainted])),
           st, Blocks(s))

(* The loop variable carries the taint of what is iterated over. *)
BindLoopVariable(s, st) ==
  LET t == TaintOf(s.val, s.line, st.tainted)
  IN  IF Tainted(t)
        THEN Bind(s.x, [t EXCEPT !.steps = Append(@, Step("propagation", s.line, ""))], st)
        ELSE st

Fresh(params, line) ==
  [x \in params |-> [steps |-> <<Step("source", line, "def")>>, kind |-> "function_param"]]

(* The summary of a function once its body has been analysed. *)
Summarise(fn, st, inner) ==
  [st EXCEPT !.findings = inner.findings,
             !.leaky = inner.leaky \cup (IF inner.returns THEN {fn.line} ELSE {})]

(* _analyze_function: parameters are tainted, nothing else is. *)
AnalyzeFunction(rule, fn, st) ==
  Summarise(fn, st, Block(rule, fn.body, [st EXCEPT !.tainted = Fresh(fn.params, fn.line),
                                                    !.returns = FALSE]))

(* _apply_stmt; every expression of the statement is checked for sinks     *)
(* before anything else happens.                                           *)
ApplyStmt(rule, s, st0) ==
  LET st == IF "val" \in DOMAIN s THEN CheckSinks(rule, s.val, s.line, st0) ELSE st0
  IN  CASE s.op = "assign" -> ApplyAssign(s, st)
        [] s.op = "augassign" -> ApplyAugAssign(s, st)
        [] s.op = "return" ->
             [st EXCEPT !.returns = @ \/ Tainted(TaintOf(s.val, s.line, st.tainted))]
        [] s.op = "expr" -> st
        [] s.op = "def" -> AnalyzeFunction(rule, s, st)
        [] s.op \in {"if", "while", "for", "try", "with"} ->
             Compound(rule, s, IF s.op = "for" THEN BindLoopVariable(s, st) ELSE st)

NoReport == [findings |-> {}, leaky |-> {}]
EmptyAnalysis == [tainted |-> Fresh({}, 0), findings |-> {}, returns |-> FALSE, leaky |-> {}]

Combined(acc, a) == [findings |-> acc.findings \cup a.findings, leaky |-> acc.leaky \cup a.leaky]

(* ScanService.scan: every rule over the function; the findings of all     *)
(* rules, and one merged summary per function.                             *)
Scan(fn) == FoldSet(LAMBDA r, acc : Combined(acc, AnalyzeFunction(r, fn, EmptyAnalysis)), NoReport, Rules)

-----------------------------------------------------------------------------
(* The interpreter: what really happens on one path of the function.  A    *)
(* path is the sequence of simple statements it executes.                  *)

Leaves(p) == \E i \in DOMAIN p : p[i].op \in {"return", "raise"}
Then(P, Q) == {p \in P : Leaves(p)} \cup {p \o q : p \in {x \in P : ~Leaves(x)}, q \in Q}

(* What the code executes once more after a loop's body, or in a finally   *)
(* block after a handler, is marked.                                       *)
Mark(P) == {[i \in DOMAIN p |-> [again |-> TRUE] @@ p[i]] : p \in P}

RECURSIVE Rounds(_, _)

(* What up to n further rounds of a loop can execute, each a path of P.    *)
Rounds(P, n) == IF n = 0 THEN {<<>>} ELSE {<<>>} \cup Then(P, Rounds(P, n - 1))

(* No round, then the else block; or one and more rounds, then it.         *)
Looping(P, orelse) ==
  orelse \cup Then(P, Mark(Then(Rounds(P, MaxIter - 1), orelse)))

RECURSIVE PathsOf(_)

Paths(stmts) == FoldLeft(LAMBDA acc, s : Then(acc, PathsOf(s)), {<<>>}, stmts)

(* An exception may leave the body of a try after any of its steps, to a   *)
(* handler or to nowhere; the finally block runs on every path.            *)
PathsOf(s) ==
  LET test == <<[op |-> "expr", val |-> s.val, line |-> s.line]>>
      bind == <<[op |-> "bind", x |-> s.x, val |-> s.val, line |-> s.line]>>
      raise == <<[op |-> "raise", val |-> NoneConstant, line |-> s.line]>>
      thrown == UNION {Prefixes(p) : p \in Paths(s.body)}
      caught == Then(thrown, UNION {Paths(s.handlers[i]) : i \in DOMAIN s.handlers})
      final == Paths(s.final)
  IN  CASE s.op = "if" -> Then({test}, Paths(s.body) \cup Paths(s.orelse))
        [] s.op = "while" ->
             Then({test}, Looping(Then(Paths(s.body), Mark({test})), Paths(s.orelse)))
        [] s.op = "for" -> Then({test}, Looping(Then({bind}, Paths(s.body)), Paths(s.orelse)))
        [] s.op = "try" ->
             {p \o f : p \in Then(Paths(s.body), Paths(s.orelse)), f \in final}
               \cup {p \o f : p \in caught, f \in Mark(final)}
               \cup {p \o f \o raise : p \in thrown, f \in final}
        [] s.op = "with" -> Paths(s.body)
        [] s.op = "def" -> {<<>>}
        [] OTHER -> {<<s>>}

RECURSIVE Dirty(_, _)

(* Whether attacker-controlled data is in the value of an expression. What *)
(* a call returns is taken to be clean, but for str and format.            *)
Dirty(e, vars) ==
  CASE e.op = "name" -> e.x \in vars
    [] e.op = "request" -> TRUE
    [] e.op \in StringOps \cup Combining \cup Passing -> \E a \in ToSet(e.args) : Dirty(a, vars)
    [] OTHER -> FALSE

(* The functions that are run: the program and the functions it defines,   *)
(* each on its own parameters.                                             *)
Entries(fn) == {fn} \cup {s \in ToSet(fn.body) : s.op = "def"}

VARIABLES
  report,   \* what Scan reported for the chosen program
  running,  \* the line of the function that is run, 0 before it is chosen
  todo,     \* the rest of the path the interpreter takes
  dirty,    \* the names that hold attacker-controlled data
  hits,     \* the sinks it has reached so far, as <<type, line>>
  leaked,   \* the lines of the functions that have returned such data
  again     \* whether it has repeated a loop's code, or gone from a handler to finally

vars == <<report, running, todo, dirty, hits, leaked, again>>

Init ==
  /\ report = NoReport /\ running = 0 /\ todo = <<>>
  /\ dirty = {} /\ hits = {} /\ leaked = {} /\ again = FALSE

(* Analyse a program, and choose the path on which it will run. *)
Start ==
  /\ running = 0
  /\ \E fn \in Programs :
       /\ report' = Scan(fn)
       /\ \E entry \in Entries(fn) : \E p \in Paths(entry.body) \ {<<>>} :
            running' = entry.line /\ todo' = p /\ dirty' = entry.params
  /\ UNCHANGED <<hits, leaked, again>>

(* A statement that can carry data on, or is a call: the bare test of a    *)
(* while loop, evaluated once more, does neither.                          *)
Matters(s) == s.op \in {"assign", "bind", "augassign", "return"} \/ Calls(s.val) # {}

Execute ==
  /\ todo # <<>>
  /\ LET s == Head(todo)
         now == Dirty(s.val, dirty)
     IN  /\ hits' = hits \cup
              {<<r, s.line>> : r \in {q \in Rules : \E c \in OpenSinks(q, s.val) :
                 SinkExpression(q, c) # NoExpr /\ Dirty(SinkExpression(q, c), dirty)}}
         /\ dirty' = CASE s.op \in {"assign", "bind"} -> IF now THEN dirty \cup {s.x} ELSE dirty \ {s.x}
                       [] s.op = "augassign" -> IF now THEN dirty \cup {s.x} ELSE dirty
                       [] OTHER -> dirty
         /\ leaked' = IF s.op = "return" /\ now THEN leaked \cup {running} ELSE leaked
         /\ again' = (again \/ ("again" \in DOMAIN s /\ Matters(s)))
  /\ todo' = Tail(todo)
  /\ UNCHANGED <<report, running>>

Next == Start \/ Execute
Spec == Init /\ [][Next]_vars

-----------------------------------------------------------------------------
(* The engine misses no flow of a path that runs the code of every loop at *)
(* most once (its else block only without a round) and no finally block    *)
(* after a handler: a sink that attacker-controlled data reaches on it has *)
(* a finding of that type at that line, and a function that returns such   *)
(* data is summarised so. scan/README.md:121 says of branches and loops    *)
(* that their tainted variables are merged, "a sound over-approximation".  *)
(* That is right of branches; a loop body is analysed once, from the taint *)
(* before the loop, and the handlers of a try after its finally block, so  *)
(* the engine misses flows of the other paths.                             *)
NoMissedFlow ==
  ~again =>
    /\ hits \subseteq {<<f.vulnerability_type, f.sink_line>> : f \in report.findings}
    /\ leaked \subseteq report.leaky

Sources(path) == {i \in DOMAIN path : path[i].type = "source"}

(* The taint path of a finding is its provenance: it begins at a source,   *)
(* ends at the sink and has nothing but propagation between a source and   *)
(* the sink; the confidence is the one of a request exactly when a request *)
(* is among the sources on the path.                                       *)
PathIsProvenance ==
  \A f \in report.findings :
    LET n == Len(f.path)
    IN  /\ 1 \in Sources(f.path) /\ f.path[n] = Step("sink", f.sink_line, "")
        /\ \A i \in 2..(n - 1) : f.path[i].type \in Intermediate \cup {"source"}
        /\ f.path[n - 1].type \in Intermediate \/ n = 2
        /\ f.confidence >= 80 <=> \E i \in Sources(f.path) : f.path[i].text \in RequestKinds
=============================================================================
