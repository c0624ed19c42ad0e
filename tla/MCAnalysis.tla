------------------------------ MODULE MCAnalysis ----------------------------
EXTENDS Benchmark

Const == [op |-> "const", x |-> "text"]
Name(x) == [op |-> "name", x |-> x]
Request(attr) == [op |-> "request", attr |-> attr, get |-> FALSE]
Fstring(a, b) == [op |-> "fstring", args |-> <<a, b>>]
Add(a, b) == [op |-> "add", args |-> <<a, b>>]
Str(a) == [op |-> "str", args |-> <<a>>]
Attribute(a) == [op |-> "attribute", args |-> <<a>>]
Pair(a, b) == [op |-> "list", args |-> <<a, b>>]
IfExp(c, a, b) == [op |-> "ifexp", args |-> <<c, a, b>>]
NoKw == [k \in {} |-> Const]
Call(recv, name, func, args, kw) ==
  [op |-> "call", recv |-> recv, name |-> name, func |-> func, args |-> args, kw |-> kw]
Query(args) == Call("cursor", "execute", "cursor.execute", args, NoKw)
System(a) == Call("os", "system", "os.system", <<a>>, NoKw)
Fetch(a) == Call("requests", "request", "requests.request", <<Const, a>>, NoKw)
Yaml(a, loader) == Call("yaml", "load", "yaml.load", <<a>>, "Loader" :> Name(loader))

Assign(l, x, v) == [op |-> "assign", x |-> x, val |-> v, line |-> l]
Aug(l, x, v) == [op |-> "augassign", x |-> x, val |-> v, line |-> l]
Expr(l, v) == [op |-> "expr", val |-> v, line |-> l]
Return(l, v) == [op |-> "return", val |-> v, line |-> l]
If(l, b, e) == [op |-> "if", val |-> Name("x"), line |-> l, body |-> b, orelse |-> e]
While(l, b, e) == [op |-> "while", val |-> Name("x"), line |-> l, body |-> b, orelse |-> e]
For(l, v, b, e) == [op |-> "for", x |-> "y", val |-> v, line |-> l, body |-> b, orelse |-> e]
With(l, b) == [op |-> "with", line |-> l, body |-> b]
Try(l, b, h, e, f) ==
  [op |-> "try", line |-> l, body |-> b, handlers |-> <<h>>, orelse |-> e, final |-> f]
Def(l, b) == [op |-> "def", line |-> l, params |-> {"z"}, body |-> b]

Simple(l) ==
  {Assign(l, "x", Request("json")), Assign(l, "y", Name("x")), Assign(l, "x", Const),
   Assign(l, "y", Fstring(Name("p"), Name("x"))), Aug(l, "y", Str(Name("x"))),
   Expr(l, Fetch(Name("y")))}

Sinks(l) ==
  {Expr(l, System(Name("y"))), Expr(l, System(Pair(Name("y"), Const))),
   Expr(l, Query(<<Fstring(Const, Name("y"))>>)), Expr(l, Query(<<Name("y"), Pair(Name("x"), Const)>>)),
   Return(l, Fstring(System(Name("x")), IfExp(Name("y"), Const, Const))),
   Assign(l, "x", Yaml(Name("y"), "SafeLoader")), Expr(l, Yaml(Name("y"), "Loader"))}

Branching ==
  {If(3, <<a>>, <<b>>) : a \in Simple(4), b \in Simple(5)}
    \cup {Try(3, <<a>>, <<b>>, <<>>, <<>>) : a \in Simple(4), b \in Simple(5)}
    \cup {Try(3, <<a>>, <<>>, <<b>>, <<>>) : a \in Simple(4), b \in Simple(5)}
    \cup {Try(3, <<a>>, <<b>>, <<>>, <<c>>) : a \in Simple(4), b \in Simple(5), c \in Simple(6)}
    \cup {For(3, Pair(Name("x"), Const), <<a, b>>, <<>>) : a \in Simple(4), b \in Simple(5)}
    \cup {While(3, <<a, b>>, <<>>) : a \in Simple(4), b \in Simple(5)}
    \cup {While(3, <<a>>, <<b>>) : a \in Simple(4), b \in Simple(5)}
    \cup {With(3, <<a, b>>) : a \in Simple(4), b \in Simple(5)}
    \cup {Def(3, <<Assign(4, "y", Name("z")), b>>) : b \in Sinks(5)}

Bodies(middle) ==
  {<<a, m, s>> : a \in {Assign(2, "x", Request("args")), Assign(2, "x", Const), Assign(2, "x", Name("p"))},
                 m \in middle, s \in Sinks(7)}

Function(body) == [op |-> "def", line |-> 1, params |-> {"p"}, body |-> body]

(* tests/fixtures/vulnerable_python_app: the functions with a sink, and    *)
(* the file that does not parse.                                           *)
Fn(name, line, params, body) ==
  [op |-> "def", name |-> name, line |-> line, params |-> params, body |-> body]
Connect == Call("sqlite3", "connect", "sqlite3.connect", <<Const>>, NoKw)
Execute1(args) == Call("conn", "execute", "conn.execute", args, NoKw)
Run(a) == Call("subprocess", "run", "subprocess.run", <<a>>, "shell" :> Const)
Get(a) == Call("requests", "get", "requests.get", <<a>>, NoKw)

AppFunctions ==
  {Fn("get_user", 12, {"user_id"},
      <<Assign(13, "conn", Connect), Assign(14, "query", Fstring(Const, Name("user_id"))),
        Assign(15, "cursor", Execute1(<<Name("query")>>)), Return(20, Const)>>),
   Fn("get_user_safe", 23, {"user_id"},
      <<Assign(24, "conn", Connect),
        Assign(25, "cursor", Execute1(<<Const, Pair(Name("user_id"), Const)>>)), Return(30, Const)>>),
   Fn("run_command", 33, {"cmd"}, <<Expr(34, Run(Name("cmd")))>>),
   Fn("fetch_url", 37, {"url"}, <<Assign(40, "response", Get(Name("url"))),
                                  Return(41, Attribute(Name("response")))>>),
   Fn("fetch_safe", 44, {}, <<Return(47, Attribute(Get(Const)))>>),
   Fn("run_command_safe", 50, {}, <<Expr(51, Run(Const))>>)}

DbFunctions ==
  {Fn("execute", 14, {"sql"},
      <<Return(17, Call("connection", "execute", "self.connection.execute", <<Name("sql")>>, NoKw))>>),
   Fn("query_users", 19, {"user_id"},
      <<Return(20, Call("self", "execute", "self.execute", <<Fstring(Const, Name("user_id"))>>, NoKw))>>)}

(* tests/fixtures/concat_sql_app has no ground truth: its findings are     *)
(* false positives, and recall is undefined.                               *)
ConcatFunctions ==
  LET text == Add(Add(Const, Name("customer_name")), Const)
      conn(l) == Assign(l, "conn", Connect)
      execute(l) == Expr(l, Execute1(<<Name("sql")>>))
      when(l, x, s) == [op |-> "if", val |-> Name(x), line |-> l, body |-> <<s>>, orelse |-> <<>>]
  IN  {Fn("query_by_name", 13, {"customer_name"},
          <<conn(15), Assign(16, "sql", text), execute(17)>>),
       Fn("query_with_status", 21, {"customer_name", "status"},
          <<conn(23), Assign(24, "sql", Add(Add(text, Name("status")), Const)), execute(25)>>),
       Fn("query_conditional", 29, {"customer_name", "status"},
          <<conn(31), Assign(32, "sql", Const), Aug(33, "sql", text),
            when(34, "status", Aug(35, "sql", Add(Add(Const, Name("status")), Const))),
            execute(36)>>),
       Fn("query_mixed", 40, {"customer_name", "active_only"},
          <<conn(42), Assign(43, "sql", text),
            when(44, "active_only", Aug(45, "sql", Const)), execute(46)>>)}

MCFixtures ==
  [f \in {"vulnerable_python_app", "concat_sql_app"} |->
     IF f = "vulnerable_python_app"
       THEN <<[name |-> "app.py", error |-> FALSE, functions |-> AppFunctions],
              [name |-> "bad_syntax.py", error |-> TRUE, functions |-> {}],
              [name |-> "db.py", error |-> FALSE, functions |-> DbFunctions]>>
       ELSE <<[name |-> "app.py", error |-> FALSE, functions |-> ConcatFunctions]>>]

(* Raw Semgrep results: two tools' usual lines, a line between two cases   *)
(* of db.py, a safe case, an unknown rule, and results without a path or   *)
(* a line.                                                                 *)
Raw(words, path, line, function) ==
  [words |-> words, path |-> path, line |-> line, function |-> function]
RawResults ==
  {Raw({"sql"}, "app.py", 15, NoFunction), Raw({"sql"}, "db.py", 14, NoFunction),
   Raw({"sql", "request"}, "db.py", 20, NoFunction), Raw({"ssrf"}, "app.py", 47, NoFunction),
   Raw({"subprocess"}, "app.py", 51, "run_command"), Raw({"pickle"}, "app.py", 3, NoFunction),
   Raw({"sql"}, "", 15, NoFunction), Raw({"url"}, "app.py", 0, NoFunction)}
MCSemgrepOutputs ==
  {<<>>} \cup {<<a>> : a \in RawResults} \cup {<<a, b>> : a, b \in RawResults}
    \cup {<<a, b, c>> : a, b, c \in {r \in RawResults : r.words \cap {"sql", "subprocess"} # {}}}

(* Straight-line code, branches, loops, handlers and finally blocks, nested *)
(* functions, and the functions of the fixture.                            *)
MCPrograms ==
  {Function(b) : b \in Bodies(Simple(3) \cup Branching)} \cup AppFunctions \cup DbFunctions \cup ConcatFunctions

-----------------------------------------------------------------------------
(* The interpreter and the benchmark share no variable, so the behaviours  *)
(* in which one of them runs show everything either can do.                *)
AnalysisInit == Init /\ BenchInit
AnalysisNext ==
  \/ reports = {} /\ Next /\ UNCHANGED benchVars
  \/ running = 0 /\ BenchNext /\ UNCHANGED vars
AnalysisSpec == AnalysisInit /\ [][AnalysisNext]_<<vars, benchVars>>
=============================================================================
