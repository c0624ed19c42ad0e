----------------------------- MODULE MCPipeline -----------------------------
(* Constants for model-checking Pipeline: the default risk policy and three  *)
(* findings.  1 (of the project) and 2 (of another) are the same flaw under  *)
(* other names, `cursor.execute(q + x)` and `db.execute(sql + y)`; 3 calls   *)
(* `cursor.fetch(q + x)`.                                                    *)
EXTENDS Pipeline, TLC

CONSTANTS w1, w2

MCSeverities == {"critical", "high", "medium", "low", "info", "unknown"}
MCSeverityWeights == [critical |-> 100, high |-> 75, medium |-> 50, low |-> 25, info |-> 5]
MCThresholds == [p \in 0..4 |-> CASE p = 0 -> 90 [] p = 1 -> 75 [] p = 2 -> 50
                                   [] p = 3 -> 25 [] p = 4 -> 0]

Tok(kind, text) == [kind |-> kind, text |-> text]
CallOf(object, method, query, operand) ==
  <<Tok("NAME", object), Tok("OP", "."), Tok("NAME", method), Tok("OP", "("),
    Tok("NAME", query), Tok("OP", "+"), Tok("NAME", operand), Tok("OP", ")"),
    Tok("NEWLINE", "")>>
Sql(sink) ==
  [type |-> "sql_injection", severity |-> "high", source_kind |-> "http_parameter",
   sink_kind |-> "sql_execution", source |-> "_unparsable_", sink |-> sink,
   steps |-> <<"source", "sink">>]
MCShape ==
  <<Sql(CallOf("cursor", "execute", "q", "x")), Sql(CallOf("db", "execute", "sql", "y")),
    Sql(CallOf("cursor", "fetch", "q", "x"))>>
WorkerSymmetry == Permutations(Workers)
=============================================================================
