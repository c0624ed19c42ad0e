--------------------------- MODULE ScanRunProofs ---------------------------
(***************************************************************************)
(* Proofs about ScanRun, for any findings, stages, request threads and      *)
(* numbers of runs, executions, failed commits and restarts.                *)
(***************************************************************************)
EXTENDS ScanRun, SortingProofs

(* The steps of a stage execution: those at which it is recorded as        *)
(* running, and those at which its outcome is.                             *)
Open == {"begMem", "begRow", "body", "lineage", "endExec"}
Closing == {"endMem", "endRow"}
InScan == {"register", "prepare", "begin"} \cup Open \cup Closing \cup {"runEnd"}

Locals == [r : 0..MaxRuns, stage : Stages, id : Nat, count : Nat,
           outcome : {"completed", "failed"}, found : SUBSET Findings, repeats : Nat,
           todo : SUBSET Findings, size : Nat, keys : SUBSET Runs]

Creating(p) == {t \in Workers : p[t] = "create"}

DataTypes ==
  /\ project \in BOOLEAN /\ known \subseteq Findings
  /\ run \in [Runs -> RunRecord] /\ runRow \in [Runs -> RunRecord]
  /\ stage \in [Runs -> [Stages -> StageRecord]] /\ stageRow \in [Runs -> [Stages -> StageRecord]]
  /\ hist \in [Runs -> Seq(Execution)] /\ histRow \in [Runs -> Seq(Execution)]
  /\ lineage \in [Runs -> SUBSET Findings] /\ lineageRow \in [Runs -> SUBSET Findings]
  /\ execs \in Nat /\ dbErrors \in Nat /\ crashes \in Nat
  /\ deletion \in {"none", "alone", "overlapped"}

(* The run a thread works on exists, and there is room for those that      *)
(* ScanProject has let in.                                                 *)
ControlInv ==
  /\ pc \in [Workers -> Steps] /\ loc \in [Workers -> Locals] /\ issued \in Nat
  /\ \A t \in Workers : pc[t] \in InScan => loc[t].r \in 1..issued
  /\ IsFiniteSet(Creating(pc)) /\ issued + Cardinality(Creating(pc)) <= MaxRuns

(* A run that has not been issued is not there. *)
Unissued(table) == \A r \in Runs : r > issued => table[r].status = "none"

TypeInv == DataTypes /\ ControlInv /\ Unissued(run) /\ Unissued(runRow)

(* The thread t goes to step p with locals l. *)
Moves(t, p, l) == pc' = [pc EXCEPT ![t] = p] /\ loc' = [loc EXCEPT ![t] = l]

LEMMA MaxIsNat == MaxRuns \in Nat
BY ScanRunConstants

LEMMA Idling == IdleLocals \in Locals /\ IdleLocals.r = 0
BY ScanRunConstants DEF IdleLocals, Locals, Stages

LEMMA SizeIsNat == \A r : IterationSize(r) \in Nat
<1>1. ExecutionKeys \in SUBSET (1..MaxRuns) /\ IsFiniteSet(1..MaxRuns)
  BY MaxIsNat, FS_Interval DEF ExecutionKeys, Runs
<1>2. Cardinality(ExecutionKeys) \in Nat
  BY <1>1, FS_Subset, FS_CardinalityType
<1>3. QED
  BY <1>2 DEF IterationSize

LEMMA Errors ==
  \A l : /\ AfterError(l) \in {"runEnd", "idle"}
         /\ AfterError(l) = "runEnd" => l.stage = "SCAN"
BY DEF AfterError

LEMMA Same == ASSUME ControlInv, NEW t \in Workers, NEW p, pc' = [pc EXCEPT ![t] = p], loc' = loc
              PROVE  Moves(t, p, loc[t])
BY DEF Moves, ControlInv

LEMMA Held == ASSUME ControlInv, NEW t \in Workers
              PROVE  /\ loc[t] \in Locals /\ pc[t] \in Steps
                     /\ issued \in Nat /\ issued <= MaxRuns
                     /\ pc[t] \in InScan => loc[t].r \in 1..issued /\ loc[t].r \in Runs
<1>1. issued \in Nat /\ Cardinality(Creating(pc)) \in Nat /\ issued + Cardinality(Creating(pc)) <= MaxRuns
  BY FS_CardinalityType DEF ControlInv
<1>2. issued <= MaxRuns /\ MaxRuns \in Nat
  BY <1>1, ScanRunConstants
<1>3. QED
  BY <1>1, <1>2 DEF ControlInv, Runs

LEMMA ControlTurn ==
  ASSUME ControlInv, NEW t \in Workers, NEW p \in Steps, NEW l \in Locals, Moves(t, p, l),
         p # "create", p \in InScan => l.r \in 1..issued', issued' = issued
  PROVE  ControlInv'
<1>1. Creating(pc') \in SUBSET Creating(pc)
  BY DEF Creating, Moves, ControlInv
<1>2. /\ IsFiniteSet(Creating(pc')) /\ Cardinality(Creating(pc')) <= Cardinality(Creating(pc))
  BY <1>1, FS_Subset DEF ControlInv
<1>3. Cardinality(Creating(pc')) \in Nat /\ Cardinality(Creating(pc)) \in Nat
  BY <1>2, FS_CardinalityType DEF ControlInv
<1>4. issued' + Cardinality(Creating(pc')) <= MaxRuns
  BY <1>2, <1>3, ScanRunConstants DEF ControlInv
<1>5. QED
  BY <1>2, <1>4 DEF ControlInv, Moves

----------------------------------------------------------------------------
(* Where each step takes its thread. *)

LEMMA CreateShape ==
  ASSUME TypeInv, NEW t \in Workers, NEW ok \in BOOLEAN, CreateRun(t, ok)
  PROVE  /\ pc[t] = "create" /\ issued + 1 \in Runs /\ issued' = issued + 1
         /\ \E l \in Locals : /\ ok => l.r = issued + 1
                              /\ Moves(t, IF ok THEN "register" ELSE "idle", l)
<1>1. pc[t] = "create" /\ issued' = issued + 1
  BY DEF CreateRun, Enter, Goto
<1>2. t \in Creating(pc) /\ IsFiniteSet(Creating(pc)) /\ issued \in Nat
      /\ issued + Cardinality(Creating(pc)) <= MaxRuns /\ MaxRuns \in Nat
  BY <1>1, ScanRunConstants DEF Creating, TypeInv, ControlInv
<1>3. Cardinality(Creating(pc)) \in Nat /\ Cardinality(Creating(pc)) # 0
  BY <1>2, FS_CardinalityType, FS_EmptySet
<1>4. issued + 1 \in Runs
  BY <1>2, <1>3 DEF Runs
<1>5. [IdleLocals EXCEPT !.r = issued + 1] \in Locals /\ [IdleLocals EXCEPT !.r = issued + 1].r = issued + 1
  BY <1>4, Idling DEF Locals, Runs
<1>6. Moves(t, IF ok THEN "register" ELSE "idle",
            IF ok THEN [IdleLocals EXCEPT !.r = issued + 1] ELSE IdleLocals)
  BY DEF CreateRun, Enter, Goto, Moves
<1>7. QED
  BY <1>1, <1>4, <1>5, <1>6, Idling

LEMMA BeginShape ==
  ASSUME TypeInv, NEW t \in Workers, NEW ok \in BOOLEAN, NEW from, NEW r \in Runs, NEW s \in Stages,
         BeginExecution(t, from, ok, r, s)
  PROVE  /\ pc[t] = from
         /\ \E l \in Locals :
              /\ l.r = r /\ l.stage = s /\ l.id = execs + 1 /\ l.count = stage[r][s].count + 1
              /\ l.outcome = "failed"
              /\ Moves(t, IF ok THEN "begMem" ELSE AfterError(l), l)
<1>1. execs + 1 \in Nat /\ stage[r][s].count + 1 \in Nat /\ r \in 0..MaxRuns
  BY MaxIsNat DEF TypeInv, DataTypes, StageRecord, Runs
<1>2. PICK i \in Nat, n \in Nat : i = execs + 1 /\ n = stage[r][s].count + 1
  BY <1>1
<1>3. PICK q \in Locals : q = IdleLocals /\ q.outcome = "failed"
  BY Idling DEF IdleLocals
<1> DEFINE l == [q EXCEPT !.r = r, !.stage = s, !.id = i, !.count = n]
           m == IF ok THEN l ELSE [l EXCEPT !.outcome = "failed"]
<1>4. pc[t] = from /\ Moves(t, IF ok THEN "begMem" ELSE AfterError(l), m)
  BY <1>2, <1>3 DEF BeginExecution, EnterStage, Moves
<1>5. /\ l \in Locals /\ l.r = r /\ l.stage = s /\ l.id = i /\ l.count = n
      /\ l.outcome = "failed"
  BY <1>1, <1>3 DEF Locals
<1> HIDE DEF l
<1>6. m = l
  BY <1>5 DEF Locals
<1>7. QED
  BY <1>2, <1>4, <1>5, <1>6

(* The steps that end with a commit: back to where the handler goes after   *)
(* its stage when it raises.                                               *)
LEMMA CommitShape ==
  ASSUME TypeInv, NEW t \in Workers, NEW ok \in BOOLEAN, NEW from, NEW to, NEW m \in Locals,
         EnterStage(t, from, ok, to, m)
  PROVE  /\ pc[t] = from
         /\ \E l \in Locals :
              /\ l.r = m.r /\ l.stage = m.stage /\ l.id = m.id /\ l.count = m.count
              /\ l.found = m.found /\ l.todo = m.todo
              /\ l.outcome = IF ok THEN m.outcome ELSE "failed"
              /\ Moves(t, IF ok THEN to ELSE AfterError(l), l)
<1> DEFINE l == IF ok THEN m ELSE [m EXCEPT !.outcome = "failed"]
<1>1. /\ l \in Locals /\ l.r = m.r /\ l.stage = m.stage /\ l.id = m.id /\ l.count = m.count
      /\ l.found = m.found /\ l.todo = m.todo /\ l.outcome = IF ok THEN m.outcome ELSE "failed"
  BY DEF Locals
<1>2. pc[t] = from /\ Moves(t, IF ok THEN to ELSE AfterError(l), l)
  BY <1>1 DEF EnterStage, Moves, AfterError
<1> HIDE DEF l
<1>3. QED
  BY <1>1, <1>2

LEMMA BodyShape ==
  ASSUME TypeInv, NEW t \in Workers, NEW ok \in BOOLEAN, NEW outcome \in {"completed", "failed"},
         NEW found \in SUBSET Findings, NEW repeats \in Nat, StageBody(t, ok, outcome, found, repeats)
  PROVE  LET q == loc[t] IN
         /\ pc[t] = "body"
         /\ \E l \in Locals :
              /\ l.r = q.r /\ l.stage = q.stage /\ l.id = q.id
              /\ l.found = found /\ l.todo = found /\ l.outcome = outcome
              /\ Moves(t, IF q.stage = "SCAN" /\ outcome = "completed" THEN "lineage"
                                                                       ELSE "endExec", l)
<1> DEFINE q == loc[t]
           K == IterationSize(q.r)
           l == [q EXCEPT !.outcome = outcome, !.found = found, !.repeats = repeats,
                          !.todo = found, !.size = K]
<1>1. K \in Nat
  BY SizeIsNat
<1>2. pc[t] = "body" /\ Moves(t, IF q.stage = "SCAN" /\ outcome = "completed" THEN "lineage"
                                                                       ELSE "endExec", l)
  BY DEF StageBody, Enter, Goto, Moves
<1>3. q \in Locals
  BY Held DEF TypeInv
<1> HIDE DEF q, K
<1>4. /\ l \in Locals /\ l.r = q.r /\ l.stage = q.stage /\ l.id = q.id
      /\ l.found = found /\ l.todo = found /\ l.outcome = outcome
  BY <1>1, <1>3 DEF Locals
<1> HIDE DEF l
<1>5. QED
  BY <1>2, <1>4 DEF q

(* The row of a stage record: PREPARE has no body. *)
LEMMA BegRowShape ==
  ASSUME TypeInv, NEW t \in Workers, NEW ok \in BOOLEAN, BegRow(t, ok)
  PROVE  LET q == loc[t] IN
         /\ pc[t] = "begRow"
         /\ \E l \in Locals :
              /\ l.r = q.r /\ l.stage = q.stage /\ l.id = q.id /\ l.found = q.found
              /\ ok \/ l.outcome = "failed"
              /\ Moves(t, IF ~ ok THEN AfterError(l)
                          ELSE IF q.stage = "PREPARE" THEN "endExec" ELSE "body", l)
<1>1. PICK q \in Locals : q = loc[t]
  BY Held DEF TypeInv
<1>2. PICK k \in Nat : k = IterationSize(q.r)
  BY SizeIsNat
<1> DEFINE m == [q EXCEPT !.outcome = "completed", !.size = k]
<1>3. m \in Locals /\ m.r = q.r /\ m.stage = q.stage /\ m.id = q.id /\ m.found = q.found
  BY DEF Locals
<1>4. IF q.stage = "PREPARE" THEN EnterStage(t, "begRow", ok, "endExec", m)
                             ELSE EnterStage(t, "begRow", ok, "body", q)
  BY <1>1, <1>2 DEF BegRow
<1> HIDE DEF m
<1>5. CASE q.stage = "PREPARE"
  BY <1>1, <1>3, <1>4, <1>5, CommitShape
<1>6. CASE q.stage # "PREPARE"
  BY <1>1, <1>4, <1>6, CommitShape
<1>7. QED
  BY <1>5, <1>6

LEMMA LineageShape ==
  ASSUME TypeInv, NEW t \in Workers, NEW ok \in BOOLEAN, AddLineage(t, ok)
  PROVE  LET q == loc[t] IN
         /\ pc[t] = "lineage"
         /\ \E l \in Locals, p \in {"lineage", "endExec"} :
              /\ l.r = q.r /\ l.stage = q.stage /\ l.id = q.id /\ l.found = q.found
              /\ Moves(t, p, l)
              /\ \/ /\ p = "endExec" /\ q.todo = {} /\ l.outcome = q.outcome
                    /\ UNCHANGED <<lineage, lineageRow>>
                 \/ \E f \in q.todo :
                      /\ lineage' = [lineage EXCEPT ![q.r] = @ \cup {f}]
                      /\ \/ /\ p = "lineage" /\ l.todo = q.todo \ {f} /\ l.outcome = q.outcome
                            /\ lineageRow' = [lineageRow EXCEPT ![q.r] = @ \cup {f}]
                         \/ ~ ok /\ p = "endExec" /\ l.outcome = "failed" /\ lineageRow' = lineageRow
<1>1. PICK q \in Locals : q = loc[t]
  BY Held DEF TypeInv
<1>3. PICK k \in Nat : k = IterationSize(q.r)
  BY SizeIsNat
<1>4. ASSUME Enter(t, "lineage", "endExec", [q EXCEPT !.size = k])
      PROVE  /\ pc[t] = "lineage"
             /\ \E l \in Locals :
                  /\ l.r = q.r /\ l.stage = q.stage /\ l.id = q.id /\ l.found = q.found
                  /\ l.outcome = q.outcome /\ Moves(t, "endExec", l)
  <2> DEFINE l == [q EXCEPT !.size = k]
  <2>1. /\ l \in Locals /\ l.r = q.r /\ l.stage = q.stage /\ l.id = q.id /\ l.found = q.found
        /\ l.outcome = q.outcome
    BY <1>3 DEF Locals
  <2>2. pc[t] = "lineage" /\ Moves(t, "endExec", l)
    BY <1>4 DEF Enter, Goto, Moves
  <2> HIDE DEF l
  <2>3. QED
    BY <2>1, <2>2
<1>5. ASSUME NEW f \in q.todo, ok, Enter(t, "lineage", "lineage", [q EXCEPT !.todo = @ \ {f}]),
             lineage' = [lineage EXCEPT ![q.r] = @ \cup {f}],
             lineageRow' = [lineageRow EXCEPT ![q.r] = @ \cup {f}]
      PROVE  /\ pc[t] = "lineage"
             /\ \E l \in Locals :
                  /\ l.r = q.r /\ l.stage = q.stage /\ l.id = q.id /\ l.found = q.found
                  /\ l.todo = q.todo \ {f} /\ l.outcome = q.outcome /\ Moves(t, "lineage", l)
  <2> DEFINE l == [q EXCEPT !.todo = @ \ {f}]
  <2>1. /\ l \in Locals /\ l.r = q.r /\ l.stage = q.stage /\ l.id = q.id /\ l.found = q.found
        /\ l.todo = q.todo \ {f} /\ l.outcome = q.outcome
    BY DEF Locals
  <2>2. pc[t] = "lineage" /\ Moves(t, "lineage", l)
    BY <1>5 DEF Enter, Goto, Moves
  <2> HIDE DEF l
  <2>3. QED
    BY <2>1, <2>2
<1>6. ASSUME Enter(t, "lineage", "endExec", [q EXCEPT !.outcome = "failed", !.size = k])
      PROVE  /\ pc[t] = "lineage"
             /\ \E l \in Locals :
                  /\ l.r = q.r /\ l.stage = q.stage /\ l.id = q.id /\ l.found = q.found
                  /\ l.outcome = "failed" /\ Moves(t, "endExec", l)
  <2> DEFINE l == [q EXCEPT !.outcome = "failed", !.size = k]
  <2>1. /\ l \in Locals /\ l.r = q.r /\ l.stage = q.stage /\ l.id = q.id /\ l.found = q.found
        /\ l.outcome = "failed"
    BY DEF Locals
  <2>2. pc[t] = "lineage" /\ Moves(t, "endExec", l)
    BY <1>6 DEF Enter, Goto, Moves
  <2> HIDE DEF l
  <2>3. QED
    BY <2>1, <2>2
<1>7. \/ /\ ok /\ q.todo = {} /\ Enter(t, "lineage", "endExec", [q EXCEPT !.size = k])
         /\ UNCHANGED <<lineage, lineageRow>>
      \/ \E f \in q.todo :
           /\ ok /\ Enter(t, "lineage", "lineage", [q EXCEPT !.todo = @ \ {f}])
           /\ lineage' = [lineage EXCEPT ![q.r] = @ \cup {f}]
           /\ lineageRow' = [lineageRow EXCEPT ![q.r] = @ \cup {f}]
      \/ \E f \in q.todo :
           /\ ~ ok /\ Enter(t, "lineage", "endExec", [q EXCEPT !.outcome = "failed", !.size = k])
           /\ lineage' = [lineage EXCEPT ![q.r] = @ \cup {f}]
           /\ lineageRow' = lineageRow
  BY <1>1, <1>3 DEF AddLineage, Row, memory, rows
<1> DEFINE Goal ==
             /\ pc[t] = "lineage"
             /\ \E l \in Locals, p \in {"lineage", "endExec"} :
                  /\ l.r = q.r /\ l.stage = q.stage /\ l.id = q.id /\ l.found = q.found
                  /\ Moves(t, p, l)
                  /\ \/ /\ p = "endExec" /\ q.todo = {} /\ l.outcome = q.outcome
                        /\ UNCHANGED <<lineage, lineageRow>>
                     \/ \E f \in q.todo :
                          /\ lineage' = [lineage EXCEPT ![q.r] = @ \cup {f}]
                          /\ \/ /\ p = "lineage" /\ l.todo = q.todo \ {f} /\ l.outcome = q.outcome
                                /\ lineageRow' = [lineageRow EXCEPT ![q.r] = @ \cup {f}]
                             \/ ~ ok /\ p = "endExec" /\ l.outcome = "failed" /\ lineageRow' = lineageRow
<1>8. ASSUME ok, q.todo = {}, Enter(t, "lineage", "endExec", [q EXCEPT !.size = k]),
             UNCHANGED <<lineage, lineageRow>>
      PROVE  Goal
  BY <1>1, <1>4, <1>8
<1>9. ASSUME NEW f \in q.todo, ok, Enter(t, "lineage", "lineage", [q EXCEPT !.todo = @ \ {f}]),
             lineage' = [lineage EXCEPT ![q.r] = @ \cup {f}],
             lineageRow' = [lineageRow EXCEPT ![q.r] = @ \cup {f}]
      PROVE  Goal
  BY <1>5, <1>9
<1>10. ASSUME NEW f \in q.todo, ~ ok,
              Enter(t, "lineage", "endExec", [q EXCEPT !.outcome = "failed", !.size = k]),
              lineage' = [lineage EXCEPT ![q.r] = @ \cup {f}], lineageRow' = lineageRow
       PROVE  Goal
  BY <1>6, <1>10
<1>11. Goal
  BY <1>7, <1>8, <1>9, <1>10
<1>12. QED
  BY <1>1, <1>11

LEMMA EndShape ==
  ASSUME TypeInv, NEW t \in Workers, NEW ok \in BOOLEAN, EndExec(t, ok)
  PROVE  LET q == loc[t] IN
         /\ pc[t] = "endExec"
         /\ \E l \in Locals :
              /\ l.r = q.r /\ l.stage = q.stage /\ l.id = q.id /\ l.found = q.found
              /\ l.count = stage[q.r][q.stage].count
              /\ l.outcome = IF ok THEN q.outcome ELSE "failed"
              /\ Moves(t, IF ok THEN "endMem" ELSE AfterError(l), l)
<1>1. PICK q \in Locals : q = loc[t]
  BY Held DEF TypeInv
<1>2. pc[t] = "endExec"
  BY DEF EndExec, EndExecution
<1>3. q.r \in Runs /\ q.stage \in Stages
  BY <1>1, <1>2, Held DEF TypeInv, InScan, Open, Locals
<1>4. PICK n \in Nat : n = stage[q.r][q.stage].count
  BY <1>3 DEF TypeInv, DataTypes, StageRecord
<1> DEFINE m == [q EXCEPT !.count = n, !.size = 0]
<1>5. /\ m \in Locals /\ m.r = q.r /\ m.stage = q.stage /\ m.id = q.id /\ m.found = q.found
      /\ m.count = n /\ m.outcome = q.outcome
  BY DEF Locals
<1>6. EnterStage(t, "endExec", ok, "endMem", m)
  BY <1>1, <1>4 DEF EndExec, EndExecution
<1> HIDE DEF m
<1>7. PICK l \in Locals :
        /\ l.r = m.r /\ l.stage = m.stage /\ l.id = m.id /\ l.count = m.count
        /\ l.found = m.found /\ l.outcome = IF ok THEN m.outcome ELSE "failed"
        /\ Moves(t, IF ok THEN "endMem" ELSE AfterError(l), l)
  BY <1>5, <1>6, CommitShape
<1>8. QED
  BY <1>1, <1>2, <1>4, <1>5, <1>7

LEMMA IterationShape ==
  ASSUME TypeInv, NEW t \in Workers, IterationRaises(t)
  PROVE  LET q == loc[t] IN
         /\ pc[t] = "endExec"
         /\ \E l \in Locals : /\ l.r = q.r /\ l.stage = q.stage /\ l.outcome = "failed"
                              /\ Moves(t, AfterError(l), l)
<1>1. PICK q \in Locals : q = loc[t]
  BY Held DEF TypeInv
<1> DEFINE l == [q EXCEPT !.outcome = "failed"]
<1>2. l \in Locals /\ l.r = q.r /\ l.stage = q.stage /\ l.outcome = "failed"
  BY DEF Locals
<1>3. pc[t] = "endExec" /\ Moves(t, AfterError(q), l)
  BY <1>1 DEF IterationRaises, Enter, Goto, Moves
<1>4. AfterError(q) = AfterError(l)
  BY <1>2 DEF AfterError
<1> HIDE DEF l
<1>5. QED
  BY <1>1, <1>2, <1>3, <1>4

----------------------------------------------------------------------------
(* Types. *)

LEMMA FinishedFacts ==
  ASSUME NEW h \in Seq(Execution), NEW l \in Locals
  PROVE  LET z == Finished(h, l) IN
         /\ z \in Seq(Execution) /\ DOMAIN z = DOMAIN h
         /\ \A k \in DOMAIN h : /\ z[k].id = h[k].id /\ z[k].stage = h[k].stage
                                /\ h[k].id # l.id => z[k] = h[k]
                                /\ h[k].id = l.id => z[k].status = l.outcome
<1> DEFINE z == Finished(h, l)
<1>1. DOMAIN h = 1..Len(h) /\ Len(h) \in Nat
  OBVIOUS
<1>2. DOMAIN z = DOMAIN h
  BY DEF Finished
<1>3. ASSUME NEW k \in DOMAIN h
      PROVE  /\ z[k] \in Execution /\ z[k].id = h[k].id /\ z[k].stage = h[k].stage
             /\ h[k].id # l.id => z[k] = h[k]
             /\ h[k].id = l.id => z[k].status = l.outcome
  <2>1. PICK e \in Execution : e = h[k]
    OBVIOUS
  <2>2. PICK o \in {"completed", "failed"} : o = l.outcome
    BY DEF Locals
  <2>3. z[k] = IF e.id = l.id THEN [e EXCEPT !.status = o] ELSE e
    BY <2>1, <2>2 DEF Finished
  <2>4. QED
    BY <2>1, <2>2, <2>3 DEF Execution
<1>4. z = [k \in 1..Len(h) |-> z[k]]
  BY <1>1 DEF Finished
<1> HIDE DEF z
<1>5. z \in Seq(Execution)
  BY <1>1, <1>3, <1>4
<1>6. QED
  BY <1>2, <1>3, <1>5 DEF z

(* An execution row that is there is updated, as the record in memory is. *)
LEMMA UpsertedFacts ==
  ASSUME NEW h \in Seq(Execution), NEW l \in Locals
  PROVE  /\ Upserted(h, l) \in Seq(Execution)
         /\ (\E k \in DOMAIN h : h[k].id = l.id) => Upserted(h, l) = Finished(h, l)
<1> DEFINE e == [id |-> l.id, stage |-> l.stage, status |-> l.outcome]
<1>1. e \in Execution
  BY DEF Execution, Locals
<1> HIDE DEF e
<1>2. Append(h, e) \in Seq(Execution) /\ Finished(h, l) \in Seq(Execution)
  BY <1>1, FinishedFacts
<1>3. Upserted(h, l) = IF \E k \in DOMAIN h : h[k].id = l.id THEN Finished(h, l) ELSE Append(h, e)
  BY DEF Upserted, e
<1>4. QED
  BY <1>2, <1>3

LEMMA RehydratedFacts ==
  ASSUME NEW h \in Seq(Execution)
  PROVE  LET z == Rehydrated(h) IN
         /\ z \in Seq(Execution) /\ Len(z) = Len(h)
         /\ \A n \in DOMAIN h : \E k \in DOMAIN h : z[n] = h[k]
<1> DEFINE keys == [k \in DOMAIN h |-> h[k].id]
<1>0. DOMAIN h = 1..Len(h) /\ \A k \in DOMAIN h : h[k] \in Execution
  OBVIOUS
<1>1. keys \in [DOMAIN h -> Int]
  BY <1>0 DEF Execution
<1> HIDE DEF keys
<1>2. /\ SortByKey(h, keys) \in Seq(Execution) /\ Len(SortByKey(h, keys)) = Len(h)
      /\ \A n \in DOMAIN h : \E k \in DOMAIN h : SortByKey(h, keys)[n] = h[k]
  BY <1>1, SortKeepsElements
<1>3. QED
  BY <1>2 DEF Rehydrated, keys

LEMMA ScanRecords ==
  /\ NoRun \in RunRecord /\ NoStage \in StageRecord /\ NoStages \in [Stages -> StageRecord]
  /\ [NoRun EXCEPT !.status = "running"] \in RunRecord
  /\ \A l \in Locals : [status |-> "running", count |-> l.count] \in StageRecord
  /\ \A l \in Locals : [status |-> l.outcome, count |-> l.count] \in StageRecord
BY DEF NoRun, NoStage, NoStages, RunRecord, StageRecord, Locals

LEMMA CommitTypes ==
  ASSUME NEW ok \in BOOLEAN, Commit(ok), dbErrors \in Nat
  PROVE  dbErrors' \in Nat /\ dbErrors <= dbErrors' /\ (dbErrors' = dbErrors => ok)
BY DEF Commit

LEMMA StageTypes ==
  ASSUME NEW T \in [Runs -> [Stages -> StageRecord]], NEW l \in Locals, l.r \in Runs, NEW x \in StageRecord
  PROVE  [T EXCEPT ![l.r][l.stage] = x] \in [Runs -> [Stages -> StageRecord]]
BY DEF Locals

LEMMA ScanProjectTypes ==
  ASSUME TypeInv, NEW t \in Workers, ScanProject(t)
  PROVE  TypeInv'
<1>1. /\ issued + Cardinality(Creating(pc)) < MaxRuns /\ pc[t] = "idle"
      /\ pc' = [pc EXCEPT ![t] = "create"] /\ loc' = loc /\ issued' = issued
  BY DEF ScanProject, Goto, Creating
<1>2. Creating(pc') = Creating(pc) \cup {t} /\ t \notin Creating(pc)
  BY <1>1 DEF Creating, TypeInv, ControlInv
<1>3. /\ IsFiniteSet(Creating(pc')) /\ Cardinality(Creating(pc')) = Cardinality(Creating(pc)) + 1
      /\ Cardinality(Creating(pc)) \in Nat
  BY <1>2, FS_AddElement, FS_CardinalityType DEF TypeInv, ControlInv
<1>4. issued' + Cardinality(Creating(pc')) <= MaxRuns
  BY <1>1, <1>3, MaxIsNat DEF TypeInv, ControlInv
<1>5. ControlInv'
  BY <1>1, <1>3, <1>4 DEF TypeInv, ControlInv, Steps, InScan, Open, Closing
<1>6. DataTypes' /\ Unissued(run)' /\ Unissued(runRow)'
  BY DEF ScanProject, StartsBesideDeletion, TypeInv, DataTypes, memory, rows, Unissued
<1>7. QED
  BY <1>5, <1>6 DEF TypeInv

LEMMA CreateRunTypes ==
  ASSUME TypeInv, NEW t \in Workers, NEW ok \in BOOLEAN, CreateRun(t, ok)
  PROVE  TypeInv'
<1>1. /\ pc[t] = "create" /\ issued + 1 \in Runs /\ issued' = issued + 1
  BY CreateShape
<1>2. PICK l \in Locals : /\ ok => l.r = issued + 1
                          /\ Moves(t, IF ok THEN "register" ELSE "idle", l)
  BY CreateShape
<1>3. issued \in Nat /\ IsFiniteSet(Creating(pc)) /\ t \in Creating(pc)
      /\ issued + Cardinality(Creating(pc)) <= MaxRuns
  BY <1>1 DEF TypeInv, ControlInv, Creating
<1>4. Creating(pc') = Creating(pc) \ {t}
  BY <1>1, <1>2 DEF Creating, Moves, TypeInv, ControlInv
<1>5. /\ IsFiniteSet(Creating(pc'))
      /\ Cardinality(Creating(pc')) = Cardinality(Creating(pc)) - 1
      /\ Cardinality(Creating(pc)) \in Nat
  BY <1>3, <1>4, FS_RemoveElement, FS_CardinalityType
<1>6. issued' + Cardinality(Creating(pc')) <= MaxRuns
  BY <1>1, <1>3, <1>5, MaxIsNat
<1>7. \A u \in Workers : pc'[u] \in InScan => loc'[u].r \in 1..issued'
  <2> SUFFICES ASSUME NEW u \in Workers, pc'[u] \in InScan PROVE loc'[u].r \in 1..issued'
    OBVIOUS
  <2>1. CASE u = t
    BY <1>1, <1>2, <1>3, <2>1 DEF Moves, TypeInv, ControlInv, InScan, Open, Closing
  <2>2. CASE u # t
    <3>1. loc'[u] = loc[u] /\ pc'[u] = pc[u]
      BY <1>2, <2>2 DEF Moves, TypeInv, ControlInv
    <3>2. loc[u].r \in 1..issued
      BY <3>1 DEF TypeInv, ControlInv
    <3>3. QED
      BY <1>1, <1>3, <3>1, <3>2
  <2>3. QED
    BY <2>1, <2>2
<1>8. pc' \in [Workers -> Steps] /\ loc' \in [Workers -> Locals]
  BY <1>2 DEF Moves, TypeInv, ControlInv, Steps
<1>9. ControlInv'
  BY <1>1, <1>3, <1>5, <1>6, <1>7, <1>8 DEF ControlInv
<1>10. /\ run' = [run EXCEPT ![issued + 1] = [NoRun EXCEPT !.status = "running"]]
       /\ runRow' = runRow \/ runRow' = [runRow EXCEPT ![issued + 1] = run'[issued + 1]]
       /\ dbErrors' \in Nat
       /\ UNCHANGED <<project, known, stage, stageRow, hist, histRow, lineage, lineageRow,
                      execs, crashes, deletion>>
  BY CommitTypes DEF CreateRun, Row, TypeInv, DataTypes
<1>11. run' \in [Runs -> RunRecord] /\ run'[issued + 1] \in RunRecord
  BY <1>1, <1>10, ScanRecords DEF TypeInv, DataTypes
<1>12. runRow' \in [Runs -> RunRecord]
  BY <1>1, <1>10, <1>11 DEF TypeInv, DataTypes
<1>13. DataTypes'
  BY <1>10, <1>11, <1>12 DEF TypeInv, DataTypes
<1>14. \A r \in Runs : r > issued' => r > issued /\ r # issued + 1
  BY <1>1, <1>3 DEF Runs
<1>15. Unissued(run)' /\ Unissued(runRow)'
  <2>1. \A r \in Runs : r # issued + 1 => run'[r] = run[r] /\ runRow'[r] = runRow[r]
    BY <1>10 DEF TypeInv, DataTypes
  <2>2. QED
    BY <1>14, <2>1 DEF TypeInv, Unissued
<1>16. QED
  BY <1>9, <1>13, <1>15 DEF TypeInv

LEMMA PendingFacts ==
  ASSUME NEW T \in [Stages -> StageRecord], NEW S
  PROVE  /\ Pending(T, S) \in [Stages -> StageRecord]
         /\ \A s \in Stages : \/ Pending(T, S)[s] = T[s]
                               \/ /\ Pending(T, S)[s].count = 0
                                  /\ Pending(T, S)[s].status # "completed"
BY DEF Pending, StageRecord

LEMMA RegisterShape ==
  ASSUME TypeInv, NEW t \in Workers, NEW ok \in BOOLEAN, NEW done, NEW last,
         RegisterStages(t, ok, done, last)
  PROVE  /\ pc[t] = "register" /\ loc[t].r \in Runs /\ loc[t].r \in 1..issued
         /\ Moves(t, IF ok THEN "prepare" ELSE "idle", loc[t]) /\ loc[t] \in Locals
         /\ \E S : /\ stage' = [stage EXCEPT ![loc[t].r] = Pending(@, done)]
                   /\ stageRow' = [stageRow EXCEPT ![loc[t].r] = Pending(@, S)]
<1>1. pc[t] = "register"
  BY DEF RegisterStages, Enter, Goto
<1>2. Moves(t, IF ok THEN "prepare" ELSE "idle", loc[t])
  BY DEF RegisterStages, Enter, Goto, Moves
<1>3. \E S : /\ stage' = [stage EXCEPT ![loc[t].r] = Pending(@, done)]
             /\ stageRow' = [stageRow EXCEPT ![loc[t].r] = Pending(@, S)]
  BY DEF RegisterStages
<1>4. QED
  BY <1>1, <1>2, <1>3, Held DEF TypeInv, InScan

LEMMA RegisterTypes ==
  ASSUME TypeInv, NEW t \in Workers, NEW ok \in BOOLEAN, NEW done, NEW last,
         RegisterStages(t, ok, done, last)
  PROVE  TypeInv'
<1>1. PICK r \in Runs : r = loc[t].r /\ r \in 1..issued
  BY RegisterShape
<1>2. /\ issued' = issued /\ dbErrors' \in Nat
      /\ UNCHANGED <<project, known, run, runRow, hist, histRow, lineage, lineageRow,
                     execs, crashes, deletion>>
  BY CommitTypes DEF RegisterStages, TypeInv, DataTypes
<1>3. PICK p \in {"prepare", "idle"} : Moves(t, p, loc[t]) /\ loc[t] \in Locals
  BY RegisterShape
<1>4. ControlInv'
  BY <1>1, <1>2, <1>3, ControlTurn DEF TypeInv, Steps
<1>5. PICK S : /\ stage' = [stage EXCEPT ![r] = Pending(@, done)]
               /\ stageRow' = [stageRow EXCEPT ![r] = Pending(@, S)]
  BY <1>1, RegisterShape
<1>6. /\ stage' \in [Runs -> [Stages -> StageRecord]]
      /\ stageRow' \in [Runs -> [Stages -> StageRecord]]
  <2>1. stage \in [Runs -> [Stages -> StageRecord]] /\ stageRow \in [Runs -> [Stages -> StageRecord]]
    BY DEF TypeInv, DataTypes
  <2>2. /\ Pending(stage[r], done) \in [Stages -> StageRecord]
        /\ Pending(stageRow[r], S) \in [Stages -> StageRecord]
    BY <2>1, PendingFacts
  <2>3. QED
    BY <1>5, <2>1, <2>2
<1>7. QED
  BY <1>2, <1>4, <1>6 DEF TypeInv, DataTypes, Unissued

LEMMA BeginTypes ==
  ASSUME TypeInv, NEW t \in Workers, NEW ok \in BOOLEAN, NEW from, NEW r \in Runs, NEW s \in Stages,
         BeginExecution(t, from, ok, r, s), r <= issued, deletion' \in {"none", "alone", "overlapped"}
  PROVE  TypeInv'
<1> DEFINE e == [id |-> execs + 1, stage |-> s, status |-> "running"]
<1>1. PICK l \in Locals : l.r = r /\ Moves(t, IF ok THEN "begMem" ELSE AfterError(l), l)
  BY BeginShape
<1>2. /\ issued' = issued /\ execs' = execs + 1 /\ hist' = [hist EXCEPT ![r] = Append(@, e)]
      /\ histRow' = histRow \/ histRow' = [histRow EXCEPT ![r] = Append(@, e)]
      /\ UNCHANGED <<project, known, run, stage, lineage, runRow, stageRow, lineageRow, crashes>>
      /\ dbErrors' \in Nat
  BY CommitTypes DEF BeginExecution, EnterStage, Row, TypeInv, DataTypes
<1>3. ControlInv'
  <2>1. r \in 1..issued
    BY DEF Runs, TypeInv, ControlInv
  <2>2. PICK p \in Steps : Moves(t, p, l) /\ p # "create"
    BY <1>1, Errors DEF Steps
  <2>3. QED
    BY <1>1, <1>2, <2>1, <2>2, ControlTurn DEF TypeInv
<1>4. e \in Execution
  BY DEF Execution, TypeInv, DataTypes
<1> HIDE DEF e
<1>5. \A h \in Seq(Execution) : Append(h, e) \in Seq(Execution)
  BY <1>4
<1>6. hist' \in [Runs -> Seq(Execution)] /\ histRow' \in [Runs -> Seq(Execution)]
  <2>1. \A T \in [Runs -> Seq(Execution)] : [T EXCEPT ![r] = Append(@, e)] \in [Runs -> Seq(Execution)]
    BY <1>5
  <2>2. hist \in [Runs -> Seq(Execution)] /\ histRow \in [Runs -> Seq(Execution)]
    BY DEF TypeInv, DataTypes
  <2>3. QED
    BY <1>2, <2>1, <2>2
<1>7. DataTypes'
  BY <1>2, <1>6 DEF TypeInv, DataTypes
<1>8. QED
  BY <1>2, <1>3, <1>7 DEF TypeInv, Unissued

(* The steps inside a stage. *)
LEMMA StageTypesStep ==
  ASSUME TypeInv, NEW t \in Workers, NEW ok \in BOOLEAN,
         BegMem(t) \/ BegRow(t, ok) \/ EndMem(t) \/ EndRow(t, ok)
  PROVE  TypeInv'
<1> DEFINE q == loc[t]
<1>1. q \in Locals /\ q.r \in Runs /\ q.r \in 1..issued
  BY Held DEF TypeInv, BegMem, BegRow, EndMem, EndRow, EnterStage, Goto, InScan, Open, Closing
<1>2. PICK x \in StageRecord :
        \/ stage' = [stage EXCEPT ![q.r][q.stage] = x] /\ stageRow' = stageRow /\ dbErrors' = dbErrors
        \/ /\ stage' = stage /\ Commit(ok)
           /\ stageRow' = stageRow \/ stageRow' = [stageRow EXCEPT ![q.r][q.stage] = x]
  <2>1. [status |-> "running", count |-> q.count] \in StageRecord
    BY <1>1, ScanRecords
  <2>2. [status |-> q.outcome, count |-> q.count] \in StageRecord
    BY <1>1, ScanRecords
  <2>3. CASE BegMem(t) \/ BegRow(t, ok)
    BY <2>1, <2>3 DEF BegMem, BegRow, EnterStage, StageWrite, Row, memory, rows, limits
  <2>4. CASE EndMem(t) \/ EndRow(t, ok)
    BY <2>2, <2>4 DEF EndMem, EndRow, EnterStage, StageWrite, Row, memory, rows, limits
  <2>5. QED
    BY <2>3, <2>4
<1>3. /\ issued' = issued
      /\ UNCHANGED <<project, known, run, runRow, hist, histRow, lineage, lineageRow,
                     execs, crashes, deletion>>
  BY DEF BegMem, BegRow, EndMem, EndRow, memory, rows, limits
<1>4. ControlInv'
  <2>1. CASE BegMem(t) \/ EndMem(t)
    <3>1. PICK p \in {"begRow", "endRow"} : Moves(t, p, q)
      BY <2>1, Same DEF BegMem, EndMem, Goto, TypeInv
    <3>2. QED
      BY <1>1, <1>3, <3>1, ControlTurn DEF TypeInv, Steps
  <2>2. CASE BegRow(t, ok)
    <3>1. PICK l \in Locals : l.r = q.r /\ Moves(t, IF ~ ok THEN AfterError(l)
                                                   ELSE IF q.stage = "PREPARE" THEN "endExec" ELSE "body", l)
      BY <2>2, BegRowShape
    <3>2. PICK p \in Steps : Moves(t, p, l) /\ p # "create"
      BY <3>1, Errors DEF Steps
    <3>3. QED
      BY <1>1, <1>3, <3>1, <3>2, ControlTurn DEF TypeInv
  <2>3. CASE EndRow(t, ok)
    <3>1. EnterStage(t, "endRow", ok, AfterStage(q), q)
      BY <2>3 DEF EndRow
    <3>2. PICK l \in Locals : l.r = q.r /\ Moves(t, IF ok THEN AfterStage(q) ELSE AfterError(l), l)
      BY <1>1, <3>1, CommitShape
    <3>3. PICK p \in Steps : Moves(t, p, l) /\ p # "create"
      BY <3>2, Errors DEF AfterStage, Steps
    <3>4. QED
      BY <1>1, <1>3, <3>2, <3>3, ControlTurn DEF TypeInv
  <2>4. QED
    BY <2>1, <2>2, <2>3
<1> HIDE DEF q
<1>5. /\ stage' \in [Runs -> [Stages -> StageRecord]]
      /\ stageRow' \in [Runs -> [Stages -> StageRecord]] /\ dbErrors' \in Nat
  <2>1. stage \in [Runs -> [Stages -> StageRecord]] /\ stageRow \in [Runs -> [Stages -> StageRecord]]
        /\ dbErrors \in Nat
    BY DEF TypeInv, DataTypes
  <2>2. \A T \in [Runs -> [Stages -> StageRecord]] :
          [T EXCEPT ![q.r][q.stage] = x] \in [Runs -> [Stages -> StageRecord]]
    BY <1>1, StageTypes
  <2>3. QED
    BY <1>2, <2>1, <2>2, CommitTypes
<1>6. QED
  BY <1>3, <1>4, <1>5 DEF TypeInv, DataTypes, Unissued

LEMMA BodyTypes ==
  ASSUME TypeInv, NEW t \in Workers, NEW ok \in BOOLEAN, NEW outcome \in {"completed", "failed"},
         NEW found \in SUBSET Findings, NEW repeats \in Nat, StageBody(t, ok, outcome, found, repeats)
  PROVE  TypeInv'
<1>1. pc[t] = "body" /\ loc[t].r \in 1..issued
  BY BodyShape, Held DEF TypeInv, InScan, Open
<1>2. PICK l \in Locals : l.r = loc[t].r /\ Moves(t, IF loc[t].stage = "SCAN" /\ outcome = "completed"
                                                     THEN "lineage" ELSE "endExec", l)
  BY BodyShape
<1>3. PICK p \in {"lineage", "endExec"} : Moves(t, p, l)
  BY <1>2
<1>4. issued' = issued
  BY DEF StageBody
<1>5. ControlInv'
  BY <1>1, <1>2, <1>3, <1>4, ControlTurn DEF TypeInv, Steps
<1>6. QED
  BY <1>5, CommitTypes DEF StageBody, TypeInv, DataTypes, Unissued, memory, rows

LEMMA LineageTypes ==
  ASSUME TypeInv, NEW t \in Workers, NEW ok \in BOOLEAN, AddLineage(t, ok)
  PROVE  TypeInv'
<1> DEFINE q == loc[t]
<1>1. q \in Locals /\ pc[t] = "lineage" /\ q.r \in 1..issued /\ q.r \in Runs
  BY LineageShape, Held DEF TypeInv, InScan, Open
<1>2. PICK l \in Locals, p \in {"lineage", "endExec"} :
        /\ l.r = q.r /\ Moves(t, p, l)
        /\ \/ UNCHANGED <<lineage, lineageRow>>
           \/ \E f \in q.todo :
                /\ lineage' = [lineage EXCEPT ![q.r] = @ \cup {f}]
                /\ \/ lineageRow' = [lineageRow EXCEPT ![q.r] = @ \cup {f}]
                   \/ lineageRow' = lineageRow
  BY LineageShape
<1>3. /\ issued' = issued /\ dbErrors' \in Nat
      /\ UNCHANGED <<project, known, run, runRow, stage, stageRow, hist, histRow,
                     execs, crashes, deletion>>
  BY CommitTypes DEF AddLineage, memory, rows, limits, TypeInv, DataTypes
<1>4. ControlInv'
  BY <1>1, <1>2, <1>3, ControlTurn DEF TypeInv, Steps
<1>5. q.todo \subseteq Findings
  BY <1>1 DEF Locals
<1> HIDE DEF q
<1>6. lineage' \in [Runs -> SUBSET Findings] /\ lineageRow' \in [Runs -> SUBSET Findings]
  <2>1. \A T \in [Runs -> SUBSET Findings], f \in Findings :
          [T EXCEPT ![q.r] = @ \cup {f}] \in [Runs -> SUBSET Findings]
    BY <1>1
  <2>2. lineage \in [Runs -> SUBSET Findings] /\ lineageRow \in [Runs -> SUBSET Findings]
    BY DEF TypeInv, DataTypes
  <2>3. QED
    BY <1>2, <1>5, <2>1, <2>2
<1>7. QED
  BY <1>3, <1>4, <1>6 DEF TypeInv, DataTypes, Unissued

LEMMA EndTypes ==
  ASSUME TypeInv, NEW t \in Workers, NEW ok \in BOOLEAN, EndExec(t, ok) \/ IterationRaises(t)
  PROVE  TypeInv'
<1> DEFINE q == loc[t]
<1>1. q \in Locals /\ pc[t] = "endExec" /\ q.r \in 1..issued /\ q.r \in Runs
  BY EndShape, IterationShape, Held DEF TypeInv, InScan, Open
<1>2. PICK l \in Locals, p \in {"endMem", "runEnd", "idle"} : l.r = q.r /\ Moves(t, p, l)
  <2>1. CASE EndExec(t, ok)
    <3>1. PICK l \in Locals : l.r = q.r /\ Moves(t, IF ok THEN "endMem" ELSE AfterError(l), l)
      BY <2>1, EndShape
    <3>2. QED
      BY <3>1, Errors
  <2>2. CASE IterationRaises(t)
    <3>1. PICK l \in Locals : l.r = q.r /\ Moves(t, AfterError(l), l)
      BY <2>2, IterationShape
    <3>2. QED
      BY <3>1, Errors
  <2>3. QED
    BY <2>1, <2>2
<1>3. issued' = issued
  BY DEF EndExec, EndExecution, IterationRaises, limits
<1>4. ControlInv'
  BY <1>1, <1>2, <1>3, ControlTurn DEF TypeInv, Steps
<1>5. /\ dbErrors' \in Nat
      /\ UNCHANGED <<project, known, run, runRow, stage, stageRow, lineage, lineageRow,
                     execs, crashes, deletion>>
  BY CommitTypes DEF EndExec, EndExecution, IterationRaises, EnterStage, memory, rows, limits,
                     TypeInv, DataTypes
<1>6. hist' \in [Runs -> Seq(Execution)] /\ histRow' \in [Runs -> Seq(Execution)]
  <2>1. /\ hist' = hist \/ hist' = [hist EXCEPT ![q.r] = Finished(@, q)]
        /\ histRow' = histRow \/ histRow' = [histRow EXCEPT ![q.r] = Upserted(@, q)]
    BY DEF EndExec, EndExecution, IterationRaises, memory, rows, Row
  <2> HIDE DEF q
  <2>2. \A h \in Seq(Execution) :
          Finished(h, q) \in Seq(Execution) /\ Upserted(h, q) \in Seq(Execution)
    BY <1>1, FinishedFacts, UpsertedFacts
  <2>3. \A T \in [Runs -> Seq(Execution)] :
          /\ [T EXCEPT ![q.r] = Finished(@, q)] \in [Runs -> Seq(Execution)]
          /\ [T EXCEPT ![q.r] = Upserted(@, q)] \in [Runs -> Seq(Execution)]
    BY <1>1, <2>2
  <2>4. QED
    BY <2>1, <2>3 DEF TypeInv, DataTypes
<1>7. QED
  BY <1>3, <1>4, <1>5, <1>6 DEF TypeInv, DataTypes, Unissued

LEMMA RunEndTypes ==
  ASSUME TypeInv, NEW t \in Workers, NEW ok \in BOOLEAN, RunEnd(t, ok)
  PROVE  TypeInv'
<1> DEFINE q == loc[t]
           x == RunOutcome(q)
<1>1. q \in Locals /\ pc[t] = "runEnd" /\ q.r \in 1..issued /\ q.r \in Runs
  BY Held DEF TypeInv, InScan, RunEnd, Enter, Goto
<1>2. Moves(t, "idle", IdleLocals) /\ issued' = issued
  BY DEF RunEnd, Enter, Goto, Moves
<1>3. ControlInv'
  BY <1>2, Idling, ControlTurn DEF TypeInv, Steps, InScan, Open, Closing
<1>4. x \in RunRecord
  <2>1. /\ Cardinality(q.found) \in Nat /\ q.repeats \in Nat
        /\ q.outcome \in {"completed", "failed"}
    BY <1>1, ScanRunConstants, FS_Subset, FS_CardinalityType DEF Locals
  <2>2. QED
    BY <2>1 DEF RunOutcome, RunRecord, NoRun
<1>5. /\ dbErrors' \in Nat /\ run' = [run EXCEPT ![q.r] = x]
      /\ runRow' = runRow \/ runRow' = [runRow EXCEPT ![q.r] = x]
      /\ UNCHANGED <<project, known, stage, hist, lineage, stageRow, histRow, lineageRow,
                     execs, crashes, deletion>>
  BY CommitTypes DEF RunEnd, Row, TypeInv, DataTypes
<1> HIDE DEF q, x
<1>6. run' \in [Runs -> RunRecord] /\ runRow' \in [Runs -> RunRecord]
  BY <1>1, <1>4, <1>5 DEF TypeInv, DataTypes
<1>7. \A r \in Runs : r > issued => r # q.r
  BY <1>1 DEF TypeInv, ControlInv, Runs
<1>8. \A r \in Runs : r # q.r => run'[r] = run[r] /\ runRow'[r] = runRow[r]
  BY <1>1, <1>5 DEF TypeInv, DataTypes
<1>9. Unissued(run)' /\ Unissued(runRow)'
  BY <1>2, <1>7, <1>8 DEF TypeInv, Unissued
<1>10. QED
  BY <1>3, <1>5, <1>6, <1>9 DEF TypeInv, DataTypes

LEMMA DeletionShape ==
  ASSUME TypeInv, NEW t \in Workers
  PROVE  /\ DeleteFindings(t) => pc[t] = "idle" /\ Moves(t, "delRuns", loc[t])
         /\ DeleteRuns(t) =>
              /\ pc[t] = "delRuns"
              /\ \E l \in Locals : /\ l.keys = {r \in Runs : run[r].status # "none"}
                                   /\ Moves(t, "delRows", l)
         /\ \A ok \in BOOLEAN : DeleteRows(t, ok) =>
              /\ pc[t] = "delRows"
              /\ Moves(t, IF ok THEN "delProject" ELSE "idle", IdleLocals)
         /\ \A ok \in BOOLEAN : DeleteProject(t, ok) =>
              pc[t] = "delProject" /\ Moves(t, "idle", loc[t])
<1>1. DeleteFindings(t) => pc[t] = "idle" /\ Moves(t, "delRuns", loc[t])
  BY Same DEF DeleteFindings, Goto, TypeInv
<1>2. ASSUME DeleteRuns(t)
      PROVE  /\ pc[t] = "delRuns"
             /\ \E l \in Locals : /\ l.keys = {r \in Runs : run[r].status # "none"}
                                  /\ Moves(t, "delRows", l)
  <2> DEFINE mine == {r \in Runs : run[r].status # "none"}
             l == [IdleLocals EXCEPT !.keys = mine]
  <2>1. mine \in SUBSET Runs
    OBVIOUS
  <2>2. pc[t] = "delRuns" /\ Moves(t, "delRows", l)
    BY <1>2 DEF DeleteRuns, Enter, Goto, Moves
  <2> HIDE DEF mine
  <2>3. l \in Locals /\ l.keys = mine
    BY <2>1, Idling DEF Locals
  <2> HIDE DEF l
  <2>4. QED
    BY <2>2, <2>3 DEF mine
<1>3. \A ok \in BOOLEAN : DeleteRows(t, ok) =>
        pc[t] = "delRows" /\ Moves(t, IF ok THEN "delProject" ELSE "idle", IdleLocals)
  BY DEF DeleteRows, Enter, Goto, Moves
<1>4. \A ok \in BOOLEAN : DeleteProject(t, ok) => pc[t] = "delProject" /\ Moves(t, "idle", loc[t])
  BY Same DEF DeleteProject, Goto, TypeInv
<1>5. QED
  BY <1>1, <1>2, <1>3, <1>4

LEMMA ClearedTypes ==
  ASSUME NEW S, NEW T \in [Runs -> S], NEW empty \in S, NEW mine
  PROVE  /\ Cleared(T, mine, empty) \in [Runs -> S]
         /\ \A r \in Runs : Cleared(T, mine, empty)[r] = IF r \in mine THEN empty ELSE T[r]
BY DEF Cleared

LEMMA DeletionTypes ==
  ASSUME TypeInv, NEW t \in Workers, NEW ok \in BOOLEAN,
         DeleteFindings(t) \/ DeleteRuns(t) \/ DeleteRows(t, ok) \/ DeleteProject(t, ok)
  PROVE  TypeInv'
<1>1. PICK p \in {"delRuns", "delRows", "delProject", "idle"}, l \in Locals : Moves(t, p, l)
  <2>1. loc[t] \in Locals /\ IdleLocals \in Locals
    BY Idling, Held DEF TypeInv
  <2>2. QED
    BY <2>1, DeletionShape
<1>2. issued' = issued
  BY DEF DeleteFindings, DeleteRuns, DeleteRows, DeleteProject, limits
<1>3. ControlInv'
  BY <1>1, <1>2, ControlTurn DEF TypeInv, Steps, InScan, Open, Closing
<1>4. <<>> \in Seq(Execution) /\ {} \in SUBSET Findings
  OBVIOUS
<1>5. DataTypes' /\ Unissued(run)' /\ Unissued(runRow)'
  <2>1. CASE DeleteFindings(t)
    BY <1>2, <2>1 DEF DeleteFindings, TypeInv, DataTypes, Unissued, memory, rows
  <2>2. CASE DeleteRuns(t)
    <3>1. PICK mine : /\ run' = Cleared(run, mine, NoRun) /\ stage' = Cleared(stage, mine, NoStages)
                      /\ hist' = Cleared(hist, mine, <<>>) /\ lineage' = Cleared(lineage, mine, {})
      BY <2>2 DEF DeleteRuns
    <3>2. run' \in [Runs -> RunRecord] /\ stage' \in [Runs -> [Stages -> StageRecord]]
      BY <3>1, ClearedTypes, ScanRecords DEF TypeInv, DataTypes
    <3>3. hist' \in [Runs -> Seq(Execution)] /\ lineage' \in [Runs -> SUBSET Findings]
      BY <1>4, <3>1, ClearedTypes DEF TypeInv, DataTypes
    <3>4. Unissued(run)'
      BY <1>2, <3>1, ClearedTypes DEF TypeInv, DataTypes, Unissued, NoRun, Cleared
    <3>5. QED
      BY <1>2, <2>2, <3>2, <3>3, <3>4 DEF DeleteRuns, TypeInv, DataTypes, Unissued, rows, limits
  <2>3. CASE DeleteRows(t, ok)
    <3>1. PICK mine : /\ runRow' = Row(ok, runRow, Cleared(runRow, mine, NoRun))
                      /\ stageRow' = Row(ok, stageRow, Cleared(stageRow, mine, NoStages))
                      /\ histRow' = Row(ok, histRow, Cleared(histRow, mine, <<>>))
                      /\ lineageRow' = Row(ok, lineageRow, Cleared(lineageRow, mine, {}))
      BY <2>3 DEF DeleteRows
    <3>2. runRow' \in [Runs -> RunRecord] /\ stageRow' \in [Runs -> [Stages -> StageRecord]]
      BY <3>1, ClearedTypes, ScanRecords DEF TypeInv, DataTypes, Row
    <3>3. histRow' \in [Runs -> Seq(Execution)] /\ lineageRow' \in [Runs -> SUBSET Findings]
      BY <1>4, <3>1, ClearedTypes DEF TypeInv, DataTypes, Row
    <3>4. Unissued(runRow)'
      BY <1>2, <3>1, ClearedTypes DEF TypeInv, DataTypes, Unissued, NoRun, Row, Cleared
    <3>5. dbErrors' \in Nat
      BY <2>3, CommitTypes DEF DeleteRows, TypeInv, DataTypes
    <3>6. QED
      BY <1>2, <2>3, <3>2, <3>3, <3>4, <3>5 DEF DeleteRows, TypeInv, DataTypes, Unissued, memory
  <2>4. CASE DeleteProject(t, ok)
    <3>1. dbErrors' \in Nat /\ project' \in BOOLEAN
      BY <2>4, CommitTypes DEF DeleteProject, TypeInv, DataTypes
    <3>2. QED
      BY <1>2, <2>4, <3>1 DEF DeleteProject, TypeInv, DataTypes, Unissued, memory, rows
  <2>5. QED
    BY <2>1, <2>2, <2>3, <2>4
<1>6. QED
  BY <1>3, <1>5 DEF TypeInv

LEMMA RestartTypes == ASSUME TypeInv, Restart PROVE TypeInv'
<1>1. /\ pc' = [u \in Workers |-> "idle"] /\ loc' = [u \in Workers |-> IdleLocals]
      /\ issued' = issued /\ run' = runRow /\ runRow' = runRow
      /\ hist' = [r \in Runs |-> Rehydrated(histRow[r])]
  BY DEF Restart, rows
<1>2. Creating(pc') = {} /\ issued <= MaxRuns
  BY <1>1, ScanRunConstants, FS_CardinalityType DEF Creating, TypeInv, ControlInv
<1>3. ControlInv'
  BY <1>1, <1>2, Idling, FS_EmptySet DEF TypeInv, ControlInv, Steps, InScan, Open, Closing
<1>4. hist' \in [Runs -> Seq(Execution)]
  BY <1>1, RehydratedFacts DEF TypeInv, DataTypes
<1>5. DataTypes'
  BY <1>4 DEF Restart, TypeInv, DataTypes, rows
<1>6. QED
  BY <1>1, <1>3, <1>5 DEF TypeInv, Unissued

LEMMA InitTypes == Init => TypeInv
<1> SUFFICES ASSUME Init PROVE TypeInv
  OBVIOUS
<1>1. /\ pc = [t \in Workers |-> "idle"] /\ loc = [t \in Workers |-> IdleLocals] /\ issued = 0
  BY DEF Init
<1>2. Creating(pc) = {}
  BY <1>1 DEF Creating
<1>3. ControlInv
  BY <1>1, <1>2, Idling, FS_EmptySet, MaxIsNat DEF ControlInv, Steps, InScan, Open, Closing
<1>4. DataTypes
  BY ScanRecords DEF Init, DataTypes
<1>5. Unissued(run) /\ Unissued(runRow)
  BY DEF Init, Unissued, NoRun
<1>6. QED
  BY <1>3, <1>4, <1>5 DEF TypeInv

(* The parts of a step, with the inputs of the handlers named. *)
LEMMA Cases ==
  ASSUME TypeInv, [Next]_vars
  PROVE  \/ Restart \/ UNCHANGED vars
         \/ \E t \in Workers :
              \/ ScanProject(t) \/ BegMem(t) \/ EndMem(t)
              \/ IterationRaises(t) \/ DeleteFindings(t) \/ DeleteRuns(t)
              \/ \E ok \in BOOLEAN :
                   \/ CreateRun(t, ok) \/ BegRow(t, ok) \/ AddLineage(t, ok) \/ EndExec(t, ok)
                   \/ EndRow(t, ok) \/ RunEnd(t, ok) \/ DeleteRows(t, ok) \/ DeleteProject(t, ok)
                   \/ BeginPrepare(t, ok) \/ BeginScan(t, ok)
                   \/ \E done \in SUBSET Stages, last \in Stages : RegisterStages(t, ok, done, last)
                   \/ \E r \in Runs, s \in UserStages, f \in Findings : BeginUserStage(t, ok, r, s, f)
                   \/ \E outcome \in {"completed", "failed"}, found \in SUBSET Findings, repeats \in Nat :
                        StageBody(t, ok, outcome, found, repeats)
<1>1. 0..MaxRepeats \subseteq Nat
  BY ScanRunConstants
<1>2. QED
  BY <1>1 DEF Next, Handle, Continue

LEMMA BeginOwnTypes ==
  ASSUME TypeInv, NEW t \in Workers, NEW ok \in BOOLEAN, BeginPrepare(t, ok) \/ BeginScan(t, ok)
  PROVE  TypeInv'
<1>1. PICK from \in {"prepare", "begin"}, s \in Stages :
        pc[t] = from /\ BeginExecution(t, from, ok, loc[t].r, s) /\ deletion' = deletion
  BY DEF BeginPrepare, BeginScan, BeginExecution, EnterStage, Stages
<1>2. PICK r \in Runs : r = loc[t].r /\ r <= issued
  BY <1>1, Held DEF TypeInv, InScan, Runs
<1>3. deletion' \in {"none", "alone", "overlapped"}
  BY <1>1 DEF TypeInv, DataTypes
<1>4. QED
  BY <1>1, <1>2, <1>3, BeginTypes

LEMMA BeginUserTypes ==
  ASSUME TypeInv, NEW t \in Workers, NEW ok \in BOOLEAN, NEW r \in Runs, NEW s \in UserStages, NEW f,
         BeginUserStage(t, ok, r, s, f)
  PROVE  TypeInv'
<1>1. /\ BeginExecution(t, "idle", ok, r, s) /\ deletion' \in {"none", "alone", "overlapped"}
      /\ run[r].status # "none"
  BY DEF BeginUserStage, StartsBesideDeletion, TypeInv, DataTypes
<1>2. r <= issued /\ s \in Stages
  BY <1>1 DEF TypeInv, ControlInv, Unissued, Runs, Stages
<1>3. QED
  BY <1>1, <1>2, BeginTypes

LEMMA TypeStep == TypeInv /\ [Next]_vars => TypeInv'
<1> SUFFICES ASSUME TypeInv, [Next]_vars PROVE TypeInv'
  OBVIOUS
<1>1. CASE UNCHANGED vars
  BY <1>1 DEF vars, TypeInv, DataTypes, ControlInv, Unissued, memory, rows, limits, Creating
<1>2. QED
  BY <1>1, Cases, RestartTypes, ScanProjectTypes, RegisterTypes, StageTypesStep, EndTypes,
     DeletionTypes, CreateRunTypes, LineageTypes, RunEndTypes, BeginOwnTypes, BeginUserTypes,
     BodyTypes

LEMMA TypeInvariant == Spec => []TypeInv
BY InitTypes, TypeStep, PTL DEF Spec

(* Every reachable state is well typed: rehydrated histories, runs closed   *)
(* by execute_scan and the locals of threads cut off in the middle.         *)
THEOREM ScanRunTypes == Spec => []TypeOK
<1>1. ASSUME TypeInv PROVE TypeOK
  <2>1. issued \in 0..MaxRuns
    <3>1. Cardinality(Creating(pc)) \in Nat
      BY <1>1, FS_CardinalityType DEF TypeInv, ControlInv
    <3>2. QED
      BY <1>1, <3>1, MaxIsNat DEF TypeInv, ControlInv
  <2>2. QED
    BY <1>1, <2>1 DEF TypeInv, DataTypes, ControlInv, TypeOK, Locals
<1>2. QED
  BY <1>1, TypeInvariant, PTL

----------------------------------------------------------------------------
(* Execution history and stage records. *)

HasCompleted(h, s) == \E k \in DOMAIN h : h[k].stage = s /\ h[k].status = "completed"
Count(h, s) == Cardinality(ExecutionsOf(h, s))

(* The execution of l is in h, and running. *)
IsRunning(h, l) ==
  /\ \E k \in DOMAIN h : h[k].id = l.id
  /\ \A k \in DOMAIN h : h[k].id = l.id => h[k].stage = l.stage /\ h[k].status = "running"

(* What a thread at p with locals l has recorded, in memory and in the rows *)
(* alike: the row of an execution is committed before the stage's.          *)
OwnExecution(p, l, h, hr, n) ==
  /\ p \in Open => l.id <= n /\ IsRunning(h[l.r], l) /\ IsRunning(hr[l.r], l)
  /\ p \in Closing /\ l.outcome = "completed" =>
       HasCompleted(h[l.r], l.stage) /\ HasCompleted(hr[l.r], l.stage)
  /\ p \in Closing \cup {"begMem", "begRow"} =>
       l.count <= Count(h[l.r], l.stage) /\ l.count <= Count(hr[l.r], l.stage)

(* A stage record that both histories account for. *)
Backed(x, h, hr, s) ==
  /\ x.count <= Count(h, s) /\ x.count <= Count(hr, s)
  /\ x.status = "completed" => HasCompleted(h, s) /\ HasCompleted(hr, s)

Numbered(T, n) == \A r \in Runs : \A k \in DOMAIN T[r] : T[r][k].id <= n

HistBody ==
  /\ \A t \in Workers : pc[t] \notin Deleting
  /\ Numbered(hist, execs) /\ Numbered(histRow, execs)
  /\ \A t \in Workers : OwnExecution(pc[t], loc[t], hist, histRow, execs)
  /\ \A t, u \in Workers : pc[t] \in Open /\ pc[u] \in Open /\ t # u => loc[t].id # loc[u].id
  /\ \A r \in Runs, s \in Stages : /\ Backed(stage[r][s], hist[r], histRow[r], s)
                                   /\ Backed(stageRow[r][s], hist[r], histRow[r], s)

HistInv == deletion = "none" => HistBody

(* What a step does to a history: nothing is taken away, what was over      *)
(* stays as it is, and no execution but i is touched.                       *)
Grown(h, g, i) ==
  /\ \A k \in DOMAIN h : /\ k \in DOMAIN g /\ g[k].id = h[k].id /\ g[k].stage = h[k].stage
                         /\ h[k].status # "running" => g[k] = h[k]
  /\ \A k \in DOMAIN g : g[k].id = i \/ (k \in DOMAIN h /\ g[k] = h[k])

LEMMA Entries ==
  ASSUME NEW h \in Seq(Execution)
  PROVE  \A k \in DOMAIN h : h[k] \in Execution /\ h[k].id \in Nat
<1>1. \A k \in DOMAIN h : h[k] \in Execution
  OBVIOUS
<1>2. QED
  BY <1>1 DEF Execution

LEMMA CountIsNat == ASSUME NEW h \in Seq(Execution), NEW s PROVE Count(h, s) \in Nat
<1>1. DOMAIN h = 1..Len(h) /\ Len(h) \in Nat
  OBVIOUS
<1>2. IsFiniteSet(1..Len(h)) /\ ExecutionsOf(h, s) \in SUBSET (1..Len(h))
  BY <1>1, FS_Interval DEF ExecutionsOf
<1>3. QED
  BY <1>2, FS_Subset, FS_CardinalityType DEF Count

LEMMA GrownCounts ==
  ASSUME NEW h \in Seq(Execution), NEW g \in Seq(Execution), NEW i, Grown(h, g, i), NEW s
  PROVE  Count(h, s) <= Count(g, s) /\ (HasCompleted(h, s) => HasCompleted(g, s))
<1>1. DOMAIN g = 1..Len(g) /\ Len(g) \in Nat
  OBVIOUS
<1>2. IsFiniteSet(1..Len(g)) /\ ExecutionsOf(g, s) \in SUBSET (1..Len(g))
  BY <1>1, FS_Interval DEF ExecutionsOf
<1>3. IsFiniteSet(ExecutionsOf(g, s))
  BY <1>2, FS_Subset
<1>4. ExecutionsOf(h, s) \in SUBSET ExecutionsOf(g, s)
  BY DEF Grown, ExecutionsOf
<1>5. Count(h, s) <= Count(g, s)
  BY <1>3, <1>4, FS_Subset DEF Count
<1>6. HasCompleted(h, s) => HasCompleted(g, s)
  BY DEF Grown, HasCompleted
<1>7. QED
  BY <1>5, <1>6

LEMMA GrownRunning ==
  ASSUME NEW h, NEW g, NEW i, NEW l, Grown(h, g, i), l.id # i, IsRunning(h, l)
  PROVE  IsRunning(g, l)
BY DEF Grown, IsRunning

LEMMA Unchanging == \A h, i : Grown(h, h, i)
BY DEF Grown

LEMMA HistTurn ==
  ASSUME TypeInv, TypeInv', HistBody, NEW t \in Workers, NEW p \in Steps \ Deleting, NEW l \in Locals, NEW i,
         Moves(t, p, l), execs <= execs',
         \A r \in Runs : Grown(hist[r], hist'[r], i) /\ Grown(histRow[r], histRow'[r], i),
         (i \in Nat /\ i <= execs') \/ UNCHANGED <<hist, histRow>>,
         \A u \in Workers \ {t} : pc[u] \in Open => loc[u].id # i,
         OwnExecution(p, l, hist', histRow', execs'),
         p \in Open => \A u \in Workers \ {t} : pc[u] \in Open => loc[u].id # l.id,
         \A r \in Runs, s \in Stages :
           /\ stage'[r][s] = stage[r][s] \/ Backed(stage'[r][s], hist'[r], histRow'[r], s)
           /\ stageRow'[r][s] = stageRow[r][s] \/ Backed(stageRow'[r][s], hist'[r], histRow'[r], s)
  PROVE  HistBody'
<1>1. /\ pc'[t] = p /\ loc'[t] = l
      /\ \A u \in Workers \ {t} : pc'[u] = pc[u] /\ loc'[u] = loc[u]
  BY DEF Moves, TypeInv, ControlInv
<1>2. execs \in Nat /\ execs' \in Nat
  BY DEF TypeInv, DataTypes
<1>3. ASSUME NEW r \in Runs, NEW s
      PROVE  /\ Count(hist[r], s) <= Count(hist'[r], s) /\ Count(histRow[r], s) <= Count(histRow'[r], s)
             /\ HasCompleted(hist[r], s) => HasCompleted(hist'[r], s)
             /\ HasCompleted(histRow[r], s) => HasCompleted(histRow'[r], s)
             /\ Count(hist[r], s) \in Nat /\ Count(histRow[r], s) \in Nat
             /\ Count(hist'[r], s) \in Nat /\ Count(histRow'[r], s) \in Nat
  <2>1. /\ hist[r] \in Seq(Execution) /\ hist'[r] \in Seq(Execution)
        /\ histRow[r] \in Seq(Execution) /\ histRow'[r] \in Seq(Execution)
    BY DEF TypeInv, DataTypes
  <2>2. QED
    BY <2>1, GrownCounts, CountIsNat
<1>4. \A u \in Workers : pc'[u] \notin Deleting
  BY <1>1 DEF HistBody
<1>5. Numbered(hist', execs') /\ Numbered(histRow', execs')
  <2>1. ASSUME NEW r \in Runs, NEW T, NEW T2, Grown(T, T2, i), i \in Nat, i <= execs', T2 \in Seq(Execution),
               \A k \in DOMAIN T : T[k].id <= execs, NEW k \in DOMAIN T2
        PROVE  T2[k].id <= execs'
    <3>1. T2[k].id \in Nat
      BY <2>1, Entries
    <3>2. T2[k].id = i \/ T2[k].id <= execs
      BY <2>1 DEF Grown
    <3>3. QED
      BY <1>2, <2>1, <3>1, <3>2
  <2>2. ASSUME NEW r \in Runs
        PROVE  hist'[r] \in Seq(Execution) /\ histRow'[r] \in Seq(Execution)
    BY DEF TypeInv, DataTypes
  <2>3. CASE i \in Nat /\ i <= execs'
    BY <2>1, <2>2, <2>3 DEF HistBody, Numbered
  <2>4. CASE UNCHANGED <<hist, histRow>>
    <3>1. ASSUME NEW r \in Runs, NEW k, k \in DOMAIN hist[r] PROVE hist[r][k].id <= execs'
      BY <1>2, <2>2, <2>4, <3>1, Entries DEF HistBody, Numbered
    <3>2. ASSUME NEW r \in Runs, NEW k, k \in DOMAIN histRow[r] PROVE histRow[r][k].id <= execs'
      BY <1>2, <2>2, <2>4, <3>2, Entries DEF HistBody, Numbered
    <3>3. QED
      BY <2>4, <3>1, <3>2 DEF Numbered
  <2>5. QED
    BY <2>3, <2>4
<1>6. ASSUME NEW u \in Workers PROVE OwnExecution(pc'[u], loc'[u], hist', histRow', execs')
  <2>1. CASE u = t
    BY <1>1, <2>1
  <2>2. CASE u # t
    <3>1. pc'[u] = pc[u] /\ loc'[u] = loc[u]
      BY <1>1, <2>2
    <3>2. OwnExecution(pc[u], loc[u], hist, histRow, execs)
      BY DEF HistBody
    <3>3. /\ loc[u] \in Locals
          /\ pc[u] \in Open \cup Closing => loc[u].r \in Runs
      BY Held DEF TypeInv, InScan
    <3> DEFINE q == loc[u]
               c == pc[u]
    <3> HIDE DEF q, c
    <3>4. q \in Locals /\ (c \in Open \cup Closing => q.r \in Runs)
          /\ OwnExecution(c, q, hist, histRow, execs) /\ (c \in Open => q.id # i)
      BY <2>2, <3>2, <3>3 DEF q, c
    <3>5. c \in Open => q.id <= execs' /\ IsRunning(hist'[q.r], q) /\ IsRunning(histRow'[q.r], q)
      BY <1>2, <3>4, GrownRunning DEF OwnExecution, Locals
    <3>6. c \in Closing /\ q.outcome = "completed" =>
            HasCompleted(hist'[q.r], q.stage) /\ HasCompleted(histRow'[q.r], q.stage)
      BY <1>3, <3>4 DEF OwnExecution
    <3>7. c \in Closing \cup {"begMem", "begRow"} =>
            q.count <= Count(hist'[q.r], q.stage) /\ q.count <= Count(histRow'[q.r], q.stage)
      <4>1. q.count \in Nat
        BY <3>4 DEF Locals
      <4>2. QED
        BY <1>3, <3>4, <4>1 DEF OwnExecution, Open
    <3>8. OwnExecution(c, q, hist', histRow', execs')
      BY <3>5, <3>6, <3>7 DEF OwnExecution
    <3>9. QED
      BY <3>1, <3>8 DEF q, c
  <2>3. QED
    BY <2>1, <2>2
<1>7. \A u, v \in Workers : pc'[u] \in Open /\ pc'[v] \in Open /\ u # v => loc'[u].id # loc'[v].id
  BY <1>1 DEF HistBody
<1>8. ASSUME NEW r \in Runs, NEW s \in Stages, NEW x \in StageRecord, Backed(x, hist[r], histRow[r], s)
      PROVE  Backed(x, hist'[r], histRow'[r], s)
  <2>1. x.count \in Nat
    BY DEF StageRecord
  <2>2. QED
    BY <1>3, <1>8, <2>1 DEF Backed
<1>9. ASSUME NEW r \in Runs, NEW s \in Stages
      PROVE  /\ Backed(stage'[r][s], hist'[r], histRow'[r], s)
             /\ Backed(stageRow'[r][s], hist'[r], histRow'[r], s)
  <2>1. stage[r][s] \in StageRecord /\ stageRow[r][s] \in StageRecord
    BY DEF TypeInv, DataTypes
  <2>2. QED
    BY <1>8, <2>1 DEF HistBody
<1>10. QED
  BY <1>4, <1>5, <1>6, <1>7, <1>9 DEF HistBody

LEMMA AppendGrows ==
  ASSUME NEW h \in Seq(Execution), NEW e \in Execution
  PROVE  LET g == Append(h, e) IN
         /\ g \in Seq(Execution) /\ Grown(h, g, e.id)
         /\ Count(g, e.stage) = Count(h, e.stage) + 1
         /\ e.status = "completed" => HasCompleted(g, e.stage)
         /\ e.status = "running" /\ (\A k \in DOMAIN h : h[k].id # e.id) =>
              \A l : l.id = e.id /\ l.stage = e.stage => IsRunning(g, l)
<1> DEFINE g == Append(h, e)
           n == Len(h)
<1>1. /\ DOMAIN h = 1..n /\ n \in Nat /\ g \in Seq(Execution)
      /\ DOMAIN g = 1..(n + 1) /\ g[n + 1] = e /\ \A k \in 1..n : g[k] = h[k]
  OBVIOUS
<1> HIDE DEF g, n
<1>2. Grown(h, g, e.id)
  BY <1>1 DEF Grown
<1>3. Count(g, e.stage) = Count(h, e.stage) + 1
  <2>1. ExecutionsOf(g, e.stage) = ExecutionsOf(h, e.stage) \cup {n + 1}
    BY <1>1 DEF ExecutionsOf
  <2>2. n + 1 \notin ExecutionsOf(h, e.stage)
    BY <1>1 DEF ExecutionsOf
  <2>3. IsFiniteSet(1..n) /\ ExecutionsOf(h, e.stage) \in SUBSET (1..n)
    BY <1>1, FS_Interval DEF ExecutionsOf
  <2>4. IsFiniteSet(ExecutionsOf(h, e.stage))
    BY <2>3, FS_Subset
  <2>5. QED
    BY <2>1, <2>2, <2>4, FS_AddElement DEF Count
<1>4. e.status = "completed" => HasCompleted(g, e.stage)
  BY <1>1 DEF HasCompleted
<1>5. e.status = "running" /\ (\A k \in DOMAIN h : h[k].id # e.id) =>
        \A l : l.id = e.id /\ l.stage = e.stage => IsRunning(g, l)
  BY <1>1 DEF IsRunning
<1>6. QED
  BY <1>1, <1>2, <1>3, <1>4, <1>5 DEF g

LEMMA FinishedGrows ==
  ASSUME NEW h \in Seq(Execution), NEW l \in Locals, IsRunning(h, l)
  PROVE  LET g == Finished(h, l) IN
         /\ Grown(h, g, l.id) /\ \A s : Count(g, s) = Count(h, s)
         /\ l.outcome = "completed" => HasCompleted(g, l.stage)
<1> DEFINE g == Finished(h, l)
<1>1. /\ g \in Seq(Execution) /\ DOMAIN g = DOMAIN h
      /\ \A k \in DOMAIN h : /\ g[k].id = h[k].id /\ g[k].stage = h[k].stage
                             /\ h[k].id # l.id => g[k] = h[k]
                             /\ h[k].id = l.id => g[k].status = l.outcome
  BY FinishedFacts
<1> HIDE DEF g
<1>2. Grown(h, g, l.id)
  BY <1>1 DEF Grown, IsRunning
<1>3. \A s : ExecutionsOf(g, s) = ExecutionsOf(h, s)
  BY <1>1 DEF ExecutionsOf
<1>4. l.outcome = "completed" => HasCompleted(g, l.stage)
  BY <1>1 DEF IsRunning, HasCompleted
<1>5. QED
  BY <1>2, <1>3, <1>4 DEF g, Count

LEMMA FreshNumber ==
  ASSUME TypeInv, HistBody
  PROVE  /\ execs + 1 \in Nat
         /\ \A u \in Workers : pc[u] \in Open => loc[u].id # execs + 1
         /\ \A r \in Runs : \A k \in DOMAIN hist[r] : hist[r][k].id # execs + 1
         /\ \A r \in Runs : \A k \in DOMAIN histRow[r] : histRow[r][k].id # execs + 1
<1>1. execs \in Nat
  BY DEF TypeInv, DataTypes
<1>2. \A u \in Workers : pc[u] \in Open => loc[u].id \in Nat /\ loc[u].id <= execs
  BY Held DEF TypeInv, HistBody, OwnExecution, Locals
<1>3. \A r \in Runs : hist[r] \in Seq(Execution) /\ histRow[r] \in Seq(Execution)
  BY DEF TypeInv, DataTypes
<1>4. ASSUME NEW r \in Runs, NEW k, k \in DOMAIN hist[r] PROVE hist[r][k].id # execs + 1
  BY <1>1, <1>3, <1>4, Entries DEF HistBody, Numbered
<1>5. ASSUME NEW r \in Runs, NEW k, k \in DOMAIN histRow[r] PROVE histRow[r][k].id # execs + 1
  BY <1>1, <1>3, <1>5, Entries DEF HistBody, Numbered
<1>6. QED
  BY <1>1, <1>2, <1>4, <1>5

(* The steps that leave histories and stage records alone. *)
LEMMA HistQuiet ==
  ASSUME TypeInv, TypeInv', HistBody, NEW t \in Workers, NEW p \in Steps \ Deleting, NEW l \in Locals,
         Moves(t, p, l), UNCHANGED <<hist, histRow, stage, stageRow, execs>>,
         OwnExecution(p, l, hist, histRow, execs),
         p \in Open => pc[t] \in Open /\ l.id = loc[t].id
  PROVE  HistBody'
<1>1. PICK i \in Nat : i = execs + 1
  BY FreshNumber
<1>2. \A r \in Runs : Grown(hist[r], hist'[r], i) /\ Grown(histRow[r], histRow'[r], i)
  BY Unchanging
<1>3. \A u \in Workers \ {t} : pc[u] \in Open => loc[u].id # i
  BY <1>1, FreshNumber
<1>4. p \in Open => \A u \in Workers \ {t} : pc[u] \in Open => loc[u].id # l.id
  BY DEF HistBody
<1>5. OwnExecution(p, l, hist', histRow', execs')
  OBVIOUS
<1>6. execs <= execs'
  BY DEF TypeInv, DataTypes
<1>7. \A r \in Runs, s \in Stages : stage'[r][s] = stage[r][s] /\ stageRow'[r][s] = stageRow[r][s]
  OBVIOUS
<1>8. QED
  BY <1>2, <1>3, <1>4, <1>5, <1>6, <1>7, HistTurn

LEMMA ElsewhereOwns ==
  \A p, l, h, hr, n : p \notin Open \cup Closing => OwnExecution(p, l, h, hr, n)
BY DEF OwnExecution, Open

LEMMA HistQuietSteps ==
  ASSUME TypeInv, TypeInv', HistBody, NEW t \in Workers, NEW ok \in BOOLEAN,
         ScanProject(t) \/ CreateRun(t, ok) \/ IterationRaises(t) \/ RunEnd(t, ok)
  PROVE  HistBody'
<1>1. UNCHANGED <<hist, histRow, stage, stageRow, execs>>
  BY DEF ScanProject, CreateRun, IterationRaises, RunEnd, memory, rows, limits
<1>2. PICK p \in {"create", "register", "idle", "runEnd"}, l \in Locals : Moves(t, p, l)
  <2>1. CASE ScanProject(t)
    <3>1. Moves(t, "create", loc[t]) /\ loc[t] \in Locals
      BY <2>1, Same, Held DEF ScanProject, Goto, TypeInv
    <3>2. QED
      BY <3>1
  <2>2. CASE CreateRun(t, ok)
    <3>1. PICK l \in Locals : Moves(t, IF ok THEN "register" ELSE "idle", l)
      BY <2>2, CreateShape
    <3>2. QED
      BY <3>1
  <2>3. CASE RunEnd(t, ok)
    <3>1. Moves(t, "idle", IdleLocals)
      BY <2>3 DEF RunEnd, Enter, Goto, Moves
    <3>2. QED
      BY <3>1, Idling
  <2>4. CASE IterationRaises(t)
    <3>1. PICK l \in Locals : Moves(t, AfterError(l), l)
      BY <2>4, IterationShape
    <3>2. QED
      BY <3>1, Errors
  <2>5. QED
    BY <2>1, <2>2, <2>3, <2>4
<1>3. p \in Steps \ Deleting /\ p \notin Open \cup Closing
  BY DEF Steps, Deleting, Open, Closing
<1>4. QED
  BY <1>1, <1>2, <1>3, ElsewhereOwns, HistQuiet

LEMMA HistBodySteps ==
  ASSUME TypeInv, TypeInv', HistBody, NEW t \in Workers, NEW ok \in BOOLEAN,
         \/ AddLineage(t, ok)
         \/ \E outcome \in {"completed", "failed"}, found \in SUBSET Findings, repeats \in Nat :
              StageBody(t, ok, outcome, found, repeats)
  PROVE  HistBody'
<1> DEFINE q == loc[t]
<1>1. UNCHANGED <<hist, histRow, stage, stageRow, execs>>
  BY DEF AddLineage, StageBody, memory, rows, limits
<1>2. pc[t] \in Open /\ q \in Locals
  BY LineageShape, BodyShape, Held DEF Open, TypeInv
<1>3. PICK p \in {"lineage", "endExec"}, l \in Locals :
        Moves(t, p, l) /\ l.r = q.r /\ l.stage = q.stage /\ l.id = q.id
  <2>1. CASE AddLineage(t, ok)
    BY <2>1, LineageShape
  <2>2. ASSUME NEW outcome \in {"completed", "failed"}, NEW found \in SUBSET Findings,
               NEW repeats \in Nat, StageBody(t, ok, outcome, found, repeats)
        PROVE  \E p \in {"lineage", "endExec"}, l \in Locals :
                 Moves(t, p, l) /\ l.r = q.r /\ l.stage = q.stage /\ l.id = q.id
    <3>1. PICK l \in Locals :
            /\ l.r = q.r /\ l.stage = q.stage /\ l.id = q.id
            /\ Moves(t, IF q.stage = "SCAN" /\ outcome = "completed" THEN "lineage" ELSE "endExec", l)
      BY <2>2, BodyShape
    <3>2. QED
      BY <3>1
  <2>3. QED
    BY <2>1, <2>2
<1>4. OwnExecution(pc[t], q, hist, histRow, execs)
  BY DEF HistBody
<1> HIDE DEF q
<1>5. OwnExecution(p, l, hist, histRow, execs)
  BY <1>2, <1>3, <1>4 DEF OwnExecution, IsRunning, Open, Closing
<1>6. p \in Steps \ Deleting
  BY DEF Steps, Deleting
<1>7. p \in Open => pc[t] \in Open /\ l.id = loc[t].id
  BY <1>2, <1>3 DEF q
<1>8. QED
  BY <1>1, <1>3, <1>5, <1>6, <1>7, HistQuiet

LEMMA HistStageSteps ==
  ASSUME TypeInv, TypeInv', HistBody, NEW t \in Workers, NEW ok \in BOOLEAN,
         BegMem(t) \/ BegRow(t, ok) \/ EndMem(t) \/ EndRow(t, ok)
  PROVE  HistBody'
<1> DEFINE q == loc[t]
           status == IF pc[t] \in Closing THEN q.outcome ELSE "running"
           x == [status |-> status, count |-> q.count]
<1>1. /\ pc[t] \in Closing \cup {"begMem", "begRow"} /\ q \in Locals /\ q.r \in Runs
      /\ q.stage \in Stages
  <2>1. pc[t] \in Closing \cup {"begMem", "begRow"}
    BY DEF BegMem, BegRow, EndMem, EndRow, EnterStage, Goto, Closing
  <2>2. QED
    BY <2>1, Held DEF TypeInv, InScan, Open, Closing, Locals
<1>2. /\ stage' = stage \/ stage' = [stage EXCEPT ![q.r][q.stage] = x]
      /\ stageRow' = stageRow \/ stageRow' = [stageRow EXCEPT ![q.r][q.stage] = x]
      /\ hist' = hist /\ histRow' = histRow /\ execs' = execs
  BY DEF BegMem, BegRow, EndMem, EndRow, EnterStage, Goto, Closing, StageWrite, Row, memory, rows, limits
<1>3. OwnExecution(pc[t], q, hist, histRow, execs)
  BY DEF HistBody
<1>4. PICK p \in Steps \ Deleting, l \in Locals :
        /\ Moves(t, p, l)
        /\ \/ p \notin Open \cup Closing
           \/ /\ l = q
              /\ (p = "begRow" /\ pc[t] = "begMem") \/ (p = "endRow" /\ pc[t] = "endMem")
           \/ /\ l.r = q.r /\ l.stage = q.stage /\ l.id = q.id
              /\ p \in {"body", "endExec"} /\ pc[t] = "begRow"
  <2>1. /\ BegMem(t) => Moves(t, "begRow", q) /\ pc[t] = "begMem"
        /\ EndMem(t) => Moves(t, "endRow", q) /\ pc[t] = "endMem"
    BY Same DEF BegMem, EndMem, Goto, TypeInv
  <2>2. ASSUME BegRow(t, ok)
        PROVE  /\ pc[t] = "begRow"
               /\ \E l \in Locals : /\ l.r = q.r /\ l.stage = q.stage /\ l.id = q.id
                                    /\ Moves(t, IF ~ ok THEN AfterError(l)
                                                ELSE IF q.stage = "PREPARE" THEN "endExec" ELSE "body", l)
    BY <2>2, BegRowShape
  <2>3. ASSUME EndRow(t, ok)
        PROVE  \E l \in Locals : l.stage = q.stage /\ Moves(t, IF ok THEN AfterStage(q) ELSE AfterError(l), l)
    BY <1>1, <2>3, CommitShape DEF EndRow
  <2>4. \A l : AfterStage(l) \in {"begin", "runEnd", "idle"} /\ AfterError(l) \in {"begin", "runEnd", "idle"}
    BY Errors DEF AfterStage
  <2>5. {"begin", "runEnd", "idle"} \subseteq (Steps \ Deleting) \ (Open \cup Closing)
        /\ {"body", "endExec", "begRow", "endRow"} \subseteq Steps \ Deleting
    BY DEF Steps, Deleting, Open, Closing
  <2>6. CASE BegMem(t)
    BY <1>1, <2>1, <2>5, <2>6
  <2>7. CASE EndMem(t)
    BY <1>1, <2>1, <2>5, <2>7
  <2>8. CASE BegRow(t, ok)
    BY <2>2, <2>4, <2>5, <2>8
  <2>9. CASE EndRow(t, ok)
    BY <2>3, <2>4, <2>5, <2>9
  <2>10. QED
    BY <2>6, <2>7, <2>8, <2>9
<1>5. Backed(x, hist[q.r], histRow[q.r], q.stage)
  <2>1. x.status = status /\ x.count = q.count
    OBVIOUS
  <2>2. QED
    BY <1>1, <1>3, <2>1 DEF OwnExecution, Backed
<1> HIDE DEF q, x
<1>6. OwnExecution(p, l, hist, histRow, execs)
  BY <1>3, <1>4 DEF OwnExecution, IsRunning, Open, Closing
<1>7. p \in Open => pc[t] \in Open /\ l.id = loc[t].id
  BY <1>4 DEF q, Open, Closing
<1>8. PICK i \in Nat : i = execs + 1
  BY FreshNumber
<1>9. \A r \in Runs : Grown(hist[r], hist'[r], i) /\ Grown(histRow[r], histRow'[r], i)
  BY <1>2, Unchanging
<1>10. \A u \in Workers \ {t} : pc[u] \in Open => loc[u].id # i
  BY <1>8, FreshNumber
<1>11. p \in Open => \A u \in Workers \ {t} : pc[u] \in Open => loc[u].id # l.id
  BY <1>7 DEF HistBody
<1>12. execs <= execs' /\ OwnExecution(p, l, hist', histRow', execs')
  BY <1>2, <1>6 DEF TypeInv, DataTypes
<1>13. ASSUME NEW r \in Runs, NEW s \in Stages
       PROVE  /\ stage'[r][s] = stage[r][s] \/ Backed(stage'[r][s], hist'[r], histRow'[r], s)
              /\ stageRow'[r][s] = stageRow[r][s] \/ Backed(stageRow'[r][s], hist'[r], histRow'[r], s)
  <2>1. \A T \in [Runs -> [Stages -> StageRecord]] :
          \/ [T EXCEPT ![q.r][q.stage] = x][r][s] = T[r][s]
          \/ r = q.r /\ s = q.stage /\ [T EXCEPT ![q.r][q.stage] = x][r][s] = x
    BY <1>1
  <2>2. stage \in [Runs -> [Stages -> StageRecord]] /\ stageRow \in [Runs -> [Stages -> StageRecord]]
    BY DEF TypeInv, DataTypes
  <2>3. QED
    BY <1>2, <1>5, <2>1, <2>2
<1>14. UNCHANGED <<hist, histRow>>
  BY <1>2
<1>15. QED
  BY <1>4, <1>9, <1>10, <1>11, <1>12, <1>13, <1>14, HistTurn

LEMMA HistBegin ==
  ASSUME TypeInv, TypeInv', HistBody, NEW t \in Workers, NEW ok \in BOOLEAN, NEW from,
         NEW r \in Runs, NEW s \in Stages, BeginExecution(t, from, ok, r, s)
  PROVE  HistBody'
<1>1. PICK i \in Nat : i = execs + 1
  BY FreshNumber
<1>2. PICK e \in Execution : e = [id |-> execs + 1, stage |-> s, status |-> "running"]
  BY FreshNumber DEF Execution
<1>3. e.id = i /\ e.stage = s /\ e.status = "running"
  BY <1>1, <1>2
<1>4. PICK l \in Locals :
        /\ l.r = r /\ l.stage = s /\ l.id = i /\ l.count = stage[r][s].count + 1
        /\ l.outcome = "failed" /\ Moves(t, IF ok THEN "begMem" ELSE AfterError(l), l)
  BY <1>1, BeginShape
<1>5. PICK p \in Steps \ Deleting : /\ Moves(t, p, l)
                                    /\ (ok /\ p = "begMem") \/ p \notin Open \cup Closing
  BY <1>4, Errors DEF Steps, Deleting, Open, Closing
<1>6. /\ hist' = [hist EXCEPT ![r] = Append(@, e)]
      /\ IF ok THEN histRow' = [histRow EXCEPT ![r] = Append(@, e)] ELSE histRow' = histRow
      /\ execs' = i /\ UNCHANGED <<stage, stageRow>>
  BY <1>1, <1>2 DEF BeginExecution, Row
<1>7. hist \in [Runs -> Seq(Execution)] /\ histRow \in [Runs -> Seq(Execution)]
  BY DEF TypeInv, DataTypes
<1>8. ASSUME NEW v \in Runs
      PROVE  Grown(hist[v], hist'[v], i) /\ Grown(histRow[v], histRow'[v], i)
  <2>1. CASE v = r
    <3>1. /\ hist'[r] = Append(hist[r], e)
          /\ histRow'[r] = Append(histRow[r], e) \/ histRow'[r] = histRow[r]
      BY <1>6, <1>7
    <3>2. QED
      BY <1>3, <1>7, <2>1, <3>1, AppendGrows, Unchanging
  <2>2. CASE v # r
    BY <1>6, <1>7, <2>2, Unchanging
  <2>3. QED
    BY <2>1, <2>2
<1>9. OwnExecution(p, l, hist', histRow', execs')
  <2>1. CASE p \notin Open \cup Closing
    BY <2>1, ElsewhereOwns
  <2>2. CASE ok /\ p = "begMem"
    <3>1. hist'[r] = Append(hist[r], e) /\ histRow'[r] = Append(histRow[r], e)
      BY <1>6, <1>7, <2>2
    <3>2. /\ Count(hist'[r], s) = Count(hist[r], s) + 1
          /\ Count(histRow'[r], s) = Count(histRow[r], s) + 1
      BY <1>3, <1>7, <3>1, AppendGrows
    <3>3. IsRunning(hist'[r], l) /\ IsRunning(histRow'[r], l)
      BY <1>1, <1>3, <1>4, <1>7, <3>1, AppendGrows, FreshNumber
    <3>4. /\ stage[r][s].count <= Count(hist[r], s) /\ stage[r][s].count <= Count(histRow[r], s)
          /\ stage[r][s].count \in Nat /\ Count(hist[r], s) \in Nat /\ Count(histRow[r], s) \in Nat
      BY <1>7, CountIsNat DEF HistBody, Backed, TypeInv, DataTypes, StageRecord
    <3>5. l.count <= Count(hist'[r], s) /\ l.count <= Count(histRow'[r], s)
      BY <1>4, <3>2, <3>4
    <3>6. QED
      BY <1>4, <1>6, <2>2, <3>3, <3>5 DEF OwnExecution, Closing
  <2>3. QED
    BY <1>5, <2>1, <2>2
<1>10. \A u \in Workers \ {t} : pc[u] \in Open => loc[u].id # i
  BY <1>1, FreshNumber
<1>11. execs <= execs' /\ i <= execs'
  BY <1>1, <1>6 DEF TypeInv, DataTypes
<1>12. \A v \in Runs, w \in Stages : stage'[v][w] = stage[v][w] /\ stageRow'[v][w] = stageRow[v][w]
  BY <1>6
<1>13. QED
  BY <1>4, <1>5, <1>8, <1>9, <1>10, <1>11, <1>12, HistTurn

LEMMA HistRegister ==
  ASSUME TypeInv, TypeInv', HistBody, NEW t \in Workers, NEW ok \in BOOLEAN, NEW done, NEW last,
         RegisterStages(t, ok, done, last)
  PROVE  HistBody'
<1>1. PICK i \in Nat : i = execs + 1
  BY FreshNumber
<1>2. PICK r \in Runs : r = loc[t].r
  BY RegisterShape
<1>3. PICK S : /\ stage' = [stage EXCEPT ![r] = Pending(@, done)]
               /\ stageRow' = [stageRow EXCEPT ![r] = Pending(@, S)]
  BY <1>2, RegisterShape
<1>4. hist' = hist /\ histRow' = histRow /\ execs' = execs
  BY DEF RegisterStages
<1>5. /\ stage \in [Runs -> [Stages -> StageRecord]] /\ stageRow \in [Runs -> [Stages -> StageRecord]]
      /\ hist \in [Runs -> Seq(Execution)] /\ histRow \in [Runs -> Seq(Execution)]
  BY DEF TypeInv, DataTypes
<1>6. ASSUME NEW v \in Runs, NEW s \in Stages
      PROVE  /\ stage'[v][s] = stage[v][s] \/ Backed(stage'[v][s], hist'[v], histRow'[v], s)
             /\ stageRow'[v][s] = stageRow[v][s] \/ Backed(stageRow'[v][s], hist'[v], histRow'[v], s)
  <2>1. Count(hist[v], s) \in Nat /\ Count(histRow[v], s) \in Nat
    BY <1>5, CountIsNat
  <2>2. \A x : x.count = 0 /\ x.status # "completed" => Backed(x, hist[v], histRow[v], s)
    BY <2>1 DEF Backed
  <2>3. CASE v = r
    <3>1. stage'[v] = Pending(stage[v], done) /\ stageRow'[v] = Pending(stageRow[v], S)
      BY <1>3, <1>5, <2>3
    <3>2. stage[v] \in [Stages -> StageRecord] /\ stageRow[v] \in [Stages -> StageRecord]
      BY <1>5
    <3>3. QED
      BY <1>4, <2>2, <3>1, <3>2, PendingFacts
  <2>4. CASE v # r
    BY <1>3, <1>5, <2>4
  <2>5. QED
    BY <2>3, <2>4
<1>7. PICK p \in {"prepare", "idle"} : Moves(t, p, loc[t]) /\ loc[t] \in Locals
  BY RegisterShape
<1>8. p \in Steps \ Deleting /\ p \notin Open \cup Closing
  BY DEF Steps, Deleting, Open, Closing
<1>9. OwnExecution(p, loc[t], hist', histRow', execs')
  BY <1>8, ElsewhereOwns
<1>10. \A v \in Runs : Grown(hist[v], hist'[v], i) /\ Grown(histRow[v], histRow'[v], i)
  BY <1>4, Unchanging
<1>11. \A u \in Workers \ {t} : pc[u] \in Open => loc[u].id # i
  BY <1>1, FreshNumber
<1>12. execs <= execs'
  BY <1>4 DEF TypeInv, DataTypes
<1>13. QED
  BY <1>4, <1>6, <1>7, <1>8, <1>9, <1>10, <1>11, <1>12, HistTurn

LEMMA HistEnd ==
  ASSUME TypeInv, TypeInv', HistBody, NEW t \in Workers, NEW ok \in BOOLEAN, EndExec(t, ok)
  PROVE  HistBody'
<1>1. PICK q \in Locals : q = loc[t]
  BY Held DEF TypeInv
<1>2. pc[t] = "endExec"
  BY EndShape
<1>3. PICK r \in Runs, s \in Stages : r = q.r /\ s = q.stage
  BY <1>1, <1>2, Held DEF TypeInv, InScan, Open, Locals
<1>4. PICK i \in Nat : i = q.id
  BY DEF Locals
<1>5. OwnExecution(pc[t], q, hist, histRow, execs)
  BY <1>1 DEF HistBody
<1>6. i <= execs /\ IsRunning(hist[r], q) /\ IsRunning(histRow[r], q)
  BY <1>2, <1>3, <1>4, <1>5 DEF OwnExecution, Open
<1>7. PICK l \in Locals :
        /\ l.r = r /\ l.stage = s /\ l.id = i /\ l.count = stage[r][s].count
        /\ l.outcome = IF ok THEN q.outcome ELSE "failed"
        /\ Moves(t, IF ok THEN "endMem" ELSE AfterError(l), l)
  BY <1>1, <1>3, <1>4, EndShape
<1>8. RecordedInMemory(q)
  BY <1>3, <1>6 DEF RecordedInMemory, IsRunning
<1>9. /\ hist' = [hist EXCEPT ![r] = Finished(@, q)]
      /\ histRow' = IF ok THEN [histRow EXCEPT ![r] = Upserted(@, q)] ELSE histRow
      /\ UNCHANGED <<stage, stageRow, execs>>
  BY <1>1, <1>3, <1>8 DEF EndExec, EndExecution, Row
<1>10. hist \in [Runs -> Seq(Execution)] /\ histRow \in [Runs -> Seq(Execution)]
  BY DEF TypeInv, DataTypes
<1>11. /\ hist'[r] = Finished(hist[r], q)
       /\ histRow'[r] = IF ok THEN Finished(histRow[r], q) ELSE histRow[r]
       /\ \A v \in Runs : v # r => hist'[v] = hist[v] /\ histRow'[v] = histRow[v]
  <2>1. Upserted(histRow[r], q) = Finished(histRow[r], q)
    BY <1>6, <1>10, UpsertedFacts DEF IsRunning
  <2>2. QED
    BY <1>9, <1>10, <2>1
<1>12. /\ Grown(hist[r], hist'[r], i) /\ \A w : Count(hist'[r], w) = Count(hist[r], w)
       /\ q.outcome = "completed" => HasCompleted(hist'[r], s)
  BY <1>3, <1>4, <1>6, <1>10, <1>11, FinishedGrows
<1>13. /\ Grown(histRow[r], histRow'[r], i) /\ \A w : Count(histRow'[r], w) = Count(histRow[r], w)
       /\ ok /\ q.outcome = "completed" => HasCompleted(histRow'[r], s)
  <2>1. CASE ok
    BY <1>3, <1>4, <1>6, <1>10, <1>11, <2>1, FinishedGrows
  <2>2. CASE ~ ok
    BY <1>11, <2>2, Unchanging
  <2>3. QED
    BY <2>1, <2>2
<1>14. \A v \in Runs : Grown(hist[v], hist'[v], i) /\ Grown(histRow[v], histRow'[v], i)
  BY <1>11, <1>12, <1>13, Unchanging
<1>15. PICK p \in Steps \ Deleting : /\ Moves(t, p, l)
                                     /\ (ok /\ p = "endMem") \/ p \notin Open \cup Closing
  BY <1>7, Errors DEF Steps, Deleting, Open, Closing
<1>16. OwnExecution(p, l, hist', histRow', execs')
  <2>1. CASE p \notin Open \cup Closing
    BY <2>1, ElsewhereOwns
  <2>2. CASE ok /\ p = "endMem"
    <3>1. l.count <= Count(hist'[r], s) /\ l.count <= Count(histRow'[r], s)
      BY <1>7, <1>12, <1>13 DEF HistBody, Backed
    <3>2. QED
      BY <1>7, <1>12, <1>13, <2>2, <3>1 DEF OwnExecution, Open, Closing
  <2>3. QED
    BY <1>15, <2>1, <2>2
<1>17. \A u \in Workers \ {t} : pc[u] \in Open => loc[u].id # i
  BY <1>1, <1>2, <1>4 DEF HistBody, Open
<1>18. execs <= execs' /\ i <= execs'
  BY <1>6, <1>9 DEF TypeInv, DataTypes
<1>19. p \in Open => \A u \in Workers \ {t} : pc[u] \in Open => loc[u].id # l.id
  BY <1>7, <1>17
<1>20. \A v \in Runs, w \in Stages : stage'[v][w] = stage[v][w] /\ stageRow'[v][w] = stageRow[v][w]
  BY <1>9
<1>21. QED
  BY <1>14, <1>15, <1>16, <1>17, <1>18, <1>19, <1>20, HistTurn

LEMMA RehydratedKeeps ==
  ASSUME NEW h \in Seq(Execution), NEW s
  PROVE  LET z == Rehydrated(h) IN
         Count(h, s) <= Count(z, s) /\ (HasCompleted(h, s) => HasCompleted(z, s))
<1> DEFINE keys == [k \in DOMAIN h |-> h[k].id]
           z == Rehydrated(h)
<1>0. \A k \in DOMAIN h : h[k].id \in Int
  BY Entries
<1>1. keys \in [DOMAIN h -> Int]
  BY <1>0
<1>2. z = SortByKey(h, keys)
  BY DEF Rehydrated
<1>3. z \in Seq(Execution) /\ Len(z) = Len(h)
  BY RehydratedFacts
<1> HIDE DEF keys, z
<1>4. PICK f \in Injection(DOMAIN h, DOMAIN h) : \A k \in DOMAIN h : SortByKey(h, keys)[f[k]] = h[k]
  BY <1>1, SortPlacesAll
<1>5. DOMAIN z = DOMAIN h /\ DOMAIN z = 1..Len(z) /\ Len(z) \in Nat
  BY <1>3
<1>6. /\ f \in [DOMAIN h -> DOMAIN z] /\ \A k \in DOMAIN h : z[f[k]] = h[k]
      /\ \A j, k \in DOMAIN h : f[j] = f[k] => j = k
  BY <1>2, <1>4, <1>5 DEF Injection, IsInjective
<1>7. HasCompleted(h, s) => HasCompleted(z, s)
  BY <1>6 DEF HasCompleted
<1> DEFINE g == [k \in ExecutionsOf(h, s) |-> f[k]]
<1>8. g \in Injection(ExecutionsOf(h, s), ExecutionsOf(z, s))
  BY <1>6 DEF ExecutionsOf, Injection, IsInjective
<1>9. IsFiniteSet(1..Len(z)) /\ ExecutionsOf(z, s) \in SUBSET (1..Len(z))
  BY <1>5, FS_Interval DEF ExecutionsOf
<1>10. IsFiniteSet(ExecutionsOf(z, s))
  BY <1>9, FS_Subset
<1>11. Count(h, s) <= Count(z, s)
  BY <1>8, <1>10, FS_Injection DEF Count
<1>12. QED
  BY <1>7, <1>11 DEF z

LEMMA HistRestart ==
  ASSUME TypeInv, TypeInv', HistBody, Restart
  PROVE  HistBody'
<1>1. /\ pc' = [t \in Workers |-> "idle"] /\ loc' = [t \in Workers |-> IdleLocals]
      /\ hist' = [r \in Runs |-> Rehydrated(histRow[r])] /\ histRow' = histRow
      /\ stage' = stageRow /\ stageRow' = stageRow /\ execs' = execs
  BY DEF Restart, rows
<1>2. /\ hist' \in [Runs -> Seq(Execution)] /\ histRow \in [Runs -> Seq(Execution)]
      /\ stageRow \in [Runs -> [Stages -> StageRecord]]
  BY DEF TypeInv, DataTypes
<1>3. /\ \A t \in Workers : pc'[t] \notin Deleting
      /\ \A t \in Workers : pc'[t] \notin Open \cup Closing
  BY <1>1 DEF Deleting, Open, Closing
<1>4. Numbered(histRow', execs')
  BY <1>1 DEF HistBody, Numbered
<1>5. Numbered(hist', execs')
  <2>1. ASSUME NEW r \in Runs, NEW k, k \in DOMAIN hist'[r] PROVE hist'[r][k].id <= execs'
    <3>1. hist'[r] = Rehydrated(histRow[r])
      BY <1>1
    <3>2. PICK h \in Seq(Execution), z \in Seq(Execution) : h = histRow[r] /\ z = hist'[r]
      BY <1>2
    <3>3. DOMAIN z = DOMAIN h
      <4>1. Len(z) = Len(h)
        BY <3>1, <3>2, RehydratedFacts
      <4>2. DOMAIN z = 1..Len(z) /\ DOMAIN h = 1..Len(h)
        OBVIOUS
      <4>3. QED
        BY <4>1, <4>2
    <3>4. PICK j \in DOMAIN h : z[k] = h[j]
      BY <2>1, <3>1, <3>2, <3>3, RehydratedFacts
    <3>5. h[j].id <= execs
      BY <1>1, <1>4, <3>2 DEF Numbered
    <3>6. QED
      BY <1>1, <3>2, <3>4, <3>5
  <2>2. QED
    BY <2>1 DEF Numbered
<1>6. \A t \in Workers : OwnExecution(pc'[t], loc'[t], hist', histRow', execs')
  BY <1>3, ElsewhereOwns
<1>7. ASSUME NEW r \in Runs, NEW s \in Stages PROVE Backed(stageRow[r][s], hist'[r], histRow[r], s)
  <2>1. Backed(stageRow[r][s], hist[r], histRow[r], s)
    BY DEF HistBody
  <2>2. PICK x \in StageRecord : x = stageRow[r][s]
    BY <1>2
  <2>3. /\ Count(histRow[r], s) <= Count(hist'[r], s)
        /\ HasCompleted(histRow[r], s) => HasCompleted(hist'[r], s)
    BY <1>1, <1>2, RehydratedKeeps
  <2>4. x.count \in Nat /\ Count(histRow[r], s) \in Nat /\ Count(hist'[r], s) \in Nat
    BY <1>2, CountIsNat DEF StageRecord
  <2>5. QED
    BY <2>1, <2>2, <2>3, <2>4 DEF Backed
<1>8. QED
  BY <1>1, <1>3, <1>4, <1>5, <1>6, <1>7 DEF HistBody

LEMMA InitHist == Init => HistBody
<1> SUFFICES ASSUME Init PROVE HistBody
  OBVIOUS
<1>1. /\ pc = [t \in Workers |-> "idle"] /\ hist = [r \in Runs |-> <<>>] /\ histRow = [r \in Runs |-> <<>>]
      /\ stage = [r \in Runs |-> NoStages] /\ stageRow = [r \in Runs |-> NoStages]
  BY DEF Init
<1>2. \A t \in Workers : pc[t] \notin Open \cup Closing \cup Deleting
  BY <1>1 DEF Open, Closing, Deleting
<1>3. Numbered(hist, execs) /\ Numbered(histRow, execs)
  BY <1>1 DEF Numbered
<1>4. \A t \in Workers : OwnExecution(pc[t], loc[t], hist, histRow, execs)
  BY <1>2, ElsewhereOwns
<1>5. ASSUME NEW r \in Runs, NEW s \in Stages
      PROVE  /\ Backed(stage[r][s], hist[r], histRow[r], s)
             /\ Backed(stageRow[r][s], hist[r], histRow[r], s)
  <2>1. stage[r][s] = NoStage /\ stageRow[r][s] = NoStage /\ hist[r] = <<>> /\ histRow[r] = <<>>
    BY <1>1 DEF NoStages
  <2>2. <<>> \in Seq(Execution)
    OBVIOUS
  <2>3. Count(<<>>, s) \in Nat
    BY <2>2, CountIsNat
  <2>4. QED
    BY <2>1, <2>3 DEF Backed, NoStage
<1>6. QED
  BY <1>2, <1>3, <1>4, <1>5 DEF HistBody

LEMMA OwnBegins ==
  ASSUME TypeInv, NEW t \in Workers, NEW ok \in BOOLEAN, BeginPrepare(t, ok) \/ BeginScan(t, ok)
  PROVE  \E r \in Runs, s \in Stages : \E from : BeginExecution(t, from, ok, r, s)
<1>1. PICK from \in {"prepare", "begin"}, s \in Stages : pc[t] = from /\ BeginExecution(t, from, ok, loc[t].r, s)
  BY DEF BeginPrepare, BeginScan, BeginExecution, EnterStage, Stages
<1>2. loc[t].r \in Runs
  BY <1>1, Held DEF TypeInv, InScan
<1>3. QED
  BY <1>1, <1>2

LEMMA HistStep == TypeInv /\ TypeInv' /\ HistInv /\ [Next]_vars => HistInv'
<1> SUFFICES ASSUME TypeInv, TypeInv', HistInv, [Next]_vars, deletion' = "none" PROVE HistBody'
  BY DEF HistInv
<1>1. CASE UNCHANGED vars
  <2>1. HistBody
    BY <1>1 DEF HistInv, vars, limits
  <2>2. QED
    BY <1>1, <2>1 DEF vars, memory, rows, limits, HistBody, Numbered
<1>2. CASE Restart
  <2>1. deletion = "none"
    BY <1>2 DEF Restart
  <2>2. QED
    BY <1>2, <2>1, HistRestart DEF HistInv
<1>3. ASSUME NEW t \in Workers,
             ScanProject(t) \/ BegMem(t) \/ EndMem(t) \/ IterationRaises(t)
      PROVE  HistBody'
  <2>1. deletion = "none"
    BY <1>3 DEF ScanProject, StartsBesideDeletion, BegMem, EndMem, IterationRaises, limits
  <2>2. HistBody
    BY <2>1 DEF HistInv
  <2>3. QED
    BY <1>3, <2>2, HistQuietSteps, HistStageSteps
<1>4. ASSUME NEW t \in Workers, NEW ok \in BOOLEAN,
             CreateRun(t, ok) \/ BegRow(t, ok) \/ AddLineage(t, ok) \/ EndExec(t, ok)
             \/ EndRow(t, ok) \/ RunEnd(t, ok)
      PROVE  HistBody'
  <2>1. deletion = "none"
    BY <1>4 DEF CreateRun, BegRow, AddLineage, EndExec, EndExecution, EndRow, RunEnd, limits
  <2>2. HistBody
    BY <2>1 DEF HistInv
  <2>3. QED
    BY <1>4, <2>2, HistQuietSteps, HistBodySteps, HistStageSteps, HistEnd
<1>5. ASSUME NEW t \in Workers, NEW ok \in BOOLEAN, NEW outcome \in {"completed", "failed"},
             NEW found \in SUBSET Findings, NEW repeats \in Nat, StageBody(t, ok, outcome, found, repeats)
      PROVE  HistBody'
  <2>1. HistBody
    BY <1>5 DEF HistInv, StageBody
  <2>2. QED
    BY <1>5, <2>1, HistBodySteps
<1>6. ASSUME NEW t \in Workers, NEW ok \in BOOLEAN, BeginPrepare(t, ok) \/ BeginScan(t, ok)
      PROVE  HistBody'
  <2>1. HistBody
    BY <1>6 DEF HistInv, BeginPrepare, BeginScan
  <2>2. PICK r \in Runs, s \in Stages : \E from : BeginExecution(t, from, ok, r, s)
    BY <1>6, OwnBegins
  <2>3. QED
    BY <2>1, <2>2, HistBegin
<1>7. ASSUME NEW t \in Workers, NEW ok \in BOOLEAN, NEW done, NEW last, RegisterStages(t, ok, done, last)
       PROVE  HistBody'
  <2>1. HistBody
    BY <1>7 DEF HistInv, RegisterStages
  <2>2. QED
    BY <1>7, <2>1, HistRegister
<1>8. ASSUME NEW t \in Workers, NEW ok \in BOOLEAN, NEW r \in Runs, NEW s \in UserStages, NEW f,
             BeginUserStage(t, ok, r, s, f)
      PROVE  HistBody'
  <2>1. deletion = "none"
    BY <1>8 DEF BeginUserStage, StartsBesideDeletion
  <2>2. HistBody /\ BeginExecution(t, "idle", ok, r, s) /\ s \in Stages
    BY <1>8, <2>1 DEF HistInv, BeginUserStage, Stages
  <2>3. QED
    BY <2>2, HistBegin
<1>9. ASSUME NEW t \in Workers, DeleteFindings(t) PROVE FALSE
  BY <1>9 DEF DeleteFindings
<1>10. ASSUME NEW t \in Workers, NEW ok \in BOOLEAN,
             DeleteRuns(t) \/ DeleteRows(t, ok) \/ DeleteProject(t, ok)
      PROVE  FALSE
  <2>1. pc[t] \in Deleting /\ deletion = "none"
    BY <1>10 DEF DeleteRuns, DeleteRows, DeleteProject, Enter, Goto, Deleting, limits
  <2>2. QED
    BY <2>1 DEF HistInv, HistBody
<1>11. TRUE \in BOOLEAN
  OBVIOUS
<1>12. QED
  BY <1>1, <1>2, <1>3, <1>4, <1>5, <1>6, <1>8, <1>9, <1>10, <1>11, <1>7, Cases

LEMMA HistInvariant == Spec => [](TypeInv /\ HistInv)
<1>1. Init => HistInv
  BY InitHist DEF HistInv
<1>2. QED
  BY <1>1, InitTypes, TypeStep, HistStep, PTL DEF Spec

(* In memory and in the rows, whatever stages overlap, whatever commits     *)
(* fail and whenever the process restarts: a stage reported completed has   *)
(* an execution whose service succeeded.                                    *)
THEOREM CompletedIsTrue == Spec => []NeverFalselyCompleted
<1>1. HistInv => NeverFalselyCompleted
  BY DEF HistInv, HistBody, Backed, HasCompleted, NeverFalselyCompleted, ExecutionsOf
<1>2. QED
  BY <1>1, HistInvariant, PTL

(* execution_count never runs ahead of the recorded executions: two threads *)
(* that begin the same stage may lose a count, never invent one.            *)
THEOREM CountsAreBounded == Spec => []CountNeverExceedsHistory
<1>1. HistInv => CountNeverExceedsHistory
  BY DEF HistInv, HistBody, Backed, Count, CountNeverExceedsHistory
<1>2. QED
  BY <1>1, HistInvariant, PTL

LEMMA GrownRemains ==
  ASSUME NEW h, NEW g, NEW i, Grown(h, g, i)
  PROVE  \A k \in DOMAIN h : RemainsIn(g, h[k])
BY DEF Grown, RemainsIn

(* Only these steps write an execution history. *)
LEMMA HistoryWriters ==
  ASSUME TypeInv, [Next]_vars, deletion' = "none", HistInv
  PROVE  \/ hist' = hist /\ histRow' = histRow
         \/ crashes' # crashes /\ histRow' = histRow
         \/ HistBody /\ \E t \in Workers :
              \E ok \in BOOLEAN :
                \/ EndExec(t, ok)
                \/ \E r \in Runs, s \in Stages : \E from : BeginExecution(t, from, ok, r, s)
<1>1. CASE UNCHANGED vars
  BY <1>1 DEF vars, memory, rows
<1>2. CASE Restart
  BY <1>2 DEF Restart, rows, TypeInv, DataTypes
<1>3. ASSUME NEW t \in Workers, NEW ok \in BOOLEAN, NEW done, NEW last, RegisterStages(t, ok, done, last)
      PROVE  hist' = hist /\ histRow' = histRow
  BY <1>3 DEF RegisterStages
<1>4. ASSUME NEW t \in Workers, NEW ok \in BOOLEAN, EndExec(t, ok) PROVE HistBody
  BY <1>4 DEF EndExec, EndExecution, HistInv
<1>5. ASSUME NEW t \in Workers, NEW ok \in BOOLEAN, BeginPrepare(t, ok) \/ BeginScan(t, ok)
      PROVE  HistBody /\ \E r \in Runs, s \in Stages : \E from : BeginExecution(t, from, ok, r, s)
  BY <1>5, OwnBegins DEF HistInv, BeginPrepare, BeginScan
<1>6. ASSUME NEW t \in Workers, NEW ok \in BOOLEAN, NEW r \in Runs, NEW s \in UserStages, NEW f,
             BeginUserStage(t, ok, r, s, f)
      PROVE  HistBody /\ \E v \in Runs, w \in Stages : \E from : BeginExecution(t, from, ok, v, w)
  BY <1>6 DEF BeginUserStage, StartsBesideDeletion, HistInv, Stages
<1>7. ASSUME NEW t \in Workers, NEW ok \in BOOLEAN,
             \/ ScanProject(t) \/ BegMem(t) \/ EndMem(t) \/ IterationRaises(t)
             \/ CreateRun(t, ok) \/ BegRow(t, ok) \/ AddLineage(t, ok) \/ EndRow(t, ok) \/ RunEnd(t, ok)
             \/ DeleteFindings(t) \/ DeleteProject(t, ok)
             \/ \E outcome \in {"completed", "failed"}, found \in SUBSET Findings, repeats \in Nat :
                  StageBody(t, ok, outcome, found, repeats)
      PROVE  hist' = hist /\ histRow' = histRow
  BY <1>7 DEF ScanProject, BegMem, EndMem, IterationRaises, CreateRun, BegRow,
              AddLineage, EndRow, RunEnd, DeleteFindings, DeleteProject, StageBody, memory, rows
<1>8. ASSUME NEW t \in Workers, NEW ok \in BOOLEAN, DeleteRuns(t) \/ DeleteRows(t, ok) PROVE FALSE
  <2>1. pc[t] \in Deleting /\ deletion = "none"
    BY <1>8 DEF DeleteRuns, DeleteRows, Enter, Goto, Deleting, limits
  <2>2. QED
    BY <2>1 DEF HistInv, HistBody
<1>9. TRUE \in BOOLEAN
  OBVIOUS
<1>10. QED
  BY <1>1, <1>2, <1>3, <1>4, <1>5, <1>6, <1>7, <1>8, <1>9, Cases

(* What may come of one history in a step. *)
LEMMA HistoryStep ==
  ASSUME TypeInv, [Next]_vars, deletion' = "none", HistInv, NEW r \in Runs
  PROVE  /\ \E i : Grown(histRow[r], histRow'[r], i)
         /\ crashes' = crashes => \E i : Grown(hist[r], hist'[r], i)
<1>1. hist \in [Runs -> Seq(Execution)] /\ histRow \in [Runs -> Seq(Execution)]
  BY DEF TypeInv, DataTypes
<1>2. ASSUME NEW v \in Runs, NEW e \in Execution, hist' = [hist EXCEPT ![v] = Append(@, e)],
             histRow' = histRow \/ histRow' = [histRow EXCEPT ![v] = Append(@, e)]
      PROVE  Grown(histRow[r], histRow'[r], e.id) /\ Grown(hist[r], hist'[r], e.id)
  <2>1. /\ hist'[r] = hist[r] \/ hist'[r] = Append(hist[r], e)
        /\ histRow'[r] = histRow[r] \/ histRow'[r] = Append(histRow[r], e)
    BY <1>1, <1>2
  <2>2. QED
    BY <1>1, <2>1, AppendGrows, Unchanging
<1>3. execs + 1 \in Nat
  BY DEF TypeInv, DataTypes
<1>4. CASE \E t \in Workers, ok \in BOOLEAN, v \in Runs, s \in Stages :
             \E from : BeginExecution(t, from, ok, v, s)
  <2>1. PICK t \in Workers, ok \in BOOLEAN, v \in Runs, s \in Stages :
               \E from : BeginExecution(t, from, ok, v, s)
    BY <1>4
  <2>2. PICK e \in Execution : e = [id |-> execs + 1, stage |-> s, status |-> "running"]
    BY <1>3 DEF Execution
  <2>3. /\ hist' = [hist EXCEPT ![v] = Append(@, e)]
        /\ histRow' = histRow \/ histRow' = [histRow EXCEPT ![v] = Append(@, e)]
    BY <2>1, <2>2 DEF BeginExecution, Row
  <2>4. QED
    BY <1>2, <2>3
<1>5. CASE HistBody /\ \E t \in Workers, ok \in BOOLEAN : EndExec(t, ok)
  <2>1. PICK t \in Workers, ok \in BOOLEAN : EndExec(t, ok)
    BY <1>5
  <2>2. PICK q \in Locals : q = loc[t]
    BY Held DEF TypeInv
  <2>3. PICK v \in Runs : v = q.r /\ pc[t] = "endExec"
    BY <2>1, <2>2, EndShape, Held DEF TypeInv, InScan, Open
  <2>4. IsRunning(hist[v], q) /\ IsRunning(histRow[v], q)
    BY <1>5, <2>2, <2>3 DEF HistBody, OwnExecution, Open
  <2>5. /\ hist' = [hist EXCEPT ![v] = Finished(@, q)]
        /\ histRow' = histRow \/ histRow' = [histRow EXCEPT ![v] = Upserted(@, q)]
    BY <2>1, <2>2, <2>3 DEF EndExec, EndExecution, Row
  <2>6. CASE r # v
    BY <1>1, <2>5, <2>6, Unchanging
  <2>7. CASE r = v
    <3>1. Upserted(histRow[r], q) = Finished(histRow[r], q)
      BY <1>1, <2>4, <2>7, UpsertedFacts DEF IsRunning
    <3>2. /\ hist'[r] = Finished(hist[r], q)
          /\ histRow'[r] = histRow[r] \/ histRow'[r] = Finished(histRow[r], q)
      BY <1>1, <2>5, <2>7, <3>1
    <3>3. Grown(hist[r], Finished(hist[r], q), q.id) /\ Grown(histRow[r], Finished(histRow[r], q), q.id)
      BY <1>1, <2>4, <2>7, FinishedGrows
    <3>4. QED
      BY <3>2, <3>3, Unchanging
  <2>8. QED
    BY <2>6, <2>7
<1>6. CASE histRow' = histRow /\ (hist' = hist \/ crashes' # crashes)
  BY <1>6, Unchanging
<1>7. QED
  BY <1>4, <1>5, <1>6, HistoryWriters

(* Execution history is append-only: no overlap of stages, failed commit or *)
(* restart takes back an execution, or changes an outcome once recorded.    *)
THEOREM OutcomesAreFinal == Spec => OutcomeIsFinal
<1>1. ASSUME TypeInv, HistInv, [Next]_vars, deletion' = "none", NEW r \in Runs
      PROVE  /\ \A k \in DOMAIN histRow[r] : RemainsIn(histRow'[r], histRow[r][k])
             /\ crashes' = crashes => \A k \in DOMAIN hist[r] : RemainsIn(hist'[r], hist[r][k])
  BY <1>1, HistoryStep, GrownRemains
<1>2. TypeInv /\ HistInv /\ [Next]_vars =>
        [deletion' = "none" => \A r \in Runs :
           /\ \A k \in DOMAIN histRow[r] : RemainsIn(histRow'[r], histRow[r][k])
           /\ crashes' = crashes =>
                \A k \in DOMAIN hist[r] : RemainsIn(hist'[r], hist[r][k])]_vars
  BY <1>1
<1>3. QED
  BY <1>2, HistInvariant, PTL DEF Spec, OutcomeIsFinal

----------------------------------------------------------------------------
(* Runs, and what their scans found. *)

(* The thread is running a scan: a stage endpoint has no run to close. *)
Scanning(p, l) == p \in InScan /\ (p \in Open \cup Closing => l.stage \in {"PREPARE", "SCAN"})

(* How much of what the scan of l found is in its lineage, x. *)
Reported(p, l, x) ==
  /\ \/ p \in {"register", "prepare", "begin", "begMem", "begRow", "body"}
     \/ p \in Open \cup Closing /\ l.stage = "PREPARE"
     => x = {}
  /\ p = "lineage" => x \cup l.todo = l.found /\ x \subseteq l.found
  /\ \/ p \in {"endExec", "endMem", "endRow"} /\ l.stage = "SCAN"
     \/ p = "runEnd"
     => (l.outcome = "completed" => x = l.found)

(* The run of a scan is open, and its lineage on its way. *)
OwnScan(p, l, rn, rr, x, xr, kn) ==
  /\ p = "lineage" => l.stage = "SCAN" /\ l.found \subseteq kn
  /\ Scanning(p, l) => /\ rn[l.r].status = "running" /\ rr[l.r].status = "running"
                       /\ Reported(p, l, x[l.r]) /\ Reported(p, l, xr[l.r])

RealCount(rec, x) == rec.status = "completed" => rec.total = Cardinality(x) + rec.repeats

(* What the records of run r say is so. *)
RealRun(r, rn, rr, x, xr, kn, n) ==
  /\ RealCount(rn[r], x[r]) /\ RealCount(rr[r], xr[r])
  /\ x[r] \subseteq kn /\ xr[r] \subseteq kn
  /\ r > n => x[r] = {} /\ xr[r] = {}

LineageBody ==
  /\ \A t \in Workers : OwnScan(pc[t], loc[t], run, runRow, lineage, lineageRow, known)
  /\ \A t, u \in Workers :
       Scanning(pc[t], loc[t]) /\ Scanning(pc[u], loc[u]) /\ t # u => loc[t].r # loc[u].r
  /\ \A r \in Runs : RealRun(r, run, runRow, lineage, lineageRow, known, issued)

LineageInv == deletion = "none" => LineageBody

LEMMA ScanningRuns ==
  ASSUME TypeInv, NEW u \in Workers, Scanning(pc[u], loc[u])
  PROVE  loc[u].r \in Runs /\ loc[u].r \in 1..issued /\ loc[u].r # 0
<1>1. loc[u].r \in Runs /\ loc[u].r \in 1..issued
  BY Held DEF TypeInv, Scanning
<1>2. QED
  BY <1>1 DEF Runs

(* A step of t that touches the records of run v at most, v = 0 for none. *)
LEMMA LineageTurn ==
  ASSUME TypeInv, TypeInv', LineageBody, NEW t \in Workers, NEW p \in Steps, NEW l \in Locals,
         Moves(t, p, l), NEW v, known \subseteq known', issued <= issued',
         \A r \in Runs \ {v} : /\ run'[r] = run[r] /\ runRow'[r] = runRow[r]
                               /\ lineage'[r] = lineage[r] /\ lineageRow'[r] = lineageRow[r],
         \A u \in Workers \ {t} : Scanning(pc[u], loc[u]) => loc[u].r # v,
         Scanning(p, l) => l.r = v,
         OwnScan(p, l, run', runRow', lineage', lineageRow', known'),
         v \in Runs => RealRun(v, run', runRow', lineage', lineageRow', known', issued')
  PROVE  LineageBody'
<1>1. /\ pc'[t] = p /\ loc'[t] = l
      /\ \A u \in Workers \ {t} : pc'[u] = pc[u] /\ loc'[u] = loc[u]
  BY DEF Moves, TypeInv, ControlInv
<1>2. ASSUME NEW u \in Workers
      PROVE  OwnScan(pc'[u], loc'[u], run', runRow', lineage', lineageRow', known')
  <2>1. CASE u = t
    BY <1>1, <2>1
  <2>2. CASE u # t
    <3>1. pc'[u] = pc[u] /\ loc'[u] = loc[u]
      BY <1>1, <2>2
    <3>2. OwnScan(pc[u], loc[u], run, runRow, lineage, lineageRow, known)
      BY DEF LineageBody
    <3>3. CASE ~ Scanning(pc[u], loc[u])
      BY <3>1, <3>2, <3>3 DEF OwnScan
    <3>4. CASE Scanning(pc[u], loc[u])
      <4>1. loc[u].r \in Runs \ {v}
        BY <2>2, <3>4, ScanningRuns
      <4>2. QED
        BY <3>1, <3>2, <4>1 DEF OwnScan
    <3>5. QED
      BY <3>3, <3>4
  <2>3. QED
    BY <2>1, <2>2
<1>3. ASSUME NEW u \in Workers, NEW w \in Workers, Scanning(pc'[u], loc'[u]),
             Scanning(pc'[w], loc'[w]), u # w
      PROVE  loc'[u].r # loc'[w].r
  <2>1. CASE u # t /\ w # t
    BY <1>1, <1>3, <2>1 DEF LineageBody
  <2>2. CASE u = t
    BY <1>1, <1>3, <2>2
  <2>3. CASE w = t
    BY <1>1, <1>3, <2>3
  <2>4. QED
    BY <2>1, <2>2, <2>3
<1>4. ASSUME NEW r \in Runs PROVE RealRun(r, run', runRow', lineage', lineageRow', known', issued')
  <2>1. CASE r = v
    BY <2>1
  <2>2. CASE r # v
    <3>1. r > issued' => r > issued
      BY DEF TypeInv, ControlInv, Runs
    <3>2. QED
      BY <2>2, <3>1 DEF LineageBody, RealRun
  <2>3. QED
    BY <2>1, <2>2
<1>5. QED
  BY <1>2, <1>3, <1>4 DEF LineageBody

(* A step that leaves runs and lineage alone. *)
LEMMA LineageQuiet ==
  ASSUME TypeInv, TypeInv', LineageBody, NEW t \in Workers, NEW p \in Steps, NEW l \in Locals,
         Moves(t, p, l), UNCHANGED <<run, runRow, lineage, lineageRow, issued>>, known \subseteq known',
         p = "lineage" => l.stage = "SCAN" /\ l.found \subseteq known',
         Scanning(p, l) => /\ Scanning(pc[t], loc[t]) /\ l.r = loc[t].r
                           /\ Reported(p, l, lineage[l.r]) /\ Reported(p, l, lineageRow[l.r])
  PROVE  LineageBody'
<1>1. \A r \in Runs : RealRun(r, run', runRow', lineage', lineageRow', known', issued')
  BY DEF LineageBody, RealRun
<1>2. issued <= issued'
  BY DEF TypeInv, ControlInv
<1>3. CASE Scanning(p, l)
  <2>1. OwnScan(p, l, run', runRow', lineage', lineageRow', known')
    BY <1>3 DEF LineageBody, OwnScan
  <2>2. \A u \in Workers \ {t} : Scanning(pc[u], loc[u]) => loc[u].r # l.r
    BY <1>3 DEF LineageBody
  <2>3. QED
    BY <1>1, <1>2, <2>1, <2>2, LineageTurn
<1>4. CASE ~ Scanning(p, l)
  <2>1. OwnScan(p, l, run', runRow', lineage', lineageRow', known')
    BY <1>4 DEF OwnScan
  <2>2. \A u \in Workers \ {t} : Scanning(pc[u], loc[u]) => loc[u].r # 0
    BY ScanningRuns
  <2>3. QED
    BY <1>1, <1>2, <1>4, <2>1, <2>2, LineageTurn
<1>5. QED
  BY <1>3, <1>4

LEMMA ElsewhereScans ==
  /\ \A p, l : p \in {"idle", "create"} => ~ Scanning(p, l) /\ p \in Steps
  /\ \A p, l : p \in Open \cup Closing /\ l.stage \notin {"PREPARE", "SCAN"} => ~ Scanning(p, l)
BY DEF Scanning, InScan, Open, Closing, Steps

(* A thread that goes on with its scan before the scan has found anything. *)
LEMMA LineageGoesOn ==
  ASSUME TypeInv, TypeInv', LineageBody, NEW t \in Workers, NEW p, NEW l \in Locals, Moves(t, p, l),
         UNCHANGED <<run, runRow, lineage, lineageRow, issued, known>>,
         pc[t] \in {"register", "prepare", "begin"},
         p \in {"prepare", "begMem", "idle", "runEnd"}, p = "runEnd" => l.outcome = "failed",
         l.r = loc[t].r
  PROVE  LineageBody'
<1>1. Scanning(pc[t], loc[t])
  BY DEF Scanning, InScan, Open, Closing
<1>2. Reported(pc[t], loc[t], lineage[l.r]) /\ Reported(pc[t], loc[t], lineageRow[l.r])
  BY <1>1 DEF LineageBody, OwnScan
<1>3. lineage[l.r] = {} /\ lineageRow[l.r] = {}
  BY <1>2 DEF Reported
<1>4. Reported(p, l, lineage[l.r]) /\ Reported(p, l, lineageRow[l.r])
  BY <1>3 DEF Reported
<1>5. p \in Steps /\ p # "lineage"
  BY DEF Steps
<1>6. QED
  BY <1>1, <1>4, <1>5, LineageQuiet

LEMMA LineageStarts ==
  ASSUME TypeInv, TypeInv', LineageBody, NEW t \in Workers, NEW ok \in BOOLEAN,
         \/ ScanProject(t) \/ BeginPrepare(t, ok) \/ BeginScan(t, ok)
         \/ \E done, last : RegisterStages(t, ok, done, last)
         \/ \E r \in Runs, s \in UserStages, f \in Findings : BeginUserStage(t, ok, r, s, f)
  PROVE  LineageBody'
<1>1. UNCHANGED <<run, runRow, lineage, lineageRow, issued, known>>
  BY DEF ScanProject, RegisterStages, BeginPrepare, BeginScan, BeginUserStage, BeginExecution,
         memory, rows
<1>2. CASE ScanProject(t)
  <2>1. Moves(t, "create", loc[t]) /\ loc[t] \in Locals
    BY <1>2, Same, Held DEF ScanProject, Goto, TypeInv
  <2>2. QED
    BY <1>1, <2>1, ElsewhereScans, LineageQuiet
<1>3. ASSUME NEW done, NEW last, RegisterStages(t, ok, done, last) PROVE LineageBody'
  <2>1. PICK l \in Locals : l = loc[t]
    BY <1>3, RegisterShape
  <2>2. pc[t] = "register" /\ Moves(t, IF ok THEN "prepare" ELSE "idle", l)
    BY <1>3, <2>1, RegisterShape
  <2>3. l.r = loc[t].r
    BY <2>1
  <2>4. PICK p \in {"begMem", "prepare", "idle"} : Moves(t, p, l)
    BY <2>2
  <2>5. QED
    BY <1>1, <2>2, <2>3, <2>4, LineageGoesOn
<1>4. CASE BeginPrepare(t, ok) \/ BeginScan(t, ok)
  <2>1. PICK from \in {"prepare", "begin"}, s \in Stages :
          pc[t] = from /\ BeginExecution(t, from, ok, loc[t].r, s)
    BY <1>4 DEF BeginPrepare, BeginScan, BeginExecution, EnterStage, Stages
  <2>2. loc[t].r \in Runs
    BY <2>1, Held DEF TypeInv, InScan
  <2>3. PICK l \in Locals : /\ l.r = loc[t].r /\ l.outcome = "failed"
                            /\ Moves(t, IF ok THEN "begMem" ELSE AfterError(l), l)
    BY <2>1, <2>2, BeginShape
  <2>4. PICK p \in {"begMem", "idle", "runEnd"} : Moves(t, p, l)
    BY <2>3, Errors
  <2>5. QED
    BY <1>1, <2>1, <2>3, <2>4, LineageGoesOn
<1>5. ASSUME NEW r \in Runs, NEW s \in UserStages, NEW f \in Findings, BeginUserStage(t, ok, r, s, f)
      PROVE  LineageBody'
  <2>1. s \in Stages /\ s \notin {"PREPARE", "SCAN"}
    BY ScanRunConstants DEF Stages
  <2>2. PICK l \in Locals : /\ l.stage = s
                            /\ Moves(t, IF ok THEN "begMem" ELSE AfterError(l), l)
    BY <1>5, <2>1, BeginShape DEF BeginUserStage
  <2>3. PICK p \in {"begMem", "idle"} : Moves(t, p, l)
    BY <2>1, <2>2, Errors
  <2>4. ~ Scanning(p, l) /\ p \in Steps /\ p # "lineage"
    BY <2>1, <2>2 DEF Scanning, InScan, Open, Closing, Steps
  <2>5. QED
    BY <1>1, <2>3, <2>4, LineageQuiet
<1>6. QED
  BY <1>2, <1>3, <1>4, <1>5

LEMMA LineageCreate ==
  ASSUME TypeInv, TypeInv', LineageBody, NEW t \in Workers, NEW ok \in BOOLEAN, CreateRun(t, ok)
  PROVE  LineageBody'
<1>1. PICK v \in Runs : v = issued + 1
  BY CreateShape
<1>2. PICK l \in Locals : /\ ok => l.r = v
                          /\ Moves(t, IF ok THEN "register" ELSE "idle", l)
  BY <1>1, CreateShape
<1>3. PICK p \in Steps : /\ Moves(t, p, l) /\ p # "lineage"
                         /\ (ok /\ p = "register") \/ ~ Scanning(p, l)
  BY <1>2, ElsewhereScans DEF Steps
<1>4. issued \in Nat /\ issued' = v /\ issued <= issued' /\ v > issued
  BY <1>1, CreateShape DEF TypeInv, ControlInv
<1>5. /\ run' = [run EXCEPT ![v] = [NoRun EXCEPT !.status = "running"]]
      /\ runRow' = IF ok THEN [runRow EXCEPT ![v] = run'[v]] ELSE runRow
      /\ UNCHANGED <<lineage, lineageRow, known>>
  BY <1>1 DEF CreateRun, Row
<1>6. run \in [Runs -> RunRecord] /\ runRow \in [Runs -> RunRecord]
  BY DEF TypeInv, DataTypes
<1>7. /\ run'[v].status = "running"
      /\ IF ok THEN runRow'[v].status = "running" ELSE runRow'[v] = runRow[v]
      /\ \A r \in Runs \ {v} : run'[r] = run[r] /\ runRow'[r] = runRow[r]
  BY <1>5, <1>6 DEF NoRun
<1>8. lineage[v] = {} /\ lineageRow[v] = {}
  BY <1>4 DEF LineageBody, RealRun
<1>9. RealRun(v, run', runRow', lineage', lineageRow', known', issued')
  BY <1>5, <1>7, <1>8 DEF LineageBody, RealRun, RealCount
<1>10. \A u \in Workers \ {t} : Scanning(pc[u], loc[u]) => loc[u].r # v
  BY <1>4, ScanningRuns
<1>11. OwnScan(p, l, run', runRow', lineage', lineageRow', known')
  <2>1. CASE ok /\ p = "register"
    BY <1>2, <1>5, <1>7, <1>8, <2>1 DEF OwnScan, Reported
  <2>2. CASE ~ Scanning(p, l)
    BY <1>3, <2>2 DEF OwnScan
  <2>3. QED
    BY <1>3, <2>1, <2>2
<1>12. Scanning(p, l) => l.r = v
  BY <1>2, <1>3
<1>13. \A r \in Runs \ {v} : lineage'[r] = lineage[r] /\ lineageRow'[r] = lineageRow[r]
  BY <1>5
<1>14. known \subseteq known'
  BY <1>5
<1>15. QED
  BY <1>3, <1>4, <1>7, <1>9, <1>10, <1>11, <1>12, <1>13, <1>14, LineageTurn

LEMMA LineageStageSteps ==
  ASSUME TypeInv, TypeInv', LineageBody, NEW t \in Workers, NEW ok \in BOOLEAN,
         \/ BegMem(t) \/ BegRow(t, ok) \/ EndExec(t, ok) \/ IterationRaises(t) \/ EndMem(t) \/ EndRow(t, ok)
  PROVE  LineageBody'
<1>1. UNCHANGED <<run, runRow, lineage, lineageRow, issued, known>>
  BY DEF BegMem, BegRow, EndExec, EndExecution, IterationRaises, EndMem, EndRow, memory, rows, limits
<1>2. PICK q \in Locals : q = loc[t]
  BY Held DEF TypeInv
<1> DEFINE Late(c) == c \in {"endExec", "endMem", "endRow", "runEnd"}
           Early(c) == c \in {"begMem", "begRow", "body"}
<1>3. PICK p \in Steps, l \in Locals :
        /\ Moves(t, p, l) /\ l.r = q.r /\ l.stage = q.stage /\ p # "lineage"
        /\ pc[t] \in Open \cup Closing
        /\ \/ p \in Open \cup Closing \cup {"idle"}
           \/ p = "runEnd" /\ l.stage = "SCAN"
           \/ p = "begin" /\ l.stage = "PREPARE"
        /\ \/ Early(pc[t]) /\ Early(p)
           \/ Late(pc[t]) /\ ~ Early(p) /\ l.outcome = q.outcome /\ l.found = q.found
           \/ ~ Early(p) /\ (l.outcome = "failed" \/ l.stage = "PREPARE")
  <2>1. CASE BegMem(t)
    <3>1. Moves(t, "begRow", q) /\ pc[t] = "begMem"
      BY <1>2, <2>1, Same DEF BegMem, Goto, TypeInv
    <3>2. QED
      BY <3>1 DEF Steps, Open
  <2>2. CASE EndMem(t)
    <3>1. Moves(t, "endRow", q) /\ pc[t] = "endMem"
      BY <1>2, <2>2, Same DEF EndMem, Goto, TypeInv
    <3>2. QED
      BY <3>1 DEF Steps, Closing
  <2>3. CASE BegRow(t, ok)
    <3>1. PICK l \in Locals : /\ pc[t] = "begRow" /\ l.r = q.r /\ l.stage = q.stage
                              /\ ok \/ l.outcome = "failed"
                              /\ Moves(t, IF ~ ok THEN AfterError(l)
                                          ELSE IF q.stage = "PREPARE" THEN "endExec" ELSE "body", l)
      BY <1>2, <2>3, BegRowShape
    <3>2. QED
      BY <3>1, Errors DEF Steps, Open
  <2>4. CASE EndRow(t, ok)
    <3>1. PICK l \in Locals : /\ pc[t] = "endRow" /\ l.r = q.r /\ l.found = q.found /\ l.stage = q.stage
                              /\ l.outcome = IF ok THEN q.outcome ELSE "failed"
                              /\ Moves(t, IF ok THEN AfterStage(q) ELSE AfterError(l), l)
      BY <1>2, <2>4, CommitShape DEF EndRow
    <3>2. /\ AfterStage(q) \in {"begin", "runEnd", "idle"}
          /\ AfterStage(q) = "runEnd" => q.stage = "SCAN"
          /\ AfterStage(q) = "begin" => q.stage = "PREPARE"
      BY DEF AfterStage
    <3>3. PICK p \in {"begin", "runEnd", "idle"} :
            /\ Moves(t, p, l)
            /\ p = "runEnd" => l.stage = "SCAN"
            /\ p = "begin" => l.stage = "PREPARE"
      BY <3>1, <3>2, Errors
    <3>4. QED
      BY <3>1, <3>3 DEF Steps, Closing
  <2>5. CASE EndExec(t, ok)
    <3>1. PICK l \in Locals : /\ pc[t] = "endExec" /\ l.r = q.r /\ l.stage = q.stage
                              /\ l.found = q.found /\ l.outcome = IF ok THEN q.outcome ELSE "failed"
                              /\ Moves(t, IF ok THEN "endMem" ELSE AfterError(l), l)
      BY <1>2, <2>5, EndShape
    <3>2. QED
      BY <3>1, Errors DEF Steps, Open, Closing
  <2>6. CASE IterationRaises(t)
    <3>1. PICK l \in Locals : /\ pc[t] = "endExec" /\ l.r = q.r /\ l.stage = q.stage
                              /\ l.outcome = "failed" /\ Moves(t, AfterError(l), l)
      BY <1>2, <2>6, IterationShape
    <3>2. QED
      BY <3>1, Errors DEF Steps, Open, Closing
  <2>7. QED
    BY <2>1, <2>2, <2>3, <2>4, <2>5, <2>6
<1>4. ASSUME Scanning(p, l)
      PROVE  /\ Scanning(pc[t], q) /\ Reported(p, l, lineage[l.r]) /\ Reported(p, l, lineageRow[l.r])
  <2>1. l.stage \in {"PREPARE", "SCAN"} /\ p # "idle"
    BY <1>3, <1>4 DEF Scanning, InScan, Open, Closing
  <2>2. Scanning(pc[t], q)
    BY <1>3, <2>1 DEF Scanning, InScan
  <2>3. Reported(pc[t], q, lineage[q.r]) /\ Reported(pc[t], q, lineageRow[q.r])
    BY <1>2, <2>2 DEF LineageBody, OwnScan
  <2>4. ASSUME NEW x, Reported(pc[t], q, x) PROVE Reported(p, l, x)
    <3>1. CASE l.stage = "PREPARE"
      BY <1>3, <2>4, <3>1 DEF Reported, Open, Closing
    <3>2. CASE l.stage = "SCAN"
      BY <1>3, <2>1, <2>4, <3>2 DEF Reported, Open, Closing
    <3>3. QED
      BY <2>1, <3>1, <3>2
  <2>5. QED
    BY <1>3, <2>2, <2>3, <2>4
<1>5. QED
  BY <1>1, <1>2, <1>3, <1>4, LineageQuiet

LEMMA LineageScanned ==
  ASSUME TypeInv, TypeInv', LineageBody, NEW t \in Workers, NEW ok \in BOOLEAN,
         NEW outcome \in {"completed", "failed"}, NEW found \in SUBSET Findings,
         NEW repeats \in Nat, StageBody(t, ok, outcome, found, repeats)
  PROVE  LineageBody'
<1>1. /\ UNCHANGED <<run, runRow, lineage, lineageRow, issued>> /\ known' = known \cup found
      /\ outcome = "failed" \/ outcome = "completed"
  BY DEF StageBody, memory, rows
<1>2. PICK q \in Locals : q = loc[t]
  BY Held DEF TypeInv
<1>3. PICK l \in Locals, p \in Steps :
        /\ pc[t] = "body" /\ l.r = q.r /\ l.stage = q.stage
        /\ l.found = found /\ l.todo = found /\ l.outcome = outcome /\ Moves(t, p, l)
        /\ \/ p = "lineage" /\ q.stage = "SCAN"
           \/ p = "endExec" /\ ~ (q.stage = "SCAN" /\ outcome = "completed")
  BY <1>2, BodyShape DEF Steps
<1>4. ASSUME Scanning(p, l)
      PROVE  /\ Scanning(pc[t], q) /\ Reported(p, l, lineage[l.r]) /\ Reported(p, l, lineageRow[l.r])
  <2>1. l.stage \in {"PREPARE", "SCAN"} /\ Scanning(pc[t], q)
    BY <1>3, <1>4 DEF Scanning, InScan, Open
  <2>2. Reported(pc[t], q, lineage[q.r]) /\ Reported(pc[t], q, lineageRow[q.r])
    BY <1>2, <2>1 DEF LineageBody, OwnScan
  <2>3. lineage[l.r] = {} /\ lineageRow[l.r] = {}
    BY <1>3, <2>2 DEF Reported
  <2>4. QED
    BY <1>3, <2>1, <2>3 DEF Reported
<1>5. p = "lineage" => l.stage = "SCAN" /\ l.found \subseteq known'
  BY <1>1, <1>3
<1>6. QED
  BY <1>1, <1>2, <1>3, <1>4, <1>5, LineageQuiet

LEMMA LineageAdds ==
  ASSUME TypeInv, TypeInv', LineageBody, NEW t \in Workers, NEW ok \in BOOLEAN, AddLineage(t, ok)
  PROVE  LineageBody'
<1>1. UNCHANGED <<run, runRow, issued, known>>
  BY DEF AddLineage, memory, rows, limits
<1>2. PICK q \in Locals : q = loc[t] /\ pc[t] = "lineage"
  BY Held, LineageShape DEF TypeInv
<1>3. PICK l \in Locals, p \in {"lineage", "endExec"} :
        /\ l.r = q.r /\ l.stage = q.stage /\ l.found = q.found /\ Moves(t, p, l)
        /\ \/ /\ p = "endExec" /\ q.todo = {} /\ l.outcome = q.outcome
              /\ UNCHANGED <<lineage, lineageRow>>
           \/ \E f \in q.todo :
                /\ lineage' = [lineage EXCEPT ![q.r] = @ \cup {f}]
                /\ \/ /\ p = "lineage" /\ l.todo = q.todo \ {f} /\ l.outcome = q.outcome
                      /\ lineageRow' = [lineageRow EXCEPT ![q.r] = @ \cup {f}]
                   \/ p = "endExec" /\ l.outcome = "failed" /\ lineageRow' = lineageRow
  BY <1>2, LineageShape
<1>4. PICK v \in Runs : v = q.r /\ v <= issued
  BY <1>2, Held DEF TypeInv, InScan, Open, Runs
<1>5. OwnScan("lineage", q, run, runRow, lineage, lineageRow, known)
  BY <1>2 DEF LineageBody
<1>6. /\ Scanning("lineage", q) /\ q.stage = "SCAN" /\ q.found \subseteq known
      /\ run[v].status = "running" /\ runRow[v].status = "running"
      /\ lineage[v] \cup q.todo = q.found /\ lineage[v] \subseteq q.found
      /\ lineageRow[v] \cup q.todo = q.found /\ lineageRow[v] \subseteq q.found
  BY <1>4, <1>5 DEF OwnScan, Scanning, InScan, Open, Closing, Reported
<1>7. lineage \in [Runs -> SUBSET Findings] /\ lineageRow \in [Runs -> SUBSET Findings]
  BY DEF TypeInv, DataTypes
<1>8. /\ \A r \in Runs \ {v} : lineage'[r] = lineage[r] /\ lineageRow'[r] = lineageRow[r]
      /\ lineage'[v] \subseteq q.found /\ lineageRow'[v] \subseteq q.found
      /\ p = "lineage" => /\ lineage'[v] \cup l.todo = q.found
                          /\ lineageRow'[v] \cup l.todo = q.found
      /\ p = "endExec" /\ l.outcome = "completed" => lineage'[v] = q.found /\ lineageRow'[v] = q.found
  <2>1. CASE UNCHANGED <<lineage, lineageRow>> /\ p = "endExec" /\ q.todo = {}
    BY <1>6, <2>1
  <2>2. ASSUME NEW f \in q.todo, lineage' = [lineage EXCEPT ![v] = @ \cup {f}],
               \/ p = "lineage" /\ l.todo = q.todo \ {f} /\ lineageRow' = [lineageRow EXCEPT ![v] = @ \cup {f}]
               \/ p = "endExec" /\ l.outcome = "failed" /\ lineageRow' = lineageRow
        PROVE  /\ \A r \in Runs \ {v} : lineage'[r] = lineage[r] /\ lineageRow'[r] = lineageRow[r]
               /\ lineage'[v] \subseteq q.found /\ lineageRow'[v] \subseteq q.found
               /\ p = "lineage" => /\ lineage'[v] \cup l.todo = q.found
                                   /\ lineageRow'[v] \cup l.todo = q.found
               /\ ~ (p = "endExec" /\ l.outcome = "completed")
    <3>1. /\ \A r \in Runs \ {v} : lineage'[r] = lineage[r] /\ lineageRow'[r] = lineageRow[r]
          /\ lineage'[v] = lineage[v] \cup {f}
          /\ lineageRow'[v] = lineageRow[v] \/ lineageRow'[v] = lineageRow[v] \cup {f}
          /\ p = "lineage" => lineageRow'[v] = lineageRow[v] \cup {f}
      BY <1>7, <2>2
    <3>2. f \in q.found
      BY <1>6
    <3>3. QED
      BY <1>6, <2>2, <3>1, <3>2
  <2>3. QED
    BY <1>3, <1>4, <2>1, <2>2
<1>9. RealRun(v, run', runRow', lineage', lineageRow', known', issued')
  <2>1. ~ (v > issued)
    BY <1>4 DEF TypeInv, ControlInv, Runs
  <2>2. QED
    BY <1>1, <1>6, <1>8, <2>1 DEF RealRun, RealCount
<1>10. OwnScan(p, l, run', runRow', lineage', lineageRow', known')
  BY <1>1, <1>3, <1>4, <1>6, <1>8 DEF OwnScan, Reported
<1>11. \A u \in Workers \ {t} : Scanning(pc[u], loc[u]) => loc[u].r # v
  BY <1>2, <1>4, <1>6 DEF LineageBody
<1>12. p \in Steps /\ issued <= issued' /\ known \subseteq known'
  BY <1>1 DEF Steps, TypeInv, ControlInv
<1>13. QED
  BY <1>1, <1>3, <1>4, <1>8, <1>9, <1>10, <1>11, <1>12, LineageTurn

LEMMA LineageEnds ==
  ASSUME TypeInv, TypeInv', LineageBody, NEW t \in Workers, NEW ok \in BOOLEAN, RunEnd(t, ok)
  PROVE  LineageBody'
<1>1. PICK q \in Locals : q = loc[t] /\ pc[t] = "runEnd"
  BY Held DEF TypeInv, RunEnd, Enter, Goto
<1>2. PICK v \in Runs : v = q.r /\ v <= issued
  BY <1>1, Held DEF TypeInv, InScan, Runs
<1>3. PICK x \in RunRecord : x = RunOutcome(q)
  <2>1. /\ Cardinality(q.found) \in Nat /\ q.repeats \in Nat
        /\ q.outcome \in {"completed", "failed"}
    BY ScanRunConstants, FS_Subset, FS_CardinalityType DEF Locals
  <2>2. RunOutcome(q) \in RunRecord
    BY <2>1 DEF RunOutcome, RunRecord, NoRun
  <2>3. QED
    BY <2>2
<1>4. x.status = "completed" => /\ q.outcome = "completed"
                                /\ x.total = Cardinality(q.found) + x.repeats
  BY <1>3 DEF RunOutcome, NoRun
<1>5. /\ run' = [run EXCEPT ![v] = x]
      /\ runRow' = runRow \/ runRow' = [runRow EXCEPT ![v] = x]
      /\ UNCHANGED <<lineage, lineageRow, known, issued>>
  BY <1>1, <1>2, <1>3 DEF RunEnd, Row
<1>6. run \in [Runs -> RunRecord] /\ runRow \in [Runs -> RunRecord]
  BY DEF TypeInv, DataTypes
<1>7. /\ run'[v] = x /\ (runRow'[v] = runRow[v] \/ runRow'[v] = x)
      /\ \A r \in Runs \ {v} : run'[r] = run[r] /\ runRow'[r] = runRow[r]
  BY <1>5, <1>6
<1>8. OwnScan("runEnd", q, run, runRow, lineage, lineageRow, known) /\ Scanning("runEnd", q)
  BY <1>1 DEF LineageBody, Scanning, InScan, Open, Closing
<1>9. q.outcome = "completed" => lineage[v] = q.found /\ lineageRow[v] = q.found
  BY <1>2, <1>8 DEF OwnScan, Reported
<1>10. RealRun(v, run', runRow', lineage', lineageRow', known', issued')
  BY <1>4, <1>5, <1>7, <1>9 DEF LineageBody, RealRun, RealCount
<1>11. Moves(t, "idle", IdleLocals)
  BY DEF RunEnd, Enter, Goto, Moves
<1>12. ~ Scanning("idle", IdleLocals) /\ "idle" \in Steps
  BY ElsewhereScans
<1>13. OwnScan("idle", IdleLocals, run', runRow', lineage', lineageRow', known')
  BY <1>12 DEF OwnScan
<1>14. \A u \in Workers \ {t} : Scanning(pc[u], loc[u]) => loc[u].r # v
  BY <1>1, <1>2, <1>8 DEF LineageBody
<1>15. issued <= issued' /\ known \subseteq known'
  BY <1>5 DEF TypeInv, ControlInv
<1>16. \A r \in Runs \ {v} : lineage'[r] = lineage[r] /\ lineageRow'[r] = lineageRow[r]
  BY <1>5
<1>17. QED
  BY <1>7, <1>10, <1>11, <1>12, <1>13, <1>14, <1>15, <1>16, Idling, LineageTurn

LEMMA LineageRestart ==
  ASSUME TypeInv, LineageBody, Restart
  PROVE  LineageBody'
<1>1. /\ pc' = [t \in Workers |-> "idle"] /\ loc' = [t \in Workers |-> IdleLocals]
      /\ run' = runRow /\ runRow' = runRow /\ lineage' = lineageRow /\ lineageRow' = lineageRow
      /\ known' = known /\ issued' = issued
  BY DEF Restart, rows
<1>2. \A t \in Workers : pc'[t] = "idle" /\ ~ Scanning(pc'[t], loc'[t])
  BY <1>1, ElsewhereScans
<1>3. \A t \in Workers : OwnScan(pc'[t], loc'[t], run', runRow', lineage', lineageRow', known')
  BY <1>2 DEF OwnScan
<1>4. \A r \in Runs : RealRun(r, run', runRow', lineage', lineageRow', known', issued')
  BY <1>1 DEF LineageBody, RealRun
<1>5. QED
  BY <1>2, <1>3, <1>4 DEF LineageBody

LEMMA InitLineage == Init => LineageBody
<1> SUFFICES ASSUME Init PROVE LineageBody
  OBVIOUS
<1>1. \A t \in Workers : pc[t] = "idle" /\ ~ Scanning(pc[t], loc[t])
  BY ElsewhereScans DEF Init
<1>2. \A t \in Workers : OwnScan(pc[t], loc[t], run, runRow, lineage, lineageRow, known)
  BY <1>1 DEF OwnScan
<1>3. \A r \in Runs : RealRun(r, run, runRow, lineage, lineageRow, known, issued)
  BY DEF Init, RealRun, RealCount, NoRun
<1>4. QED
  BY <1>1, <1>2, <1>3 DEF LineageBody

LEMMA LineageStep == TypeInv /\ TypeInv' /\ HistInv /\ LineageInv /\ [Next]_vars => LineageInv'
<1> SUFFICES ASSUME TypeInv, TypeInv', HistInv, LineageInv, [Next]_vars, deletion' = "none"
             PROVE  LineageBody'
  BY DEF LineageInv
<1>1. CASE UNCHANGED vars
  <2>1. LineageBody
    BY <1>1 DEF LineageInv, vars, limits
  <2>2. QED
    BY <1>1, <2>1 DEF vars, memory, rows, limits, LineageBody
<1>2. CASE Restart
  <2>1. LineageBody
    BY <1>2 DEF LineageInv, Restart
  <2>2. QED
    BY <1>2, <2>1, LineageRestart
<1>3. ASSUME NEW t \in Workers, NEW ok \in BOOLEAN,
             \/ ScanProject(t) \/ BeginPrepare(t, ok) \/ BeginScan(t, ok)
             \/ \E done, last : RegisterStages(t, ok, done, last)
             \/ \E r \in Runs, s \in UserStages, f \in Findings : BeginUserStage(t, ok, r, s, f)
      PROVE  LineageBody'
  <2>1. LineageBody
    BY <1>3 DEF ScanProject, StartsBesideDeletion, RegisterStages, BeginPrepare, BeginScan,
                BeginUserStage, LineageInv
  <2>2. QED
    BY <1>3, <2>1, LineageStarts
<1>4. ASSUME NEW t \in Workers, NEW ok \in BOOLEAN,
             \/ CreateRun(t, ok) \/ AddLineage(t, ok) \/ RunEnd(t, ok)
             \/ BegMem(t) \/ BegRow(t, ok) \/ EndExec(t, ok) \/ IterationRaises(t)
             \/ EndMem(t) \/ EndRow(t, ok)
      PROVE  LineageBody'
  <2>1. LineageBody
    BY <1>4 DEF CreateRun, AddLineage, RunEnd, BegMem, BegRow, EndExec, EndExecution,
                IterationRaises, EndMem, EndRow, limits, LineageInv
  <2>2. QED
    BY <1>4, <2>1, LineageCreate, LineageAdds, LineageEnds, LineageStageSteps
<1>5. ASSUME NEW t \in Workers, NEW ok \in BOOLEAN, NEW outcome \in {"completed", "failed"},
             NEW found \in SUBSET Findings, NEW repeats \in Nat, StageBody(t, ok, outcome, found, repeats)
      PROVE  LineageBody'
  <2>1. LineageBody
    BY <1>5 DEF StageBody, LineageInv
  <2>2. QED
    BY <1>5, <2>1, LineageScanned
<1>6. ASSUME NEW t \in Workers, DeleteFindings(t) PROVE FALSE
  BY <1>6 DEF DeleteFindings
<1>7. ASSUME NEW t \in Workers, NEW ok \in BOOLEAN,
             DeleteRuns(t) \/ DeleteRows(t, ok) \/ DeleteProject(t, ok)
      PROVE  FALSE
  <2>1. pc[t] \in Deleting /\ deletion = "none"
    BY <1>7 DEF DeleteRuns, DeleteRows, DeleteProject, Enter, Goto, Deleting, limits
  <2>2. QED
    BY <2>1 DEF HistInv, HistBody
<1>8. TRUE \in BOOLEAN
  OBVIOUS
<1>9. QED
  BY <1>1, <1>2, <1>3, <1>4, <1>5, <1>6, <1>7, <1>8, Cases

(* The total of a completed run is the size of its lineage plus the entries *)
(* of its report that repeat an id, and the findings of every lineage are   *)
(* in the store, whichever threads scan, whichever commits fail and         *)
(* whenever the process restarts.                                           *)
THEOREM TotalsAreReal == Spec => []CountsAreReal
<1>1. Init => LineageInv
  BY InitLineage DEF LineageInv
<1>2. LineageInv => CountsAreReal
  BY DEF LineageInv, LineageBody, RealRun, RealCount, CountsAreReal
<1>3. QED
  BY <1>1, <1>2, HistInvariant, LineageStep, PTL DEF Spec

----------------------------------------------------------------------------
(* Deletion. *)

(* No record of run r is left in these tables. *)
Gone(r, rn, st, h, x) == rn[r] = NoRun /\ st[r] = NoStages /\ h[r] = <<>> /\ x[r] = {}
InMemory(r) == Gone(r, run, stage, hist, lineage)
InRows(r) == Gone(r, runRow, stageRow, histRow, lineageRow)

(* The records of a run hang on the run itself, in memory and in the rows;  *)
(* between the two halves of a deletion they hang on its keys.              *)
RecordsBody ==
  /\ \A t \in Workers : pc[t] \in InScan => runRow[loc[t].r].status # "none"
  /\ \A r \in Runs : runRow[r].status = "none" => InRows(r)
  /\ (\A t \in Workers : pc[t] # "delRows") =>
       \A r \in Runs : /\ run[r].status = "none" <=> runRow[r].status = "none"
                       /\ run[r].status = "none" => InMemory(r)
  /\ \A t \in Workers : pc[t] = "delRows" =>
       \A r \in Runs : InMemory(r) /\ (r \notin loc[t].keys => InRows(r))
  /\ \A t \in Workers : pc[t] = "delProject" => \A r \in Runs : InRows(r)
  /\ ~ project => (\A t \in Workers : pc[t] = "idle") /\ (\A r \in Runs : InRows(r))

(* Every finding of the store is in a lineage, or about to be. *)
FoundBody ==
  /\ \A f \in known :
       \/ \E r \in Runs : run[r].status # "none" /\ f \in lineage[r]
       \/ \E t \in Workers : pc[t] = "lineage" /\ f \in loc[t].todo
  /\ ~ project \/ (\E t \in Workers : pc[t] \in Deleting) => known = {}

CascadeBody ==
  /\ \A t, u \in Workers : pc[t] \in Deleting /\ t # u => pc[u] = "idle"
  /\ dbErrors = 0 => RecordsBody
  /\ dbErrors = 0 /\ crashes = 0 => FoundBody

CascadeInv == deletion # "overlapped" => CascadeBody

(* The tables agree, before and after a step, about every run but v. *)
OnlyRun(v) ==
  \A r \in Runs \ {v} :
    /\ run'[r] = run[r] /\ stage'[r] = stage[r] /\ hist'[r] = hist[r] /\ lineage'[r] = lineage[r]
    /\ runRow'[r] = runRow[r] /\ stageRow'[r] = stageRow[r] /\ histRow'[r] = histRow[r]
    /\ lineageRow'[r] = lineageRow[r]

(* A step of a handler that does not delete, for the run v, or for none. *)
LEMMA CascadeTurn ==
  ASSUME TypeInv, TypeInv', CascadeBody, NEW t \in Workers, NEW p \in Steps \ Deleting, NEW l \in Locals,
         Moves(t, p, l), \A u \in Workers : pc[u] \notin Deleting,
         NEW v, OnlyRun(v), project' = project, crashes' = crashes, dbErrors <= dbErrors',
         p \in InScan => l.r = v /\ v \in Runs,
         dbErrors' = 0 /\ RecordsBody =>
           /\ project
           /\ v \in Runs => run'[v].status # "none" /\ runRow'[v].status # "none",
         dbErrors' = 0 =>
           /\ v \in Runs => lineage[v] \subseteq lineage'[v]
           /\ \A f \in known' : f \in known \/ (p = "lineage" /\ f \in l.todo)
           /\ pc[t] = "lineage" => \A f \in loc[t].todo :
                (p = "lineage" /\ f \in l.todo) \/ (v \in Runs /\ f \in lineage'[v])
  PROVE  CascadeBody'
<1>1. /\ pc'[t] = p /\ loc'[t] = l
      /\ \A u \in Workers \ {t} : pc'[u] = pc[u] /\ loc'[u] = loc[u]
  BY DEF Moves, TypeInv, ControlInv
<1>2. \A u \in Workers : pc'[u] \notin Deleting /\ pc'[u] # "delRows" /\ pc'[u] # "delProject"
                         /\ pc[u] # "delRows"
  BY <1>1 DEF Deleting
<1>3. dbErrors' = 0 => dbErrors = 0
  BY DEF TypeInv, DataTypes
<1>4. ASSUME dbErrors' = 0 PROVE RecordsBody' /\ project
  <2>1. RecordsBody /\ project /\ (v \in Runs => run'[v].status # "none" /\ runRow'[v].status # "none")
    BY <1>3, <1>4 DEF CascadeBody
  <2>2. ASSUME NEW u \in Workers, pc'[u] \in InScan PROVE runRow'[loc'[u].r].status # "none"
    <3>1. CASE u = t
      BY <1>1, <2>1, <2>2, <3>1
    <3>2. CASE u # t
      <4>1. loc'[u].r = loc[u].r /\ runRow[loc[u].r].status # "none" /\ loc[u].r \in Runs
        BY <1>1, <2>1, <2>2, <3>2, Held DEF RecordsBody, TypeInv
      <4>2. QED
        BY <2>1, <4>1 DEF OnlyRun
    <3>3. QED
      BY <3>1, <3>2
  <2>3. ASSUME NEW r \in Runs
        PROVE  /\ runRow'[r].status = "none" => InRows(r)'
               /\ run'[r].status = "none" <=> runRow'[r].status = "none"
               /\ run'[r].status = "none" => InMemory(r)'
    <3>1. CASE r = v
      BY <2>1, <3>1
    <3>2. CASE r # v
      BY <1>2, <2>1, <3>2 DEF RecordsBody, OnlyRun, InRows, InMemory, Gone
    <3>3. QED
      BY <3>1, <3>2
  <2>4. QED
    BY <1>2, <2>1, <2>2, <2>3 DEF RecordsBody
<1>5. ASSUME dbErrors' = 0, crashes' = 0 PROVE FoundBody'
  <2>1. FoundBody /\ project /\ (v \in Runs => run'[v].status # "none")
    BY <1>3, <1>4, <1>5 DEF CascadeBody
  <2>2. ASSUME NEW f \in known'
        PROVE  \/ \E r \in Runs : run'[r].status # "none" /\ f \in lineage'[r]
               \/ \E u \in Workers : pc'[u] = "lineage" /\ f \in loc'[u].todo
    <3>1. CASE p = "lineage" /\ f \in l.todo
      BY <1>1, <3>1
    <3>2. ASSUME NEW r \in Runs, run[r].status # "none", f \in lineage[r]
          PROVE  run'[r].status # "none" /\ f \in lineage'[r]
      BY <1>5, <2>1, <3>2 DEF OnlyRun
    <3>3. ASSUME NEW u \in Workers, pc[u] = "lineage", f \in loc[u].todo, u # t
          PROVE  pc'[u] = "lineage" /\ f \in loc'[u].todo
      BY <1>1, <3>3
    <3>4. ASSUME pc[t] = "lineage", f \in loc[t].todo, ~ (p = "lineage" /\ f \in l.todo)
          PROVE  v \in Runs /\ run'[v].status # "none" /\ f \in lineage'[v]
      BY <1>5, <2>1, <3>4
    <3>5. CASE f \in known
      BY <2>1, <3>1, <3>2, <3>3, <3>4, <3>5 DEF FoundBody
    <3>6. QED
      BY <1>5, <3>1, <3>5
  <2>3. QED
    BY <1>2, <2>1, <2>2 DEF FoundBody
<1>6. QED
  BY <1>2, <1>4, <1>5 DEF CascadeBody

(* The run of a scan that no deletion overlaps is there. *)
LEMMA ScanIsThere ==
  ASSUME TypeInv, NEW t \in Workers, pc[t] \in InScan, \A u \in Workers : pc[u] \notin Deleting
  PROVE  /\ loc[t].r \in Runs
         /\ RecordsBody => project /\ run[loc[t].r].status # "none" /\ runRow[loc[t].r].status # "none"
<1>1. loc[t].r \in Runs
  BY Held DEF TypeInv
<1>2. pc[t] # "idle" /\ \A u \in Workers : pc[u] # "delRows"
  BY DEF InScan, Open, Closing, Deleting
<1>3. QED
  BY <1>1, <1>2 DEF RecordsBody

LEMMA CascadeScan ==
  ASSUME TypeInv, TypeInv', CascadeBody, NEW t \in Workers, NEW p \in Steps \ Deleting, NEW l \in Locals,
         Moves(t, p, l), pc[t] \in InScan, p \in InScan => l.r = loc[t].r,
         OnlyRun(loc[t].r), project' = project, crashes' = crashes, dbErrors <= dbErrors',
         UNCHANGED <<run, runRow>> \/ (run'[loc[t].r].status # "none"
                                       /\ (dbErrors' = 0 => runRow'[loc[t].r].status # "none")),
         dbErrors' = 0 =>
           /\ lineage[loc[t].r] \subseteq lineage'[loc[t].r]
           /\ \A f \in known' : f \in known \/ (p = "lineage" /\ f \in l.todo)
           /\ pc[t] = "lineage" => \A f \in loc[t].todo :
                (p = "lineage" /\ f \in l.todo) \/ f \in lineage'[loc[t].r]
  PROVE  CascadeBody'
<1>1. pc[t] # "idle" /\ pc[t] \notin Deleting
  BY DEF InScan, Open, Closing, Deleting
<1>2. \A u \in Workers : pc[u] \notin Deleting
  BY <1>1 DEF CascadeBody
<1>3. PICK v \in Runs : v = loc[t].r
  BY <1>2, ScanIsThere
<1>4. RecordsBody => project /\ run[v].status # "none" /\ runRow[v].status # "none"
  BY <1>2, <1>3, ScanIsThere
<1>5. dbErrors' = 0 /\ RecordsBody => project /\ run'[v].status # "none" /\ runRow'[v].status # "none"
  BY <1>3, <1>4
<1>6. QED
  BY <1>2, <1>3, <1>5, CascadeTurn

(* The steps of a scan or stage that neither report findings nor start. *)
LEMMA PlainShape ==
  ASSUME TypeInv, NEW t \in Workers, NEW ok \in BOOLEAN,
         \/ \E done, last : RegisterStages(t, ok, done, last)
         \/ BeginPrepare(t, ok) \/ BeginScan(t, ok) \/ BegMem(t) \/ BegRow(t, ok)
         \/ EndExec(t, ok) \/ IterationRaises(t) \/ EndMem(t) \/ EndRow(t, ok) \/ RunEnd(t, ok)
  PROVE  /\ pc[t] \in InScan /\ pc[t] # "lineage"
         /\ \E p \in Steps \ Deleting, l \in Locals : Moves(t, p, l) /\ (p \in InScan => l.r = loc[t].r)
<1> DEFINE Goal == \E p \in Steps \ Deleting, l \in Locals : Moves(t, p, l) /\ (p \in InScan => l.r = loc[t].r)
<1>1. \A p \in {"prepare", "begin", "begMem", "begRow", "body", "endExec", "endMem", "endRow", "runEnd", "idle"} : p \in Steps \ Deleting
  BY DEF Steps, Deleting
<1>2. \A l : AfterStage(l) \in {"begin", "runEnd", "idle"} /\ AfterError(l) \in {"runEnd", "idle"}
  BY Errors DEF AfterStage
<1>3. pc[t] \in InScan /\ pc[t] # "lineage"
  <2>1. pc[t] \in {"register", "prepare", "begin", "begMem", "begRow", "endExec", "endMem", "endRow", "runEnd"}
    BY DEF RegisterStages, BeginPrepare, BeginScan, BeginExecution, BegMem, BegRow, EndExec, EndExecution,
           IterationRaises, EndMem, EndRow, RunEnd, EnterStage, Enter, Goto
  <2>2. QED
    BY <2>1 DEF InScan, Open, Closing
<1>4. loc[t] \in Locals /\ loc[t].r \in Runs
  BY <1>3, Held DEF TypeInv
<1>5. CASE (\E done, last : RegisterStages(t, ok, done, last)) \/ BegMem(t) \/ EndMem(t)
  <2>1. PICK p \in {"prepare", "idle", "begRow", "endRow"} : Moves(t, p, loc[t])
    BY <1>5, RegisterShape, Same DEF BegMem, EndMem, Goto, TypeInv
  <2>2. QED
    BY <1>1, <1>3, <1>4, <2>1
<1>6. CASE RunEnd(t, ok)
  <2>1. Moves(t, "idle", IdleLocals) /\ "idle" \notin InScan
    BY <1>6 DEF RunEnd, Enter, Goto, Moves, InScan, Open, Closing
  <2>2. QED
    BY <1>1, <1>3, <2>1, Idling
<1>7. CASE BegRow(t, ok)
  <2>1. PICK l \in Locals : l.r = loc[t].r /\ Moves(t, IF ~ ok THEN AfterError(l)
                              ELSE IF loc[t].stage = "PREPARE" THEN "endExec" ELSE "body", l)
    BY <1>7, BegRowShape
  <2>2. QED
    BY <1>1, <1>2, <1>3, <2>1
<1>8. CASE EndRow(t, ok)
  <2>1. PICK l \in Locals : l.r = loc[t].r /\ Moves(t, IF ok THEN AfterStage(loc[t]) ELSE AfterError(l), l)
    BY <1>4, <1>8, CommitShape DEF EndRow
  <2>2. QED
    BY <1>1, <1>2, <1>3, <2>1
<1>9. CASE EndExec(t, ok)
  <2>1. PICK l \in Locals : l.r = loc[t].r /\ Moves(t, IF ok THEN "endMem" ELSE AfterError(l), l)
    BY <1>9, EndShape
  <2>2. QED
    BY <1>1, <1>2, <1>3, <2>1
<1>10. CASE IterationRaises(t)
  <2>1. PICK l \in Locals : l.r = loc[t].r /\ Moves(t, AfterError(l), l)
    BY <1>10, IterationShape
  <2>2. QED
    BY <1>1, <1>2, <1>3, <2>1
<1>11. CASE BeginPrepare(t, ok) \/ BeginScan(t, ok)
  <2>1. PICK l \in Locals : l.r = loc[t].r /\ Moves(t, IF ok THEN "begMem" ELSE AfterError(l), l)
    BY <1>4, <1>11, BeginShape DEF BeginPrepare, BeginScan, Stages
  <2>2. QED
    BY <1>1, <1>2, <1>3, <2>1
<1>12. QED
  BY <1>3, <1>5, <1>6, <1>7, <1>8, <1>9, <1>10, <1>11

LEMMA StageWriteOnly ==
  ASSUME NEW T \in [Runs -> [Stages -> StageRecord]], NEW v \in Runs, NEW s, NEW x, NEW r \in Runs, r # v
  PROVE  [T EXCEPT ![v][s] = x][r] = T[r]
OBVIOUS

LEMMA PlainRuns ==
  ASSUME TypeInv, NEW t \in Workers, NEW ok \in BOOLEAN,
         \/ \E done, last : RegisterStages(t, ok, done, last)
         \/ BeginPrepare(t, ok) \/ BeginScan(t, ok) \/ BegMem(t) \/ BegRow(t, ok)
         \/ EndExec(t, ok) \/ IterationRaises(t) \/ EndMem(t) \/ EndRow(t, ok) \/ RunEnd(t, ok)
  PROVE  OnlyRun(loc[t].r)
<1>1. PICK v \in Runs : v = loc[t].r
  BY PlainShape, Held DEF TypeInv
<1>2. /\ run \in [Runs -> RunRecord] /\ runRow \in [Runs -> RunRecord]
      /\ stage \in [Runs -> [Stages -> StageRecord]] /\ stageRow \in [Runs -> [Stages -> StageRecord]]
      /\ hist \in [Runs -> Seq(Execution)] /\ histRow \in [Runs -> Seq(Execution)]
  BY DEF TypeInv, DataTypes
<1>3. CASE IterationRaises(t)
  BY <1>3 DEF IterationRaises, memory, rows, OnlyRun
<1>4. CASE BegMem(t) \/ BegRow(t, ok) \/ EndMem(t) \/ EndRow(t, ok)
  <2>1. PICK x : /\ stage' = stage \/ stage' = [stage EXCEPT ![v][loc[t].stage] = x]
                 /\ stageRow' = stageRow \/ stageRow' = [stageRow EXCEPT ![v][loc[t].stage] = x]
    <3>1. \A status : \E x : x = [status |-> status, count |-> loc[t].count]
      OBVIOUS
    <3>2. QED
      BY <1>1, <1>4 DEF BegMem, BegRow, EndMem, EndRow, StageWrite, Row, memory, rows
  <2>2. UNCHANGED <<run, runRow, hist, histRow, lineage, lineageRow>>
    BY <1>4 DEF BegMem, BegRow, EndMem, EndRow, memory, rows
  <2>3. \A r \in Runs \ {v} : stage'[r] = stage[r] /\ stageRow'[r] = stageRow[r]
    BY <1>2, <2>1, StageWriteOnly
  <2>4. QED
    BY <1>1, <2>2, <2>3 DEF OnlyRun
<1>5. ASSUME NEW done, NEW last, RegisterStages(t, ok, done, last) PROVE OnlyRun(v)
  <2>1. PICK x, y : stage' = [stage EXCEPT ![v] = x] /\ stageRow' = [stageRow EXCEPT ![v] = y]
    <3>1. PICK S : /\ stage' = [stage EXCEPT ![v] = Pending(@, done)]
                   /\ stageRow' = [stageRow EXCEPT ![v] = Pending(@, S)]
      BY <1>1, <1>5, RegisterShape
    <3>2. /\ \E x : stage' = [stage EXCEPT ![v] = x]
          /\ \E y : stageRow' = [stageRow EXCEPT ![v] = y]
      BY <3>1
    <3>3. QED
      BY <3>2
  <2>2. UNCHANGED <<run, runRow, hist, histRow, lineage, lineageRow>>
    BY <1>5 DEF RegisterStages
  <2>3. \A r \in Runs \ {v} : stage'[r] = stage[r] /\ stageRow'[r] = stageRow[r]
    BY <1>2, <2>1
  <2>4. QED
    BY <2>2, <2>3 DEF OnlyRun
<1>6. CASE BeginPrepare(t, ok) \/ BeginScan(t, ok) \/ EndExec(t, ok)
  <2>1. PICK e, d : /\ hist' = [hist EXCEPT ![v] = e]
                    /\ histRow' = histRow \/ histRow' = [histRow EXCEPT ![v] = d]
                    /\ UNCHANGED <<run, runRow, stage, stageRow, lineage, lineageRow>>
    BY <1>1, <1>6 DEF BeginPrepare, BeginScan, BeginExecution, EndExec, EndExecution, Row
  <2>2. \A r \in Runs \ {v} : hist'[r] = hist[r] /\ histRow'[r] = histRow[r]
    BY <1>2, <2>1
  <2>3. QED
    BY <1>1, <2>1, <2>2 DEF OnlyRun
<1>7. CASE RunEnd(t, ok)
  <2>1. PICK x : /\ run' = [run EXCEPT ![v] = x]
                 /\ runRow' = runRow \/ runRow' = [runRow EXCEPT ![v] = x]
                 /\ UNCHANGED <<stage, stageRow, hist, histRow, lineage, lineageRow>>
    BY <1>1, <1>7 DEF RunEnd, Row
  <2>2. \A r \in Runs \ {v} : run'[r] = run[r] /\ runRow'[r] = runRow[r]
    BY <1>2, <2>1
  <2>3. QED
    BY <1>1, <2>1, <2>2 DEF OnlyRun
<1>8. QED
  BY <1>1, <1>3, <1>4, <1>5, <1>6, <1>7

LEMMA CascadePlain ==
  ASSUME TypeInv, TypeInv', CascadeBody, NEW t \in Workers, NEW ok \in BOOLEAN,
         \/ \E done, last : RegisterStages(t, ok, done, last)
         \/ BeginPrepare(t, ok) \/ BeginScan(t, ok) \/ BegMem(t) \/ BegRow(t, ok)
         \/ EndExec(t, ok) \/ IterationRaises(t) \/ EndMem(t) \/ EndRow(t, ok) \/ RunEnd(t, ok)
  PROVE  CascadeBody'
<1>1. /\ pc[t] \in InScan /\ pc[t] # "lineage" /\ loc[t] \in Locals /\ loc[t].r \in Runs
  BY PlainShape, Held DEF TypeInv
<1>2. PICK p \in Steps \ Deleting, l \in Locals : Moves(t, p, l) /\ (p \in InScan => l.r = loc[t].r)
  BY PlainShape
<1>3. OnlyRun(loc[t].r)
  BY PlainRuns
<1>4. UNCHANGED <<project, known, lineage, lineageRow, crashes>>
  BY DEF RegisterStages, BeginPrepare, BeginScan, BeginExecution, BegMem, BegRow, EndExec, EndExecution,
         IterationRaises, EndMem, EndRow, RunEnd, memory, rows, limits
<1>5. dbErrors <= dbErrors' /\ (dbErrors' = 0 => dbErrors' = dbErrors)
  <2>1. dbErrors \in Nat
    BY DEF TypeInv, DataTypes
  <2>2. CASE dbErrors' = dbErrors
    BY <2>1, <2>2
  <2>3. CASE Commit(ok) \/ Commit(FALSE)
    BY <2>1, <2>3 DEF Commit
  <2>4. QED
    BY <2>2, <2>3 DEF RegisterStages, BeginPrepare, BeginScan, BeginExecution, BegMem, BegRow, EndExec,
           EndExecution, IterationRaises, EndMem, EndRow, RunEnd, EnterStage, limits
<1>6. UNCHANGED <<run, runRow>> \/ (run'[loc[t].r].status # "none"
                                     /\ (dbErrors' = 0 => runRow'[loc[t].r].status # "none"))
  <2>1. CASE RunEnd(t, ok)
    <3>1. PICK v \in Runs : v = loc[t].r
      BY <1>1
    <3>2. PICK x : x = RunOutcome(loc[t])
      OBVIOUS
    <3>3. x.status # "none"
      BY <1>1, <3>2 DEF RunOutcome, Locals
    <3>4. run \in [Runs -> RunRecord] /\ runRow \in [Runs -> RunRecord]
      BY DEF TypeInv, DataTypes
    <3>5. /\ run' = [run EXCEPT ![v] = x] /\ (ok => runRow' = [runRow EXCEPT ![v] = x])
      BY <2>1, <3>1, <3>2 DEF RunEnd, Row
    <3>6. dbErrors' = 0 => ok
      BY <1>5, <2>1, CommitTypes DEF RunEnd, TypeInv, DataTypes
    <3>7. run'[v] = x /\ (dbErrors' = 0 => runRow'[v] = x)
      BY <3>4, <3>5, <3>6
    <3>8. QED
      BY <3>1, <3>3, <3>7
  <2>2. CASE ~ RunEnd(t, ok)
    BY <2>2 DEF RegisterStages, BeginPrepare, BeginScan, BeginExecution, BegMem, BegRow, EndExec,
           EndExecution, IterationRaises, EndMem, EndRow, memory, rows
  <2>3. QED
    BY <2>1, <2>2
<1>7. QED
  BY <1>1, <1>2, <1>3, <1>4, <1>5, <1>6, CascadeScan

LEMMA CascadeScanned ==
  ASSUME TypeInv, TypeInv', CascadeBody, NEW t \in Workers, NEW ok \in BOOLEAN,
         NEW outcome \in {"completed", "failed"}, NEW found \in SUBSET Findings,
         NEW repeats \in Nat, StageBody(t, ok, outcome, found, repeats)
  PROVE  CascadeBody'
<1>1. /\ known' = known \cup found /\ Commit(ok)
      /\ found # {} => loc[t].stage = "SCAN" /\ (outcome = "completed" \/ ~ ok)
      /\ UNCHANGED <<project, run, stage, hist, lineage, runRow, stageRow, histRow, lineageRow, crashes>>
  BY DEF StageBody, memory, rows
<1>2. pc[t] = "body" /\ pc[t] \in InScan
  BY BodyShape DEF InScan, Open
<1>3. PICK l \in Locals : /\ l.r = loc[t].r /\ l.todo = found
                          /\ Moves(t, IF loc[t].stage = "SCAN" /\ outcome = "completed" THEN "lineage"
                                                                                      ELSE "endExec", l)
  BY BodyShape
<1>4. PICK p \in Steps \ Deleting :
        Moves(t, p, l) /\ (loc[t].stage = "SCAN" /\ outcome = "completed" => p = "lineage")
  BY <1>3 DEF Steps, Deleting
<1>5. dbErrors <= dbErrors' /\ (dbErrors' = 0 => ok)
  <2>1. dbErrors \in Nat
    BY DEF TypeInv, DataTypes
  <2>2. QED
    BY <1>1, <2>1 DEF Commit
<1>6. OnlyRun(loc[t].r)
  BY <1>1 DEF OnlyRun
<1>7. dbErrors' = 0 => \A f \in known' : f \in known \/ (p = "lineage" /\ f \in l.todo)
  BY <1>1, <1>3, <1>4, <1>5
<1>8. QED
  BY <1>1, <1>2, <1>3, <1>4, <1>5, <1>6, <1>7, CascadeScan

LEMMA CascadeAdds ==
  ASSUME TypeInv, TypeInv', CascadeBody, NEW t \in Workers, NEW ok \in BOOLEAN, AddLineage(t, ok)
  PROVE  CascadeBody'
<1>1. pc[t] = "lineage" /\ pc[t] \in InScan
  BY LineageShape DEF InScan, Open
<1>2. PICK v \in Runs : v = loc[t].r
  BY <1>1, Held DEF TypeInv
<1>3. /\ UNCHANGED <<project, known, run, stage, hist, runRow, stageRow, histRow, crashes>>
      /\ Commit(ok) \/ dbErrors' = dbErrors
  BY DEF AddLineage, memory, rows, limits
<1>4. PICK l \in Locals, p \in {"lineage", "endExec"} :
        /\ l.r = v /\ Moves(t, p, l)
        /\ \/ loc[t].todo = {} /\ UNCHANGED <<lineage, lineageRow>>
           \/ \E f \in loc[t].todo :
                /\ lineage' = [lineage EXCEPT ![v] = @ \cup {f}]
                /\ \/ /\ p = "lineage" /\ l.todo = loc[t].todo \ {f}
                      /\ lineageRow' = [lineageRow EXCEPT ![v] = @ \cup {f}]
                   \/ ~ ok /\ lineageRow' = lineageRow
  BY <1>2, LineageShape
<1>5. dbErrors <= dbErrors' /\ (dbErrors' = 0 => ok \/ dbErrors' = dbErrors)
  <2>1. dbErrors \in Nat
    BY DEF TypeInv, DataTypes
  <2>2. QED
    BY <1>3, <2>1 DEF Commit
<1>6. lineage \in [Runs -> SUBSET Findings] /\ lineageRow \in [Runs -> SUBSET Findings]
  BY DEF TypeInv, DataTypes
<1>7. /\ \A r \in Runs \ {v} : lineage'[r] = lineage[r] /\ lineageRow'[r] = lineageRow[r]
      /\ lineage[v] \subseteq lineage'[v]
  BY <1>4, <1>6
<1>8. OnlyRun(v)
  BY <1>3, <1>7 DEF OnlyRun
<1>9. dbErrors' = 0 => ok \/ loc[t].todo = {}
  <2>1. dbErrors \in Nat
    BY DEF TypeInv, DataTypes
  <2>2. Commit(ok) \/ loc[t].todo = {}
    BY DEF AddLineage
  <2>3. QED
    BY <2>1, <2>2 DEF Commit
<1>10. dbErrors' = 0 => \A f \in loc[t].todo : (p = "lineage" /\ f \in l.todo) \/ f \in lineage'[v]
  BY <1>4, <1>6, <1>9
<1>11. p \in Steps \ Deleting
  BY DEF Steps, Deleting
<1>12. QED
  BY <1>1, <1>2, <1>3, <1>4, <1>5, <1>7, <1>8, <1>10, <1>11, CascadeScan

LEMMA CascadeCreate ==
  ASSUME TypeInv, TypeInv', CascadeBody, NEW t \in Workers, NEW ok \in BOOLEAN, CreateRun(t, ok)
  PROVE  CascadeBody'
<1>1. PICK v \in Runs : v = issued + 1 /\ pc[t] = "create"
  BY CreateShape
<1>2. \A u \in Workers : pc[u] \notin Deleting
  BY <1>1 DEF CascadeBody, Deleting
<1>3. PICK l \in Locals : (ok => l.r = v) /\ Moves(t, IF ok THEN "register" ELSE "idle", l)
  BY <1>1, CreateShape
<1>4. PICK p \in Steps \ Deleting : Moves(t, p, l) /\ p # "lineage" /\ (p \in InScan => l.r = v)
  BY <1>3 DEF Steps, Deleting, InScan, Open, Closing
<1>5. /\ run' = [run EXCEPT ![v] = [NoRun EXCEPT !.status = "running"]]
      /\ runRow' = IF ok THEN [runRow EXCEPT ![v] = run'[v]] ELSE runRow
      /\ UNCHANGED <<project, known, stage, stageRow, hist, histRow, lineage, lineageRow, crashes>>
      /\ Commit(ok)
  BY <1>1 DEF CreateRun, Row
<1>6. run \in [Runs -> RunRecord] /\ runRow \in [Runs -> RunRecord] /\ dbErrors \in Nat
  BY DEF TypeInv, DataTypes
<1>7. dbErrors <= dbErrors' /\ (dbErrors' = 0 => ok)
  BY <1>5, <1>6 DEF Commit
<1>8. /\ run'[v].status = "running" /\ (ok => runRow'[v].status = "running")
      /\ \A r \in Runs \ {v} : run'[r] = run[r] /\ runRow'[r] = runRow[r]
  BY <1>5, <1>6 DEF NoRun
<1>9. OnlyRun(v)
  BY <1>5, <1>8 DEF OnlyRun
<1>10. RecordsBody => project
  BY <1>1 DEF RecordsBody
<1>11. QED
  BY <1>1, <1>2, <1>4, <1>5, <1>7, <1>8, <1>9, <1>10, CascadeTurn

LEMMA CascadeStarts ==
  ASSUME TypeInv, TypeInv', CascadeBody, NEW t \in Workers, NEW ok \in BOOLEAN,
         \/ ScanProject(t)
         \/ \E r \in Runs, s \in UserStages, f \in Findings : BeginUserStage(t, ok, r, s, f),
         deletion' # "overlapped"
  PROVE  CascadeBody'
<1>1. \A u \in Workers : pc[u] \notin Deleting
  BY DEF ScanProject, BeginUserStage, StartsBesideDeletion
<1>2. CASE ScanProject(t)
  <2>1. Moves(t, "create", loc[t]) /\ loc[t] \in Locals /\ pc[t] = "idle"
    BY <1>2, Same, Held DEF ScanProject, Goto, TypeInv
  <2>2. /\ UNCHANGED <<project, known, run, stage, hist, lineage, runRow, stageRow, histRow, lineageRow,
                       dbErrors, crashes>>
        /\ project
    BY <1>2 DEF ScanProject, memory, rows
  <2>3. "create" \in Steps \ Deleting /\ "create" \notin InScan
    BY DEF Steps, Deleting, InScan, Open, Closing
  <2>4. OnlyRun(0) /\ 0 \notin Runs
    BY <2>2 DEF OnlyRun, Runs
  <2>5. dbErrors <= dbErrors'
    BY <2>2 DEF TypeInv, DataTypes
  <2>6. QED
    BY <1>1, <2>1, <2>2, <2>3, <2>4, <2>5, CascadeTurn
<1>3. ASSUME NEW r \in Runs, NEW s \in UserStages, NEW f \in Findings, BeginUserStage(t, ok, r, s, f)
      PROVE  CascadeBody'
  <2>1. BeginExecution(t, "idle", ok, r, s) /\ run[r].status # "none" /\ s \in Stages /\ s # "SCAN"
    BY <1>3, ScanRunConstants DEF BeginUserStage, Stages
  <2>2. PICK l \in Locals : /\ l.r = r /\ l.stage = s /\ pc[t] = "idle"
                            /\ Moves(t, IF ok THEN "begMem" ELSE AfterError(l), l)
    BY <2>1, BeginShape
  <2>3. PICK p \in {"begMem", "idle"} : Moves(t, p, l)
    BY <2>1, <2>2, Errors
  <2>4. p \in Steps \ Deleting
    BY DEF Steps, Deleting
  <2>5. UNCHANGED <<project, known, run, stage, lineage, runRow, stageRow, lineageRow, crashes>>
    BY <2>1 DEF BeginExecution
  <2>6. \A u \in Runs \ {r} : hist'[u] = hist[u] /\ histRow'[u] = histRow[u]
    <3>1. PICK e, d : /\ hist' = [hist EXCEPT ![r] = e]
                      /\ histRow' = histRow \/ histRow' = [histRow EXCEPT ![r] = d]
      BY <2>1 DEF BeginExecution, Row
    <3>2. hist \in [Runs -> Seq(Execution)] /\ histRow \in [Runs -> Seq(Execution)]
      BY DEF TypeInv, DataTypes
    <3>3. QED
      BY <3>1, <3>2
  <2>7. OnlyRun(r)
    BY <2>5, <2>6 DEF OnlyRun
  <2>8. dbErrors <= dbErrors'
    BY <2>1, CommitTypes DEF BeginExecution, EnterStage, TypeInv, DataTypes
  <2>9. RecordsBody => project /\ runRow[r].status # "none"
    <3>1. \A u \in Workers : pc[u] # "delRows"
      BY <1>1 DEF Deleting
    <3>2. InRows(r) => runRow[r].status = "none"
      BY DEF InRows, Gone, NoRun
    <3>3. QED
      BY <2>1, <3>1, <3>2 DEF RecordsBody
  <2>10. QED
    BY <1>1, <2>1, <2>2, <2>3, <2>4, <2>5, <2>7, <2>8, <2>9, CascadeTurn
<1>4. QED
  BY <1>2, <1>3

(* The records of a deletion's own steps: t alone is at work. *)
LEMMA DeletionTurn ==
  ASSUME TypeInv, NEW t \in Workers, NEW p \in {"delRuns", "delRows", "delProject", "idle"}, NEW l,
         Moves(t, p, l), \A u \in Workers \ {t} : pc[u] = "idle"
  PROVE  /\ pc'[t] = p /\ loc'[t] = l /\ \A u \in Workers \ {t} : pc'[u] = "idle"
         /\ \A u \in Workers : pc'[u] \notin InScan /\ pc'[u] # "lineage"
         /\ \A u, w \in Workers : pc'[u] \in Deleting /\ u # w => pc'[w] = "idle"
<1>1. pc'[t] = p /\ loc'[t] = l /\ \A u \in Workers \ {t} : pc'[u] = "idle"
  BY DEF Moves, TypeInv, ControlInv
<1>2. \A u \in Workers : pc'[u] \notin InScan /\ pc'[u] # "lineage"
  BY <1>1 DEF InScan, Open, Closing
<1>3. \A u, w \in Workers : pc'[u] \in Deleting /\ u # w => pc'[w] = "idle"
  BY <1>1 DEF Deleting
<1>4. QED
  BY <1>1, <1>2, <1>3

LEMMA CascadeDelFindings ==
  ASSUME TypeInv, TypeInv', CascadeBody, NEW t \in Workers, DeleteFindings(t), deletion' # "overlapped"
  PROVE  CascadeBody'
<1>1. \A u \in Workers : pc[u] = "idle"
  BY DEF DeleteFindings
<1>2. /\ project /\ UNCHANGED <<project, run, stage, hist, lineage, runRow, stageRow, histRow, lineageRow,
                               dbErrors, crashes>>
      /\ known' = known \ UNION {lineage[r] : r \in {q \in Runs : run[q].status # "none"}}
  BY DEF DeleteFindings, memory, rows
<1>3. Moves(t, "delRuns", loc[t])
  BY DeletionShape
<1>4. /\ pc'[t] = "delRuns" /\ \A u \in Workers \ {t} : pc'[u] = "idle"
      /\ \A u \in Workers : pc'[u] \notin InScan
      /\ \A u, w \in Workers : pc'[u] \in Deleting /\ u # w => pc'[w] = "idle"
  BY <1>1, <1>3, DeletionTurn
<1>5. \A u \in Workers : pc'[u] # "delRows" /\ pc'[u] # "delProject" /\ pc[u] # "delRows" /\ pc[u] # "lineage"
  BY <1>1, <1>4
<1>6. RecordsBody => RecordsBody'
  BY <1>2, <1>4, <1>5 DEF RecordsBody, InRows, InMemory, Gone
<1>7. FoundBody => known' = {}
  BY <1>2, <1>5 DEF FoundBody
<1>8. FoundBody => FoundBody'
  BY <1>7 DEF FoundBody
<1>9. QED
  BY <1>2, <1>4, <1>6, <1>8 DEF CascadeBody

LEMMA CascadeDelRuns ==
  ASSUME TypeInv, TypeInv', CascadeBody, NEW t \in Workers, DeleteRuns(t)
  PROVE  CascadeBody'
<1> DEFINE mine == {r \in Runs : run[r].status # "none"}
<1>1. pc[t] = "delRuns" /\ \A u \in Workers \ {t} : pc[u] = "idle"
  BY DeletionShape DEF CascadeBody, Deleting
<1>2. PICK l \in Locals : l.keys = mine /\ Moves(t, "delRows", l)
  BY DeletionShape
<1>3. /\ pc'[t] = "delRows" /\ loc'[t] = l /\ \A u \in Workers \ {t} : pc'[u] = "idle"
      /\ \A u \in Workers : pc'[u] \notin InScan
      /\ \A u, w \in Workers : pc'[u] \in Deleting /\ u # w => pc'[w] = "idle"
  BY <1>1, <1>2, DeletionTurn
<1>4. /\ run' = Cleared(run, mine, NoRun) /\ stage' = Cleared(stage, mine, NoStages)
      /\ hist' = Cleared(hist, mine, <<>>) /\ lineage' = Cleared(lineage, mine, {})
      /\ UNCHANGED <<project, known, runRow, stageRow, histRow, lineageRow, dbErrors, crashes>>
  BY DEF DeleteRuns, rows, limits
<1>5. ASSUME RecordsBody PROVE RecordsBody'
  <2>1. project /\ \A u \in Workers : pc[u] # "delRows"
    BY <1>1, <1>5 DEF RecordsBody
  <2>2. ASSUME NEW r \in Runs PROVE InMemory(r)' /\ (r \notin l.keys => InRows(r))
    <3>1. CASE r \in mine
      BY <1>2, <1>4, <3>1 DEF Cleared, InMemory, Gone
    <3>2. CASE r \notin mine
      <4>1. run[r].status = "none"
        BY <3>2
      <4>2. InMemory(r) /\ InRows(r)
        BY <1>5, <2>1, <4>1 DEF RecordsBody
      <4>3. run'[r] = run[r] /\ stage'[r] = stage[r] /\ hist'[r] = hist[r] /\ lineage'[r] = lineage[r]
        BY <1>4, <3>2 DEF Cleared
      <4>4. QED
        BY <4>2, <4>3 DEF InMemory, Gone
    <3>3. QED
      BY <3>1, <3>2
  <2>3. \A r \in Runs : InRows(r)' <=> InRows(r)
    BY <1>4 DEF InRows, Gone
  <2>4. \A u \in Workers : pc'[u] # "delProject" /\ (pc'[u] = "delRows" => u = t)
    BY <1>3
  <2>5. \A r \in Runs : runRow'[r].status = "none" => InRows(r)'
    BY <1>4, <1>5, <2>3 DEF RecordsBody
  <2>6. project'
    BY <1>4, <2>1
  <2>7. ~ \A u \in Workers : pc'[u] # "delRows"
    BY <1>3
  <2>8. QED
    BY <1>3, <2>2, <2>3, <2>4, <2>5, <2>6, <2>7 DEF RecordsBody
<1>6. FoundBody => FoundBody'
  BY <1>1, <1>4 DEF FoundBody, Deleting
<1>7. QED
  BY <1>3, <1>4, <1>5, <1>6 DEF CascadeBody

LEMMA CascadeDelRows ==
  ASSUME TypeInv, TypeInv', CascadeBody, NEW t \in Workers, NEW ok \in BOOLEAN, DeleteRows(t, ok)
  PROVE  CascadeBody'
<1>1. pc[t] = "delRows" /\ \A u \in Workers \ {t} : pc[u] = "idle"
  BY DeletionShape DEF CascadeBody, Deleting
<1>2. PICK p \in {"delProject", "idle"} : Moves(t, p, IdleLocals) /\ (ok => p = "delProject")
  BY DeletionShape
<1>3. /\ pc'[t] = p /\ \A u \in Workers \ {t} : pc'[u] = "idle"
      /\ \A u \in Workers : pc'[u] \notin InScan
      /\ \A u, w \in Workers : pc'[u] \in Deleting /\ u # w => pc'[w] = "idle"
  BY <1>1, <1>2, DeletionTurn
<1>4. PICK mine : mine = loc[t].keys
  OBVIOUS
<1>5. /\ ok => /\ runRow' = Cleared(runRow, mine, NoRun) /\ stageRow' = Cleared(stageRow, mine, NoStages)
               /\ histRow' = Cleared(histRow, mine, <<>>) /\ lineageRow' = Cleared(lineageRow, mine, {})
      /\ UNCHANGED <<project, known, run, stage, hist, lineage, crashes>> /\ Commit(ok)
  BY <1>4 DEF DeleteRows, memory, Row
<1>6. dbErrors' = 0 => dbErrors = 0 /\ ok
  BY <1>5 DEF Commit, TypeInv, DataTypes
<1>7. ASSUME RecordsBody, ok PROVE RecordsBody'
  <2>1. project
    BY <1>1, <1>7 DEF RecordsBody
  <2>2. ASSUME NEW r \in Runs PROVE InMemory(r) /\ InRows(r)'
    <3>1. InMemory(r) /\ (r \notin mine => InRows(r))
      BY <1>1, <1>4, <1>7 DEF RecordsBody
    <3>2. CASE r \in mine
      BY <1>5, <1>7, <3>1, <3>2 DEF Cleared, InRows, Gone
    <3>3. CASE r \notin mine
      BY <1>5, <1>7, <3>1, <3>3 DEF Cleared, InRows, Gone
    <3>4. QED
      BY <3>1, <3>2, <3>3
  <2>3. \A r \in Runs : /\ InMemory(r)' /\ InRows(r)'
                        /\ run'[r].status = "none" /\ runRow'[r].status = "none"
    BY <1>5, <2>2 DEF InMemory, InRows, Gone, NoRun
  <2>4. \A u \in Workers : pc'[u] # "delRows"
    BY <1>3
  <2>5. project'
    BY <1>5, <2>1
  <2>6. QED
    BY <1>3, <2>3, <2>4, <2>5 DEF RecordsBody
<1>8. FoundBody => FoundBody'
  BY <1>1, <1>5 DEF FoundBody, Deleting
<1>9. QED
  BY <1>3, <1>5, <1>6, <1>7, <1>8 DEF CascadeBody

LEMMA CascadeDelProject ==
  ASSUME TypeInv, TypeInv', CascadeBody, NEW t \in Workers, NEW ok \in BOOLEAN, DeleteProject(t, ok)
  PROVE  CascadeBody'
<1>1. pc[t] = "delProject" /\ \A u \in Workers \ {t} : pc[u] = "idle"
  BY DeletionShape DEF CascadeBody, Deleting
<1>2. Moves(t, "idle", loc[t])
  BY DeletionShape
<1>3. /\ \A u \in Workers : pc'[u] = "idle" /\ pc'[u] \notin InScan
      /\ \A u, w \in Workers : pc'[u] \in Deleting /\ u # w => pc'[w] = "idle"
  BY <1>1, <1>2, DeletionTurn
<1>4. /\ UNCHANGED <<known, run, stage, hist, lineage, runRow, stageRow, histRow, lineageRow, crashes>>
      /\ Commit(ok)
  BY DEF DeleteProject, memory, rows
<1>5. dbErrors' = 0 => dbErrors = 0
  BY <1>4 DEF Commit, TypeInv, DataTypes
<1>6. ASSUME RecordsBody PROVE RecordsBody'
  <2>1. \A u \in Workers : pc[u] # "delRows" /\ pc'[u] # "delRows" /\ pc'[u] # "delProject"
    BY <1>1, <1>3
  <2>2. \A r \in Runs : InRows(r)
    BY <1>1, <1>6 DEF RecordsBody
  <2>3. \A r \in Runs : (InRows(r)' <=> InRows(r)) /\ (InMemory(r)' <=> InMemory(r))
    BY <1>4 DEF InRows, InMemory, Gone
  <2>4. \A r \in Runs : /\ run'[r].status = "none" <=> runRow'[r].status = "none"
                        /\ run'[r].status = "none" => InMemory(r)'
    BY <1>4, <1>6, <2>1, <2>3 DEF RecordsBody
  <2>5. QED
    BY <1>3, <2>1, <2>2, <2>3, <2>4 DEF RecordsBody
<1>7. FoundBody => FoundBody'
  BY <1>1, <1>4 DEF FoundBody, Deleting
<1>8. QED
  BY <1>3, <1>4, <1>5, <1>6, <1>7 DEF CascadeBody

LEMMA CascadeRestart ==
  ASSUME TypeInv, TypeInv', CascadeBody, Restart
  PROVE  CascadeBody'
<1>1. /\ pc' = [u \in Workers |-> "idle"] /\ loc' = [u \in Workers |-> IdleLocals]
      /\ run' = runRow /\ stage' = stageRow /\ lineage' = lineageRow
      /\ hist' = [r \in Runs |-> Rehydrated(histRow[r])]
      /\ UNCHANGED <<project, known, runRow, stageRow, histRow, lineageRow, dbErrors>>
      /\ crashes' = crashes + 1
  BY DEF Restart, rows
<1>2. crashes' # 0
  BY <1>1 DEF TypeInv, DataTypes
<1>3. \A u \in Workers : pc'[u] = "idle" /\ pc'[u] \notin InScan /\ pc'[u] \notin Deleting
  BY <1>1 DEF InScan, Open, Closing, Deleting
<1>4. ASSUME RecordsBody PROVE RecordsBody'
  <2>1. Rehydrated(<<>>) = <<>>
    <3>1. <<>> \in Seq(Execution) /\ Len(<<>>) = 0
      OBVIOUS
    <3>2. Rehydrated(<<>>) \in Seq(Execution) /\ Len(Rehydrated(<<>>)) = 0
      BY <3>1, RehydratedFacts
    <3>3. QED
      BY <3>2
  <2>2. ASSUME NEW r \in Runs, InRows(r) PROVE InMemory(r)' /\ InRows(r)'
    BY <1>1, <2>1, <2>2 DEF InRows, InMemory, Gone
  <2>3. \A r \in Runs : /\ runRow'[r].status = "none" => InMemory(r)' /\ InRows(r)'
                        /\ run'[r].status = "none" <=> runRow'[r].status = "none"
    BY <1>1, <1>4, <2>2 DEF RecordsBody
  <2>4. ~ project' => \A r \in Runs : InRows(r)'
    BY <1>1, <1>4, <2>2 DEF RecordsBody
  <2>5. QED
    BY <1>3, <2>3, <2>4 DEF RecordsBody
<1>5. QED
  BY <1>1, <1>2, <1>3, <1>4 DEF CascadeBody

LEMMA InitCascade == Init => CascadeBody
<1> SUFFICES ASSUME Init PROVE CascadeBody
  OBVIOUS
<1>1. /\ \A u \in Workers : pc[u] = "idle"
      /\ project = TRUE /\ known = {}
      /\ \A r \in Runs : InMemory(r) /\ InRows(r)
  BY DEF Init, InMemory, InRows, Gone
<1>2. \A u \in Workers : pc[u] \notin InScan /\ pc[u] \notin Deleting
  BY <1>1 DEF InScan, Open, Closing, Deleting
<1>3. \A r \in Runs : run[r].status = "none" /\ runRow[r].status = "none"
  BY <1>1 DEF InMemory, InRows, Gone, NoRun
<1>4. RecordsBody
  BY <1>1, <1>2, <1>3 DEF RecordsBody
<1>5. FoundBody
  BY <1>1 DEF FoundBody
<1>6. QED
  BY <1>2, <1>4, <1>5 DEF CascadeBody

LEMMA CascadeStep == TypeInv /\ TypeInv' /\ CascadeInv /\ [Next]_vars => CascadeInv'
<1> SUFFICES ASSUME TypeInv, TypeInv', CascadeInv, [Next]_vars, deletion' # "overlapped"
             PROVE  CascadeBody'
  BY DEF CascadeInv
<1>1. CASE UNCHANGED vars
  <2>1. CascadeBody
    BY <1>1 DEF CascadeInv, vars, limits
  <2>2. UNCHANGED <<project, known, run, stage, hist, lineage, runRow, stageRow, histRow, lineageRow,
                    pc, loc, dbErrors, crashes>>
    BY <1>1 DEF vars, memory, rows, limits
  <2>3. (RecordsBody' <=> RecordsBody) /\ (FoundBody' <=> FoundBody)
    BY <2>2 DEF RecordsBody, FoundBody, InRows, InMemory, Gone
  <2>4. QED
    BY <2>1, <2>2, <2>3 DEF CascadeBody
<1>2. CASE Restart
  <2>1. CascadeBody
    BY <1>2 DEF CascadeInv, Restart
  <2>2. QED
    BY <1>2, <2>1, CascadeRestart
<1>3. ASSUME NEW t \in Workers, NEW ok \in BOOLEAN,
             \/ ScanProject(t)
             \/ \E r \in Runs, s \in UserStages, f \in Findings : BeginUserStage(t, ok, r, s, f)
      PROVE  CascadeBody'
  <2>1. CascadeBody
    BY <1>3 DEF ScanProject, BeginUserStage, StartsBesideDeletion, CascadeInv
  <2>2. QED
    BY <1>3, <2>1, CascadeStarts
<1>4. ASSUME NEW t \in Workers, NEW ok \in BOOLEAN,
             \/ \E done, last : RegisterStages(t, ok, done, last)
             \/ BeginPrepare(t, ok) \/ BeginScan(t, ok) \/ BegMem(t) \/ BegRow(t, ok)
             \/ EndExec(t, ok) \/ IterationRaises(t) \/ EndMem(t) \/ EndRow(t, ok) \/ RunEnd(t, ok)
      PROVE  CascadeBody'
  <2>1. CascadeBody
    BY <1>4 DEF RegisterStages, BeginPrepare, BeginScan, BegMem, BegRow, EndExec, EndExecution,
                IterationRaises, EndMem, EndRow, RunEnd, limits, CascadeInv
  <2>2. QED
    BY <1>4, <2>1, CascadePlain
<1>5. ASSUME NEW t \in Workers, NEW ok \in BOOLEAN, CreateRun(t, ok) \/ AddLineage(t, ok)
      PROVE  CascadeBody'
  <2>1. CascadeBody
    BY <1>5 DEF CreateRun, AddLineage, limits, CascadeInv
  <2>2. QED
    BY <1>5, <2>1, CascadeCreate, CascadeAdds
<1>6. ASSUME NEW t \in Workers, NEW ok \in BOOLEAN, NEW outcome \in {"completed", "failed"},
             NEW found \in SUBSET Findings, NEW repeats \in Nat, StageBody(t, ok, outcome, found, repeats)
      PROVE  CascadeBody'
  <2>1. CascadeBody
    BY <1>6 DEF StageBody, CascadeInv
  <2>2. QED
    BY <1>6, <2>1, CascadeScanned
<1>7. ASSUME NEW t \in Workers, DeleteFindings(t) PROVE CascadeBody'
  <2>1. CascadeBody
    BY <1>7 DEF DeleteFindings, CascadeInv
  <2>2. QED
    BY <1>7, <2>1, CascadeDelFindings
<1>8. ASSUME NEW t \in Workers, NEW ok \in BOOLEAN,
             DeleteRuns(t) \/ DeleteRows(t, ok) \/ DeleteProject(t, ok)
      PROVE  CascadeBody'
  <2>1. CascadeBody
    BY <1>8 DEF DeleteRuns, DeleteRows, DeleteProject, limits, CascadeInv
  <2>2. QED
    BY <1>8, <2>1, CascadeDelRuns, CascadeDelRows, CascadeDelProject
<1>9. TRUE \in BOOLEAN
  OBVIOUS
<1>10. QED
  BY <1>1, <1>2, <1>3, <1>4, <1>5, <1>6, <1>7, <1>8, <1>9, Cases

(* A deletion no other handler overlaps leaves nothing of the project: no   *)
(* record in memory, no row, and, while the process stayed up, no finding;  *)
(* also when a restart cut it off half-way and it was requested again.      *)
THEOREM DeletionIsClean == Spec => []DeletionLeavesNothing
<1>1. Init => CascadeInv
  BY InitCascade DEF CascadeInv
<1>2. ASSUME CascadeInv, ~ project, deletion = "alone", dbErrors = 0
      PROVE  /\ \A r \in Runs : InMemory(r) /\ InRows(r)
             /\ crashes = 0 => known = {}
  <2>1. RecordsBody /\ (crashes = 0 => FoundBody)
    BY <1>2 DEF CascadeInv, CascadeBody
  <2>2. (\A t \in Workers : pc[t] # "delRows") /\ \A r \in Runs : InRows(r)
    BY <1>2, <2>1 DEF RecordsBody
  <2>3. \A r \in Runs : runRow[r].status = "none"
    BY <2>2 DEF InRows, Gone, NoRun
  <2>4. \A r \in Runs : InMemory(r)
    BY <2>1, <2>2, <2>3 DEF RecordsBody
  <2>5. QED
    BY <1>2, <2>1, <2>2, <2>4 DEF FoundBody
<1>3. CascadeInv => DeletionLeavesNothing
  BY <1>2 DEF DeletionLeavesNothing, InMemory, InRows, Gone
<1>4. QED
  BY <1>1, <1>3, TypeInvariant, CascadeStep, PTL DEF Spec
=============================================================================
