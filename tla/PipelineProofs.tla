--------------------------- MODULE PipelineProofs ---------------------------
(***************************************************************************)
(* Proofs about Pipeline, for every set of findings, project, batches and  *)
(* threads, every risk policy and any number of failed commits and         *)
(* restarts.                                                               *)
(***************************************************************************)
EXTENDS Pipeline, WellFoundedInduction, TLAPS

----------------------------------------------------------------------------
(* Risk scoring, for every policy: any weights, bonuses and thresholds that *)
(* satisfy PolicyAssumption.                                                *)

LEMMA WeightIsInt == ASSUME NEW s \in Severities PROVE Weight(s) \in Int
BY PolicyAssumption DEF Weight

LEMMA PointsAreNat ==
  ASSUME NEW v, NEW p
  PROVE  ValidationPoints(v) \in Nat /\ ProofPoints(p) \in Nat
BY PolicyAssumption DEF ValidationPoints, ProofPoints

(* Clamping keeps the order of two scores and always ends in 0..100. *)
LEMMA ClampMonotone ==
  ASSUME NEW a \in Int, NEW b \in Int, a <= b
  PROVE  /\ Clamp(a) \in 0..100 /\ Clamp(b) \in 0..100
         /\ Clamp(a) <= Clamp(b)
BY DEF Clamp

(* A score that reaches a threshold has a first one: the five thresholds   *)
(* are tried one after the other.                                          *)
LEMMA FirstThreshold ==
  ASSUME NEW score \in Int, \E p \in Priority : score >= Thresholds[p]
  PROVE  \E p \in Priority : /\ score >= Thresholds[p]
                             /\ \A q \in Priority : q < p => score < Thresholds[q]
<1>0. \A p \in Priority : Thresholds[p] \in Int
  BY PolicyAssumption DEF Priority
<1> DEFINE R(p) == score >= Thresholds[p]
<1>1. \A p \in Priority : R(p) \/ score < Thresholds[p]
  BY <1>0
<1>2. Priority = {0, 1, 2, 3, 4}
  BY DEF Priority
<1>3. CASE R(0) BY <1>2, <1>3
<1>4. CASE ~R(0) /\ R(1) BY <1>0, <1>1, <1>2, <1>4
<1>5. CASE ~R(0) /\ ~R(1) /\ R(2) BY <1>0, <1>1, <1>2, <1>5
<1>6. CASE ~R(0) /\ ~R(1) /\ ~R(2) /\ R(3) BY <1>0, <1>1, <1>2, <1>6
<1>7. CASE ~R(0) /\ ~R(1) /\ ~R(2) /\ ~R(3) BY <1>0, <1>1, <1>2, <1>7
<1> QED BY <1>3, <1>4, <1>5, <1>6, <1>7

LEMMA PriorityForProps ==
  ASSUME NEW score \in Int
  PROVE  /\ PriorityFor(score) \in Priority
         /\ (\E p \in Priority : score >= Thresholds[p]) =>
              /\ score >= Thresholds[PriorityFor(score)]
              /\ \A q \in Priority : q < PriorityFor(score) => score < Thresholds[q]
         /\ ~(\E p \in Priority : score >= Thresholds[p]) => PriorityFor(score) = 4
<1> DEFINE P(p) == /\ score >= Thresholds[p]
                  /\ \A q \in Priority : q < p => score < Thresholds[q]
<1>1. CASE \E p \in Priority : score >= Thresholds[p]
  <2>1. \E p \in Priority : P(p)
    BY <1>1, FirstThreshold
  <2>2. PriorityFor(score) = CHOOSE p \in Priority : P(p)
    BY <1>1 DEF PriorityFor
  <2>3. PriorityFor(score) \in Priority /\ P(PriorityFor(score))
    <3> HIDE DEF P
    <3> QED BY <2>1, <2>2
  <2> QED BY <1>1, <2>3
<1>2. CASE ~(\E p \in Priority : score >= Thresholds[p])
  BY <1>2 DEF PriorityFor, Priority
<1> QED BY <1>1, <1>2

(* A higher score is never less urgent, whatever the thresholds are. *)
LEMMA PriorityMonotone ==
  ASSUME NEW a \in Int, NEW b \in Int, a <= b
  PROVE  /\ PriorityFor(b) <= PriorityFor(a)
         /\ PriorityFor(a) \in Priority /\ PriorityFor(b) \in Priority
<1>0. \A p \in Priority : Thresholds[p] \in Int
  BY PolicyAssumption DEF Priority
<1>1. PriorityFor(a) \in Priority /\ PriorityFor(b) \in Priority
  BY PriorityForProps
<1>2. CASE \E p \in Priority : a >= Thresholds[p]
  <2>1. a >= Thresholds[PriorityFor(a)]
    BY <1>2, PriorityForProps
  <2>2. b >= Thresholds[PriorityFor(a)]
    BY <2>1, <1>0, <1>1
  <2>3. \A q \in Priority : q < PriorityFor(b) => b < Thresholds[q]
    BY <2>2, <1>1, PriorityForProps
  <2> QED BY <2>2, <2>3, <1>0, <1>1 DEF Priority
<1>3. CASE ~(\E p \in Priority : a >= Thresholds[p])
  <2>1. PriorityFor(a) = 4
    BY <1>3, PriorityForProps
  <2> QED BY <2>1, <1>1 DEF Priority
<1> QED BY <1>1, <1>2, <1>3

-----------------------------------------------------------------------------
(* Every score lies in 0..100 and every priority is one of P0 .. P4, for   *)
(* every policy and every severity, known or not.                          *)
THEOREM ScoreInRange ==
  ASSUME NEW s \in Severities, NEW v, NEW p
  PROVE  /\ Score(s, v, p).risk_score \in 0..100
         /\ Score(s, v, p).priority \in Priority
<1> DEFINE sum == Weight(s) + ValidationPoints(v) + ProofPoints(p)
<1>1. sum \in Int
  BY WeightIsInt, PointsAreNat
<1>2. Clamp(sum) \in 0..100
  BY <1>1, ClampMonotone
<1>3. PriorityFor(Clamp(sum)) \in Priority
  BY <1>2, PriorityForProps
<1> QED BY <1>2, <1>3 DEF Score, Priority

(* The factors of an assessment account for every point of its score.      *)
THEOREM ScoresAreExplained ==
  ASSUME NEW s \in Severities, NEW v \in Verdicts \cup {None},
         NEW p \in ProofStatuses \cup {None}
  PROVE  Explained(Score(s, v, p))
<1>0. Weight(s) \in Int /\ ValidationPoints(v) \in Int /\ ProofPoints(p) \in Int
  BY WeightIsInt, PointsAreNat
<1>1. CASE v = "false_positive"
  <2> DEFINE fs == {Factor("validation", 0)}
  <2>1. Score(s, v, p).risk_score = 0 /\ Score(s, v, p).factors = fs
    BY <1>1 DEF Score
  <2>2. \A f \in fs : f.name = "validation" /\ f.points = 0
    BY DEF Factor
  <2>3. PointsOf(fs, "severity") = 0 /\ PointsOf(fs, "proof") = 0
    BY <2>2 DEF PointsOf
  <2>4. PointsOf(fs, "validation") = 0
    BY <2>2 DEF PointsOf
  <2> HIDE DEF fs
  <2> QED BY <2>1, <2>3, <2>4 DEF Explained, Clamp
<1>2. CASE v # "false_positive"
  <2> DEFINE fs == Factors(s, v, p)
  <2>1. /\ Score(s, v, p).factors = fs
        /\ Score(s, v, p).risk_score = Clamp(Weight(s) + ValidationPoints(v) + ProofPoints(p))
    BY <1>2 DEF Score
  <2>2. /\ \A f \in fs : f.name = "severity" => f.points = Weight(s)
        /\ \A f \in fs : f.name = "validation" => f.points = ValidationPoints(v)
        /\ \A f \in fs : f.name = "proof" => f.points = ProofPoints(p)
    BY DEF Factors, Factor
  <2>3. Factor("severity", Weight(s)) \in fs /\ Factor("severity", Weight(s)).name = "severity"
    BY DEF Factors, Factor
  <2>4. v \in {"true_positive", "uncertain"} =>
          /\ Factor("validation", ValidationPoints(v)) \in fs
          /\ Factor("validation", ValidationPoints(v)).name = "validation"
    BY DEF Factors, Factor
  <2>5. p = "verified" =>
          Factor("proof", ProofPoints(p)) \in fs /\ Factor("proof", ProofPoints(p)).name = "proof"
    BY DEF Factors, Factor
  <2>6. PointsOf(fs, "severity") = Weight(s)
    BY <2>2, <2>3 DEF PointsOf
  <2>7. PointsOf(fs, "validation") = ValidationPoints(v)
    <3>1. CASE v \in {"true_positive", "uncertain"}
      BY <3>1, <2>2, <2>4 DEF PointsOf
    <3>2. CASE v \notin {"true_positive", "uncertain"}
      <4>1. \A f \in fs : f.name # "validation"
        BY <3>2 DEF Factors, Factor
      <4>2. ValidationPoints(v) = 0
        BY <3>2 DEF ValidationPoints
      <4> QED BY <4>1, <4>2 DEF PointsOf
    <3> QED BY <3>1, <3>2
  <2>8. PointsOf(fs, "proof") = ProofPoints(p)
    <3>1. CASE p = "verified"
      BY <3>1, <2>2, <2>5 DEF PointsOf
    <3>2. CASE p # "verified"
      <4>1. \A f \in fs : f.name # "proof"
        BY <3>2 DEF Factors, Factor
      <4>2. ProofPoints(p) = 0
        BY <3>2 DEF ProofPoints
      <4> QED BY <4>1, <4>2 DEF PointsOf
    <3> QED BY <3>1, <3>2
  <2> HIDE DEF fs
  <2> QED BY <2>1, <2>6, <2>7, <2>8 DEF Explained
<1> QED BY <1>1, <1>2

(* Confirming or proving a finding never makes it less urgent, refuting it *)
(* never more, for every policy whose bonuses are not negative.            *)
THEOREM EvidenceNeverBackfires ==
  ASSUME NEW s \in Severities, NEW p \in ProofStatuses \cup {None}
  PROVE  EvidenceOrdered(s, p)
<1> SUFFICES /\ Score(s, "true_positive", p).risk_score >= Score(s, "uncertain", p).risk_score
             /\ Score(s, "true_positive", p).priority <= Score(s, "uncertain", p).priority
             /\ Score(s, "uncertain", p).risk_score = Score(s, None, p).risk_score
             /\ Score(s, "uncertain", p).priority = Score(s, None, p).priority
             /\ Score(s, "uncertain", p).risk_score >= Score(s, "false_positive", p).risk_score
             /\ Score(s, "uncertain", p).priority <= Score(s, "false_positive", p).priority
             /\ Score(s, "true_positive", "verified").risk_score >= Score(s, "true_positive", p).risk_score
             /\ Score(s, "true_positive", "verified").priority <= Score(s, "true_positive", p).priority
  BY DEF EvidenceOrdered
<1> DEFINE w == Weight(s)
           b == ProofPoints(p)
           full == ProofPoints("verified")
           low == Clamp(w + 0 + b)
           mid == Clamp(w + ValidatedBonus + b)
           high == Clamp(w + ValidatedBonus + full)
<1>0. w \in Int /\ b \in Nat /\ full \in Nat /\ ValidatedBonus \in Nat /\ b <= full
  BY WeightIsInt, PointsAreNat, PolicyAssumption DEF ProofPoints
<1>1. /\ Score(s, "true_positive", p).risk_score = Clamp(w + ValidatedBonus + b)
      /\ Score(s, "true_positive", p).priority = PriorityFor(Clamp(w + ValidatedBonus + b))
      /\ Score(s, "true_positive", "verified").risk_score = Clamp(w + ValidatedBonus + full)
      /\ Score(s, "true_positive", "verified").priority = PriorityFor(Clamp(w + ValidatedBonus + full))
  BY DEF Score, ValidationPoints
<1>2. /\ Score(s, "uncertain", p).risk_score = Clamp(w + 0 + b)
      /\ Score(s, "uncertain", p).priority = PriorityFor(Clamp(w + 0 + b))
      /\ Score(s, None, p).risk_score = Clamp(w + 0 + b)
      /\ Score(s, None, p).priority = PriorityFor(Clamp(w + 0 + b))
  BY DEF Score, ValidationPoints, None
<1>3. Score(s, "false_positive", p).risk_score = 0 /\ Score(s, "false_positive", p).priority = 4
  BY DEF Score
<1> HIDE DEF w, b, full
<1>4. /\ low \in 0..100 /\ mid \in 0..100 /\ high \in 0..100
      /\ low <= mid /\ mid <= high
  BY <1>0, ClampMonotone
<1> HIDE DEF low, mid, high
<1>5. low \in Int /\ mid \in Int /\ high \in Int
  BY <1>4
<1>6. PriorityFor(mid) <= PriorityFor(low) /\ PriorityFor(low) \in Priority
  BY <1>4, <1>5, PriorityMonotone
<1>7. PriorityFor(high) <= PriorityFor(mid)
  BY <1>4, <1>5, PriorityMonotone
<1> QED BY <1>1, <1>2, <1>3, <1>4, <1>6, <1>7 DEF Priority, low, mid, high

----------------------------------------------------------------------------
(* The pipeline.                                                            *)

(* What the store s may hold for a finding. *)
Fits(s, v) ==
  /\ s = "finding" => v \in {None, "candidate"}
  /\ s = "validation" => v \in Verdicts \cup {None}
  /\ s = "proof" => v \in ProofStatuses \cup {None}
  /\ s = "risk" => v = NoAssessment \/ Explained(v)

ShapeOK(m) == m = [s \in StoreNames |-> [f \in Findings |-> m[s][f]]]

RecordsInv ==
  /\ ShapeOK(mem) /\ ShapeOK(row)
  /\ \A s \in StoreNames, f \in Findings : Fits(s, mem[s][f]) /\ Fits(s, row[s][f])

(* A verdict or a proof that calls for a confirmation has had one. *)
ConfirmedInv ==
  \A f \in Findings :
    /\ "true_positive" \in {mem["validation"][f], row["validation"][f]} => f \in confirmed
    /\ {mem["proof"][f], row["proof"][f]} # {None} => f \in confirmed

Writing == {"record", "upsert"}
OneFinding == {"evidence", "complete", "validated", "reread", "gate", "sandbox",
               "verdict", "score"} \cup Writing

(* What a thread with locals l knows where it stands, when the findings ok *)
(* have been confirmed.                                                    *)
Knows(at, l, ok) ==
  /\ at \in OneFinding \cup {"delete"} => l.f \in Findings
  /\ at \in {"lineage", "remove", "delete"} => l.k \in DOMAIN Stores
  /\ at = "complete" => l.store = "validation"
  /\ at = "sandbox" => l.store = "proof" /\ l.f \in ok
  /\ at = "score" => l.value \in Verdicts \cup {None}
  /\ at \in Writing =>
       /\ l.store \in {"validation", "proof", "risk"}
       /\ Fits(l.store, l.value)
       /\ l.store = "proof" => l.f \in ok
  /\ at = "upsert" /\ l.store = "validation" /\ l.value = "true_positive" => l.f \in ok

(* The locals have their fields. *)
Formed(l) ==
  /\ l = [op |-> l.op, f |-> l.f, store |-> l.store, value |-> l.value, retries |-> l.retries,
          ids |-> l.ids, todo |-> l.todo, k |-> l.k, new |-> l.new, keys |-> l.keys]
  /\ l.retries \in Nat

ThreadsOK ==
  /\ pc = [t \in Workers |-> pc[t]] /\ loc = [t \in Workers |-> loc[t]]
  /\ \A t \in Workers : Formed(loc[t])

EvidenceInv ==
  /\ ThreadsOK
  /\ RecordsInv
  /\ ConfirmedInv
  /\ \A t \in Workers : Knows(pc[t], loc[t], confirmed)

-----------------------------------------------------------------------------
LEMMA StoreFacts ==
  /\ StoreNames = {"finding", "validation", "proof", "risk"}
  /\ DOMAIN Stores = 1..4
  /\ \A k \in DOMAIN Stores : Stores[k] \in StoreNames
BY DEF StoreNames, Stores

LEMMA AbsentFits ==
  ASSUME NEW s \in StoreNames
  PROVE  Fits(s, Absent(s))
BY StoreFacts DEF Fits, Absent, None, NoAssessment

LEMMA InitEvidence == PipelineInit => EvidenceInv
<1> SUFFICES ASSUME PipelineInit PROVE EvidenceInv
  OBVIOUS
<1>1. ThreadsOK
  BY DEF PipelineInit, ThreadsOK, Formed, IdleLocals
<1>2. ASSUME NEW s \in StoreNames, NEW f \in Findings
      PROVE  mem[s][f] = (IF s = "finding" THEN "candidate" ELSE Absent(s)) /\ row[s][f] = mem[s][f]
  BY StoreFacts DEF PipelineInit, Empty
<1>3. ShapeOK(mem) /\ ShapeOK(row)
  BY StoreFacts DEF PipelineInit, Empty, ShapeOK
<1>4. RecordsInv
  <2>1. Fits("finding", "candidate")
    BY DEF Fits
  <2>2. QED
    BY <1>2, <1>3, <2>1, AbsentFits DEF RecordsInv
<1>5. ConfirmedInv
  BY <1>2, StoreFacts DEF ConfirmedInv, Absent, None
<1>6. \A t \in Workers : Knows(pc[t], loc[t], confirmed)
  BY DEF PipelineInit, Knows, OneFinding, Writing
<1>7. QED
  BY <1>1, <1>4, <1>5, <1>6 DEF EvidenceInv

-----------------------------------------------------------------------------
(* Steps.                                                                  *)

LEMMA IdleKnows == Formed(IdleLocals) /\ \A ok : Knows("idle", IdleLocals, ok)
BY DEF Formed, IdleLocals, Knows, OneFinding, Writing

LEMMA KnowsMonotone ==
  ASSUME NEW at, NEW l, NEW ok, NEW more, ok \subseteq more, Knows(at, l, ok)
  PROVE  Knows(at, l, more)
BY DEF Knows

(* One thread moves; what it does to the records is already known to be    *)
(* right.                                                                  *)
LEMMA MoveStep ==
  ASSUME EvidenceInv, NEW t \in Workers, NEW to, NEW l,
         pc' = [pc EXCEPT ![t] = to], loc' = [loc EXCEPT ![t] = l],
         Formed(l), Knows(to, l, confirmed'),
         confirmed \subseteq confirmed', RecordsInv', ConfirmedInv'
  PROVE  EvidenceInv'
<1>1. ASSUME NEW u \in Workers
      PROVE  /\ pc'[u] = IF u = t THEN to ELSE pc[u]
             /\ loc'[u] = IF u = t THEN l ELSE loc[u]
  BY DEF EvidenceInv, ThreadsOK
<1>2. pc' = [u \in Workers |-> pc'[u]] /\ loc' = [u \in Workers |-> loc'[u]]
  BY DEF EvidenceInv, ThreadsOK
<1>3. ThreadsOK'
  BY <1>1, <1>2 DEF EvidenceInv, ThreadsOK
<1>4. ASSUME NEW u \in Workers
      PROVE  Knows(pc'[u], loc'[u], confirmed')
  <2>1. CASE u = t
    BY <1>1, <2>1
  <2>2. CASE u # t
    BY <1>1, <2>2, KnowsMonotone DEF EvidenceInv
  <2>3. QED
    BY <2>1, <2>2
<1>5. QED
  BY <1>3, <1>4 DEF EvidenceInv

LEMMA EnterStep ==
  ASSUME EvidenceInv, NEW t \in Workers, NEW from, NEW to, NEW l,
         Enter(t, from, to, l), Formed(l), to # "idle" => Knows(to, l, confirmed'),
         confirmed \subseteq confirmed', RecordsInv', ConfirmedInv'
  PROVE  EvidenceInv'
<1>1. CASE to = "idle"
  <2>1. pc' = [pc EXCEPT ![t] = "idle"] /\ loc' = [loc EXCEPT ![t] = IdleLocals]
    BY <1>1 DEF Enter
  <2>2. QED
    BY <2>1, IdleKnows, MoveStep
<1>2. CASE to # "idle"
  <2>1. pc' = [pc EXCEPT ![t] = to] /\ loc' = [loc EXCEPT ![t] = l]
    BY <1>2 DEF Enter
  <2>2. QED
    BY <1>2, <2>1, MoveStep
<1>3. QED
  BY <1>1, <1>2

LEMMA RecordsKept ==
  ASSUME EvidenceInv, UNCHANGED <<records, confirmed>>
  PROVE  RecordsInv' /\ ConfirmedInv' /\ confirmed \subseteq confirmed'
BY DEF EvidenceInv, records, RecordsInv, ShapeOK, ConfirmedInv

(* A step that touches no record. *)
LEMMA QuietStep ==
  ASSUME EvidenceInv, NEW t \in Workers, NEW from, NEW to, NEW l,
         Enter(t, from, to, l), Formed(l), to # "idle" => Knows(to, l, confirmed),
         UNCHANGED <<records, confirmed>>
  PROVE  EvidenceInv'
<1>1. Knows(to, l, confirmed') <=> Knows(to, l, confirmed)
  OBVIOUS
<1>2. QED
  BY <1>1, EnterStep, RecordsKept

(* A request comes in. *)
LEMMA CallStep ==
  ASSUME EvidenceInv, NEW t \in Workers, NEW to, NEW l, Call(t, l, to),
         Formed(l), Knows(to, l, confirmed)
  PROVE  EvidenceInv'
<1>1. /\ pc' = [pc EXCEPT ![t] = to] /\ loc' = [loc EXCEPT ![t] = l]
      /\ UNCHANGED <<records, confirmed>>
  BY DEF Call
<1>2. QED
  BY <1>1, MoveStep, RecordsKept

(* One record of one store is written, in memory or in its row. *)
LEMMA PutShape ==
  ASSUME NEW m, ShapeOK(m), NEW s \in StoreNames, NEW f \in Findings, NEW v,
         NEW n, n = [m EXCEPT ![s][f] = v]
  PROVE  ShapeOK(n)
BY DEF ShapeOK

LEMMA PutMemory ==
  ASSUME EvidenceInv, NEW s \in StoreNames, NEW f \in Findings, NEW v,
         mem' = [mem EXCEPT ![s][f] = v], UNCHANGED row, Fits(s, v),
         confirmed \subseteq confirmed',
         s = "validation" /\ v = "true_positive" => f \in confirmed',
         s = "proof" /\ v # None => f \in confirmed'
  PROVE  RecordsInv' /\ ConfirmedInv'
<1>0. ShapeOK(mem)
  BY DEF EvidenceInv, RecordsInv
<1>1. ShapeOK(mem')
  BY <1>0, PutShape
<1>2. \A z \in StoreNames, g \in Findings :
         mem'[z][g] = IF z = s /\ g = f THEN v ELSE mem[z][g]
  BY <1>0 DEF ShapeOK
<1>3. RecordsInv'
  BY <1>1, <1>2 DEF EvidenceInv, RecordsInv, ShapeOK
<1>4. ConfirmedInv'
  BY <1>2, StoreFacts DEF EvidenceInv, ConfirmedInv
<1>5. QED
  BY <1>3, <1>4

LEMMA PutRow ==
  ASSUME EvidenceInv, NEW s \in StoreNames, NEW f \in Findings, NEW v,
         row' = [row EXCEPT ![s][f] = v], UNCHANGED <<mem, confirmed>>, Fits(s, v),
         s = "validation" /\ v = "true_positive" => f \in confirmed,
         s = "proof" /\ v # None => f \in confirmed
  PROVE  RecordsInv' /\ ConfirmedInv'
<1>0. ShapeOK(row)
  BY DEF EvidenceInv, RecordsInv
<1>1. ShapeOK(row')
  BY <1>0, PutShape
<1>2. \A z \in StoreNames, g \in Findings :
         row'[z][g] = IF z = s /\ g = f THEN v ELSE row[z][g]
  BY <1>0 DEF ShapeOK
<1>3. RecordsInv'
  BY <1>1, <1>2 DEF EvidenceInv, RecordsInv, ShapeOK
<1>4. ConfirmedInv'
  BY <1>2, StoreFacts DEF EvidenceInv, ConfirmedInv
<1>5. QED
  BY <1>3, <1>4

(* What a thread that is not idle holds. *)
LEMMA Held ==
  ASSUME EvidenceInv, NEW t \in Workers
  PROVE  Formed(loc[t]) /\ Knows(pc[t], loc[t], confirmed)
BY DEF EvidenceInv, ThreadsOK

LEMMA ProofStatusType ==
  ASSUME NEW type, NEW outcome \in Executions
  PROVE  ProofStatus(type, outcome) \in ProofStatuses
<1>1. Execution(Plan(type), outcome) \in Executions
  BY DEF Execution, Executions
<1>2. ASSUME NEW h, NEW x \in Executions PROVE Interpret(h, x) \in ProofStatuses
  BY DEF Interpret, Executions, ProofStatuses
<1>3. QED
  BY <1>1, <1>2 DEF ProofStatus, ProofStatuses

LEMMA EvidenceCalls ==
  ASSUME EvidenceInv, NEW t \in Workers,
         \/ \E f \in Staged : Validate(t, f) \/ Prove(t, f) \/ AssessRisk(t, f)
         \/ \E ids \in Batches : Deduplicate(t, ids)
         \/ DeleteProject(t)
  PROVE  EvidenceInv'
<1>1. ASSUME NEW f \in Staged, Validate(t, f) \/ Prove(t, f) \/ AssessRisk(t, f)
      PROVE  EvidenceInv'
  <2>0. PICK op \in {"validate", "prove", "risk"}, to \in {"evidence", "validated", "verdict"} :
           Call(t, [IdleLocals EXCEPT !.op = op, !.f = f], to)
    BY <1>1 DEF Validate, Prove, AssessRisk
  <2> DEFINE i == [IdleLocals EXCEPT !.op = op]
             l == [IdleLocals EXCEPT !.op = op, !.f = f]
  <2>a. l = [i EXCEPT !.f = f]
    BY Zenon
  <2>b. Formed(i)
    BY DEF Formed, IdleLocals
  <2> HIDE DEF i, l
  <2>1. Formed(l) /\ l.f \in Findings
    BY <2>a, <2>b, PipelineConstants DEF Formed
  <2>2. Knows(to, l, confirmed)
    BY <2>1 DEF Knows, Writing
  <2>3. QED
    BY <2>0, <2>1, <2>2, CallStep DEF l
<1>2. ASSUME NEW ids \in Batches, Deduplicate(t, ids)
      PROVE  EvidenceInv'
  <2> DEFINE i == [IdleLocals EXCEPT !.op = "dedup"]
             l == [IdleLocals EXCEPT !.op = "dedup", !.ids = ids]
  <2>a. l = [i EXCEPT !.ids = ids]
    BY Zenon
  <2>b. Formed(i)
    BY DEF Formed, IdleLocals
  <2>c. Call(t, l, "group")
    BY <1>2, Zenon DEF Deduplicate
  <2> HIDE DEF i, l
  <2>0. Formed(l)
    BY <2>a, <2>b DEF Formed
  <2>1. Call(t, l, "group") /\ Formed(l)
    BY <2>0, <2>c
  <2> HIDE DEF l
  <2>2. Knows("group", l, confirmed)
    BY DEF Knows, OneFinding, Writing
  <2>3. QED
    BY <2>1, <2>2, CallStep
<1>3. ASSUME DeleteProject(t)
      PROVE  EvidenceInv'
  <2> DEFINE l == [IdleLocals EXCEPT !.op = "delete"]
  <2>1. Call(t, l, "lineage") /\ Formed(l) /\ l.k = 1
    BY <1>3 DEF DeleteProject, Formed, IdleLocals
  <2> HIDE DEF l
  <2>2. Knows("lineage", l, confirmed)
    BY <2>1, StoreFacts DEF Knows, OneFinding, Writing
  <2>3. QED
    BY <2>1, <2>2, CallStep
<1>4. QED
  BY <1>1, <1>2, <1>3

(* What the model's answer may lead to. *)
LEMMA CompleteMoves ==
  ASSUME NEW t, Formed(loc[t]), NEW answer \in Answers, Complete(t, answer)
  PROVE  \/ Enter(t, "complete", "idle", loc[t])
         \/ Enter(t, "complete", "complete", [loc[t] EXCEPT !.retries = @ + 1])
         \/ \E v \in Verdicts : Enter(t, "complete", "record", [loc[t] EXCEPT !.value = v])
<1> DEFINE l == loc[t]
<1>1. CASE answer = "unavailable"
  BY <1>1 DEF Complete, Verdicts
<1>2. CASE answer = "malformed" /\ l.retries < 1
  BY <1>2 DEF Complete, Verdicts
<1>3. CASE answer = "malformed" /\ ~ (l.retries < 1)
  <2>1. l.retries >= 1
    BY <1>3 DEF Formed
  <2>2. Enter(t, "complete", "record", [l EXCEPT !.value = "uncertain"])
    BY <1>3, <2>1 DEF Complete, Verdicts
  <2>3. QED
    BY <2>2 DEF Verdicts
<1>4. CASE answer \in Verdicts
  BY <1>4 DEF Complete, Verdicts
<1>5. QED
  BY <1>1, <1>2, <1>3, <1>4 DEF Answers

(* The steps up to the write of a verdict, a proof or an assessment. *)
LEMMA EvidenceStages ==
  ASSUME EvidenceInv, NEW t \in Workers,
         \/ BuildEvidence(t)
         \/ \E answer \in Answers : Complete(t, answer)
         \/ RequireValidation(t) \/ RereadFinding(t) \/ Gate(t)
         \/ \E outcome \in Executions : RunHarness(t, outcome)
         \/ ReadVerdict(t) \/ ScoreFinding(t)
  PROVE  EvidenceInv'
<1> DEFINE l == loc[t]
<1>0. Formed(l) /\ Knows(pc[t], l, confirmed)
  BY Held
<1> USE DEF OneFinding, Writing, history
<1>1. ASSUME BuildEvidence(t)
      PROVE  EvidenceInv'
  <2> DEFINE n == [l EXCEPT !.store = "validation"]
  <2>1. Formed(n) /\ n.store = "validation" /\ n.f = l.f
    BY <1>0 DEF Formed
  <2>2. PICK to \in {"complete", "idle"} : Enter(t, "evidence", to, n)
    BY <1>1 DEF BuildEvidence
  <2>3. l.f \in Findings
    BY <1>0, <2>2 DEF Enter, Knows
  <2> HIDE DEF n
  <2>4. to # "idle" => Knows(to, n, confirmed)
    BY <2>1, <2>3 DEF Knows
  <2>5. QED
    BY <1>1, <2>1, <2>2, <2>4, QuietStep DEF BuildEvidence
<1>2. ASSUME NEW answer \in Answers, Complete(t, answer)
      PROVE  EvidenceInv'
  <2>a. \/ Enter(t, "complete", "idle", l)
        \/ Enter(t, "complete", "complete", [l EXCEPT !.retries = @ + 1])
        \/ \E v \in Verdicts : Enter(t, "complete", "record", [l EXCEPT !.value = v])
    BY <1>0, <1>2, CompleteMoves
  <2>0. pc[t] = "complete" /\ UNCHANGED <<records, confirmed>>
    BY <1>2, <2>a DEF Complete, Enter
  <2>1. l.f \in Findings /\ l.store = "validation"
    BY <1>0, <2>0 DEF Knows
  <2>2. CASE Enter(t, "complete", "idle", l)
    BY <1>0, <2>0, <2>2, QuietStep
  <2>3. CASE Enter(t, "complete", "complete", [l EXCEPT !.retries = @ + 1])
    <3> DEFINE n == [l EXCEPT !.retries = @ + 1]
    <3>1. Formed(n) /\ n.store = "validation" /\ n.f = l.f
      BY <1>0, <2>1 DEF Formed
    <3> HIDE DEF n
    <3>2. Knows("complete", n, confirmed)
      BY <2>1, <3>1 DEF Knows
    <3>3. QED
      BY <2>0, <2>3, <3>1, <3>2, QuietStep DEF n
  <2>4. ASSUME NEW v \in Verdicts, Enter(t, "complete", "record", [l EXCEPT !.value = v])
        PROVE  EvidenceInv'
    <3> DEFINE n == [l EXCEPT !.value = v]
    <3>1. Formed(n) /\ n.store = "validation" /\ n.f = l.f /\ n.value = v
      BY <1>0, <2>1 DEF Formed
    <3> HIDE DEF n
    <3>2. Knows("record", n, confirmed)
      BY <2>1, <3>1 DEF Knows, Fits
    <3>3. QED
      BY <2>0, <2>4, <3>1, <3>2, QuietStep DEF n
  <2>5. QED
    BY <2>a, <2>2, <2>3, <2>4
<1>3. ASSUME RequireValidation(t)
      PROVE  EvidenceInv'
  <2>1. PICK to \in {"reread", "idle"} : Enter(t, "validated", to, l)
    BY <1>3 DEF RequireValidation
  <2>2. to # "idle" => Knows(to, l, confirmed)
    BY <1>0, <2>1 DEF Enter, Knows
  <2>3. QED
    BY <1>0, <1>3, <2>1, <2>2, QuietStep DEF RequireValidation
<1>4. ASSUME RereadFinding(t)
      PROVE  EvidenceInv'
  <2> DEFINE n == [l EXCEPT !.value = mem["finding"][l.f]]
  <2>1. Enter(t, "reread", "gate", n) /\ Formed(n) /\ n.f = l.f
    BY <1>0, <1>4 DEF RereadFinding, Formed
  <2>2. l.f \in Findings
    BY <1>0, <2>1 DEF Enter, Knows
  <2> HIDE DEF n
  <2>3. Knows("gate", n, confirmed)
    BY <2>1, <2>2 DEF Knows
  <2>4. QED
    BY <1>4, <2>1, <2>3, QuietStep DEF RereadFinding
<1>5. ASSUME Gate(t)
      PROVE  EvidenceInv'
  <2> DEFINE n == [l EXCEPT !.store = "proof"]
  <2>1. PICK to \in {"sandbox", "idle"} :
           /\ Enter(t, "gate", to, n)
           /\ to = "sandbox" => mem["validation"][l.f] = "true_positive"
    <3> DEFINE eligible == Eligible(l.value, mem["validation"][l.f])
               to == IF eligible THEN "sandbox" ELSE "idle"
    <3>1. Enter(t, "gate", to, n)
      BY <1>5 DEF Gate
    <3>2. to \in {"sandbox", "idle"} /\ (to = "sandbox" => eligible)
      OBVIOUS
    <3>3. eligible => mem["validation"][l.f] = "true_positive"
      BY DEF Eligible
    <3> HIDE DEF eligible, to
    <3>4. QED
      BY <3>1, <3>2, <3>3
  <2>2. Formed(n) /\ n.f = l.f /\ n.store = "proof"
    BY <1>0 DEF Formed
  <2>3. l.f \in Findings
    BY <1>0, <2>1 DEF Enter, Knows
  <2>4. to = "sandbox" => l.f \in confirmed
    BY <2>1, <2>3 DEF EvidenceInv, ConfirmedInv
  <2> HIDE DEF n
  <2>5. to # "idle" => Knows(to, n, confirmed)
    BY <2>1, <2>2, <2>3, <2>4 DEF Knows
  <2>6. QED
    BY <1>5, <2>1, <2>2, <2>5, QuietStep DEF Gate
<1>6. ASSUME NEW outcome \in Executions, RunHarness(t, outcome)
      PROVE  EvidenceInv'
  <2> DEFINE v == ProofStatus(Shape[l.f].type, outcome)
             n == [l EXCEPT !.value = v]
  <2>1. v \in ProofStatuses
    BY ProofStatusType
  <2>2. Enter(t, "sandbox", "record", n)
    BY <1>6 DEF RunHarness
  <2> HIDE DEF v
  <2>3. l.f \in Findings /\ l.store = "proof" /\ l.f \in confirmed
    BY <1>0, <2>2 DEF Enter, Knows
  <2>4. Formed(n) /\ n.f = l.f /\ n.store = l.store /\ n.value = v
    BY <1>0 DEF Formed
  <2> HIDE DEF n
  <2>5. Knows("record", n, confirmed)
    BY <2>1, <2>3, <2>4 DEF Knows, Fits
  <2>6. QED
    BY <1>6, <2>2, <2>4, <2>5, QuietStep DEF RunHarness
<1>7. ASSUME ReadVerdict(t)
      PROVE  EvidenceInv'
  <2> DEFINE v == mem["validation"][l.f]
             n == [l EXCEPT !.value = v]
  <2>1. Enter(t, "verdict", "score", n)
    BY <1>7 DEF ReadVerdict
  <2>2. l.f \in Findings
    BY <1>0, <2>1 DEF Enter, Knows
  <2>3. v \in Verdicts \cup {None}
    BY <2>2, StoreFacts DEF EvidenceInv, RecordsInv, Fits
  <2> HIDE DEF v
  <2>4. Formed(n) /\ n.f = l.f /\ n.value = v
    BY <1>0 DEF Formed
  <2> HIDE DEF n
  <2>5. Knows("score", n, confirmed)
    BY <2>2, <2>3, <2>4 DEF Knows
  <2>6. QED
    BY <1>7, <2>1, <2>4, <2>5, QuietStep DEF ReadVerdict
<1>8. ASSUME ScoreFinding(t)
      PROVE  EvidenceInv'
  <2> DEFINE p == mem["proof"][l.f]
             v == Score(Shape[l.f].severity, l.value, p)
             i == [l EXCEPT !.store = "risk"]
             n == [l EXCEPT !.store = "risk", !.value = v]
  <2>1. Enter(t, "score", "record", n)
    BY <1>8 DEF ScoreFinding
  <2>2. l.f \in Findings /\ l.value \in Verdicts \cup {None}
    BY <1>0, <2>1 DEF Enter, Knows
  <2>3. p \in ProofStatuses \cup {None}
    BY <2>2, StoreFacts DEF EvidenceInv, RecordsInv, Fits
  <2>4. Shape[l.f].severity \in Severities
    BY <2>2, PipelineConstants
  <2>5. Explained(v)
    BY <2>2, <2>3, <2>4, ScoresAreExplained
  <2> HIDE DEF v
  <2>a. n = [i EXCEPT !.value = v]
    BY Zenon
  <2>b. Formed(i) /\ i.f = l.f /\ i.store = "risk"
    BY <1>0 DEF Formed
  <2> HIDE DEF i, n
  <2>6. Formed(n) /\ n.f = l.f /\ n.store = "risk" /\ n.value = v
    BY <2>a, <2>b DEF Formed
  <2> HIDE DEF n
  <2>7. Knows("record", n, confirmed)
    BY <2>2, <2>5, <2>6 DEF Knows, Fits
  <2>8. QED
    BY <1>8, <2>1, <2>6, <2>7, QuietStep DEF ScoreFinding
<1>9. QED
  BY <1>1, <1>2, <1>3, <1>4, <1>5, <1>6, <1>7, <1>8

(* The writes of a stage's record, in memory and in its row. *)
LEMMA EvidenceWrites ==
  ASSUME EvidenceInv, NEW t \in Workers,
         Record(t) \/ \E ok \in BOOLEAN : Upsert(t, ok)
  PROVE  EvidenceInv'
<1> DEFINE l == loc[t]
<1>0. Formed(l) /\ Knows(pc[t], l, confirmed)
  BY Held
<1> USE DEF OneFinding, Writing
<1>1. ASSUME Record(t)
      PROVE  EvidenceInv'
  <2>0. /\ Enter(t, "record", "upsert", l) /\ row' = row
        /\ mem' = [mem EXCEPT ![l.store][l.f] = l.value]
        /\ confirmed' = IF l.store = "validation" /\ l.value = "true_positive"
                          THEN confirmed \cup {l.f} ELSE confirmed
    BY <1>1 DEF Record
  <2> HIDE DEF l
  <2>1. /\ l.f \in Findings /\ l.store \in {"validation", "proof", "risk"}
        /\ Fits(l.store, l.value) /\ (l.store = "proof" => l.f \in confirmed)
    BY <1>0, <2>0 DEF Enter, Knows
  <2>2. /\ confirmed \subseteq confirmed'
        /\ l.store = "validation" /\ l.value = "true_positive" => l.f \in confirmed'
    BY <2>0
  <2>3. RecordsInv' /\ ConfirmedInv'
    BY <2>0, <2>1, <2>2, StoreFacts, PutMemory
  <2>4. Knows("upsert", l, confirmed')
    BY <2>1, <2>2 DEF Knows
  <2>5. QED
    BY <1>0, <2>0, <2>2, <2>3, <2>4, EnterStep
<1>2. ASSUME NEW ok \in BOOLEAN, Upsert(t, ok)
      PROVE  EvidenceInv'
  <2>0. /\ Enter(t, "upsert", "idle", l) /\ mem' = mem /\ confirmed' = confirmed
        /\ row' = IF ok THEN [row EXCEPT ![l.store][l.f] = l.value] ELSE row
    BY <1>2 DEF Upsert, Commit
  <2> HIDE DEF l
  <2>1. /\ l.f \in Findings /\ l.store \in {"validation", "proof", "risk"}
        /\ Fits(l.store, l.value) /\ (l.store = "proof" => l.f \in confirmed)
        /\ l.store = "validation" /\ l.value = "true_positive" => l.f \in confirmed
    BY <1>0, <2>0 DEF Enter, Knows
  <2>2. CASE ok
    <3>1. RecordsInv' /\ ConfirmedInv'
      BY <2>0, <2>1, <2>2, StoreFacts, PutRow
    <3>2. QED
      BY <1>0, <2>0, <3>1, EnterStep
  <2>3. CASE ~ ok
    <3>1. UNCHANGED <<records, confirmed>>
      BY <2>0, <2>3 DEF records
    <3>2. QED
      BY <1>0, <2>0, <3>1, QuietStep
  <2>4. QED
    BY <2>2, <2>3
<1>3. QED
  BY <1>1, <1>2

Elsewhere == {"group", "replace", "wipe", "insert", "ungroup", "forget", "runRows", "projectRow"}

LEMMA ElsewhereKnows ==
  ASSUME NEW at \in Elsewhere, NEW l, NEW ok
  PROVE  Knows(at, l, ok)
BY DEF Knows, Elsewhere, OneFinding, Writing

(* The steps of deduplication. *)
LEMMA EvidenceGroups ==
  ASSUME EvidenceInv, NEW t \in Workers,
         \/ Group(t) \/ ReplaceGroups(t)
         \/ \E ok \in BOOLEAN : WipeRows(t, ok)
         \/ \E p \in Fingerprints : InsertRaises(t, p)
         \/ \E ok \in BOOLEAN, p \in Fingerprints : InsertRow(t, ok, p)
         \/ Ungroup(t) \/ ForgetRuns(t)
         \/ \E ok \in BOOLEAN : DeleteRunRows(t, ok) \/ DeleteProjectRow(t, ok)
  PROVE  EvidenceInv'
<1> DEFINE l == loc[t]
<1>0. Formed(l)
  BY Held
<1>1. UNCHANGED <<records, confirmed>>
  BY DEF Group, ReplaceGroups, WipeRows, InsertRaises, InsertRow, Ungroup, ForgetRuns,
         DeleteRunRows, DeleteProjectRow, history
<1>2. PICK from, to, n : Enter(t, from, to, n) /\ Formed(n) /\ to \in Elsewhere \cup {"idle"}
  <2>1. CASE Group(t)
    <3> DEFINE n == [l EXCEPT !.new = Regrouped(l.ids)]
    <3>1. \E to \in {"replace", "idle"} : Enter(t, "group", to, n)
      BY <2>1 DEF Group
    <3>2. Formed(n)
      BY <1>0 DEF Formed
    <3> HIDE DEF n
    <3>3. QED
      BY <3>1, <3>2 DEF Elsewhere
  <2>2. CASE ReplaceGroups(t)
    <3> DEFINE n == [l EXCEPT !.todo = GroupKeys(l.new)]
    <3>1. Enter(t, "replace", "wipe", n)
      BY <2>2 DEF ReplaceGroups
    <3>2. Formed(n)
      BY <1>0 DEF Formed
    <3> HIDE DEF n
    <3>3. QED
      BY <3>1, <3>2 DEF Elsewhere
  <2>3. ASSUME NEW ok \in BOOLEAN, WipeRows(t, ok)
        PROVE  \E to \in Elsewhere \cup {"idle"} : Enter(t, "wipe", to, l)
    BY <2>3 DEF WipeRows, Commit, AfterGroups, Elsewhere
  <2>4. ASSUME NEW p, InsertRaises(t, p)
        PROVE  Enter(t, "insert", "idle", l)
    BY <2>4 DEF InsertRaises
  <2>5. ASSUME NEW ok \in BOOLEAN, NEW p, InsertRow(t, ok, p)
        PROVE  \E to \in Elsewhere \cup {"idle"} : \E n : Enter(t, "insert", to, n) /\ Formed(n)
    <3> DEFINE n == [l EXCEPT !.todo = @ \ {p}]
               a == AfterGroups(l)
               to == IF ok THEN IF l.todo = {p} THEN a ELSE "insert" ELSE "idle"
    <3>1. Enter(t, "insert", to, n)
      BY <2>5 DEF InsertRow, Commit
    <3>2. Formed(n)
      BY <1>0 DEF Formed
    <3>3. a \in Elsewhere \cup {"idle"}
      BY DEF AfterGroups, Elsewhere
    <3> HIDE DEF n, a
    <3>4. to \in Elsewhere \cup {"idle"}
      BY <3>3 DEF Elsewhere
    <3> HIDE DEF to
    <3>5. QED
      BY <3>1, <3>2, <3>4
  <2>6. CASE Ungroup(t)
    <3> DEFINE kept == [p \in Fingerprints |->
                 IF groups[p] \cap l.ids # {} THEN {f \in groups[p] \ l.ids : Found(f)}
                                             ELSE groups[p]]
               keys == GroupKeys(kept)
               i == [l EXCEPT !.todo = keys]
               n == [l EXCEPT !.todo = keys, !.keys = keys]
               to == IF Changed(l.ids) = {} THEN "forget" ELSE "wipe"
    <3>1. Enter(t, "ungroup", to, n)
      BY <2>6, Zenon DEF Ungroup
    <3>2. to \in Elsewhere
      BY DEF Elsewhere
    <3> HIDE DEF keys, to
    <3>3. n = [i EXCEPT !.keys = keys]
      BY Zenon
    <3>4. Formed(i)
      BY <1>0 DEF Formed
    <3> HIDE DEF i, n
    <3>5. Formed(n)
      BY <3>3, <3>4 DEF Formed
    <3>6. QED
      BY <3>1, <3>2, <3>5
  <2>7. CASE ForgetRuns(t)
    <3>1. \E to \in {"runRows", "projectRow"} : Enter(t, "forget", to, l)
      BY <2>7 DEF ForgetRuns
    <3>2. QED
      BY <1>0, <3>1 DEF Elsewhere
  <2>8. ASSUME NEW ok \in BOOLEAN, DeleteRunRows(t, ok) \/ DeleteProjectRow(t, ok)
        PROVE  \E from, to : Enter(t, from, to, l) /\ to \in {"projectRow", "idle"}
    BY <2>8 DEF DeleteRunRows, DeleteProjectRow, Commit
  <2>9. QED
    BY <1>0, <2>1, <2>2, <2>3, <2>4, <2>5, <2>6, <2>7, <2>8 DEF Elsewhere
<1>3. to # "idle" => Knows(to, n, confirmed)
  BY <1>2, ElsewhereKnows
<1>4. QED
  BY <1>1, <1>2, <1>3, QuietStep

(* The steps of a deletion that take the records away. *)
LEMMA EvidenceRemovals ==
  ASSUME EvidenceInv, NEW t \in Workers,
         \/ ReadLineage(t)
         \/ \E f \in Project : Remove(t, f)
         \/ \E ok \in BOOLEAN : DeleteRow(t, ok)
  PROVE  EvidenceInv'
<1> DEFINE l == loc[t]
<1>0. Formed(l) /\ Knows(pc[t], l, confirmed)
  BY Held
<1>1. CASE ReadLineage(t)
  <2> DEFINE ids == IF run THEN Project ELSE {}
             i == [l EXCEPT !.ids = ids]
             n == [l EXCEPT !.ids = ids, !.todo = ids]
             to == IF ids = {} THEN "forget" ELSE "remove"
  <2>1. Enter(t, "lineage", to, n)
    BY <1>1, Zenon DEF ReadLineage
  <2>2. UNCHANGED <<records, confirmed>>
    BY <1>1 DEF ReadLineage, history
  <2> HIDE DEF ids
  <2>3. n = [i EXCEPT !.todo = ids]
    BY Zenon
  <2>4. to \in {"forget", "remove"}
    OBVIOUS
  <2> HIDE DEF to
  <2>5. Formed(i) /\ i.k = l.k
    BY <1>0 DEF Formed
  <2> HIDE DEF i, n
  <2>6. Formed(n) /\ n.k = l.k
    BY <2>3, <2>5 DEF Formed
  <2>7. Knows(to, n, confirmed)
    BY <1>0, <2>1, <2>4, <2>6 DEF Enter, Knows, OneFinding, Writing
  <2>8. QED
    BY <2>1, <2>2, <2>6, <2>7, QuietStep
<1>2. ASSUME NEW f \in Project, Remove(t, f)
      PROVE  EvidenceInv'
  <2> DEFINE n == [l EXCEPT !.f = f]
             s == Stores[l.k]
  <2>0. /\ Enter(t, "remove", "delete", n) /\ row' = row /\ confirmed' = confirmed
        /\ mem' = [mem EXCEPT ![s][f] = Absent(s)]
    BY <1>2 DEF Remove, history
  <2>1. f \in Findings /\ l.k \in DOMAIN Stores /\ s \in StoreNames
    BY <1>0, <2>0, StoreFacts, PipelineConstants DEF Enter, Knows
  <2>2. Formed(n) /\ n.f = f /\ n.k = l.k
    BY <1>0 DEF Formed
  <2> HIDE DEF n, s
  <2>3. RecordsInv' /\ ConfirmedInv'
    <3>1. Fits(s, Absent(s)) /\ (s # "risk" => Absent(s) = None) /\ None # "true_positive"
      BY <2>1, AbsentFits DEF Absent, None
    <3>2. QED
      BY <2>0, <2>1, <3>1, PutMemory
  <2>4. Knows("delete", n, confirmed')
    BY <2>1, <2>2 DEF Knows, OneFinding, Writing
  <2>5. QED
    BY <2>0, <2>2, <2>3, <2>4, EnterStep
<1>3. ASSUME NEW ok \in BOOLEAN, DeleteRow(t, ok)
      PROVE  EvidenceInv'
  <2> DEFINE s == Stores[l.k]
             last == l.k = Len(Stores)
             i == [l EXCEPT !.k = 1]
             n1 == [l EXCEPT !.k = 1, !.todo = @ \ {l.f}]
             n2 == [l EXCEPT !.k = @ + 1]
             n == IF last THEN n1 ELSE n2
             to == IF ok THEN IF last /\ l.todo = {l.f} THEN "ungroup" ELSE "remove" ELSE "idle"
  <2>0. /\ Enter(t, "delete", to, n) /\ mem' = mem /\ confirmed' = confirmed
        /\ row' = IF ok THEN [row EXCEPT ![s][l.f] = Absent(s)] ELSE row
    BY <1>3, Zenon DEF DeleteRow, Commit
  <2>1. l.f \in Findings /\ l.k \in DOMAIN Stores /\ s \in StoreNames
    BY <1>0, <2>0, StoreFacts DEF Enter, Knows
  <2>2. n1 = [i EXCEPT !.todo = l.todo \ {l.f}]
    BY Zenon
  <2>3. Formed(i) /\ i.k = 1
    BY <1>0 DEF Formed
  <2>4. Formed(n2) /\ n2.k = l.k + 1
    BY <1>0 DEF Formed
  <2>5. Len(Stores) = 4
    BY DEF Stores
  <2> HIDE DEF i, n1, n2
  <2>6. Formed(n1) /\ n1.k = 1
    BY <2>2, <2>3 DEF Formed
  <2>7. Formed(n) /\ n.k \in DOMAIN Stores
    BY <2>1, <2>4, <2>5, <2>6, StoreFacts
  <2>8. to \in {"idle", "ungroup", "remove"}
    OBVIOUS
  <2> HIDE DEF n, to, s
  <2>9. to # "idle" => Knows(to, n, confirmed)
    BY <2>7, <2>8 DEF Knows, OneFinding, Writing
  <2>10. CASE ok
    <3>1. Fits(s, Absent(s)) /\ (s # "risk" => Absent(s) = None) /\ None # "true_positive"
      BY <2>1, AbsentFits DEF Absent, None
    <3>2. RecordsInv' /\ ConfirmedInv'
      BY <2>0, <2>1, <2>10, <3>1, PutRow
    <3>3. QED
      BY <2>0, <2>7, <2>9, <3>2, EnterStep
  <2>11. CASE ~ ok
    <3>1. UNCHANGED <<records, confirmed>>
      BY <2>0, <2>11 DEF records
    <3>2. QED
      BY <2>0, <2>7, <2>9, <3>1, QuietStep
  <2>12. QED
    BY <2>10, <2>11
<1>4. QED
  BY <1>1, <1>2, <1>3

LEMMA EvidenceRestart == EvidenceInv /\ Restart => EvidenceInv'
<1> SUFFICES ASSUME EvidenceInv, Restart PROVE EvidenceInv'
  OBVIOUS
<1>1. ThreadsOK' /\ \A t \in Workers : Knows(pc'[t], loc'[t], confirmed')
  BY IdleKnows DEF Restart, ThreadsOK
<1>2. RecordsInv'
  BY DEF Restart, EvidenceInv, RecordsInv, ShapeOK
<1>3. ConfirmedInv'
  BY DEF Restart, EvidenceInv, ConfirmedInv
<1>4. QED
  BY <1>1, <1>2, <1>3 DEF EvidenceInv

LEMMA EvidenceStep == EvidenceInv /\ [PipelineNext]_pipelineVars => EvidenceInv'
<1> SUFFICES ASSUME EvidenceInv, [PipelineNext]_pipelineVars PROVE EvidenceInv'
  OBVIOUS
<1>1. CASE UNCHANGED pipelineVars
  BY <1>1 DEF pipelineVars, runs, records, history, EvidenceInv, ThreadsOK, RecordsInv, ShapeOK,
              ConfirmedInv
<1>2. CASE PipelineNext
  BY <1>2, EvidenceCalls, EvidenceStages, EvidenceWrites, EvidenceGroups, EvidenceRemovals,
     EvidenceRestart DEF PipelineNext, HandlerStep
<1>3. QED
  BY <1>1, <1>2

(* What every handler relies on: the stores hold what belongs in them, and *)
(* a verdict that confirms, and a proof, have had their confirmation.      *)
THEOREM EvidenceIsKept == PipelineSpec => []EvidenceInv
<1>1. QED
  BY InitEvidence, EvidenceStep, PTL DEF PipelineSpec

(* No interleaving of re-validations, deletions, failed commits and        *)
(* restarts records a proof for a finding that was never confirmed         *)
(* (prove/service.py gate).                                                *)
THEOREM ProofsAreConfirmed == PipelineSpec => []ProofNeedsConfirmation
<1>1. EvidenceInv => ProofNeedsConfirmation
  BY DEF EvidenceInv, ConfirmedInv, ProofNeedsConfirmation
<1>2. QED
  BY <1>1, EvidenceIsKept, PTL

(* Every stored assessment, in memory or in its row, carries the factors   *)
(* that explain its score, for every policy (risk/scoring.py score).       *)
THEOREM StoredAssessmentsAreExplained == PipelineSpec => []StoredScoresExplained
<1>1. EvidenceInv => StoredScoresExplained
  BY StoreFacts DEF EvidenceInv, RecordsInv, Fits, StoredScoresExplained
<1>2. QED
  BY <1>1, EvidenceIsKept, PTL

(* Whatever proof a handler finds when it scores, a better verdict or proof *)
(* does not make the finding less urgent, for every policy (risk/scoring.py *)
(* score, _priority_for).                                                   *)
THEOREM ScoringIsOrdered == PipelineSpec => []EvidenceMovesOneWay
<1>1. EvidenceInv => EvidenceMovesOneWay
  <2>1. SUFFICES ASSUME EvidenceInv, NEW t \in Workers, pc[t] = "score",
                        NEW severity \in Severities
                 PROVE  EvidenceOrdered(severity, mem["proof"][loc[t].f])
    BY DEF EvidenceMovesOneWay
  <2>2. loc[t].f \in Findings
    BY <2>1, Held DEF Knows, OneFinding
  <2>3. mem["proof"][loc[t].f] \in ProofStatuses \cup {None}
    BY <2>1, <2>2, StoreFacts DEF EvidenceInv, RecordsInv, Fits
  <2>4. QED
    BY <2>3, EvidenceNeverBackfires
<1>2. QED
  BY <1>1, EvidenceIsKept, PTL

(* A supported type's own harness is approved, and what its script prints  *)
(* is what _interpret looks for.                                           *)
LEMMA SupportedHarness ==
  ASSUME NEW type \in SupportedProofTypes
  PROVE  /\ Plan(type) # None /\ Plan(type) \in ApprovedHarnesses
         /\ Observed(Plan(type), Prints(Plan(type)))
<1>1. type \in DOMAIN Plans /\ Plan(type) = Plans[type]
  BY DEF Plans, Plan, SupportedProofTypes
<1>2. CASE type = "sql_injection"
  <2>1. Plan(type) = "sql_injection_proof"
    BY <1>1, <1>2 DEF Plans
  <2>2. QED
    BY <2>1 DEF None, ApprovedHarnesses, Observed, Prints
<1>3. CASE type = "command_injection"
  <2>1. Plan(type) = "command_injection_proof"
    BY <1>1, <1>3 DEF Plans
  <2>2. QED
    BY <2>1 DEF None, ApprovedHarnesses, Observed, Prints
<1>4. CASE type = "ssrf"
  <2>1. Plan(type) = "ssrf_proof"
    BY <1>1, <1>4 DEF Plans
  <2>2. QED
    BY <2>1 DEF None, ApprovedHarnesses, Observed, Prints
<1>5. CASE type = "deserialization"
  <2>1. Plan(type) = "deserialization_proof"
    BY <1>1, <1>5 DEF Plans
  <2>2. QED
    BY <2>1 DEF None, ApprovedHarnesses, Observed, Prints
<1>6. QED
  BY <1>2, <1>3, <1>4, <1>5 DEF SupportedProofTypes

(* For every execution the answer is "verified" exactly when the type is   *)
(* supported and its harness has printed what the plan expects             *)
(* (prove/planner.py, sandbox/runner.py, prove/service.py _interpret).     *)
THEOREM HarnessTablesAgree == PipelineSpec => []HarnessesDecide
<1>1. ASSUME NEW type \in SupportedProofTypes, NEW outcome \in Executions
      PROVE  ProofStatus(type, outcome) = "verified" <=> outcome = "printed"
  BY SupportedHarness DEF ProofStatus, Execution, Interpret, Executions
<1>2. ASSUME NEW type \in {"path_traversal", "xss"}, NEW outcome
      PROVE  ProofStatus(type, outcome) # "verified" /\ type \notin SupportedProofTypes
  BY DEF ProofStatus, Plan, Plans, SupportedProofTypes
<1>3. HarnessesDecide
  BY <1>1, <1>2 DEF HarnessesDecide
<1>4. QED
  BY <1>3, PTL
-----------------------------------------------------------------------------
(* Handlers that have the stores to themselves.                            *)

(* The stores m and their rows r hold nothing of the finding f in the      *)
(* first n stores.                                                         *)
Purged(f, n, m, r) ==
  \A j \in 1..n : m[Stores[j]][f] = Absent(Stores[j]) /\ r[Stores[j]][f] = Absent(Stores[j])
AllCleared(m, r) ==
  \A f \in Project, s \in StoreNames : m[s][f] = Absent(s) /\ r[s][f] = Absent(s)

(* The project, its run or the run's rows are gone. *)
Gone == ~ run \/ ~ runRow \/ ~ project

Alone == \A t, u \in Workers : pc[t] # "idle" /\ pc[u] # "idle" => t = u

Released == {"forget", "runRows", "projectRow"}

(* How far a lone handler has come with the records. *)
Removing(at, l, m, r) ==
  /\ at \in OneFinding => m["finding"][l.f] # None
  /\ at \in {"group", "replace"} => l.op = "dedup"
  /\ at \in {"lineage", "remove", "delete", "ungroup"} => l.op = "delete"
  /\ at = "lineage" => l.k = 1
  /\ at \in {"remove", "delete", "ungroup"} => l.ids = Project
  /\ at \in {"remove", "delete"} =>
       /\ l.todo \subseteq Project
       /\ \A f \in Project \ l.todo : Purged(f, 4, m, r)
       /\ at = "delete" \/ l.k > 1 => l.f \in l.todo /\ Purged(l.f, l.k - 1, m, r)
  /\ at = "delete" => m[Stores[l.k]][l.f] = Absent(Stores[l.k])
  /\ at \in Released \cup {"ungroup"} => AllCleared(m, r)
  /\ at \in Persisting /\ l.op = "delete" => AllCleared(m, r)

SerialInv ==
  ~ overlapped =>
    /\ Alone
    /\ Gone => AllCleared(mem, row)
    /\ \A t \in Workers : Removing(pc[t], loc[t], mem, row)

LEMMA InitSerial == PipelineInit => SerialInv
BY DEF PipelineInit, SerialInv, Alone, Gone, Removing, OneFinding, Writing, Released, Persisting

LEMMA IdleRemoving == \A l, m, r : Removing("idle", l, m, r)
BY DEF Removing, OneFinding, Writing, Released, Persisting

(* Purging goes store by store. *)
LEMMA PurgedAll ==
  ASSUME NEW m, NEW r, \A f \in Project : Purged(f, 4, m, r)
  PROVE  AllCleared(m, r)
<1>1. \A s \in StoreNames : \E j \in 1..4 : s = Stores[j]
  BY DEF StoreNames, Stores
<1>2. QED
  BY <1>1 DEF AllCleared, Purged

(* What a lone handler may do to the other threads and the lineage. *)
LEMMA SerialMove ==
  ASSUME EvidenceInv, SerialInv, ~ overlapped, NEW t \in Workers, NEW to, NEW l,
         pc' = [pc EXCEPT ![t] = to], loc' = [loc EXCEPT ![t] = l],
         pc[t] # "idle" \/ \A u \in Workers : pc[u] = "idle",
         Gone' => AllCleared(mem', row'), Removing(to, l, mem', row')
  PROVE  SerialInv'
<1>1. ASSUME NEW u \in Workers
      PROVE  /\ pc'[u] = IF u = t THEN to ELSE "idle"
             /\ loc'[u] = IF u = t THEN l ELSE loc[u]
  BY DEF EvidenceInv, ThreadsOK, SerialInv, Alone
<1>2. ASSUME NEW u \in Workers
      PROVE  Removing(pc'[u], loc'[u], mem', row')
  BY <1>1, IdleRemoving
<1>3. Alone'
  BY <1>1 DEF Alone
<1>4. QED
  BY <1>2, <1>3 DEF SerialInv

LEMMA SerialEnter ==
  ASSUME EvidenceInv, SerialInv, ~ overlapped, NEW t \in Workers, NEW from, NEW to, NEW l,
         Enter(t, from, to, l), from # "idle",
         Gone' => AllCleared(mem', row'), to # "idle" => Removing(to, l, mem', row')
  PROVE  SerialInv'
<1>1. CASE to = "idle"
  <2>1. pc' = [pc EXCEPT ![t] = "idle"] /\ loc' = [loc EXCEPT ![t] = IdleLocals] /\ pc[t] = from
    BY <1>1 DEF Enter
  <2>2. QED
    BY <2>1, IdleRemoving, SerialMove
<1>2. CASE to # "idle"
  <2>1. pc' = [pc EXCEPT ![t] = to] /\ loc' = [loc EXCEPT ![t] = l] /\ pc[t] = from
    BY <1>2 DEF Enter
  <2>2. QED
    BY <1>2, <2>1, SerialMove
<1>3. QED
  BY <1>1, <1>2

LEMMA GoneKept ==
  ASSUME SerialInv, ~ overlapped, UNCHANGED <<runs, records>>
  PROVE  /\ Gone' => AllCleared(mem', row')
         /\ mem' = mem /\ row' = row /\ Gone' = Gone
BY DEF SerialInv, Gone, runs, records

(* The steps of a stage that only read move on with the same finding. *)
ReadingStep(t) ==
  \/ BuildEvidence(t)
  \/ \E answer \in Answers : Complete(t, answer)
  \/ RequireValidation(t) \/ RereadFinding(t) \/ Gate(t)
  \/ \E outcome \in Executions : RunHarness(t, outcome)
  \/ ReadVerdict(t) \/ ScoreFinding(t)

LEMMA ReadingMoves ==
  ASSUME EvidenceInv, NEW t \in Workers, ReadingStep(t)
  PROVE  /\ UNCHANGED <<runs, records, registry, overlapped, faults>>
         /\ \E from \in OneFinding, to \in OneFinding \cup {"idle"} : \E n :
              Enter(t, from, to, n) /\ n.f = loc[t].f
<1> DEFINE l == loc[t]
           Goal == /\ UNCHANGED <<runs, records, registry, overlapped, faults>>
                   /\ \E from \in OneFinding, to \in OneFinding \cup {"idle"} : \E n :
                        Enter(t, from, to, n) /\ n.f = l.f
<1> USE DEF OneFinding, history
<1>0. Formed(l)
  BY Held
<1>1. ASSUME BuildEvidence(t) PROVE Goal
  <2> DEFINE n == [l EXCEPT !.store = "validation"]
  <2>1. \E to \in {"complete", "idle"} : Enter(t, "evidence", to, n)
    BY <1>1 DEF BuildEvidence
  <2>2. n.f = l.f
    BY <1>0 DEF Formed
  <2> HIDE DEF n
  <2>3. QED
    BY <1>1, <2>1, <2>2 DEF BuildEvidence
<1>2. ASSUME NEW answer \in Answers, Complete(t, answer) PROVE Goal
  <2>a. UNCHANGED <<runs, records, registry, overlapped, faults>>
    BY <1>2 DEF Complete
  <2>1. CASE Enter(t, "complete", "idle", l)
    BY <2>a, <2>1
  <2>2. CASE Enter(t, "complete", "complete", [l EXCEPT !.retries = @ + 1])
    <3> DEFINE n == [l EXCEPT !.retries = @ + 1]
    <3>1. Enter(t, "complete", "complete", n)
      BY <2>2
    <3>2. n.f = l.f
      BY <1>0 DEF Formed
    <3> HIDE DEF n
    <3>3. QED
      BY <2>a, <3>1, <3>2
  <2>3. ASSUME NEW v, Enter(t, "complete", "record", [l EXCEPT !.value = v])
        PROVE  Goal
    <3> DEFINE n == [l EXCEPT !.value = v]
    <3>1. Enter(t, "complete", "record", n)
      BY <2>3
    <3>2. n.f = l.f
      BY <1>0 DEF Formed
    <3> HIDE DEF n
    <3>3. QED
      BY <2>a, <3>1, <3>2 DEF Writing
  <2>4. QED
    BY <1>0, <1>2, <2>1, <2>2, <2>3, CompleteMoves
<1>3. ASSUME RequireValidation(t) PROVE Goal
  <2>1. \E to \in {"reread", "idle"} : Enter(t, "validated", to, l)
    BY <1>3 DEF RequireValidation
  <2>2. QED
    BY <1>3, <2>1 DEF RequireValidation
<1>4. ASSUME RereadFinding(t) PROVE Goal
  <2> DEFINE n == [l EXCEPT !.value = mem["finding"][l.f]]
  <2>1. Enter(t, "reread", "gate", n)
    BY <1>4 DEF RereadFinding
  <2>2. n.f = l.f
    BY <1>0 DEF Formed
  <2> HIDE DEF n
  <2>3. QED
    BY <1>4, <2>1, <2>2 DEF RereadFinding
<1>5. ASSUME Gate(t) PROVE Goal
  <2> DEFINE n == [l EXCEPT !.store = "proof"]
  <2>1. \E to \in {"sandbox", "idle"} : Enter(t, "gate", to, n)
    BY <1>5 DEF Gate
  <2>2. n.f = l.f
    BY <1>0 DEF Formed
  <2> HIDE DEF n
  <2>3. QED
    BY <1>5, <2>1, <2>2 DEF Gate
<1>6. ASSUME NEW outcome, RunHarness(t, outcome) PROVE Goal
  <2> DEFINE n == [l EXCEPT !.value = ProofStatus(Shape[l.f].type, outcome)]
  <2>1. Enter(t, "sandbox", "record", n)
    BY <1>6 DEF RunHarness
  <2>2. n.f = l.f
    BY <1>0 DEF Formed
  <2> HIDE DEF n
  <2>3. QED
    BY <1>6, <2>1, <2>2 DEF RunHarness, Writing
<1>7. ASSUME ReadVerdict(t) PROVE Goal
  <2> DEFINE n == [l EXCEPT !.value = mem["validation"][l.f]]
  <2>1. Enter(t, "verdict", "score", n)
    BY <1>7 DEF ReadVerdict
  <2>2. n.f = l.f
    BY <1>0 DEF Formed
  <2> HIDE DEF n
  <2>3. QED
    BY <1>7, <2>1, <2>2 DEF ReadVerdict
<1>8. ASSUME ScoreFinding(t) PROVE Goal
  <2> DEFINE v == Score(Shape[l.f].severity, l.value, mem["proof"][l.f])
             i == [l EXCEPT !.store = "risk"]
             n == [l EXCEPT !.store = "risk", !.value = v]
  <2>1. Enter(t, "score", "record", n)
    BY <1>8, Zenon DEF ScoreFinding
  <2> HIDE DEF v
  <2>2. n = [i EXCEPT !.value = v]
    BY Zenon
  <2>3. Formed(i) /\ i.f = l.f
    BY <1>0 DEF Formed
  <2> HIDE DEF i, n
  <2>4. n.f = l.f
    BY <2>2, <2>3 DEF Formed
  <2>5. UNCHANGED <<runs, records, registry, overlapped, faults>>
    BY <1>8 DEF ScoreFinding
  <2>6. QED
    BY <2>1, <2>4, <2>5 DEF Writing
<1>9. QED
  BY <1>1, <1>2, <1>3, <1>4, <1>5, <1>6, <1>7, <1>8 DEF ReadingStep
LEMMA SerialCalls ==
  ASSUME EvidenceInv, SerialInv, ~ overlapped', NEW t \in Workers,
         \/ \E f \in Staged : Validate(t, f) \/ Prove(t, f) \/ AssessRisk(t, f)
         \/ \E ids \in Batches : Deduplicate(t, ids)
         \/ DeleteProject(t)
  PROVE  SerialInv'
<1> USE DEF OneFinding, Writing, Released, Persisting
<1>1. ASSUME NEW to, NEW l, Call(t, l, to), Removing(to, l, mem, row)
      PROVE  SerialInv'
  <2>1. /\ pc' = [pc EXCEPT ![t] = to] /\ loc' = [loc EXCEPT ![t] = l]
        /\ UNCHANGED <<runs, records>> /\ ~ overlapped
        /\ \A u \in Workers : pc[u] = "idle"
    BY <1>1 DEF Call
  <2>2. (Gone' => AllCleared(mem', row')) /\ mem' = mem /\ row' = row
    BY <2>1, GoneKept
  <2>3. QED
    BY <1>1, <2>1, <2>2, SerialMove
<1>2. ASSUME NEW f \in Staged, Validate(t, f) \/ Prove(t, f) \/ AssessRisk(t, f)
      PROVE  SerialInv'
  <2>0. PICK op \in {"validate", "prove", "risk"}, to \in {"evidence", "validated", "verdict"} :
           Call(t, [IdleLocals EXCEPT !.op = op, !.f = f], to)
    BY <1>2 DEF Validate, Prove, AssessRisk
  <2>1. Found(f)
    BY <1>2 DEF Validate, Prove, AssessRisk
  <2> DEFINE i == [IdleLocals EXCEPT !.op = op]
             l == [IdleLocals EXCEPT !.op = op, !.f = f]
  <2>2. l = [i EXCEPT !.f = f]
    BY Zenon
  <2>3. Formed(i)
    BY DEF Formed, IdleLocals
  <2> HIDE DEF i, l
  <2>4. l.f = f
    BY <2>2, <2>3 DEF Formed
  <2>5. Removing(to, l, mem, row)
    BY <2>1, <2>4 DEF Removing, Found
  <2>6. QED
    BY <1>1, <2>0, <2>5 DEF l
<1>3. ASSUME NEW ids \in Batches, Deduplicate(t, ids)
      PROVE  SerialInv'
  <2> DEFINE i == [IdleLocals EXCEPT !.op = "dedup"]
             l == [IdleLocals EXCEPT !.op = "dedup", !.ids = ids]
  <2>1. l = [i EXCEPT !.ids = ids]
    BY Zenon
  <2>2. Formed(i) /\ i.op = "dedup"
    BY DEF Formed, IdleLocals
  <2>3. Call(t, l, "group")
    BY <1>3, Zenon DEF Deduplicate
  <2> HIDE DEF i, l
  <2>4. l.op = "dedup"
    BY <2>1, <2>2 DEF Formed
  <2>5. Removing("group", l, mem, row)
    BY <2>4 DEF Removing
  <2>6. QED
    BY <1>1, <2>3, <2>5
<1>4. ASSUME DeleteProject(t)
      PROVE  SerialInv'
  <2> DEFINE l == [IdleLocals EXCEPT !.op = "delete"]
  <2>1. Call(t, l, "lineage") /\ l.op = "delete" /\ l.k = 1
    BY <1>4 DEF DeleteProject, IdleLocals
  <2> HIDE DEF l
  <2>2. Removing("lineage", l, mem, row)
    BY <2>1 DEF Removing
  <2>3. QED
    BY <1>1, <2>1, <2>2
<1>5. QED
  BY <1>2, <1>3, <1>4

(* A record of a finding outside the project does not bring back what a    *)
(* deletion has cleared.                                                   *)
LEMMA SerialStages ==
  ASSUME EvidenceInv, SerialInv, ~ overlapped', NEW t \in Workers,
         ReadingStep(t) \/ Record(t) \/ \E ok \in BOOLEAN : Upsert(t, ok)
  PROVE  SerialInv'
<1> DEFINE l == loc[t]
<1>0. Formed(l) /\ Knows(pc[t], l, confirmed) /\ ShapeOK(mem) /\ ShapeOK(row)
  BY Held DEF EvidenceInv, RecordsInv
<1>a. ~ overlapped
  BY ReadingMoves DEF Record, Upsert
<1>b. Removing(pc[t], l, mem, row) /\ (Gone => AllCleared(mem, row))
  BY <1>a DEF SerialInv
<1>c. AllCleared(mem, row) /\ pc[t] \in OneFinding => l.f \notin Project
  BY <1>b, StoreFacts DEF AllCleared, Removing, Absent
<1> USE DEF Released, Persisting
<1>1. CASE ReadingStep(t)
  <2>a. PICK from \in OneFinding, to \in OneFinding \cup {"idle"} : \E n :
           Enter(t, from, to, n) /\ n.f = l.f
    BY <1>1, ReadingMoves
  <2>1. PICK n : Enter(t, from, to, n) /\ n.f = l.f
    BY <2>a
  <2>2. (Gone' => AllCleared(mem', row')) /\ mem' = mem /\ row' = row
    BY <1>1, <1>a, ReadingMoves, GoneKept
  <2>3. mem["finding"][n.f] # None /\ from # "idle"
    BY <1>b, <2>1 DEF Removing, Enter, OneFinding, Writing
  <2>4. to # "idle" => Removing(to, n, mem', row')
    BY <2>2, <2>3 DEF Removing, OneFinding, Writing
  <2>5. QED
    BY <1>a, <2>1, <2>2, <2>3, <2>4, SerialEnter
<1>2. CASE Record(t)
  <2>0. /\ Enter(t, "record", "upsert", l) /\ row' = row /\ UNCHANGED runs
        /\ mem' = [mem EXCEPT ![l.store][l.f] = l.value]
    BY <1>2 DEF Record
  <2> HIDE DEF l
  <2>1. l.f \in Findings /\ l.store \in {"validation", "proof", "risk"} /\ pc[t] = "record"
    BY <1>0, <2>0 DEF Enter, Knows, OneFinding, Writing
  <2>2. \A z \in StoreNames, g \in Findings :
           mem'[z][g] = IF z = l.store /\ g = l.f THEN l.value ELSE mem[z][g]
    BY <1>0, <2>0, <2>1, StoreFacts DEF ShapeOK
  <2>3. Gone' => AllCleared(mem', row')
    BY <1>b, <1>c, <2>0, <2>1, <2>2, PipelineConstants
       DEF AllCleared, Gone, runs, OneFinding, Writing
  <2>4. mem'["finding"][l.f] # None
    BY <1>b, <2>1, <2>2, StoreFacts DEF Removing, OneFinding, Writing
  <2>5. Removing("upsert", l, mem', row')
    BY <2>4 DEF Removing, OneFinding, Writing
  <2>6. QED
    BY <1>a, <2>0, <2>3, <2>5, SerialEnter
<1>3. ASSUME NEW ok \in BOOLEAN, Upsert(t, ok)
      PROVE  SerialInv'
  <2>0. /\ Enter(t, "upsert", "idle", l) /\ mem' = mem /\ UNCHANGED runs
        /\ row' = IF ok THEN [row EXCEPT ![l.store][l.f] = l.value] ELSE row
    BY <1>3 DEF Upsert, Commit
  <2> HIDE DEF l
  <2>1. l.f \in Findings /\ l.store \in {"validation", "proof", "risk"} /\ pc[t] = "upsert"
    BY <1>0, <2>0 DEF Enter, Knows, OneFinding, Writing
  <2>2. \A z \in StoreNames, g \in Findings : g # l.f => row'[z][g] = row[z][g]
    BY <1>0, <2>0, <2>1, StoreFacts DEF ShapeOK
  <2>3. Gone' => AllCleared(mem', row')
    BY <1>b, <1>c, <2>0, <2>1, <2>2, PipelineConstants
       DEF AllCleared, Gone, runs, OneFinding, Writing
  <2>4. QED
    BY <1>a, <2>0, <2>3, SerialEnter
<1>4. QED
  BY <1>1, <1>2, <1>3

(* Deduplication and the last steps of a deletion leave the records alone. *)
LEMMA SerialGroups ==
  ASSUME EvidenceInv, SerialInv, ~ overlapped', NEW t \in Workers,
         \/ Group(t) \/ ReplaceGroups(t)
         \/ \E ok \in BOOLEAN : WipeRows(t, ok)
         \/ \E p \in Fingerprints : InsertRaises(t, p)
         \/ \E ok \in BOOLEAN, p \in Fingerprints : InsertRow(t, ok, p)
         \/ Ungroup(t) \/ ForgetRuns(t)
         \/ \E ok \in BOOLEAN : DeleteRunRows(t, ok) \/ DeleteProjectRow(t, ok)
  PROVE  SerialInv'
<1> DEFINE l == loc[t]
<1>0. Formed(l)
  BY Held
<1>e. UNCHANGED <<records, overlapped>>
  BY DEF Group, ReplaceGroups, WipeRows, InsertRaises, InsertRow, Ungroup, ForgetRuns,
         DeleteRunRows, DeleteProjectRow, history
<1>a. ~ overlapped /\ mem' = mem /\ row' = row
  BY <1>e DEF records
<1>b. Removing(pc[t], l, mem, row) /\ (Gone => AllCleared(mem, row))
  BY <1>a DEF SerialInv
<1> DEFINE Kept == UNCHANGED runs \/ AllCleared(mem, row)
<1>c. Kept => (Gone' => AllCleared(mem', row'))
  BY <1>a, <1>b DEF Gone, runs
<1>d. ASSUME NEW from, NEW to, NEW n, Enter(t, from, to, n), from # "idle", Kept,
             to # "idle" => Removing(to, n, mem, row)
      PROVE  SerialInv'
  BY <1>a, <1>c, <1>d, SerialEnter
<1> HIDE DEF Kept
<1> USE DEF OneFinding, Writing, Released, Persisting
<1>1. CASE Group(t)
  <2> DEFINE n == [l EXCEPT !.new = Regrouped(l.ids)]
  <2>1. PICK to \in {"replace", "idle"} : Enter(t, "group", to, n)
    BY <1>1 DEF Group
  <2>2. n.op = l.op
    BY <1>0 DEF Formed
  <2> HIDE DEF n
  <2>3. to # "idle" => Removing(to, n, mem, row)
    BY <1>b, <2>1, <2>2 DEF Enter, Removing
  <2>4. Kept
    BY <1>1 DEF Group, Kept
  <2>5. QED
    BY <1>d, <2>1, <2>3, <2>4
<1>2. CASE ReplaceGroups(t)
  <2> DEFINE n == [l EXCEPT !.todo = GroupKeys(l.new)]
  <2>1. Enter(t, "replace", "wipe", n)
    BY <1>2 DEF ReplaceGroups
  <2>2. n.op = l.op
    BY <1>0 DEF Formed
  <2> HIDE DEF n
  <2>3. Removing("wipe", n, mem, row)
    BY <1>b, <2>1, <2>2 DEF Enter, Removing
  <2>4. Kept
    BY <1>2 DEF ReplaceGroups, Kept
  <2>5. QED
    BY <1>d, <2>1, <2>3, <2>4
<1>3. ASSUME NEW ok \in BOOLEAN, WipeRows(t, ok)
      PROVE  SerialInv'
  <2>1. PICK to \in {"idle", "forget", "insert"} :
           Enter(t, "wipe", to, l) /\ (to = "forget" => l.op = "delete")
    BY <1>3 DEF WipeRows, Commit, AfterGroups
  <2>2. to # "idle" => Removing(to, l, mem, row)
    BY <1>b, <2>1 DEF Enter, Removing
  <2>3. Kept
    BY <1>3 DEF WipeRows, Kept
  <2>4. QED
    BY <1>d, <2>1, <2>2, <2>3
<1>4. ASSUME NEW p, InsertRaises(t, p)
      PROVE  SerialInv'
  <2>1. Enter(t, "insert", "idle", l) /\ Kept
    BY <1>4 DEF InsertRaises, Kept
  <2>2. QED
    BY <1>d, <2>1
<1>5. ASSUME NEW ok \in BOOLEAN, NEW p, InsertRow(t, ok, p)
      PROVE  SerialInv'
  <2> DEFINE n == [l EXCEPT !.todo = @ \ {p}]
             to == IF ok THEN IF l.todo = {p} THEN AfterGroups(l) ELSE "insert" ELSE "idle"
  <2>1. Enter(t, "insert", to, n)
    BY <1>5 DEF InsertRow, Commit
  <2>2. n.op = l.op
    BY <1>0 DEF Formed
  <2> HIDE DEF n
  <2>3. to \in {"idle", "insert", "forget"} /\ (to = "forget" => l.op = "delete")
    BY DEF AfterGroups
  <2> HIDE DEF to
  <2>4. to # "idle" => Removing(to, n, mem, row)
    BY <1>b, <2>1, <2>2, <2>3 DEF Enter, Removing
  <2>5. Kept
    BY <1>5 DEF InsertRow, Kept
  <2>6. QED
    BY <1>d, <2>1, <2>4, <2>5
<1>6. CASE Ungroup(t)
  <2>a. PICK to \in {"forget", "wipe"} : \E n : Enter(t, "ungroup", to, n)
    <3> DEFINE kept == [p \in Fingerprints |->
                 IF groups[p] \cap l.ids # {} THEN {f \in groups[p] \ l.ids : Found(f)}
                                             ELSE groups[p]]
               n == [l EXCEPT !.todo = GroupKeys(kept), !.keys = GroupKeys(kept)]
               to == IF Changed(l.ids) = {} THEN "forget" ELSE "wipe"
    <3>1. Enter(t, "ungroup", to, n)
      BY <1>6, Zenon DEF Ungroup
    <3>2. to \in {"forget", "wipe"}
      OBVIOUS
    <3> HIDE DEF n, to
    <3>3. QED
      BY <3>1, <3>2
  <2>1. PICK n : Enter(t, "ungroup", to, n)
    BY <2>a
  <2>2. Removing(to, n, mem, row)
    BY <1>b, <2>1 DEF Enter, Removing
  <2>3. Kept
    BY <1>6 DEF Ungroup, Kept
  <2>4. QED
    BY <1>d, <2>1, <2>2, <2>3
<1>7. CASE ForgetRuns(t)
  <2>1. PICK to \in {"runRows", "projectRow"} : Enter(t, "forget", to, l)
    BY <1>7 DEF ForgetRuns
  <2>2. Removing(to, l, mem, row) /\ Kept
    BY <1>b, <2>1 DEF Enter, Removing, Kept
  <2>3. QED
    BY <1>d, <2>1, <2>2
<1>8. ASSUME NEW ok \in BOOLEAN, DeleteRunRows(t, ok) \/ DeleteProjectRow(t, ok)
      PROVE  SerialInv'
  <2>1. PICK from \in {"runRows", "projectRow"}, to \in {"projectRow", "idle"} :
           Enter(t, from, to, l)
    BY <1>8 DEF DeleteRunRows, DeleteProjectRow, Commit
  <2>2. (to # "idle" => Removing(to, l, mem, row)) /\ Kept
    BY <1>b, <2>1 DEF Enter, Removing, Kept
  <2>3. QED
    BY <1>d, <2>1, <2>2
<1>9. QED
  BY <1>1, <1>2, <1>3, <1>4, <1>5, <1>6, <1>7, <1>8
(* Taking more records away keeps what was cleared. *)
LEMMA ClearingKept ==
  ASSUME NEW m, NEW r, NEW m2, NEW r2,
         \A z \in StoreNames, g \in Findings :
           m2[z][g] \in {m[z][g], Absent(z)} /\ r2[z][g] \in {r[z][g], Absent(z)}
  PROVE  /\ AllCleared(m, r) => AllCleared(m2, r2)
         /\ \A g \in Findings : \A n \in 0..4 : Purged(g, n, m, r) => Purged(g, n, m2, r2)
<1>1. \A j \in 1..4 : Stores[j] \in StoreNames
  BY StoreFacts
<1>2. \A n \in 0..4 : \A j \in 1..n : j \in 1..4
  OBVIOUS
<1>3. QED
  BY <1>1, <1>2, PipelineConstants DEF AllCleared, Purged

LEMMA SerialRemovals ==
  ASSUME EvidenceInv, SerialInv, ~ overlapped', NEW t \in Workers,
         \/ ReadLineage(t)
         \/ \E f \in Project : Remove(t, f)
         \/ \E ok \in BOOLEAN : DeleteRow(t, ok)
  PROVE  SerialInv'
<1> DEFINE l == loc[t]
<1>0. Formed(l) /\ Knows(pc[t], l, confirmed) /\ ShapeOK(mem) /\ ShapeOK(row)
  BY Held DEF EvidenceInv, RecordsInv
<1>e. UNCHANGED <<runs, overlapped>>
  BY DEF ReadLineage, Remove, DeleteRow, history
<1>a. ~ overlapped /\ UNCHANGED runs
  BY <1>e
<1>b. Removing(pc[t], l, mem, row) /\ (Gone => AllCleared(mem, row)) /\ Gone' = Gone
  BY <1>a DEF SerialInv, Gone, runs
<1> USE DEF OneFinding, Writing, Released, Persisting
<1>1. CASE ReadLineage(t)
  <2> DEFINE ids == IF run THEN Project ELSE {}
             i == [l EXCEPT !.ids = ids]
             n == [l EXCEPT !.ids = ids, !.todo = ids]
             to == IF ids = {} THEN "forget" ELSE "remove"
  <2>1. Enter(t, "lineage", to, n)
    BY <1>1, Zenon DEF ReadLineage
  <2>2. mem' = mem /\ row' = row
    BY <1>1 DEF ReadLineage, records
  <2>3. ids = {} => AllCleared(mem, row)
    BY <1>b DEF Gone, AllCleared
  <2>4. ids # {} => ids = Project
    OBVIOUS
  <2> HIDE DEF ids
  <2>5. n = [i EXCEPT !.todo = ids]
    BY Zenon
  <2>6. Formed(i) /\ i.op = l.op /\ i.k = l.k /\ i.ids = ids
    BY <1>0 DEF Formed
  <2> HIDE DEF i, n
  <2>7. n.op = l.op /\ n.k = l.k /\ n.ids = ids /\ n.todo = ids
    BY <2>5, <2>6 DEF Formed
  <2>8. l.op = "delete" /\ l.k = 1
    BY <1>b, <2>1 DEF Enter, Removing
  <2>9. Removing(to, n, mem, row)
    BY <2>3, <2>4, <2>7, <2>8 DEF Removing
  <2> HIDE DEF to
  <2>10. QED
    BY <1>a, <1>b, <2>1, <2>2, <2>9, SerialEnter
<1>2. ASSUME NEW f \in Project, Remove(t, f)
      PROVE  SerialInv'
  <2> DEFINE n == [l EXCEPT !.f = f]
             s == Stores[l.k]
  <2>0. /\ Enter(t, "remove", "delete", n) /\ row' = row
        /\ mem' = [mem EXCEPT ![s][f] = Absent(s)]
        /\ f \in l.todo /\ (l.k > 1 => f = l.f)
    BY <1>2 DEF Remove
  <2>1. f \in Findings /\ l.k \in 1..4 /\ s \in StoreNames /\ pc[t] = "remove"
    BY <1>0, <2>0, StoreFacts, PipelineConstants DEF Enter, Knows
  <2>2. n.f = f /\ n.k = l.k /\ n.op = l.op /\ n.ids = l.ids /\ n.todo = l.todo
    BY <1>0 DEF Formed
  <2> HIDE DEF n
  <2>3. \A z \in StoreNames, g \in Findings :
           mem'[z][g] = IF z = s /\ g = f THEN Absent(z) ELSE mem[z][g]
    BY <1>0, <2>0, <2>1 DEF ShapeOK
  <2>4. \A z \in StoreNames, g \in Findings :
           mem'[z][g] \in {mem[z][g], Absent(z)} /\ row'[z][g] \in {row[z][g], Absent(z)}
    BY <2>0, <2>3
  <2>5. /\ AllCleared(mem, row) => AllCleared(mem', row')
        /\ \A g \in Findings : \A j \in 0..4 : Purged(g, j, mem, row) => Purged(g, j, mem', row')
    BY <2>4, ClearingKept
  <2>6. Purged(f, l.k - 1, mem, row)
    <3>1. CASE l.k > 1
      BY <1>b, <2>0, <2>1, <3>1 DEF Removing
    <3>2. CASE l.k = 1
      BY <3>2 DEF Purged
    <3>3. QED
      BY <2>1, <3>1, <3>2
  <2>7. Purged(f, l.k - 1, mem', row') /\ mem'[s][f] = Absent(s)
    BY <2>1, <2>3, <2>5, <2>6
  <2>8. /\ l.op = "delete" /\ l.ids = Project /\ l.todo \subseteq Project
        /\ \A g \in Project \ l.todo : Purged(g, 4, mem', row')
    BY <1>b, <2>1, <2>5, PipelineConstants DEF Removing
  <2>9. Removing("delete", n, mem', row')
    BY <2>0, <2>2, <2>7, <2>8 DEF Removing
  <2>10. QED
    BY <1>a, <1>b, <2>0, <2>5, <2>9, SerialEnter
<1>3. ASSUME NEW ok \in BOOLEAN, DeleteRow(t, ok)
      PROVE  SerialInv'
  <2> DEFINE s == Stores[l.k]
             last == l.k = Len(Stores)
             rest == l.todo \ {l.f}
             i == [l EXCEPT !.k = 1]
             n1 == [l EXCEPT !.k = 1, !.todo = @ \ {l.f}]
             n2 == [l EXCEPT !.k = @ + 1]
             n == IF last THEN n1 ELSE n2
             to == IF ok THEN IF last /\ l.todo = {l.f} THEN "ungroup" ELSE "remove" ELSE "idle"
  <2>0. /\ Enter(t, "delete", to, n) /\ mem' = mem
        /\ row' = IF ok THEN [row EXCEPT ![s][l.f] = Absent(s)] ELSE row
    BY <1>3, Zenon DEF DeleteRow, Commit
  <2>1. l.f \in Findings /\ l.k \in 1..4 /\ s \in StoreNames /\ pc[t] = "delete"
    BY <1>0, <2>0, StoreFacts DEF Enter, Knows
  <2>2. n1 = [i EXCEPT !.todo = rest]
    BY Zenon
  <2>3. /\ Formed(i) /\ i.k = 1 /\ i.op = l.op /\ i.ids = l.ids /\ i.f = l.f
        /\ n2.k = l.k + 1 /\ n2.op = l.op /\ n2.ids = l.ids /\ n2.f = l.f /\ n2.todo = l.todo
    BY <1>0 DEF Formed
  <2>4. Len(Stores) = 4
    BY DEF Stores
  <2> HIDE DEF i, n1, n2
  <2>5. n1.k = 1 /\ n1.op = l.op /\ n1.ids = l.ids /\ n1.f = l.f /\ n1.todo = rest
    BY <2>2, <2>3 DEF Formed
  <2>6. CASE ~ ok
    BY <1>a, <1>b, <2>0, <2>6, SerialEnter
  <2>7. CASE ok
    <3>1. \A z \in StoreNames, g \in Findings :
             row'[z][g] = IF z = s /\ g = l.f THEN Absent(z) ELSE row[z][g]
      BY <1>0, <2>0, <2>1, <2>7 DEF ShapeOK
    <3>2. \A z \in StoreNames, g \in Findings :
             mem'[z][g] \in {mem[z][g], Absent(z)} /\ row'[z][g] \in {row[z][g], Absent(z)}
      BY <2>0, <3>1
    <3>3. /\ AllCleared(mem, row) => AllCleared(mem', row')
          /\ \A g \in Findings : \A j \in 0..4 : Purged(g, j, mem, row) => Purged(g, j, mem', row')
      BY <3>2, ClearingKept
    <3>a. /\ l.op = "delete" /\ l.ids = Project /\ l.todo \subseteq Project /\ l.f \in l.todo
          /\ \A g \in Project \ l.todo : Purged(g, 4, mem, row)
          /\ Purged(l.f, l.k - 1, mem, row) /\ mem[s][l.f] = Absent(s)
      BY <1>b, <2>1 DEF Removing
    <3>b. l.k - 1 \in 0..4
      BY <2>1
    <3>4. /\ l.op = "delete" /\ l.ids = Project /\ l.todo \subseteq Project /\ l.f \in l.todo
          /\ \A g \in Project \ l.todo : Purged(g, 4, mem', row')
          /\ Purged(l.f, l.k - 1, mem', row') /\ mem[s][l.f] = Absent(s)
      <4>1. Purged(l.f, l.k - 1, mem', row')
        BY <2>1, <3>3, <3>a, <3>b
      <4>2. \A g \in Project \ l.todo : g \in Findings /\ Purged(g, 4, mem, row)
        BY <3>a, PipelineConstants
      <4>3. 4 \in 0..4
        OBVIOUS
      <4>4. \A g \in Project \ l.todo : Purged(g, 4, mem', row')
        BY <3>3, <4>2, <4>3
      <4>5. QED
        BY <3>a, <4>1, <4>4
    <3>5. mem'[s][l.f] = Absent(s) /\ row'[s][l.f] = Absent(s)
      BY <2>0, <2>1, <3>1, <3>4
    <3>6. Purged(l.f, l.k, mem', row')
      <4>1. \A j \in 1..l.k : j \in 1..(l.k - 1) \/ j = l.k
        BY <2>1
      <4>2. QED
        BY <3>4, <3>5, <4>1 DEF Purged
    <3>7. CASE ~ last
      <4>1. to = "remove" /\ n = n2 /\ n2.k - 1 = l.k
        BY <2>1, <2>3, <2>7, <3>7
      <4>2. Removing("remove", n2, mem', row')
        BY <2>3, <3>4, <3>6, <4>1 DEF Removing
      <4>3. QED
        BY <1>a, <1>b, <2>0, <3>3, <4>1, <4>2, SerialEnter
    <3>8. CASE last
      <4>1. \A g \in Project \ rest : Purged(g, 4, mem', row')
        BY <2>4, <3>4, <3>6, <3>8
      <4>2. CASE l.todo = {l.f}
        <5>1. AllCleared(mem', row')
          BY <4>1, <4>2, PurgedAll
        <5>2. to = "ungroup" /\ n = n1
          BY <2>7, <3>8, <4>2
        <5>3. Removing("ungroup", n1, mem', row')
          BY <2>5, <3>4, <5>1 DEF Removing
        <5>4. QED
          BY <1>a, <1>b, <2>0, <3>3, <5>2, <5>3, SerialEnter
      <4>3. CASE l.todo # {l.f}
        <5>1. to = "remove" /\ n = n1
          BY <2>7, <3>8, <4>3
        <5>2. Removing("remove", n1, mem', row')
          BY <2>5, <3>4, <4>1 DEF Removing
        <5>3. QED
          BY <1>a, <1>b, <2>0, <3>3, <5>1, <5>2, SerialEnter
      <4>4. QED
        BY <4>2, <4>3
    <3>9. QED
      BY <3>7, <3>8
  <2>8. QED
    BY <2>6, <2>7
<1>4. QED
  BY <1>1, <1>2, <1>3

LEMMA SerialStep == EvidenceInv /\ SerialInv /\ [PipelineNext]_pipelineVars => SerialInv'
<1> SUFFICES ASSUME EvidenceInv, SerialInv, [PipelineNext]_pipelineVars, ~ overlapped'
             PROVE  SerialInv'
  BY DEF SerialInv
<1>1. CASE UNCHANGED pipelineVars
  BY <1>1 DEF pipelineVars, runs, records, history, SerialInv, Alone, Gone
<1>2. CASE Restart
  <2>1. /\ ~ overlapped /\ mem' = row /\ row' = row
        /\ run' = runRow /\ runRow' = runRow /\ project' = project
        /\ \A t \in Workers : pc'[t] = "idle"
    BY <1>2 DEF Restart
  <2>2. Gone' => AllCleared(mem', row')
    BY <2>1 DEF SerialInv, Gone, AllCleared
  <2>3. QED
    BY <2>1, <2>2, IdleRemoving DEF SerialInv, Alone
<1>3. CASE PipelineNext /\ ~ Restart
  BY <1>3, SerialCalls, SerialStages, SerialGroups, SerialRemovals
     DEF PipelineNext, HandlerStep, ReadingStep
<1>4. QED
  BY <1>1, <1>2, <1>3

(* A deletion no handler overlapped leaves no record of its findings once  *)
(* the project is gone, for any number of findings, failed commits,        *)
(* restarts and retries (routes/projects.py delete_project).               *)
THEOREM DeletionIsComplete == PipelineSpec => []DeletionLeavesNoRecord
<1>1. SerialInv => DeletionLeavesNoRecord
  BY DEF SerialInv, Gone, AllCleared, DeletionLeavesNoRecord
<1>2. QED
  BY <1>1, InitEvidence, InitSerial, EvidenceStep, SerialStep, PTL DEF PipelineSpec
-----------------------------------------------------------------------------
(* The registry of groups and its rows.                                    *)

NoneGrouped(g) == \A p \in Fingerprints : g[p] \cap Project = {}
Registry(g) == g = [p \in Fingerprints |-> g[p]]

(* How far a lone handler has come with the registry g and its rows r. *)
Grouping(at, l, g, r) ==
  /\ at = "replace" => Registry(l.new)
  /\ at \in Persisting /\ l.op # "delete" => l.new = g
  /\ at = "wipe" => l.todo = GroupKeys(g)
  /\ at = "insert" => /\ l.todo \subseteq GroupKeys(g)
                      /\ r = [p \in Fingerprints |-> IF p \in l.todo THEN {} ELSE g[p]]
  /\ at \in Released => NoneGrouped(g)
  /\ at \in Persisting /\ l.op = "delete" => NoneGrouped(g)

RegistryInv ==
  ~ overlapped /\ "groups" \notin faults =>
    /\ Registry(groups)
    /\ GroupsAtRest => groupRow = groups
    /\ Gone => /\ NoneGrouped(groups)
               /\ \A t \in Workers : pc[t] = "replace" => NoneGrouped(loc[t].new)
    /\ \A t \in Workers : Grouping(pc[t], loc[t], groups, groupRow)

LEMMA InitRegistry == PipelineInit => RegistryInv
BY DEF PipelineInit, RegistryInv, Registry, Gone, Grouping, Persisting, Released, NoGroups

LEMMA IdleGrouping == \A l, g, r : Grouping("idle", l, g, r)
BY DEF Grouping, Persisting, Released

LEMMA RegistryMove ==
  ASSUME EvidenceInv, SerialInv, ~ overlapped, NEW t \in Workers, NEW to, NEW l,
         pc' = [pc EXCEPT ![t] = to], loc' = [loc EXCEPT ![t] = l],
         pc[t] # "idle" \/ \A u \in Workers : pc[u] = "idle",
         Registry(groups'), to \notin Persisting => groupRow' = groups',
         Gone' => NoneGrouped(groups') /\ (to = "replace" => NoneGrouped(l.new)),
         Grouping(to, l, groups', groupRow')
  PROVE  RegistryInv'
<1>1. ASSUME NEW u \in Workers
      PROVE  /\ pc'[u] = IF u = t THEN to ELSE "idle"
             /\ loc'[u] = IF u = t THEN l ELSE loc[u]
  BY DEF EvidenceInv, ThreadsOK, SerialInv, Alone
<1>2. ASSUME NEW u \in Workers
      PROVE  Grouping(pc'[u], loc'[u], groups', groupRow')
  BY <1>1, IdleGrouping
<1>3. GroupsAtRest' => groupRow' = groups'
  BY <1>1 DEF GroupsAtRest
<1>4. Gone' => \A u \in Workers : pc'[u] = "replace" => NoneGrouped(loc'[u].new)
  BY <1>1
<1>5. QED
  BY <1>2, <1>3, <1>4 DEF RegistryInv

LEMMA RegistryEnter ==
  ASSUME EvidenceInv, SerialInv, ~ overlapped, NEW t \in Workers, NEW from, NEW to, NEW l,
         Enter(t, from, to, l), from # "idle",
         Registry(groups'), to \notin Persisting => groupRow' = groups',
         Gone' => NoneGrouped(groups') /\ (to = "replace" => NoneGrouped(l.new)),
         to # "idle" => Grouping(to, l, groups', groupRow')
  PROVE  RegistryInv'
<1>1. CASE to = "idle"
  <2>1. pc' = [pc EXCEPT ![t] = "idle"] /\ loc' = [loc EXCEPT ![t] = IdleLocals] /\ pc[t] = from
    BY <1>1 DEF Enter
  <2>2. "idle" \notin Persisting /\ "idle" # "replace"
    BY DEF Persisting
  <2>3. QED
    BY <1>1, <2>1, <2>2, IdleGrouping, RegistryMove
<1>2. CASE to # "idle"
  <2>1. pc' = [pc EXCEPT ![t] = to] /\ loc' = [loc EXCEPT ![t] = l] /\ pc[t] = from
    BY <1>2 DEF Enter
  <2>2. QED
    BY <1>2, <2>1, RegistryMove
<1>3. QED
  BY <1>1, <1>2

Recorders == {"idle", "lineage", "group", "remove", "delete", "ungroup"} \cup OneFinding

(* A step that leaves the registry alone and the lineage no emptier. *)
LEMMA RegistryQuiet ==
  ASSUME EvidenceInv, SerialInv, RegistryInv, ~ overlapped, "groups" \notin faults,
         NEW t \in Workers, NEW to, NEW l,
         pc' = [pc EXCEPT ![t] = to], loc' = [loc EXCEPT ![t] = l],
         pc[t] # "idle" \/ \A u \in Workers : pc[u] = "idle",
         pc[t] \notin Persisting, UNCHANGED registry,
         to \in Recorders \cup Released,
         Gone' \/ to \in Released => NoneGrouped(groups)
  PROVE  RegistryInv'
<1>1. GroupsAtRest
  BY DEF GroupsAtRest, SerialInv, Alone, Persisting
<1>2. Registry(groups) /\ groupRow = groups
  BY <1>1 DEF RegistryInv
<1>3. groups' = groups /\ groupRow' = groupRow
  BY DEF registry
<1>4. to # "replace" /\ Grouping(to, l, groups, groupRow)
  BY DEF Grouping, Recorders, Released, Persisting, OneFinding, Writing
<1>5. QED
  BY <1>2, <1>3, <1>4, RegistryMove

LEMMA RegistryQuietEnter ==
  ASSUME EvidenceInv, SerialInv, RegistryInv, ~ overlapped, "groups" \notin faults,
         NEW t \in Workers, NEW from, NEW to, NEW l, Enter(t, from, to, l),
         from # "idle", from \notin Persisting, UNCHANGED registry,
         to \in Recorders \cup Released,
         Gone' \/ to \in Released => NoneGrouped(groups)
  PROVE  RegistryInv'
<1>1. PICK n : pc' = [pc EXCEPT ![t] = to] /\ loc' = [loc EXCEPT ![t] = n] /\ pc[t] = from
  BY DEF Enter
<1>2. QED
  BY <1>1, RegistryQuiet

(* Calls, stages and the removal of records. *)
LEMMA RegistryBystanders ==
  ASSUME EvidenceInv, SerialInv, RegistryInv, ~ overlapped', "groups" \notin faults',
         NEW t \in Workers,
         \/ \E f \in Staged : Validate(t, f) \/ Prove(t, f) \/ AssessRisk(t, f)
         \/ \E ids \in Batches : Deduplicate(t, ids)
         \/ DeleteProject(t)
         \/ ReadingStep(t) \/ Record(t)
         \/ \E ok \in BOOLEAN : Upsert(t, ok)
         \/ \E f \in Project : Remove(t, f)
         \/ \E ok \in BOOLEAN : DeleteRow(t, ok)
  PROVE  RegistryInv'
<1> USE DEF Recorders, OneFinding, Writing, Persisting, Released
<1>1. ASSUME NEW to \in Recorders, NEW l, Call(t, l, to)
      PROVE  RegistryInv'
  <2>1. /\ pc' = [pc EXCEPT ![t] = to] /\ loc' = [loc EXCEPT ![t] = l] /\ pc[t] = "idle"
        /\ UNCHANGED <<runs, registry>> /\ ~ overlapped /\ "groups" \notin faults
        /\ \A u \in Workers : pc[u] = "idle"
    BY <1>1 DEF Call
  <2>2. Gone' => NoneGrouped(groups)
    BY <2>1 DEF RegistryInv, Gone, runs
  <2>3. to \notin Released /\ to \in Recorders \cup Released /\ "idle" \notin Persisting
    OBVIOUS
  <2> HIDE DEF Recorders, Persisting, Released
  <2>4. QED
    BY <2>1, <2>2, <2>3, RegistryQuiet
<1>2. ASSUME NEW from \in {"remove", "delete"} \cup OneFinding, NEW to \in Recorders, NEW l,
             Enter(t, from, to, l), UNCHANGED <<runs, registry, overlapped>>,
             faults \subseteq faults'
      PROVE  RegistryInv'
  <2>1. ~ overlapped /\ "groups" \notin faults /\ UNCHANGED registry
    BY <1>2
  <2>2. Gone' => NoneGrouped(groups)
    BY <1>2, <2>1 DEF RegistryInv, Gone, runs
  <2>3. /\ from # "idle" /\ from \notin Persisting
        /\ to \notin Released /\ to \in Recorders \cup Released
    OBVIOUS
  <2> HIDE DEF Recorders, Persisting, Released
  <2>4. QED
    BY <1>2, <2>1, <2>2, <2>3, RegistryQuietEnter
<1>3. ASSUME \/ \E f \in Staged : Validate(t, f) \/ Prove(t, f) \/ AssessRisk(t, f)
             \/ \E ids \in Batches : Deduplicate(t, ids)
             \/ DeleteProject(t)
      PROVE  RegistryInv'
  <2>1. \E to \in Recorders : \E l : Call(t, l, to)
    BY <1>3, Zenon DEF Validate, Prove, AssessRisk, Deduplicate, DeleteProject
  <2>2. QED
    BY <1>1, <2>1
<1>4. CASE ReadingStep(t)
  <2>1. PICK from \in OneFinding, to \in OneFinding \cup {"idle"} : \E n : Enter(t, from, to, n)
    BY <1>4, ReadingMoves
  <2>2. UNCHANGED <<runs, registry, overlapped>> /\ faults' = faults
    BY <1>4, ReadingMoves
  <2>3. from \in {"remove", "delete"} \cup OneFinding /\ to \in Recorders
    OBVIOUS
  <2>4. QED
    BY <1>2, <2>1, <2>2, <2>3
<1>5. ASSUME Record(t) \/ \E ok \in BOOLEAN : Upsert(t, ok)
      PROVE  RegistryInv'
  <2>1. PICK from \in OneFinding, to \in OneFinding \cup {"idle"} : \E n : Enter(t, from, to, n)
    BY <1>5 DEF Record, Upsert, Commit
  <2>2. UNCHANGED <<runs, registry, overlapped>> /\ faults \subseteq faults'
    BY <1>5 DEF Record, Upsert, Fault
  <2>3. from \in {"remove", "delete"} \cup OneFinding /\ to \in Recorders
    OBVIOUS
  <2>4. QED
    BY <1>2, <2>1, <2>2, <2>3
<1>6. ASSUME \/ \E f \in Project : Remove(t, f)
             \/ \E ok \in BOOLEAN : DeleteRow(t, ok)
      PROVE  RegistryInv'
  <2>1. \E from \in {"remove", "delete"}, to \in {"idle", "remove", "delete", "ungroup"} : \E n :
           Enter(t, from, to, n)
    <3>1. ASSUME NEW f, Remove(t, f)
          PROVE  Enter(t, "remove", "delete", [loc[t] EXCEPT !.f = f])
      BY <3>1 DEF Remove
    <3>2. ASSUME NEW ok \in BOOLEAN, DeleteRow(t, ok)
          PROVE  \E to \in {"idle", "remove", "ungroup"} : \E n : Enter(t, "delete", to, n)
      <4> DEFINE last == loc[t].k = Len(Stores)
                 n == IF last THEN [loc[t] EXCEPT !.k = 1, !.todo = @ \ {loc[t].f}]
                              ELSE [loc[t] EXCEPT !.k = @ + 1]
                 to == IF ok THEN IF last /\ loc[t].todo = {loc[t].f} THEN "ungroup" ELSE "remove"
                             ELSE "idle"
      <4>1. Enter(t, "delete", to, n)
        BY <3>2, Zenon DEF DeleteRow, Commit
      <4>2. to \in {"idle", "remove", "ungroup"}
        OBVIOUS
      <4> HIDE DEF n, to
      <4>3. QED
        BY <4>1, <4>2
    <3>3. QED
      BY <1>6, <3>1, <3>2
  <2>2. UNCHANGED <<runs, registry, overlapped>> /\ faults \subseteq faults'
    BY <1>6 DEF Remove, DeleteRow, Fault, history
  <2>3. QED
    BY <1>2, <2>1, <2>2
<1>7. QED
  BY <1>3, <1>4, <1>5, <1>6
(* Deduplication: the copy, the swap and the rows. *)
LEMMA RegistryGroups ==
  ASSUME EvidenceInv, SerialInv, RegistryInv, ~ overlapped', "groups" \notin faults',
         NEW t \in Workers,
         \/ Group(t) \/ ReplaceGroups(t)
         \/ \E ok \in BOOLEAN : WipeRows(t, ok)
         \/ \E p \in Fingerprints : InsertRaises(t, p)
         \/ \E ok \in BOOLEAN, p \in Fingerprints : InsertRow(t, ok, p)
  PROVE  RegistryInv'
<1> DEFINE l == loc[t]
<1>0. Formed(l)
  BY Held
<1>a. UNCHANGED <<runs, records, overlapped>> /\ faults \subseteq faults'
  BY DEF Group, ReplaceGroups, WipeRows, InsertRaises, InsertRow, Fault, history
<1>b. ~ overlapped /\ "groups" \notin faults /\ Gone' = Gone
  BY <1>a DEF Gone, runs
<1>c. /\ Registry(groups) /\ (GroupsAtRest => groupRow = groups)
      /\ Gone => NoneGrouped(groups) /\ (pc[t] = "replace" => NoneGrouped(l.new))
      /\ Grouping(pc[t], l, groups, groupRow) /\ Removing(pc[t], l, mem, row)
      /\ Gone => AllCleared(mem, row)
  BY <1>b DEF RegistryInv, SerialInv
<1>d. pc[t] # "idle" /\ pc[t] \notin Persisting => GroupsAtRest
  BY <1>b DEF GroupsAtRest, SerialInv, Alone, Persisting
<1>1. CASE Group(t)
  <2> DEFINE new == Regrouped(l.ids)
             n == [l EXCEPT !.new = new]
             all == \A f \in l.ids : Found(f)
             to == IF all THEN "replace" ELSE "idle"
  <2>1. Enter(t, "group", to, n) /\ UNCHANGED registry
    BY <1>1 DEF Group
  <2>2. Registry(new)
    BY DEF Registry, Regrouped
  <2>3. all /\ Gone => NoneGrouped(new)
    <3>1. SUFFICES ASSUME all, Gone, NEW p \in Fingerprints, NEW f \in new[p], f \in Project
                   PROVE  FALSE
      BY DEF NoneGrouped
    <3>2. ~ Found(f)
      BY <1>c, <3>1, StoreFacts DEF AllCleared, Found, Absent
    <3>3. f \notin groups[p]
      BY <1>c, <3>1 DEF NoneGrouped
    <3>4. QED
      BY <3>1, <3>2, <3>3 DEF Regrouped
  <2> HIDE DEF new, all
  <2>4. n.new = new
    BY <1>0 DEF Formed
  <2>5. groups' = groups /\ groupRow' = groups
    BY <1>c, <1>d, <2>1 DEF registry, Enter, Persisting
  <2> HIDE DEF n
  <2>6. to # "idle" => Grouping(to, n, groups', groupRow')
    BY <2>2, <2>4 DEF Grouping, Persisting, Released
  <2>7. Gone' => NoneGrouped(groups') /\ (to = "replace" => NoneGrouped(n.new))
    BY <1>b, <1>c, <2>3, <2>4, <2>5
  <2> HIDE DEF to
  <2>8. QED
    BY <1>b, <1>c, <2>1, <2>5, <2>6, <2>7, RegistryEnter
<1>2. CASE ReplaceGroups(t)
  <2> DEFINE n == [l EXCEPT !.todo = GroupKeys(l.new)]
  <2>1. Enter(t, "replace", "wipe", n) /\ groups' = l.new /\ pc[t] = "replace"
    BY <1>2 DEF ReplaceGroups, Enter
  <2>2. n.todo = GroupKeys(l.new) /\ n.new = l.new /\ n.op = l.op
    BY <1>0 DEF Formed
  <2> HIDE DEF n
  <2>3. l.op = "dedup" /\ Registry(groups')
    BY <1>c, <2>1 DEF Removing, Grouping
  <2>4. Grouping("wipe", n, groups', groupRow')
    BY <2>1, <2>2, <2>3 DEF Grouping, Persisting, Released
  <2>5. "wipe" \in Persisting /\ "wipe" # "replace"
    BY DEF Persisting
  <2>6. Gone' => NoneGrouped(groups')
    BY <1>b, <1>c, <2>1
  <2>7. QED
    BY <1>b, <2>1, <2>3, <2>4, <2>5, <2>6, RegistryEnter
<1>3. ASSUME NEW ok \in BOOLEAN, WipeRows(t, ok)
      PROVE  RegistryInv'
  <2> DEFINE a == AfterGroups(l)
             to == IF l.todo = {} THEN a ELSE "insert"
  <2>0. ok
    BY <1>3 DEF WipeRows, Fault
  <2>1. Enter(t, "wipe", to, l) /\ groupRow' = NoGroups /\ groups' = groups
    BY <1>3, <2>0 DEF WipeRows, Commit
  <2>2. pc[t] = "wipe" /\ l.todo = GroupKeys(groups)
    BY <1>c, <2>1 DEF Enter, Grouping
  <2>3. a \in {"idle", "forget"} /\ (a = "forget" => l.op = "delete")
    BY DEF AfterGroups
  <2>4. NoGroups = [p \in Fingerprints |-> IF p \in l.todo THEN {} ELSE groups[p]]
    BY <2>2 DEF NoGroups, GroupKeys
  <2>5. l.todo = {} => NoGroups = groups
    BY <1>c, <2>2 DEF NoGroups, GroupKeys, Registry
  <2> HIDE DEF a
  <2>6. to # "idle" => Grouping(to, l, groups', groupRow')
    BY <1>c, <2>1, <2>2, <2>3, <2>4 DEF Grouping, Persisting, Released
  <2>7. to # "replace" /\ (to \notin Persisting => groupRow' = groups')
    BY <2>1, <2>3, <2>5 DEF Persisting
  <2> HIDE DEF to
  <2>8. QED
    BY <1>b, <1>c, <2>1, <2>6, <2>7, RegistryEnter
<1>4. ASSUME NEW p, InsertRaises(t, p)
      PROVE  RegistryInv'
  BY <1>4 DEF InsertRaises
<1>5. ASSUME NEW ok \in BOOLEAN, NEW p \in Fingerprints, InsertRow(t, ok, p)
      PROVE  RegistryInv'
  <2> DEFINE a == AfterGroups(l)
             to == IF l.todo = {p} THEN a ELSE "insert"
             n == [l EXCEPT !.todo = @ \ {p}]
  <2>0. ok
    BY <1>5 DEF InsertRow, Fault
  <2>1. /\ Enter(t, "insert", to, n) /\ groups' = groups
        /\ groupRow' = [groupRow EXCEPT ![p] = Payload(l, p)]
    BY <1>5, <2>0 DEF InsertRow, Commit
  <2>2. /\ pc[t] = "insert" /\ l.todo \subseteq GroupKeys(groups)
        /\ groupRow = [q \in Fingerprints |-> IF q \in l.todo THEN {} ELSE groups[q]]
        /\ l.op # "delete" => l.new = groups
        /\ l.op = "delete" => NoneGrouped(groups)
    BY <1>c, <2>1 DEF Enter, Grouping, Persisting
  <2>3. Payload(l, p) = groups[p]
    BY <2>2 DEF Payload
  <2>4. n.todo = l.todo \ {p} /\ n.op = l.op /\ n.new = l.new
    BY <1>0 DEF Formed
  <2> HIDE DEF n
  <2>5. groupRow' = [q \in Fingerprints |-> IF q \in n.todo THEN {} ELSE groups[q]]
    BY <2>1, <2>2, <2>3, <2>4
  <2>6. l.todo = {p} => groupRow' = groups
    BY <1>c, <2>4, <2>5 DEF Registry
  <2>7. a \in {"idle", "forget"} /\ (a = "forget" => l.op = "delete")
    BY DEF AfterGroups
  <2> HIDE DEF a
  <2>8. to # "idle" => Grouping(to, n, groups', groupRow')
    BY <2>1, <2>2, <2>4, <2>5, <2>7 DEF Grouping, Persisting, Released
  <2>9. to # "replace" /\ (to \notin Persisting => groupRow' = groups')
    BY <2>1, <2>6, <2>7 DEF Persisting
  <2> HIDE DEF to
  <2>10. QED
    BY <1>b, <1>c, <2>1, <2>8, <2>9, RegistryEnter
<1>6. QED
  BY <1>1, <1>2, <1>3, <1>4, <1>5

(* A deletion takes its findings out of the groups, then its runs go. *)
LEMMA RegistryDeletion ==
  ASSUME EvidenceInv, SerialInv, RegistryInv, ~ overlapped', "groups" \notin faults',
         NEW t \in Workers,
         \/ ReadLineage(t) \/ Ungroup(t) \/ ForgetRuns(t)
         \/ \E ok \in BOOLEAN : DeleteRunRows(t, ok) \/ DeleteProjectRow(t, ok)
  PROVE  RegistryInv'
<1> DEFINE l == loc[t]
<1>0. Formed(l)
  BY Held
<1>a. UNCHANGED overlapped /\ faults \subseteq faults'
  BY DEF ReadLineage, Ungroup, ForgetRuns, DeleteRunRows, DeleteProjectRow, Fault, history
<1>b. ~ overlapped /\ "groups" \notin faults
  BY <1>a
<1>c. /\ Registry(groups) /\ (GroupsAtRest => groupRow = groups)
      /\ Gone => NoneGrouped(groups)
      /\ Grouping(pc[t], l, groups, groupRow) /\ Removing(pc[t], l, mem, row)
  BY <1>b DEF RegistryInv, SerialInv
<1>d. pc[t] # "idle" /\ pc[t] \notin Persisting => GroupsAtRest
  BY <1>b DEF GroupsAtRest, SerialInv, Alone, Persisting
<1>1. CASE ReadLineage(t)
  <2> DEFINE ids == IF run THEN Project ELSE {}
             to == IF ids = {} THEN "forget" ELSE "remove"
  <2>1. \E n : Enter(t, "lineage", to, n)
    BY <1>1, Zenon DEF ReadLineage
  <2>2. UNCHANGED <<runs, registry>>
    BY <1>1 DEF ReadLineage
  <2>3. Gone' \/ to \in Released => NoneGrouped(groups)
    BY <1>c, <2>2 DEF Released, Gone, runs, NoneGrouped
  <2>4. to \in Recorders \cup Released /\ "lineage" \notin Persisting /\ "lineage" # "idle"
    BY DEF Recorders, Released, Persisting
  <2> HIDE DEF to
  <2>5. QED
    BY <1>b, <2>1, <2>2, <2>3, <2>4, RegistryQuietEnter
<1>2. CASE Ungroup(t)
  <2> DEFINE kept == [p \in Fingerprints |->
               IF groups[p] \cap l.ids # {} THEN {f \in groups[p] \ l.ids : Found(f)}
                                           ELSE groups[p]]
             keys == GroupKeys(kept)
             i == [l EXCEPT !.todo = keys]
             n == [l EXCEPT !.todo = keys, !.keys = keys]
             to == IF Changed(l.ids) = {} THEN "forget" ELSE "wipe"
  <2>1. Enter(t, "ungroup", to, n) /\ groups' = kept
    BY <1>2, Zenon DEF Ungroup
  <2>2. groupRow' = groupRow
    BY <1>2 DEF Ungroup
  <2>3. pc[t] = "ungroup" /\ l.op = "delete" /\ l.ids = Project /\ groupRow = groups
    BY <1>c, <1>d, <2>1 DEF Enter, Removing, Persisting
  <2>4. Registry(kept) /\ NoneGrouped(kept)
    BY <2>3 DEF Registry, NoneGrouped
  <2>5. Changed(l.ids) = {} => kept = groups
    BY <1>c DEF Changed, Registry
  <2> HIDE DEF kept
  <2>6. n = [i EXCEPT !.keys = keys]
    BY Zenon
  <2>7. Formed(i) /\ i.todo = keys /\ i.op = l.op
    BY <1>0 DEF Formed
  <2> HIDE DEF i, n
  <2>8. n.todo = keys /\ n.op = l.op
    BY <2>6, <2>7 DEF Formed
  <2>9. Grouping(to, n, groups', groupRow')
    BY <2>1, <2>3, <2>4, <2>8 DEF Grouping, Persisting, Released
  <2>10. to # "replace" /\ (to \notin Persisting => groupRow' = groups')
    BY <2>1, <2>2, <2>3, <2>5 DEF Persisting
  <2> HIDE DEF to
  <2>11. Registry(groups') /\ NoneGrouped(groups')
    BY <2>1, <2>4
  <2>12. QED
    BY <1>b, <2>1, <2>9, <2>10, <2>11, RegistryEnter
<1>3. ASSUME \/ ForgetRuns(t)
             \/ \E ok \in BOOLEAN : DeleteRunRows(t, ok) \/ DeleteProjectRow(t, ok)
      PROVE  RegistryInv'
  <2>1. PICK from \in Released, to \in Released \cup {"idle"} : Enter(t, from, to, l)
    BY <1>3 DEF ForgetRuns, DeleteRunRows, DeleteProjectRow, Commit, Released
  <2>2. UNCHANGED registry
    BY <1>3 DEF ForgetRuns, DeleteRunRows, DeleteProjectRow
  <2>3. NoneGrouped(groups)
    BY <1>c, <2>1 DEF Enter, Grouping
  <2>4. /\ to \in Recorders \cup Released /\ from \notin Persisting /\ from # "idle"
    BY DEF Recorders, Released, Persisting
  <2>5. QED
    BY <1>b, <2>1, <2>2, <2>3, <2>4, RegistryQuietEnter
<1>4. QED
  BY <1>1, <1>2, <1>3

LEMMA RegistryStep ==
  EvidenceInv /\ SerialInv /\ RegistryInv /\ [PipelineNext]_pipelineVars => RegistryInv'
<1> SUFFICES ASSUME EvidenceInv, SerialInv, RegistryInv, [PipelineNext]_pipelineVars,
                    ~ overlapped', "groups" \notin faults'
             PROVE  RegistryInv'
  BY DEF RegistryInv
<1>1. CASE UNCHANGED pipelineVars
  BY <1>1 DEF pipelineVars, runs, registry, history, RegistryInv, Gone, GroupsAtRest
<1>2. CASE Restart
  <2>1. /\ ~ overlapped /\ "groups" \notin faults /\ GroupsAtRest
        /\ groups' = groupRow /\ groupRow' = groupRow
        /\ run' = runRow /\ runRow' = runRow /\ project' = project
        /\ \A t \in Workers : pc'[t] = "idle"
    BY <1>2 DEF Restart, GroupsAtRest
  <2>2. groupRow = groups /\ Registry(groups)
    BY <2>1 DEF RegistryInv
  <2>3. Gone' => NoneGrouped(groups)
    BY <2>1 DEF RegistryInv, Gone
  <2>4. QED
    BY <2>1, <2>2, <2>3, IdleGrouping DEF RegistryInv
<1>3. CASE PipelineNext /\ ~ Restart
  BY <1>3, RegistryBystanders, RegistryGroups, RegistryDeletion
     DEF PipelineNext, HandlerStep, ReadingStep
<1>4. QED
  BY <1>1, <1>2, <1>3

(* The rows of the registry are the groups in memory whenever no persist   *)
(* is under way, none was interrupted and no handlers overlapped, so a     *)
(* restart changes no group; and the groups of a deleted project list none *)
(* of its findings (dedup/service.py _persist_groups, remove_findings).    *)
THEOREM RegistrySurvivesRestart == PipelineSpec => []RegistryIsDurable
<1>1. SerialInv /\ RegistryInv => RegistryIsDurable
  BY DEF RegistryInv, Gone, NoneGrouped, RegistryIsDurable
<1>2. QED
  BY <1>1, InitEvidence, InitSerial, InitRegistry, EvidenceStep, SerialStep, RegistryStep, PTL
     DEF PipelineSpec

(* Fingerprints.                                                           *)

LEMMA LeastElement ==
  ASSUME NEW S \in SUBSET Nat, S # {}
  PROVE  Min(S) \in S
<1>1. \E x \in S : \A y \in S : <<y, x>> \notin OpToRel(<, Nat)
  BY NatLessThanWellFounded, WFMin
<1>2. PICK x \in S : \A y \in S : <<y, x>> \notin OpToRel(<, Nat)
  BY <1>1
<1>3. OpToRel(<, Nat) = {ss \in Nat \X Nat : ss[1] < ss[2]}
  BY Zenon DEF OpToRel
<1>4. \A y \in S : <<y, x>> \notin {ss \in Nat \X Nat : ss[1] < ss[2]}
  BY <1>2, <1>3, Zenon
<1>5. ASSUME NEW y \in S PROVE x <= y
  <2>1. y \in Nat /\ x \in Nat
    OBVIOUS
  <2>2. <<y, x>> \in Nat \X Nat /\ <<y, x>>[1] = y /\ <<y, x>>[2] = x
    BY <2>1
  <2>3. ~ (y < x)
    BY <1>4, <2>2, Zenon
  <2> QED BY <2>1, <2>3
<1> QED BY <1>5 DEF Min

(* Two findings have one fingerprint exactly when they have one signature. *)
LEMMA OneFingerprintPerSignature ==
  ASSUME NEW f \in Findings, NEW g \in Findings
  PROVE  FingerprintOf[f] = FingerprintOf[g] <=> Signature(Shape[f]) = Signature(Shape[g])
<1> DEFINE Class(h) == {e \in Findings : Signature(Shape[e]) = Signature(Shape[h])}
<1>1. FingerprintOf[f] = Min(Class(f)) /\ FingerprintOf[g] = Min(Class(g))
  BY DEF FingerprintOf
<1>2. \A h \in Findings : h \in Class(h) /\ Class(h) \in SUBSET Nat
  BY PipelineConstants
<1>3. Min(Class(f)) \in Class(f) /\ Min(Class(g)) \in Class(g)
  <2>1. Class(f) # {} /\ Class(g) # {}
    BY <1>2
  <2> HIDE DEF Class
  <2> QED BY <1>2, <2>1, LeastElement
<1>4. Signature(Shape[f]) = Signature(Shape[g]) => Class(f) = Class(g)
  OBVIOUS
<1>5. ASSUME Min(Class(f)) = Min(Class(g)) PROVE Signature(Shape[f]) = Signature(Shape[g])
  <2>1. PICK e : e \in Class(f) /\ e \in Class(g)
    BY <1>3, <1>5
  <2> QED BY <2>1
<1> QED BY <1>1, <1>4, <1>5

-----------------------------------------------------------------------------
(* Complete groups.                                                        *)

(* The groups g have only alike findings, and all of ids that have a row in *)
(* r.                                                                       *)
Covers(g, ids, r) ==
  /\ \A p \in Fingerprints : g[p] \subseteq {f \in Findings : FingerprintOf[f] = p}
  /\ \A f \in ids : r["finding"][f] # None => f \in g[FingerprintOf[f]]

(* The one finding that has a row and no record in memory is the one that   *)
(* the thread at `at' is deleting.                                          *)
Unstored(at, l, f) == at = "delete" /\ l.f = f /\ Stores[l.k] = "finding"

(* What a lone handler knows of the groups it is about to make. *)
Submitting(at, l, ids, r) ==
  /\ at \in {"group", "replace"} => l.ids \subseteq Findings
  /\ at = "replace" => Covers(l.new, ids \cup l.ids, r)

CompleteInv ==
  ~ overlapped /\ faults = {} =>
    /\ submitted \subseteq Findings
    /\ \A f \in Findings : Found(f) => row["finding"][f] # None
    /\ \A f \in Findings : row["finding"][f] # None =>
         Found(f) \/ \E t \in Workers : Unstored(pc[t], loc[t], f)
    /\ Covers(groups, submitted, row)
    /\ \A t \in Workers : Submitting(pc[t], loc[t], submitted, row)

LEMMA InitComplete == PipelineInit => CompleteInv
<1> SUFFICES ASSUME PipelineInit PROVE CompleteInv
  OBVIOUS
<1>1. \A f \in Findings : Found(f) /\ row["finding"][f] # None
  BY StoreFacts DEF PipelineInit, Empty, Found, None
<1>2. Covers(groups, submitted, row)
  BY DEF PipelineInit, Covers, NoGroups
<1>3. \A t \in Workers : Submitting(pc[t], loc[t], submitted, row)
  BY DEF PipelineInit, Submitting
<1>4. submitted = {}
  BY DEF PipelineInit
<1>5. QED
  BY <1>1, <1>2, <1>3, <1>4 DEF CompleteInv

(* Memory and rows know the same findings unless one is being deleted. *)
LEMMA StoredAlike ==
  ASSUME SerialInv, CompleteInv, ~ overlapped, faults = {}, NEW t \in Workers,
         pc[t] # "idle" \/ \A u \in Workers : pc[u] = "idle", pc[t] # "delete"
  PROVE  \A f \in Findings : Found(f) <=> row["finding"][f] # None
<1>1. \A u \in Workers : pc[u] # "delete"
  BY DEF SerialInv, Alone
<1>2. QED
  BY <1>1 DEF CompleteInv, Unstored

LEMMA CompleteMove ==
  ASSUME EvidenceInv, SerialInv, ~ overlapped, NEW t \in Workers, NEW to, NEW l,
         pc' = [pc EXCEPT ![t] = to], loc' = [loc EXCEPT ![t] = l],
         pc[t] # "idle" \/ \A u \in Workers : pc[u] = "idle",
         submitted' \subseteq Findings,
         \A f \in Findings : mem'["finding"][f] # None => row'["finding"][f] # None,
         \A f \in Findings : row'["finding"][f] # None =>
            mem'["finding"][f] # None \/ Unstored(to, l, f),
         Covers(groups', submitted', row'), Submitting(to, l, submitted', row')
  PROVE  CompleteInv'
<1>1. ASSUME NEW u \in Workers
      PROVE  /\ pc'[u] = IF u = t THEN to ELSE "idle"
             /\ loc'[u] = IF u = t THEN l ELSE loc[u]
  BY DEF EvidenceInv, ThreadsOK, SerialInv, Alone
<1>2. ASSUME NEW u \in Workers
      PROVE  Submitting(pc'[u], loc'[u], submitted', row')
  <2>1. CASE u = t
    BY <1>1, <2>1
  <2>2. CASE u # t
    BY <1>1, <2>2 DEF Submitting
  <2>3. QED
    BY <2>1, <2>2
<1>3. pc'[t] = to /\ loc'[t] = l
  BY <1>1
<1>4. \A f \in Findings : row'["finding"][f] # None =>
         mem'["finding"][f] # None \/ \E u \in Workers : Unstored(pc'[u], loc'[u], f)
  BY <1>3
<1>5. QED
  BY <1>2, <1>4 DEF CompleteInv, Found

LEMMA CompleteEnter ==
  ASSUME EvidenceInv, SerialInv, ~ overlapped, NEW t \in Workers, NEW from, NEW to, NEW l,
         Enter(t, from, to, l), from # "idle", submitted' \subseteq Findings,
         \A f \in Findings : mem'["finding"][f] # None => row'["finding"][f] # None,
         \A f \in Findings : row'["finding"][f] # None =>
            mem'["finding"][f] # None \/ Unstored(to, l, f),
         Covers(groups', submitted', row'), Submitting(to, l, submitted', row')
  PROVE  CompleteInv'
<1>1. CASE to = "idle"
  <2>1. pc' = [pc EXCEPT ![t] = "idle"] /\ loc' = [loc EXCEPT ![t] = IdleLocals] /\ pc[t] = from
    BY <1>1 DEF Enter
  <2>2. Submitting("idle", IdleLocals, submitted', row')
    BY DEF Submitting
  <2>3. \A f \in Findings : ~ Unstored(to, l, f)
    BY <1>1 DEF Unstored
  <2>4. QED
    BY <2>1, <2>2, <2>3, CompleteMove
<1>2. CASE to # "idle"
  <2>1. pc' = [pc EXCEPT ![t] = to] /\ loc' = [loc EXCEPT ![t] = l] /\ pc[t] = from
    BY <1>2 DEF Enter
  <2>2. QED
    BY <2>1, CompleteMove
<1>3. QED
  BY <1>1, <1>2

(* A step that keeps the findings and the groups. *)
LEMMA CompleteQuiet ==
  ASSUME EvidenceInv, SerialInv, CompleteInv, ~ overlapped, faults = {},
         NEW t \in Workers, NEW to, NEW l,
         pc' = [pc EXCEPT ![t] = to], loc' = [loc EXCEPT ![t] = l],
         pc[t] # "idle" \/ \A u \in Workers : pc[u] = "idle", pc[t] # "delete",
         \A f \in Findings : /\ mem'["finding"][f] = mem["finding"][f]
                             /\ row'["finding"][f] = row["finding"][f],
         groups' = groups, submitted' = submitted, to # "replace",
         to = "group" => l.ids \subseteq Findings
  PROVE  CompleteInv'
<1>1. \A f \in Findings : mem'["finding"][f] # None <=> row'["finding"][f] # None
  BY StoredAlike DEF Found
<1>2. submitted \subseteq Findings /\ Covers(groups, submitted, row)
  BY DEF CompleteInv
<1>3. Covers(groups', submitted', row')
  BY <1>2 DEF Covers
<1>4. Submitting(to, l, submitted', row')
  BY DEF Submitting
<1>5. QED
  BY <1>1, <1>2, <1>3, <1>4, CompleteMove

LEMMA CompleteQuietEnter ==
  ASSUME EvidenceInv, SerialInv, CompleteInv, ~ overlapped, faults = {},
         NEW t \in Workers, NEW from, NEW to, NEW l, Enter(t, from, to, l),
         from \notin {"idle", "delete"},
         \A f \in Findings : /\ mem'["finding"][f] = mem["finding"][f]
                             /\ row'["finding"][f] = row["finding"][f],
         groups' = groups, submitted' = submitted, to \notin {"group", "replace"}
  PROVE  CompleteInv'
<1>1. PICK n : pc' = [pc EXCEPT ![t] = to] /\ loc' = [loc EXCEPT ![t] = n] /\ pc[t] = from
  BY DEF Enter
<1>2. QED
  BY <1>1, CompleteQuiet

(* Calls, and the stages of a finding. *)
LEMMA CompleteBystanders ==
  ASSUME EvidenceInv, SerialInv, CompleteInv, ~ overlapped', faults' = {}, NEW t \in Workers,
         \/ \E f \in Staged : Validate(t, f) \/ Prove(t, f) \/ AssessRisk(t, f)
         \/ \E ids \in Batches : Deduplicate(t, ids)
         \/ DeleteProject(t)
         \/ ReadingStep(t) \/ Record(t)
         \/ \E ok \in BOOLEAN : Upsert(t, ok)
  PROVE  CompleteInv'
<1> DEFINE l == loc[t]
           Same == /\ \A f \in Findings : /\ mem'["finding"][f] = mem["finding"][f]
                                          /\ row'["finding"][f] = row["finding"][f]
                   /\ groups' = groups /\ submitted' = submitted
<1>1. ASSUME NEW to, NEW n, Call(t, n, to), to \notin {"replace", "delete"},
             to = "group" => n.ids \subseteq Findings
      PROVE  CompleteInv'
  <2>1. /\ pc' = [pc EXCEPT ![t] = to] /\ loc' = [loc EXCEPT ![t] = n] /\ pc[t] = "idle"
        /\ UNCHANGED <<records, registry, submitted>> /\ ~ overlapped /\ faults = {}
        /\ \A u \in Workers : pc[u] = "idle"
    BY <1>1 DEF Call
  <2>2. Same
    BY <2>1 DEF records, registry
  <2>3. QED
    BY <1>1, <2>1, <2>2, CompleteQuiet
<1>2. ASSUME \/ \E f \in Staged : Validate(t, f) \/ Prove(t, f) \/ AssessRisk(t, f)
             \/ DeleteProject(t)
      PROVE  CompleteInv'
  <2>1. \E to \in {"evidence", "validated", "verdict", "lineage"} : \E n : Call(t, n, to)
    BY <1>2, Zenon DEF Validate, Prove, AssessRisk, DeleteProject
  <2>2. QED
    BY <1>1, <2>1
<1>3. ASSUME NEW ids \in Batches, Deduplicate(t, ids)
      PROVE  CompleteInv'
  <2>1. PICK n : n = [IdleLocals EXCEPT !.op = "dedup", !.ids = ids]
    OBVIOUS
  <2>2. Call(t, n, "group")
    BY <1>3, <2>1, Zenon DEF Deduplicate
  <2>3. n.ids = ids
    BY <2>1 DEF IdleLocals
  <2>4. ids \subseteq Findings
    BY PipelineConstants
  <2>5. QED
    BY <1>1, <2>2, <2>3, <2>4
<1>4. CASE ReadingStep(t)
  <2>1. PICK from \in OneFinding, to \in OneFinding \cup {"idle"} : \E n : Enter(t, from, to, n)
    BY <1>4, ReadingMoves
  <2>2. UNCHANGED <<records, registry, overlapped, faults>>
    BY <1>4, ReadingMoves
  <2>3. UNCHANGED submitted
    BY <1>4 DEF ReadingStep, BuildEvidence, Complete, RequireValidation, RereadFinding, Gate,
                RunHarness, ReadVerdict, ScoreFinding, history
  <2>4. Same
    BY <2>2, <2>3 DEF records, registry
  <2>5. from \notin {"idle", "delete"} /\ to \notin {"group", "replace"}
    BY DEF OneFinding, Writing
  <2>6. QED
    BY <2>1, <2>2, <2>4, <2>5, CompleteQuietEnter
<1>5. CASE Record(t)
  <2>1. /\ Enter(t, "record", "upsert", l) /\ mem' = [mem EXCEPT ![l.store][l.f] = l.value]
        /\ UNCHANGED <<row, registry, overlapped, faults, submitted>>
    BY <1>5 DEF Record
  <2>2. l.store \in {"validation", "proof", "risk"} /\ ShapeOK(mem)
    BY <2>1, Held DEF Enter, Knows, Writing, EvidenceInv, RecordsInv
  <2>3. mem'["finding"] = mem["finding"]
    BY <2>1, <2>2, StoreFacts DEF ShapeOK
  <2>4. Same
    BY <2>1, <2>3 DEF registry
  <2>5. QED
    BY <2>1, <2>4, CompleteQuietEnter
<1>6. ASSUME NEW ok \in BOOLEAN, Upsert(t, ok)
      PROVE  CompleteInv'
  <2>1. \E to \in {"idle"} : \E n : Enter(t, "upsert", to, n)
    BY <1>6 DEF Upsert, Commit
  <2>2. /\ row' = row \/ row' = [row EXCEPT ![l.store][l.f] = l.value]
        /\ UNCHANGED <<mem, registry, overlapped, submitted>> /\ faults = {}
    BY <1>6 DEF Upsert, Fault
  <2>3. l.store \in {"validation", "proof", "risk"} /\ ShapeOK(row)
    BY <2>1, Held DEF Enter, Knows, Writing, EvidenceInv, RecordsInv
  <2>4. row'["finding"] = row["finding"]
    BY <2>2, <2>3, StoreFacts DEF ShapeOK
  <2>5. Same
    BY <2>2, <2>4 DEF registry
  <2>6. QED
    BY <2>1, <2>2, <2>5, CompleteQuietEnter
<1>7. QED
  BY <1>2, <1>3, <1>4, <1>5, <1>6

(* Deduplication: the copy keeps what the registry has of findings that     *)
(* exist, and adds the submitted ones.                                      *)
LEMMA CompleteGroups ==
  ASSUME EvidenceInv, SerialInv, CompleteInv, ~ overlapped', faults' = {}, NEW t \in Workers,
         \/ Group(t) \/ ReplaceGroups(t)
         \/ \E ok \in BOOLEAN : WipeRows(t, ok)
         \/ \E p \in Fingerprints : InsertRaises(t, p)
         \/ \E ok \in BOOLEAN, p \in Fingerprints : InsertRow(t, ok, p)
  PROVE  CompleteInv'
<1> DEFINE l == loc[t]
<1>0. Formed(l)
  BY Held
<1>e. UNCHANGED <<records, overlapped>> /\ faults \subseteq faults'
  BY DEF Group, ReplaceGroups, WipeRows, InsertRaises, InsertRow, Fault, history
<1>a. UNCHANGED records /\ ~ overlapped /\ faults = {}
  BY <1>e
<1>b. mem' = mem /\ row' = row
  BY <1>a DEF records
<1>c. /\ submitted \subseteq Findings /\ Covers(groups, submitted, row)
      /\ Submitting(pc[t], l, submitted, row)
  BY <1>a DEF CompleteInv
<1>1. CASE Group(t)
  <2> DEFINE new == Regrouped(l.ids)
             n == [l EXCEPT !.new = new]
             all == \A f \in l.ids : Found(f)
             to == IF all THEN "replace" ELSE "idle"
  <2>1. Enter(t, "group", to, n) /\ pc[t] = "group"
    BY <1>1 DEF Group, Enter
  <2>2. groups' = groups /\ submitted' = submitted
    BY <1>1 DEF Group, registry, history
  <2>3. \A f \in Findings : Found(f) <=> row["finding"][f] # None
    BY <1>a, <2>1, StoredAlike
  <2>4. l.ids \subseteq Findings
    BY <1>c, <2>1 DEF Submitting
  <2>5. \A p \in Fingerprints : new[p] \subseteq {f \in Findings : FingerprintOf[f] = p}
    <3>1. SUFFICES ASSUME NEW p \in Fingerprints, NEW f \in new[p]
                   PROVE  f \in Findings /\ FingerprintOf[f] = p
      OBVIOUS
    <3>2. f \in groups[p] \/ (f \in l.ids /\ FingerprintOf[f] = p)
      BY <3>1 DEF Regrouped
    <3>3. QED
      BY <1>c, <2>4, <3>2 DEF Covers
  <2>6. ASSUME NEW f \in submitted \cup l.ids, row["finding"][f] # None
        PROVE  f \in new[FingerprintOf[f]]
    <3>1. f \in Findings /\ FingerprintOf[f] \in Fingerprints /\ Found(f)
      BY <1>c, <2>3, <2>4, <2>6 DEF Fingerprints
    <3>2. CASE f \in l.ids
      BY <3>1, <3>2 DEF Regrouped
    <3>3. CASE f \in submitted
      <4>1. f \in groups[FingerprintOf[f]]
        BY <1>c, <2>6, <3>3 DEF Covers
      <4>2. QED
        BY <3>1, <4>1 DEF Regrouped
    <3>4. QED
      BY <2>6, <3>2, <3>3
  <2> HIDE DEF new, all
  <2>7. n.new = new /\ n.ids = l.ids
    BY <1>0 DEF Formed
  <2> HIDE DEF n
  <2>8. Submitting(to, n, submitted', row')
    BY <1>b, <2>2, <2>4, <2>5, <2>6, <2>7 DEF Submitting, Covers
  <2>9. Covers(groups', submitted', row')
    BY <1>b, <1>c, <2>2
  <2>10. \A f \in Findings : mem'["finding"][f] # None <=> row'["finding"][f] # None
    BY <1>b, <2>3 DEF Found
  <2> HIDE DEF to
  <2>11. QED
    BY <1>a, <1>c, <2>1, <2>2, <2>8, <2>9, <2>10, CompleteEnter
<1>2. CASE ReplaceGroups(t)
  <2> DEFINE n == [l EXCEPT !.todo = GroupKeys(l.new)]
  <2>1. /\ Enter(t, "replace", "wipe", n) /\ groups' = l.new /\ pc[t] = "replace"
        /\ submitted' = submitted \cup l.ids
    BY <1>2 DEF ReplaceGroups, Enter
  <2> HIDE DEF n
  <2>2. l.ids \subseteq Findings /\ Covers(groups', submitted', row')
    BY <1>b, <1>c, <2>1 DEF Submitting
  <2>3. \A f \in Findings : mem'["finding"][f] # None <=> row'["finding"][f] # None
    BY <1>a, <1>b, <2>1, StoredAlike DEF Found
  <2>4. Submitting("wipe", n, submitted', row')
    BY DEF Submitting
  <2>5. submitted' \subseteq Findings
    BY <1>c, <2>1, <2>2
  <2>6. QED
    BY <1>a, <2>1, <2>2, <2>3, <2>4, <2>5, CompleteEnter
<1>3. ASSUME NEW from \in Persisting, NEW to, NEW n, Enter(t, from, to, n),
             to \notin {"group", "replace"}, groups' = groups, submitted' = submitted
      PROVE  CompleteInv'
  BY <1>3, <1>a, <1>b, CompleteQuietEnter DEF Persisting
<1>4. ASSUME NEW ok \in BOOLEAN, WipeRows(t, ok)
      PROVE  CompleteInv'
  <2>1. PICK to \in {"idle", "forget", "insert"} : Enter(t, "wipe", to, l)
    BY <1>4 DEF WipeRows, Commit, AfterGroups
  <2>2. groups' = groups /\ submitted' = submitted
    BY <1>4 DEF WipeRows
  <2>3. QED
    BY <1>3, <2>1, <2>2 DEF Persisting
<1>5. ASSUME NEW p, InsertRaises(t, p)
      PROVE  CompleteInv'
  BY <1>5 DEF InsertRaises
<1>6. ASSUME NEW ok \in BOOLEAN, NEW p \in Fingerprints, InsertRow(t, ok, p)
      PROVE  CompleteInv'
  <2>1. PICK to \in {"idle", "forget", "insert"} : \E n : Enter(t, "insert", to, n)
    BY <1>6 DEF InsertRow, Commit, AfterGroups
  <2>2. groups' = groups /\ submitted' = submitted
    BY <1>6 DEF InsertRow
  <2>3. QED
    BY <1>3, <2>1, <2>2 DEF Persisting
<1>7. QED
  BY <1>1, <1>2, <1>4, <1>5, <1>6

(* A deletion takes memory, row and group of its findings in that order. *)
LEMMA CompleteDeletion ==
  ASSUME EvidenceInv, SerialInv, CompleteInv, ~ overlapped', faults' = {}, NEW t \in Workers,
         \/ ReadLineage(t)
         \/ \E f \in Project : Remove(t, f)
         \/ \E ok \in BOOLEAN : DeleteRow(t, ok)
         \/ Ungroup(t) \/ ForgetRuns(t)
         \/ \E ok \in BOOLEAN : DeleteRunRows(t, ok) \/ DeleteProjectRow(t, ok)
  PROVE  CompleteInv'
<1> DEFINE l == loc[t]
           Same == /\ \A f \in Findings : /\ mem'["finding"][f] = mem["finding"][f]
                                          /\ row'["finding"][f] = row["finding"][f]
                   /\ groups' = groups /\ submitted' = submitted
<1>0. Formed(l) /\ Knows(pc[t], l, confirmed) /\ ShapeOK(mem) /\ ShapeOK(row)
  BY Held DEF EvidenceInv, RecordsInv
<1>e. UNCHANGED <<overlapped, submitted>> /\ faults \subseteq faults'
  BY DEF ReadLineage, Remove, DeleteRow, Ungroup, ForgetRuns, DeleteRunRows, DeleteProjectRow,
         Fault, history
<1>a. ~ overlapped /\ faults = {} /\ submitted' = submitted
  BY <1>e
<1>b. /\ submitted \subseteq Findings /\ Covers(groups, submitted, row)
      /\ \A f \in Findings : Found(f) => row["finding"][f] # None
      /\ Removing(pc[t], l, mem, row)
  BY <1>a DEF CompleteInv, SerialInv
<1>c. Absent("finding") = None
  BY DEF Absent
<1>1. ASSUME \/ ReadLineage(t) \/ ForgetRuns(t)
             \/ \E ok \in BOOLEAN : DeleteRunRows(t, ok) \/ DeleteProjectRow(t, ok)
      PROVE  CompleteInv'
  <2>1. PICK from \in {"lineage", "forget", "runRows", "projectRow"},
             to \in {"idle", "remove", "forget", "runRows", "projectRow"} :
                \E n : Enter(t, from, to, n)
    BY <1>1, Zenon DEF ReadLineage, ForgetRuns, DeleteRunRows, DeleteProjectRow, Commit
  <2>2. UNCHANGED <<records, registry>>
    BY <1>1 DEF ReadLineage, ForgetRuns, DeleteRunRows, DeleteProjectRow
  <2>3. Same
    BY <1>a, <2>2 DEF records, registry
  <2>4. QED
    BY <1>a, <2>1, <2>3, CompleteQuietEnter
<1>2. ASSUME NEW f \in Project, Remove(t, f)
      PROVE  CompleteInv'
  <2> DEFINE n == [l EXCEPT !.f = f]
             s == Stores[l.k]
  <2>1. /\ Enter(t, "remove", "delete", n) /\ row' = row /\ groups' = groups
        /\ mem' = [mem EXCEPT ![s][f] = Absent(s)] /\ pc[t] = "remove"
    BY <1>2 DEF Remove, registry, Enter
  <2>2. f \in Findings /\ s \in StoreNames
    BY <1>0, <2>1, StoreFacts, PipelineConstants DEF Knows
  <2>3. n.f = f /\ n.k = l.k
    BY <1>0 DEF Formed
  <2> HIDE DEF n
  <2>4. \A g \in Findings :
          mem'["finding"][g] = IF s = "finding" /\ g = f THEN None ELSE mem["finding"][g]
    BY <1>0, <1>c, <2>1, <2>2, StoreFacts DEF ShapeOK
  <2>5. \A g \in Findings : mem["finding"][g] # None <=> row["finding"][g] # None
    BY <1>a, <2>1, StoredAlike DEF Found
  <2>6. \A g \in Findings : mem'["finding"][g] # None => row'["finding"][g] # None
    BY <2>1, <2>4, <2>5
  <2>7. \A g \in Findings : row'["finding"][g] # None =>
          mem'["finding"][g] # None \/ Unstored("delete", n, g)
    BY <2>1, <2>3, <2>4, <2>5 DEF Unstored
  <2>8. Covers(groups', submitted', row') /\ Submitting("delete", n, submitted', row')
    BY <1>a, <1>b, <2>1 DEF Submitting
  <2>9. QED
    BY <1>a, <1>b, <2>1, <2>6, <2>7, <2>8, CompleteEnter
<1>3. ASSUME NEW ok \in BOOLEAN, DeleteRow(t, ok)
      PROVE  CompleteInv'
  <2> DEFINE s == Stores[l.k]
  <2>0. ok
    BY <1>3 DEF DeleteRow, Fault
  <2>1. PICK to \in {"ungroup", "remove"} : \E n : Enter(t, "delete", to, n)
    BY <1>3, <2>0, Zenon DEF DeleteRow, Commit
  <2>2. PICK n : Enter(t, "delete", to, n)
    BY <2>1
  <2>3. /\ mem' = mem /\ row' = [row EXCEPT ![s][l.f] = Absent(s)] /\ groups' = groups
        /\ pc[t] = "delete"
    BY <1>3, <2>0 DEF DeleteRow, Commit, registry, Enter
  <2>4. l.f \in Findings /\ s \in StoreNames /\ mem[s][l.f] = Absent(s)
    BY <1>0, <1>b, <2>3, StoreFacts DEF Knows, Removing
  <2>5. \A g \in Findings :
          row'["finding"][g] = IF s = "finding" /\ g = l.f THEN None ELSE row["finding"][g]
    BY <1>0, <1>c, <2>3, <2>4, StoreFacts DEF ShapeOK
  <2>6. \A g \in Findings : mem'["finding"][g] # None => row'["finding"][g] # None
    BY <1>b, <1>c, <2>3, <2>4, <2>5 DEF Found
  <2>7. \A u \in Workers : pc[u] # "idle" => u = t
    BY <1>a, <2>3 DEF SerialInv, Alone
  <2>8. ASSUME NEW g \in Findings, row'["finding"][g] # None
        PROVE  mem'["finding"][g] # None
    <3>1. row["finding"][g] # None /\ ~ (s = "finding" /\ g = l.f)
      BY <2>5, <2>8
    <3>2. Found(g) \/ \E u \in Workers : Unstored(pc[u], loc[u], g)
      BY <1>a, <3>1 DEF CompleteInv
    <3>3. QED
      BY <2>3, <2>7, <3>1, <3>2 DEF Found, Unstored
  <2>9. Covers(groups', submitted', row')
    BY <1>a, <1>b, <2>3, <2>5 DEF Covers
  <2>10. Submitting(to, n, submitted', row')
    BY DEF Submitting
  <2>11. QED
    BY <1>a, <1>b, <2>2, <2>6, <2>8, <2>9, <2>10, CompleteEnter
<1>4. CASE Ungroup(t)
  <2> DEFINE kept == [p \in Fingerprints |->
               IF groups[p] \cap l.ids # {} THEN {f \in groups[p] \ l.ids : Found(f)}
                                           ELSE groups[p]]
  <2>1. PICK to \in {"forget", "wipe"} : \E n : Enter(t, "ungroup", to, n)
    BY <1>4, Zenon DEF Ungroup
  <2>2. PICK n : Enter(t, "ungroup", to, n)
    BY <2>1
  <2>3. groups' = kept /\ mem' = mem /\ row' = row /\ pc[t] = "ungroup"
    BY <1>4 DEF Ungroup, records, Enter
  <2>4. l.ids = Project /\ AllCleared(mem, row)
    BY <1>b, <2>3 DEF Removing
  <2>5. \A f \in Findings : Found(f) <=> row["finding"][f] # None
    BY <1>a, <2>3, StoredAlike
  <2>6. ASSUME NEW f \in submitted, row["finding"][f] # None
        PROVE  f \in kept[FingerprintOf[f]]
    <3>1. f \in Findings /\ FingerprintOf[f] \in Fingerprints
      BY <1>b DEF Fingerprints
    <3>2. Found(f) /\ f \notin l.ids
      BY <1>c, <2>4, <2>5, <2>6, <3>1, StoreFacts DEF AllCleared
    <3>3. f \in groups[FingerprintOf[f]]
      BY <1>b, <2>6 DEF Covers
    <3>4. QED
      BY <3>1, <3>2, <3>3
  <2>7. \A p \in Fingerprints : kept[p] \subseteq groups[p]
    OBVIOUS
  <2> HIDE DEF kept
  <2>8. Covers(groups', submitted', row')
    BY <1>a, <1>b, <2>3, <2>6, <2>7 DEF Covers
  <2>9. \A f \in Findings : mem'["finding"][f] # None <=> row'["finding"][f] # None
    BY <2>3, <2>5 DEF Found
  <2>10. Submitting(to, n, submitted', row')
    BY DEF Submitting
  <2>11. QED
    BY <1>a, <1>b, <2>2, <2>8, <2>9, <2>10, CompleteEnter
<1>5. QED
  BY <1>1, <1>2, <1>3, <1>4

LEMMA CompleteStep ==
  EvidenceInv /\ SerialInv /\ RegistryInv /\ CompleteInv /\ [PipelineNext]_pipelineVars
    => CompleteInv'
<1> SUFFICES ASSUME EvidenceInv, SerialInv, RegistryInv, CompleteInv, [PipelineNext]_pipelineVars,
                    ~ overlapped', faults' = {}
             PROVE  CompleteInv'
  BY DEF CompleteInv
<1>1. CASE UNCHANGED pipelineVars
  BY <1>1 DEF pipelineVars, records, registry, history, CompleteInv, Found
<1>2. CASE Restart
  <2>1. /\ ~ overlapped /\ faults = {} /\ GroupsAtRest
        /\ groups' = groupRow /\ mem' = row /\ row' = row /\ submitted' = submitted
        /\ \A t \in Workers : pc'[t] = "idle"
    BY <1>2 DEF Restart, GroupsAtRest
  <2>2. groupRow = groups
    BY <2>1 DEF RegistryInv
  <2>3. submitted \subseteq Findings /\ Covers(groups, submitted, row)
    BY <2>1 DEF CompleteInv
  <2>4. \A t \in Workers : Submitting(pc'[t], loc'[t], submitted', row')
    BY <2>1 DEF Submitting
  <2>5. QED
    BY <2>1, <2>2, <2>3, <2>4 DEF CompleteInv, Found
<1>3. CASE PipelineNext /\ ~ Restart
  BY <1>3, CompleteBystanders, CompleteGroups, CompleteDeletion
     DEF PipelineNext, HandlerStep, ReadingStep
<1>4. QED
  BY <1>1, <1>2, <1>3

(* The groups as the code makes them: by signature. *)
GroupsFollowSignatures ==
  ~ overlapped /\ faults = {} /\ (\A t \in Workers : pc[t] = "idle") =>
    \A f \in submitted : Found(f) =>
      \E p \in Fingerprints :
        /\ f \in groups[p]
        /\ \A g \in submitted : Found(g) =>
             (g \in groups[p] <=> Signature(Shape[g]) = Signature(Shape[f]))

(* Every finding that has been deduplicated and exists is in one group with *)
(* exactly those of its signature, for any number of findings, of handlers  *)
(* one after the other, of deletions and of restarts between two steps      *)
(* (dedup/service.py deduplicate merges the existing members, and           *)
(* remove_findings drops only those of the deleted project).                *)
THEOREM GroupsBySignature == PipelineSpec => []GroupsFollowSignatures
<1>1. CompleteInv => GroupsFollowSignatures
  <2>1. SUFFICES ASSUME CompleteInv, ~ overlapped, faults = {}, \A t \in Workers : pc[t] = "idle",
                        NEW f \in submitted, Found(f)
                 PROVE  \E p \in Fingerprints :
                          /\ f \in groups[p]
                          /\ \A g \in submitted : Found(g) =>
                               (g \in groups[p] <=> Signature(Shape[g]) = Signature(Shape[f]))
    BY DEF GroupsFollowSignatures
  <2>2. /\ submitted \subseteq Findings /\ Covers(groups, submitted, row)
        /\ \A g \in Findings : Found(g) => row["finding"][g] # None
    BY <2>1 DEF CompleteInv
  <2>3. f \in Findings /\ FingerprintOf[f] \in Fingerprints
    BY <2>2 DEF Fingerprints
  <2>4. \A g \in submitted : Found(g) => g \in groups[FingerprintOf[g]]
    BY <2>2 DEF Covers
  <2>5. ASSUME NEW g \in submitted, Found(g)
        PROVE  g \in groups[FingerprintOf[f]] <=> Signature(Shape[g]) = Signature(Shape[f])
    <3>1. g \in Findings
      BY <2>2
    <3>2. g \in groups[FingerprintOf[f]] <=> FingerprintOf[g] = FingerprintOf[f]
      BY <2>2, <2>3, <2>4, <2>5 DEF Covers
    <3>3. QED
      BY <2>3, <3>1, <3>2, OneFingerprintPerSignature
  <2>6. QED
    BY <2>3, <2>4, <2>5, <2>1
<1>2. QED
  BY <1>1, InitEvidence, InitSerial, InitRegistry, InitComplete, EvidenceStep, SerialStep,
     RegistryStep, CompleteStep, PTL DEF PipelineSpec

(* Where equal signatures are exactly the alike flaws, as they are for the  *)
(* findings of the run, the groups are the sets of alike findings           *)
(* (dedup/fingerprint.py build: no file and no line is in the signature).   *)
THEOREM GroupsComplete ==
  ASSUME \A f, g \in Findings : Alike(f, g) <=> Signature(Shape[f]) = Signature(Shape[g])
  PROVE  PipelineSpec => []GroupsAreComplete
<1>1. CompleteInv /\ GroupsFollowSignatures => GroupsAreComplete
  <2>1. SUFFICES ASSUME CompleteInv, GroupsFollowSignatures, ~ overlapped, faults = {},
                        \A t \in Workers : pc[t] = "idle", NEW f \in submitted, Found(f)
                 PROVE  \E p \in Fingerprints :
                          /\ f \in groups[p]
                          /\ \A g \in submitted : Found(g) => (g \in groups[p] <=> Alike(f, g))
    BY DEF GroupsAreComplete
  <2>2. submitted \subseteq Findings
    BY <2>1 DEF CompleteInv
  <2>3. \A g \in submitted : Alike(f, g) <=> Signature(Shape[g]) = Signature(Shape[f])
    BY <2>2
  <2>4. QED
    BY <2>1, <2>3 DEF GroupsFollowSignatures
<1>2. QED
  BY <1>1, GroupsBySignature, InitEvidence, InitSerial, InitRegistry, InitComplete, EvidenceStep,
     SerialStep, RegistryStep, CompleteStep, PTL DEF PipelineSpec
=============================================================================
