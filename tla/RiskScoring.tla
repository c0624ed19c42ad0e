---------------------------- MODULE RiskScoring ----------------------------
(***************************************************************************)
(* The risk score of a finding (risk/scoring.py): a pure function of the   *)
(* finding's severity, its validation and its proof under a policy.  The   *)
(* wording of the factors is left out; their points are kept, because the  *)
(* score has to be explained by them.                                      *)
(***************************************************************************)
EXTENDS Integers

CONSTANTS
  Severities,          \* every severity a finding may carry
  SeverityWeights,     \* RiskPolicy.severity_weights: known severity -> weight
  ValidatedBonus, ProofBonus, ProofIncreasesPriority,
  Thresholds           \* RiskPolicy.priority_thresholds, of P0 .. P4 in order

ASSUME PolicyAssumption ==
  /\ SeverityWeights \in [DOMAIN SeverityWeights -> Int]
  /\ DOMAIN SeverityWeights \subseteq Severities
  /\ ValidatedBonus \in Nat /\ ProofBonus \in Nat
  /\ ProofIncreasesPriority \in BOOLEAN
  /\ Thresholds \in [0..4 -> Int]

None == "none"
Verdicts == {"true_positive", "false_positive", "uncertain"}
ProofStatuses == {"verified", "not_verified", "blocked", "error"}

(* Priorities P0 .. P4 are the numbers 0 .. 4. *)
Priority == 0..4

RiskFactor == [name : {"severity", "validation", "proof"}, points : Int]

Factor(name, points) == [name |-> name, points |-> points]

-----------------------------------------------------------------------------

(* _priority_for: the first threshold the score reaches, P4 if none. *)
PriorityFor(score) ==
  IF \E p \in Priority : score >= Thresholds[p]
    THEN CHOOSE p \in Priority :
           /\ score >= Thresholds[p]
           /\ \A q \in Priority : q < p => score < Thresholds[q]
    ELSE 4

(* An unknown severity weighs 0 and still has its factor. *)
Weight(severity) ==
  IF severity \in DOMAIN SeverityWeights THEN SeverityWeights[severity] ELSE 0

(* Mutant: everything that is not refuted earns the bonus. *)
ValidationPointsUnconfirmed(verdict) ==
  IF verdict \in {"true_positive", "uncertain"} THEN ValidatedBonus ELSE 0

ValidationPoints(verdict) ==
  IF verdict = "true_positive" THEN ValidatedBonus ELSE 0

ProofPoints(proof) ==
  IF proof = "verified" /\ ProofIncreasesPriority THEN ProofBonus ELSE 0

Clamp(score) == IF score > 100 THEN 100 ELSE IF score < 0 THEN 0 ELSE score

(* Mutant: the proof adds points and no factor. *)
FactorsWithoutProof(severity, verdict, proof) ==
  {Factor("severity", Weight(severity))}
    \cup {Factor("validation", ValidationPoints(v)) : v \in {verdict} \cap {"true_positive", "uncertain"}}

(* What is not known is not scored: no validation or proof, no factor. *)
Factors(severity, verdict, proof) ==
  {Factor("severity", Weight(severity))}
    \cup {Factor("validation", ValidationPoints(v)) : v \in {verdict} \cap {"true_positive", "uncertain"}}
    \cup {Factor("proof", ProofPoints(p)) : p \in {proof} \cap {"verified"}}

(* RiskScorer.score *)
Score(severity, verdict, proof) ==
  IF verdict = "false_positive"
    THEN [risk_score |-> 0, priority |-> 4, factors |-> {Factor("validation", 0)}]
    ELSE LET s == Clamp(Weight(severity) + ValidationPoints(verdict) + ProofPoints(proof))
         IN  [risk_score |-> s, priority |-> PriorityFor(s),
              factors |-> Factors(severity, verdict, proof)]

-----------------------------------------------------------------------------
(* What the scorer promises of one input.                                  *)

PointsOf(factors, name) ==
  IF \E f \in factors : f.name = name
    THEN (CHOOSE f \in factors : f.name = name).points
    ELSE 0

(* Every point of a score is explained by a factor of its kind, and the    *)
(* score is their sum clamped to 0..100 (the API shows both).              *)
Explained(a) ==
  a.risk_score = Clamp(PointsOf(a.factors, "severity")
                        + PointsOf(a.factors, "validation") + PointsOf(a.factors, "proof"))

(* What the analyst learns never moves a finding the wrong way: confirming *)
(* it or proving it does not lower its score or its urgency (a smaller     *)
(* number is a more urgent priority), refuting it does not raise them, and *)
(* an uncertain verdict leaves it where it was.                            *)
EvidenceOrdered(severity, proof) ==
  LET tp == Score(severity, "true_positive", proof)
      unc == Score(severity, "uncertain", proof)
      unvalidated == Score(severity, None, proof)
      fp == Score(severity, "false_positive", proof)
      proved == Score(severity, "true_positive", "verified")
  IN  /\ tp.risk_score >= unc.risk_score /\ tp.priority <= unc.priority
      /\ unc.risk_score = unvalidated.risk_score /\ unc.priority = unvalidated.priority
      /\ unc.risk_score >= fp.risk_score /\ unc.priority <= fp.priority
      /\ proved.risk_score >= tp.risk_score /\ proved.priority <= tp.priority
=============================================================================
