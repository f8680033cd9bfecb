------------------------- MODULE VerificationEngine -------------------------
(***************************************************************************)
(* VerificationEngine.verify of verification/runtime.py: one verification, *)
(* from one await to the next.  The stage verifier, the regression guard,  *)
(* the root-cause analyzer and the correction runner are collaborators.    *)
(***************************************************************************)
EXTENDS Naturals

CONSTANTS
  NumStages,       \* the members of VerificationStage, in their order
  MaxCorrections,  \* max_correction_attempts
  HasRegression    \* a regression guard was given

ASSUME VerificationAssumption ==
  /\ NumStages \in Nat \ {0}
  /\ MaxCorrections \in Nat
  /\ HasRegression \in BOOLEAN

\* validate: the CODE stage is verified again after a correction.
Step == {"new", "baseline", "stages", "analyze", "correct", "validate", "over"}

Verdict == {"none", "verified", "escalated", "raised"}

VARIABLES
  step,      \* what verify() awaits
  stage,     \* the stage being verified
  clean,     \* no stage of this pass has failed
  attempts,  \* corrections begun
  verdict,   \* how verify() ended
  proven     \* history: stages passed since the last correction began

verifyVars == <<step, stage, clean, attempts, verdict, proven>>

VerifyTypeOK ==
  /\ step \in Step
  /\ stage \in 1 .. NumStages
  /\ clean \in BOOLEAN
  /\ attempts \in 0 .. MaxCorrections
  /\ verdict \in Verdict
  /\ proven \in SUBSET (1 .. NumStages)

VerifyInit ==
  /\ step = "new"
  /\ stage = 1
  /\ clean = TRUE
  /\ attempts = 0
  /\ verdict = "none"
  /\ proven = {}

-----------------------------------------------------------------------------
Finish(result) == step' = "over" /\ verdict' = result

\* A pass over all stages begins.
BeginPass == step' = "stages" /\ stage' = 1 /\ clean' = TRUE /\ UNCHANGED verdict

Verify ==
  /\ step = "new"
  /\ IF HasRegression
     THEN step' = "baseline" /\ UNCHANGED <<stage, clean, verdict>>
     ELSE BeginPass
  /\ UNCHANGED <<attempts, proven>>

\* A broken baseline is nobody's correction to make.
BaselineAnswered(ok) ==
  /\ step = "baseline"
  /\ IF ok THEN BeginPass ELSE Finish("escalated") /\ UNCHANGED <<stage, clean>>
  /\ UNCHANGED <<attempts, proven>>

\* Every stage of a pass is verified, the ones after a failure too.  After the
\* last one the work is verified, or given up, or a correction is looked for.
StageAnswered(ok) ==
  /\ step = "stages"
  /\ proven' = IF ok THEN proven \cup {stage} ELSE proven \ {stage}
  /\ IF stage < NumStages
     THEN stage' = stage + 1 /\ clean' = (clean /\ ok) /\ UNCHANGED <<step, verdict, attempts>>
     ELSE /\ UNCHANGED <<stage, clean>>
          /\ \/ clean /\ ok /\ Finish("verified") /\ UNCHANGED attempts
             \/ /\ ~(clean /\ ok) /\ attempts >= MaxCorrections
                /\ Finish("escalated") /\ UNCHANGED attempts
             \/ /\ ~(clean /\ ok) /\ attempts < MaxCorrections
                /\ step' = "analyze" /\ attempts' = attempts + 1
                /\ UNCHANGED verdict

\* The cause is found, or not: the correction runner is called either way.
CauseAnswered ==
  /\ step = "analyze"
  /\ step' = "correct"
  /\ proven' = {}
  /\ UNCHANGED <<stage, clean, attempts, verdict>>

CorrectionAnswered ==
  /\ step = "correct"
  /\ step' = "validate"
  /\ UNCHANGED <<stage, clean, attempts, verdict, proven>>

\* A correction that validates is verified from the first stage again.
ValidationAnswered(ok) ==
  /\ step = "validate"
  /\ IF ok THEN BeginPass ELSE Finish("escalated") /\ UNCHANGED <<stage, clean>>
  /\ UNCHANGED <<attempts, proven>>

\* A collaborator raises or the caller is cancelled: verify() handles neither.
VerifyRaised ==
  /\ step \notin {"new", "over"}
  /\ Finish("raised")
  /\ UNCHANGED <<stage, clean, attempts, proven>>

-----------------------------------------------------------------------------
\* Properties

\* Work is "verified" only when every stage passed after the last correction began:
\* the validation of a correction is no substitute for a full pass.
VerifiedAfterCorrection == verdict = "verified" => proven = 1 .. NumStages
=============================================================================
