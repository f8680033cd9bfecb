------------------------- MODULE CorrectedDelivery --------------------------
(***************************************************************************)
(* Verification whose correction runner is the engineering agent, as the   *)
(* documentation of the verification engine suggests, while another caller *)
(* uses the same agent.  The run that makes the n-th correction is run n;  *)
(* run 0 is the other caller's.                                            *)
(***************************************************************************)
EXTENDS EngineeringAgent, VerificationEngine

ASSUME DeliveryAssumption == Runs = 0 .. MaxCorrections

deliveryVars == <<agentVars, verifyVars>>

DeliveryTypeOK == AgentTypeOK /\ VerifyTypeOK

DeliveryInit == AgentInit /\ VerifyInit

-----------------------------------------------------------------------------
\* The analyzer has answered, and the correction runner runs the agent.
BeginCorrection == CauseAnswered /\ Start(attempts)

\* The run is over with a report, whatever it says, or with an exception.
EndCorrection ==
  /\ step = "correct" /\ At(attempts, "over")
  /\ IF run[attempts].outcome = "raised" THEN VerifyRaised ELSE CorrectionAnswered
  /\ UNCHANGED agentVars

\* Stages, baselines and validations are answered.
Judged ==
  /\ \E ok \in BOOLEAN : BaselineAnswered(ok) \/ StageAnswered(ok) \/ ValidationAnswered(ok)
  /\ UNCHANGED agentVars

Broken == step # "correct" /\ VerifyRaised /\ UNCHANGED agentVars

Begin == Verify /\ UNCHANGED agentVars

Other == Start(0) /\ UNCHANGED verifyVars

Agent(r) == (Answered(r) \/ Raised(r)) /\ UNCHANGED verifyVars

Time == Tick /\ UNCHANGED verifyVars

DeliveryNext ==
  \/ Begin \/ Judged \/ BeginCorrection \/ EndCorrection \/ Broken
  \/ Other \/ Time
  \/ \E r \in Runs : Agent(r)

DeliverySpec == DeliveryInit /\ [][DeliveryNext]_deliveryVars

-----------------------------------------------------------------------------
\* Properties

\* Work is "verified" only when every stage passed after the last correction began,
\* and the agent's run that made a correction reported "completed" only when both
\* test stages passed after the last call in which it changed anything: neither the
\* validation of a correction nor tests of an earlier iteration pass for it.
DeliveredIsTested == CompletedIsTested /\ VerifiedAfterCorrection

\* A verification that has begun ends, through the iterations of the agent and the
\* corrections of the engine, whatever the stages and the tools answer.
EveryVerificationEnds == step # "new" ~> step = "over"
=============================================================================
