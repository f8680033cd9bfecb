----------------------- MODULE MCEngineeringWorkflow -----------------------
(***************************************************************************)
(* Instances of EngineeringWorkflow for TLC.                               *)
(***************************************************************************)
EXTENDS EngineeringWorkflow, TLC

RunnerSymmetry == Permutations(Runners)
=============================================================================
