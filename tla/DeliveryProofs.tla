----------------------------- MODULE DeliveryProofs -----------------------------
(***************************************************************************)
(* Proofs about the engineering agent, the verification engine and the     *)
(* delivery that composes them, for every number of runs, stages,          *)
(* corrections and every set of limits; and about the calls of a model     *)
(* through an adapter, for every number of calls, attempts and chunks.     *)
(***************************************************************************)
EXTENDS ProviderModel, CorrectedDelivery, FiniteSetTheorems, SequenceTheorems, TLAPS

-----------------------------------------------------------------------------
\* The engineering agent

RunRecord == [pc : Place, iterations : 0 .. MaxIterations, outcome : Outcome]

\* What holds of run r.  The calls it made are among those of the shared counter until
\* another run resets that; a run that began with too many files gets no further than
\* its first implementation.
RunInv(r) ==
  /\ run[r].pc \in {"new"} \cup Before => run[r].iterations = 0
  /\ At(r, "correct") => run[r].iterations < MaxIterations
  /\ ~At(r, "over") => run[r].outcome = "none"
  /\ At(r, "broader") => passed[r] = {"targeted"}
  /\ run[r].outcome = "completed" => passed[r] = Tests
  /\ At(r, "new") => made[r] = 0
  /\ r \notin shared /\ ~At(r, "over") => made[r] <= calls
  /\ r \notin shared /\ At(r, "over") => made[r] <= MaxCalls
  /\ r \in spent =>
       /\ Cardinality(changed) > MaxFiles
       /\ run[r].pc \in Before \cup {"implement", "over"}
       /\ run[r].outcome # "completed"

AgentInv ==
  /\ AgentTypeOK
  /\ \A r \in Runs : RunInv(r)

\* The tracker never forgets a file.
LEMMA ChangedGrows ==
  ASSUME AgentAssumption, AgentTypeOK, changed \subseteq changed', changed' \subseteq Paths
  PROVE  /\ Cardinality(changed) <= Cardinality(changed')
         /\ Cardinality(changed') \in Nat /\ Cardinality(changed) \in Nat
  <1>1. IsFiniteSet(changed')
    BY FS_Subset DEF AgentAssumption
  <1>2. Cardinality(changed) <= Cardinality(changed') /\ IsFiniteSet(changed)
    BY <1>1, FS_Subset
  <1> QED
    BY <1>1, <1>2, FS_CardinalityType

\* A run that ends keeps the invariant.
LEMMA EndKeeps ==
  ASSUME AgentAssumption, AgentInv, NEW r \in Runs, UnderWay(r),
         NEW outcome \in Outcome, End(r, outcome),
         outcome = "completed" => passed'[r] = Tests /\ r \notin spent,
         passed' \in [Runs -> SUBSET Tests],
         \A s \in Runs \ {r} : passed'[s] = passed[s],
         changed \subseteq changed', changed' \subseteq Paths,
         UNCHANGED <<calls, left, made, shared, spent>>
  PROVE  AgentInv'
  <1>1. run[r] \in RunRecord /\ run \in [Runs -> RunRecord]
    BY DEF AgentInv, AgentTypeOK, RunRecord
  <1>2. /\ run'[r] = [run[r] EXCEPT !.pc = "over", !.outcome = outcome]
        /\ DOMAIN run' = Runs
        /\ \A s \in Runs \ {r} : run'[s] = run[s]
        /\ run' = [s \in Runs |-> run'[s]]
    BY <1>1 DEF End
  <1>3. /\ run'[r].pc = "over" /\ run'[r].outcome = outcome
        /\ run'[r].iterations = run[r].iterations
        /\ run'[r] \in RunRecord
    BY <1>1, <1>2 DEF RunRecord, Place
  <1>4. run' \in [Runs -> RunRecord]
    BY <1>1, <1>2, <1>3
  <1>5. AgentTypeOK'
    BY <1>4 DEF AgentInv, AgentTypeOK, RunRecord
  <1>6. /\ Cardinality(changed) <= Cardinality(changed')
        /\ Cardinality(changed') \in Nat /\ Cardinality(changed) \in Nat
    BY ChangedGrows DEF AgentInv
  <1>7. RunInv(r)'
    <2>1. made[r] \in Nat /\ calls \in 0 .. MaxCalls /\ MaxCalls \in Nat /\ MaxFiles \in Nat
      BY DEF AgentInv, AgentTypeOK, AgentAssumption
    <2>2. r \notin shared => made[r] <= MaxCalls
      BY <2>1 DEF AgentInv, RunInv, At, UnderWay
    <2>3. r \in spent => Cardinality(changed') > MaxFiles
      BY <1>6, <2>1 DEF AgentInv, RunInv
    <2> QED
      BY <1>3, <2>2, <2>3 DEF RunInv, At, Before
  <1>8. ASSUME NEW s \in Runs \ {r} PROVE RunInv(s)'
    <2>1. MaxFiles \in Nat
      BY DEF AgentAssumption
    <2> QED
      BY <1>2, <1>6, <2>1 DEF AgentInv, RunInv, At
  <1> QED
    BY <1>5, <1>7, <1>8 DEF AgentInv

\* A run that makes a call, or is stopped before it, keeps the invariant.
LEMMA CallKeeps ==
  ASSUME AgentAssumption, AgentInv, NEW r \in Runs, UnderWay(r),
         NEW place \in Tools \cup {"analyze"}, NEW begun \in {0, 1}, NEW tests \in SUBSET Tests,
         Call(r, place, begun, tests),
         run[r].iterations + begun <= MaxIterations,
         place = "correct" => run[r].iterations + begun < MaxIterations,
         place = "broader" => tests = {"targeted"},
         r \in spent => place = "implement",
         changed \subseteq changed', changed' \subseteq Paths,
         UNCHANGED <<left, shared, spent>>
  PROVE  AgentInv'
  <1>1. /\ run[r] \in RunRecord /\ run \in [Runs -> RunRecord] /\ run[r].iterations \in Nat
        /\ passed \in [Runs -> SUBSET Tests] /\ made \in [Runs -> Nat]
        /\ calls \in 0 .. MaxCalls /\ MaxCalls \in Nat /\ MaxFiles \in Nat
        /\ MaxIterations \in Nat
    BY DEF AgentInv, AgentTypeOK, RunRecord, AgentAssumption
  <1>2. /\ Cardinality(changed) <= Cardinality(changed')
        /\ Cardinality(changed') \in Nat /\ Cardinality(changed) \in Nat
    BY ChangedGrows DEF AgentInv
  <1>3. /\ passed' \in [Runs -> SUBSET Tests] /\ passed'[r] = tests
        /\ \A s \in Runs \ {r} : passed'[s] = passed[s]
    BY <1>1 DEF Call
  <1>4. place \in Place /\ "over" \in Place /\ "escalated" \in Outcome
    BY DEF Place, Tools, Outcome
  <1>5. CASE Stopped
    <2>1. /\ run' = [run EXCEPT ![r] = [pc |-> "over", outcome |-> "escalated",
                                        iterations |-> run[r].iterations + begun]]
          /\ UNCHANGED <<calls, made>>
      BY <1>5 DEF Call
    <2>2. /\ run'[r] = [pc |-> "over", outcome |-> "escalated",
                        iterations |-> run[r].iterations + begun]
          /\ \A s \in Runs \ {r} : run'[s] = run[s]
      BY <1>1, <2>1
    <2>3. run' \in [Runs -> RunRecord]
      BY <1>1, <1>4, <2>1 DEF RunRecord
    <2>4. AgentTypeOK'
      BY <1>3, <2>1, <2>3 DEF AgentInv, AgentTypeOK, RunRecord
    <2>5. RunInv(r)'
      <3>1. r \notin shared => made[r] <= MaxCalls
        BY <1>1 DEF AgentInv, RunInv, At, UnderWay
      <3>2. r \in spent => Cardinality(changed') > MaxFiles
        BY <1>1, <1>2 DEF AgentInv, RunInv
      <3> QED
        BY <2>1, <2>2, <3>1, <3>2 DEF RunInv, At, Before
    <2>6. ASSUME NEW s \in Runs \ {r} PROVE RunInv(s)'
      BY <1>1, <1>2, <1>3, <2>1, <2>2 DEF AgentInv, RunInv, At
    <2> QED
      BY <2>4, <2>5, <2>6 DEF AgentInv
  <1>6. CASE ~Stopped
    <2>1. /\ run' = [run EXCEPT ![r].pc = place, ![r].iterations = @ + begun]
          /\ calls' = calls + 1 /\ made' = [made EXCEPT ![r] = @ + 1]
          /\ calls < MaxCalls
      BY <1>1, <1>6 DEF Call, Stopped
    <2>2. /\ run'[r] = [run[r] EXCEPT !.pc = place, !.iterations = @ + begun]
          /\ \A s \in Runs \ {r} : run'[s] = run[s]
          /\ run' = [s \in Runs |-> run'[s]]
      BY <1>1, <2>1
    <2>3. /\ run'[r].pc = place /\ run'[r].outcome = run[r].outcome
          /\ run'[r].iterations = run[r].iterations + begun
          /\ run'[r] \in RunRecord
      <3>1. run'[r] = [pc |-> place, iterations |-> run[r].iterations + begun,
                       outcome |-> run[r].outcome]
        BY <1>1, <2>2 DEF RunRecord
      <3>2. run[r].iterations + begun \in 0 .. MaxIterations /\ run[r].outcome \in Outcome
        BY <1>1 DEF RunRecord
      <3> QED
        BY <1>4, <3>1, <3>2 DEF RunRecord
    <2>4. run' \in [Runs -> RunRecord]
      BY <1>1, <2>2, <2>3
    <2>5. /\ made' \in [Runs -> Nat] /\ made'[r] = made[r] + 1
          /\ \A s \in Runs \ {r} : made'[s] = made[s]
          /\ calls' \in 0 .. MaxCalls
      BY <1>1, <2>1
    <2>6. AgentTypeOK'
      BY <1>3, <2>4, <2>5 DEF AgentInv, AgentTypeOK, RunRecord
    <2>7. RunInv(r)'
      <3>1. r \notin shared => made'[r] <= calls'
        BY <1>1, <2>1, <2>5 DEF AgentInv, RunInv, At, UnderWay
      <3>2. r \in spent => Cardinality(changed') > MaxFiles
        BY <1>1, <1>2 DEF AgentInv, RunInv
      <3>3. run[r].outcome = "none" /\ place \notin {"new", "over"} \cup Before
        BY DEF AgentInv, RunInv, At, UnderWay, Tools, Before
      <3> QED
        BY <1>3, <2>3, <3>1, <3>2, <3>3 DEF RunInv, At
    <2>8. ASSUME NEW s \in Runs \ {r} PROVE RunInv(s)'
      <3>1. made[s] \in Nat
        BY <1>1
      <3> QED
        BY <1>1, <1>2, <1>3, <2>1, <2>2, <2>5, <3>1 DEF AgentInv, RunInv, At
    <2> QED
      BY <2>6, <2>7, <2>8 DEF AgentInv
  <1> QED
    BY <1>5, <1>6

LEMMA AgentStepKeeps ==
  ASSUME AgentAssumption, AgentInv, [AgentNext]_agentVars
  PROVE  AgentInv'
  <1>0. /\ run \in [Runs -> RunRecord] /\ changed \subseteq Paths
        /\ passed \in [Runs -> SUBSET Tests] /\ made \in [Runs -> Nat]
        /\ calls \in 0 .. MaxCalls /\ MaxCalls \in Nat /\ MaxTime \in Nat /\ left \in 0 .. MaxTime
        /\ MaxIterations \in Nat /\ MaxIterations > 0
    BY DEF AgentInv, AgentTypeOK, RunRecord, AgentAssumption
  <1>1. CASE Tick
    <2>1. left' \in 0 .. MaxTime
      BY <1>0, <1>1 DEF Tick
    <2> QED
      BY <1>1, <2>1 DEF Tick, AgentInv, AgentTypeOK, RunInv, At
  <1>2. ASSUME NEW r \in Runs, Start(r) PROVE AgentInv'
    <2>1. /\ run'[r] = [run[r] EXCEPT !.pc = "retrieve"] /\ run[r].pc = "new"
          /\ \A s \in Runs \ {r} : run'[s] = run[s]
          /\ run' \in [Runs -> RunRecord]
      BY <1>0, <1>2 DEF Start, At, RunRecord, Place, Before
    <2>2. AgentTypeOK'
      BY <1>0, <1>2, <2>1 DEF Start, AgentInv, AgentTypeOK, RunRecord
    <2>3. /\ UNCHANGED <<changed, passed, made>> /\ calls' = 0
          /\ shared' = shared \cup {s \in Runs : UnderWay(s)}
          /\ spent' = IF Cardinality(changed) > MaxFiles THEN spent \cup {r} ELSE spent
      BY <1>2 DEF Start
    <2>4. RunInv(r)'
      <3>1. /\ run'[r].pc = "retrieve" /\ run'[r].outcome = "none"
            /\ run'[r].iterations = 0 /\ made[r] = 0
        BY <1>0, <2>1 DEF AgentInv, RunInv, At, RunRecord
      <3> QED
        BY <2>3, <3>1 DEF AgentInv, RunInv, At, Before
    <2>5. ASSUME NEW s \in Runs \ {r} PROVE RunInv(s)'
      BY <1>0, <2>1, <2>3 DEF AgentInv, RunInv, At, UnderWay
    <2> QED
      BY <2>2, <2>4, <2>5 DEF AgentInv
  <1>3. ASSUME NEW r \in Runs, Raised(r) PROVE AgentInv'
    BY <1>0, <1>3, EndKeeps DEF Raised, Outcome
  <1>4. ASSUME NEW r \in Runs, Answered(r) PROVE AgentInv'
    <2>0. /\ run[r] \in RunRecord /\ RunInv(r) /\ "escalated" \in Outcome
          /\ "completed" \in Outcome /\ run[r].iterations \in 0 .. MaxIterations
      BY <1>0 DEF AgentInv, Outcome, RunRecord
    <2>1. UnderWay(r)
      BY <1>4 DEF Answered, Prepared, Accepted, Rejected, Implemented, TestPassed, TestFailed,
                  Analyzed, Corrected, At, UnderWay, Before, Tests
    <2>2. CASE Prepared(r)
      <3> DEFINE next == CASE At(r, "retrieve") -> "inspect"
                           [] At(r, "inspect")  -> "plan"
                           [] At(r, "plan")     -> "validate"
      <3>1. next \in Before /\ run[r].pc \in Before
        BY <2>2 DEF Prepared, Before, At
      <3>2. CASE Stopped
        BY <1>0, <2>0, <2>1, <2>2, <3>2, EndKeeps DEF Prepared, Await
      <3>3. CASE ~Stopped
        <4>1. run' = [run EXCEPT ![r].pc = next]
              /\ UNCHANGED <<calls, left, changed, passed, made, shared, spent>>
          BY <2>2, <3>3 DEF Prepared, Await
        <4> HIDE DEF next
        <4>2. /\ run'[r] = [run[r] EXCEPT !.pc = next]
              /\ \A s \in Runs \ {r} : run'[s] = run[s]
              /\ run' \in [Runs -> RunRecord]
          BY <1>0, <2>0, <3>1, <4>1 DEF RunRecord, Place
        <4>3. AgentTypeOK'
          BY <4>1, <4>2 DEF AgentInv, AgentTypeOK, RunRecord
        <4>4. RunInv(r)'
          BY <2>0, <3>1, <4>1, <4>2 DEF RunInv, At, Before, RunRecord
        <4>5. ASSUME NEW s \in Runs \ {r} PROVE RunInv(s)'
          BY <4>1, <4>2 DEF AgentInv, RunInv, At
        <4> QED
          BY <4>3, <4>4, <4>5 DEF AgentInv
      <3> QED
        BY <3>2, <3>3
    <2>3. CASE Accepted(r)
      <3>1. run[r].iterations + 1 <= MaxIterations /\ run[r].pc = "validate"
        BY <1>0, <2>0, <2>3 DEF Accepted, At, RunInv, Before
      <3>2. Call(r, "implement", 1, {}) /\ UNCHANGED <<left, changed, shared, spent>>
        BY <2>3 DEF Accepted
      <3> QED
        BY <1>0, <2>1, <3>1, <3>2, CallKeeps DEF Tools
    <2>4. CASE Rejected(r)
      BY <1>0, <2>0, <2>1, <2>4, EndKeeps DEF Rejected
    <2>5. CASE Implemented(r)
      <3>1. PICK paths \in SUBSET Paths : changed' = changed \cup paths
        BY <2>5 DEF Implemented
      <3>2. /\ changed \subseteq changed' /\ changed' \subseteq Paths
            /\ UNCHANGED <<left, shared, spent>>
            /\ IF TooMany(changed')
               THEN End(r, "escalated") /\ UNCHANGED <<calls, passed, made>>
               ELSE Call(r, "targeted", 0, {})
        BY <1>0, <2>5, <3>1 DEF Implemented
      <3>3. CASE TooMany(changed')
        BY <1>0, <2>0, <2>1, <3>2, <3>3, EndKeeps
      <3>4. CASE ~TooMany(changed')
        <4>1. r \notin spent
          <5>1. Cardinality(changed) <= Cardinality(changed') /\ MaxFiles \in Nat
                /\ Cardinality(changed') \in Nat /\ Cardinality(changed) \in Nat
            BY <3>2, ChangedGrows DEF AgentInv, AgentAssumption
          <5> QED
            BY <2>0, <3>4, <5>1 DEF TooMany, RunInv
        <4>2. run[r].iterations + 0 <= MaxIterations
          BY <1>0, <2>0
        <4> QED
          BY <2>1, <3>2, <3>4, <4>1, <4>2, CallKeeps DEF Tools
      <3> QED
        BY <3>3, <3>4
    <2>6. CASE TestPassed(r)
      <3>1. r \notin spent /\ run[r].iterations + 0 <= MaxIterations
        BY <1>0, <2>0, <2>6 DEF TestPassed, RunInv, Tests, Before
      <3>2. CASE At(r, "targeted")
        <4>1. Call(r, "broader", 0, {"targeted"}) /\ UNCHANGED <<left, changed, shared, spent>>
          BY <2>6, <3>2 DEF TestPassed
        <4> QED
          BY <1>0, <2>1, <3>1, <4>1, CallKeeps DEF Tools, Tests
      <3>3. CASE ~At(r, "targeted")
        <4>1. /\ End(r, "completed") /\ passed' = [passed EXCEPT ![r] = @ \cup {"broader"}]
              /\ UNCHANGED <<calls, made, left, changed, shared, spent>>
              /\ At(r, "broader")
          BY <2>6, <3>3 DEF TestPassed, At, Tests
        <4>2. passed'[r] = Tests /\ passed' \in [Runs -> SUBSET Tests]
          BY <1>0, <2>0, <4>1 DEF RunInv, Tests
        <4>3. \A s \in Runs \ {r} : passed'[s] = passed[s]
          BY <1>0, <4>1
        <4> QED
          BY <1>0, <2>0, <2>1, <3>1, <4>1, <4>2, <4>3, EndKeeps
      <3> QED
        BY <3>2, <3>3
    <2>7. ASSUME r \notin spent, AfterAnalysis(r), UNCHANGED <<left, changed, shared, spent>>
          PROVE  AgentInv'
      <3>1. CASE run[r].iterations >= MaxIterations
        BY <1>0, <2>0, <2>1, <2>7, <3>1, EndKeeps DEF AfterAnalysis
      <3>2. CASE ~(run[r].iterations >= MaxIterations)
        <4>1. /\ Call(r, "correct", 0, {})
              /\ run[r].iterations + 0 <= MaxIterations /\ run[r].iterations + 0 < MaxIterations
          BY <1>0, <2>0, <2>7, <3>2 DEF AfterAnalysis
        <4> QED
          BY <1>0, <2>1, <2>7, <4>1, CallKeeps DEF Tools
      <3> QED
        BY <3>1, <3>2
    <2>8. CASE TestFailed(r)
      <3>1. r \notin spent /\ run[r].iterations + 0 <= MaxIterations
        BY <1>0, <2>0, <2>8 DEF TestFailed, RunInv, Tests, Before
      <3>2. CASE HasAnalyzer
        <4>1. Call(r, "analyze", 0, passed[r]) /\ UNCHANGED <<left, changed, shared, spent>>
          BY <2>8, <3>2 DEF TestFailed
        <4> QED
          BY <1>0, <2>1, <3>1, <4>1, CallKeeps
      <3>3. CASE ~HasAnalyzer
        BY <2>7, <2>8, <3>1, <3>3 DEF TestFailed
      <3> QED
        BY <3>2, <3>3
    <2>9. CASE Analyzed(r)
      BY <2>0, <2>7, <2>9 DEF Analyzed, At, RunInv, Before
    <2>10. CASE Corrected(r)
      <3>1. /\ Call(r, "implement", 1, {}) /\ UNCHANGED <<left, changed, shared, spent>>
            /\ At(r, "correct")
        BY <2>10 DEF Corrected
      <3>2. run[r].iterations + 1 <= MaxIterations
        BY <1>0, <2>0, <3>1 DEF RunInv
      <3> QED
        BY <1>0, <2>1, <3>1, <3>2, CallKeeps DEF Tools
    <2> QED
      BY <1>4, <2>2, <2>3, <2>4, <2>5, <2>6, <2>8, <2>9, <2>10 DEF Answered
  <1>5. CASE UNCHANGED agentVars
    BY <1>5 DEF agentVars, AgentInv, AgentTypeOK, RunInv, At
  <1> QED
    BY <1>1, <1>2, <1>3, <1>4, <1>5 DEF AgentNext

LEMMA AgentStarts == AgentAssumption /\ AgentInit => AgentInv
  BY DEF AgentInit, AgentInv, AgentTypeOK, AgentAssumption, RunInv, At, Before, Place, Outcome

\* What the limits bound and what "completed" means follow for runs of an agent that are
\* made by anybody.
LEMMA AgentInvMeans ==
  ASSUME AgentAssumption, AgentInv
  PROVE  LimitsOutliveRuns /\ CompletedIsTested
  <1>1. ASSUME NEW r \in Runs \ shared PROVE made[r] <= MaxCalls
    BY DEF AgentInv, AgentTypeOK, AgentAssumption, RunInv, At
  <1>2. \A r \in spent : run[r].outcome # "completed"
    BY DEF AgentInv, AgentTypeOK, RunInv
  <1> QED
    BY <1>1, <1>2 DEF LimitsOutliveRuns, CompletedIsTested, AgentInv, RunInv

-----------------------------------------------------------------------------
\* The verification engine

VerifyStep ==
  \/ Verify \/ CauseAnswered \/ CorrectionAnswered \/ VerifyRaised
  \/ \E ok \in BOOLEAN : BaselineAnswered(ok) \/ StageAnswered(ok) \/ ValidationAnswered(ok)

\* Of a pass without a failure, the stages before the current one have passed.
VerifyInv ==
  /\ VerifyTypeOK
  /\ step = "stages" /\ clean => 1 .. stage - 1 \subseteq proven
  /\ step # "over" => verdict = "none"
  /\ VerifiedAfterCorrection

LEMMA VerifyStarts == VerificationAssumption /\ VerifyInit => VerifyInv
  BY DEF VerifyInit, VerifyInv, VerifyTypeOK, VerificationAssumption, Step, Verdict,
         VerifiedAfterCorrection

LEMMA VerifyStepKeeps ==
  ASSUME VerificationAssumption, VerifyInv, [VerifyStep]_verifyVars
  PROVE  VerifyInv'
  <1>0. /\ NumStages \in Nat /\ NumStages > 0 /\ MaxCorrections \in Nat
        /\ stage \in 1 .. NumStages /\ attempts \in 0 .. MaxCorrections
        /\ proven \subseteq 1 .. NumStages /\ clean \in BOOLEAN
        /\ step \in Step /\ verdict \in Verdict
    BY DEF VerificationAssumption, VerifyInv, VerifyTypeOK
  <1>1. ASSUME step # "over", BeginPass, UNCHANGED <<attempts, proven>>
        PROVE  VerifyInv'
    <2>1. /\ stage' = 1 /\ 1 \in 1 .. NumStages /\ 1 .. stage' - 1 = {}
          /\ step' = "stages" /\ "stages" \in Step /\ clean' = TRUE /\ verdict' = "none"
      BY <1>0, <1>1 DEF BeginPass, Step, VerifyInv
    <2> QED
      BY <1>0, <1>1, <2>1 DEF VerifyInv, VerifyTypeOK, VerifiedAfterCorrection
  <1>2. ASSUME NEW result \in {"escalated", "raised"}, step # "over", Finish(result),
                UNCHANGED <<stage, clean, attempts, proven>>
         PROVE  VerifyInv'
    BY <1>0, <1>2
    DEF Finish, VerifyInv, VerifyTypeOK, Step, Verdict, VerifiedAfterCorrection
  <1>3. CASE Verify
    <2>1. CASE HasRegression
      BY <1>0, <1>3, <2>1 DEF Verify, VerifyInv, VerifyTypeOK, Step, VerifiedAfterCorrection
    <2>2. CASE ~HasRegression
      BY <1>3, <1>1, <2>2 DEF Verify
    <2> QED
      BY <2>1, <2>2
  <1>4. CASE CauseAnswered
    BY <1>0, <1>4 DEF CauseAnswered, VerifyInv, VerifyTypeOK, Step, VerifiedAfterCorrection
  <1>5. CASE CorrectionAnswered
    BY <1>0, <1>5 DEF CorrectionAnswered, VerifyInv, VerifyTypeOK, Step, VerifiedAfterCorrection
  <1>6. CASE VerifyRaised
    BY <1>6, <1>2 DEF VerifyRaised
  <1>7. ASSUME NEW ok \in BOOLEAN, BaselineAnswered(ok) PROVE VerifyInv'
    <2>1. CASE ok
      BY <1>7, <1>1, <2>1 DEF BaselineAnswered
    <2>2. CASE ~ok
      BY <1>7, <1>2, <2>2 DEF BaselineAnswered
    <2> QED
      BY <2>1, <2>2
  <1>8. ASSUME NEW ok \in BOOLEAN, ValidationAnswered(ok) PROVE VerifyInv'
    <2>1. CASE ok
      BY <1>8, <1>1, <2>1 DEF ValidationAnswered
    <2>2. CASE ~ok
      BY <1>8, <1>2, <2>2 DEF ValidationAnswered
    <2> QED
      BY <2>1, <2>2
  <1>9. ASSUME NEW ok \in BOOLEAN, StageAnswered(ok) PROVE VerifyInv'
    <2>1. /\ step = "stages" /\ proven' = (IF ok THEN proven \cup {stage} ELSE proven \ {stage})
          /\ verdict = "none" /\ proven' \subseteq 1 .. NumStages
      BY <1>0, <1>9 DEF StageAnswered, VerifyInv
    <2>2. clean /\ ok => 1 .. stage \subseteq proven'
      BY <1>0, <2>1 DEF VerifyInv
    <2>3. CASE stage < NumStages
      <3>1. /\ stage' = stage + 1 /\ clean' = (clean /\ ok)
            /\ UNCHANGED <<step, verdict, attempts>>
        BY <1>9, <2>3 DEF StageAnswered
      <3>2. stage' \in 1 .. NumStages /\ stage' - 1 = stage
        BY <1>0, <2>3, <3>1
      <3> QED
        BY <1>0, <2>1, <2>2, <3>1, <3>2 DEF VerifyInv, VerifyTypeOK, VerifiedAfterCorrection
    <2>4. CASE ~(stage < NumStages)
      <3>1. stage = NumStages /\ UNCHANGED <<stage, clean>>
        BY <1>0, <1>9, <2>4 DEF StageAnswered
      <3>2. \/ /\ clean /\ ok /\ step' = "over" /\ verdict' = "verified"
               /\ UNCHANGED attempts
            \/ /\ step' = "over" /\ verdict' = "escalated" /\ UNCHANGED attempts
            \/ /\ step' = "analyze" /\ attempts < MaxCorrections /\ attempts' = attempts + 1
               /\ UNCHANGED verdict
        BY <1>9, <2>4 DEF StageAnswered, Finish
      <3>3. clean /\ ok => proven' = 1 .. NumStages
        BY <2>1, <2>2, <3>1
      <3>4. VerifyTypeOK'
        BY <1>0, <2>1, <3>1, <3>2 DEF VerifyTypeOK, Step, Verdict
      <3> QED
        BY <2>1, <3>2, <3>3, <3>4 DEF VerifyInv, VerifiedAfterCorrection
    <2> QED
      BY <2>3, <2>4
  <1>10. CASE UNCHANGED verifyVars
    BY <1>10 DEF verifyVars, VerifyInv, VerifyTypeOK, VerifiedAfterCorrection
  <1> QED
    BY <1>3, <1>4, <1>5, <1>6, <1>7, <1>8, <1>9, <1>10 DEF VerifyStep

-----------------------------------------------------------------------------
\* Delivery

\* Each step of the delivery is a step of the agent or none, and one of the engine or
\* none: the correction runner calls the agent as any other caller does.
LEMMA DeliveryStepIsBoth ==
  ASSUME DeliveryAssumption, VerificationAssumption, VerifyTypeOK, [DeliveryNext]_deliveryVars
  PROVE  [AgentNext]_agentVars /\ [VerifyStep]_verifyVars
  <1>1. attempts \in Runs
    BY DEF DeliveryAssumption, VerifyTypeOK
  <1>2. CASE Begin
    BY <1>2 DEF Begin, VerifyStep
  <1>3. CASE Judged
    BY <1>3 DEF Judged, VerifyStep
  <1>4. CASE BeginCorrection
    BY <1>1, <1>4 DEF BeginCorrection, VerifyStep, AgentNext
  <1>5. CASE EndCorrection
    BY <1>5 DEF EndCorrection, VerifyStep
  <1>6. CASE Broken
    BY <1>6 DEF Broken, VerifyStep
  <1>7. CASE Other
    <2>1. 0 \in Runs
      BY DEF DeliveryAssumption, VerificationAssumption
    <2> QED
      BY <1>7, <2>1 DEF Other, AgentNext
  <1>8. CASE Time
    BY <1>8 DEF Time, AgentNext
  <1>9. ASSUME NEW r \in Runs, Agent(r)
        PROVE  [AgentNext]_agentVars /\ [VerifyStep]_verifyVars
    BY <1>9 DEF Agent, AgentNext
  <1>10. CASE UNCHANGED deliveryVars
    BY <1>10 DEF deliveryVars
  <1> QED
    BY <1>2, <1>3, <1>4, <1>5, <1>6, <1>7, <1>8, <1>9, <1>10 DEF DeliveryNext

LEMMA DeliveryInductive == DeliverySpec => [](AgentInv /\ VerifyInv)
  <1> USE AgentAssumption, VerificationAssumption, DeliveryAssumption
  <1>1. DeliveryInit => AgentInv /\ VerifyInv
    BY AgentStarts, VerifyStarts DEF DeliveryInit
  <1>2. AgentInv /\ VerifyInv /\ [DeliveryNext]_deliveryVars => AgentInv' /\ VerifyInv'
    BY DeliveryStepIsBoth, AgentStepKeeps, VerifyStepKeeps DEF VerifyInv
  <1> QED
    BY <1>1, <1>2, PTL DEF DeliverySpec

\* In a delivery every call and every field keeps its type.
THEOREM DeliveryTypesHold == DeliverySpec => []DeliveryTypeOK
  BY DeliveryInductive, PTL DEF AgentInv, VerifyInv, DeliveryTypeOK

\* Work is "verified" only when every stage passed after the last correction began, and
\* a run of the agent "completed" only when both its test stages passed after its last
\* change: however many stages, corrections, iterations and callers there are.
THEOREM DeliveredIsAlwaysTested == DeliverySpec => []DeliveredIsTested
  <1>1. AgentInv /\ VerifyInv => DeliveredIsTested
    BY AgentAssumption, AgentInvMeans DEF VerifyInv, DeliveredIsTested
  <1> QED
    BY <1>1, DeliveryInductive, PTL

\* Although the runs of an agent share its counter and its tracker, a run that no other
\* one interrupts stays within max_tool_calls, and none completes once too many files
\* have been changed: whoever calls the agent.
THEOREM LimitsAlwaysOutliveRuns == DeliverySpec => []LimitsOutliveRuns
  <1>1. AgentInv /\ VerifyInv => LimitsOutliveRuns
    BY AgentAssumption, AgentInvMeans
  <1> QED
    BY <1>1, DeliveryInductive, PTL

\* The composition uses the agent as its own specification allows: the agent cannot
\* tell the correction runner from another caller.
THEOREM DeliveryRunsTheAgent == DeliverySpec => AgentSpec
  <1>1. DeliveryInit => AgentInit
    BY DEF DeliveryInit
  <1>2. VerifyInv /\ [DeliveryNext]_deliveryVars => [AgentNext]_agentVars
    BY DeliveryAssumption, VerificationAssumption, DeliveryStepIsBoth DEF VerifyInv
  <1> QED
    BY <1>1, <1>2, DeliveryInductive, PTL DEF DeliverySpec, AgentSpec

-----------------------------------------------------------------------------
\* Calls of a model through an adapter

AttemptStatus == ReplyStatus \cup {"timed_out", "unusable", "cut"}

ModelTypeOK ==
  /\ ask \in [Prompts -> Ask]
  /\ seen \in [Prompts -> Seq(AttemptStatus)]
  /\ delivered \in [Prompts -> Seq(Nat)]
  /\ traced \in [Prompts -> Nat]

\* What an attempt may come to for the call to be tried again.
Repeatable(a, status) ==
  \/ status \in {"limited", "unavailable", "no_reply"}
  \/ status = "timed_out" /\ a.kind = "generation"

\* The attempts of a call and what they came to: one for each that is over, all but
\* the last of which could be repeated, and the last of a call that gave up could not.
AttemptsFit(a, statuses) ==
  /\ a.stage = "new" => a.attempts = 0 /\ Len(statuses) = 0
  /\ a.stage \in {"calling", "yielded"} => Len(statuses) + 1 = a.attempts
  /\ a.stage = "backing_off" => Len(statuses) = a.attempts /\ a.attempts < MaxAttempts
  /\ a.stage \in {"ended", "raised"} => Len(statuses) = a.attempts /\ a.attempts > 0
  /\ a.stage = "cancelled" => Len(statuses) <= a.attempts
  /\ \A n \in 1 .. Len(statuses) :
       n < a.attempts \/ a.stage = "backing_off" => Repeatable(a, statuses[n])
  /\ a.stage = "raised" /\ a.attempts < MaxAttempts =>
       ~Repeatable(a, statuses[Len(statuses)])

Ones(chunks) == {n \in 1 .. Len(chunks) : chunks[n] = 1}

\* The consumer's last chunks are those of the current attempt, from the beginning, and
\* each earlier attempt began at most once.
ChunksFit(a, chunks) ==
  /\ a.stage = "new" => a.next = 1 /\ Len(chunks) = 0
  /\ a.stage # "new" =>
       /\ a.next - 1 <= Len(chunks)
       /\ \A n \in 1 .. a.next - 1 : chunks[Len(chunks) - (a.next - 1) + n] = n
       /\ IF a.next = 1 THEN Cardinality(Ones(chunks)) < a.attempts
          ELSE Cardinality(Ones(chunks)) <= a.attempts

\* Only a call that ended has a trace, a stream after the whole of its body.
TraceFits(a, statuses, trace) ==
  trace > 0 =>
    /\ a.stage = "ended" /\ trace = a.attempts
    /\ a.kind = "stream" => a.next > Chunks \/ statuses[Len(statuses)] = "cut"

CallFits(a, statuses, chunks, trace) ==
  AttemptsFit(a, statuses) /\ ChunksFit(a, chunks) /\ TraceFits(a, statuses, trace)

ModelInv ==
  /\ ModelTypeOK
  /\ \A p \in Prompts : CallFits(ask[p], seen[p], delivered[p], traced[p])

\* What a call is made of.
LEMMA AskHas ==
  ASSUME NEW x \in Ask
  PROVE  /\ x.stage \in Stage /\ x.kind \in Kind /\ x.timed \in BOOLEAN
         /\ x.attempts \in Nat /\ x.attempts <= MaxAttempts /\ MaxAttempts \in Nat
         /\ x.next \in Nat \ {0} /\ x.next <= Chunks + 1 /\ Chunks \in Nat
         /\ x.tokens \in 0 .. MaxTokens
  BY ModelAssumption DEF Ask

\* How often the output begins.
LEMMA OnesFinite ==
  ASSUME NEW chunks \in Seq(Nat)
  PROVE IsFiniteSet(Ones(chunks)) /\ Cardinality(Ones(chunks)) \in Nat
  <1>1. IsFiniteSet(1 .. Len(chunks))
    BY FS_Interval
  <1>2. Ones(chunks) \subseteq 1 .. Len(chunks)
    BY DEF Ones
  <1>3. IsFiniteSet(Ones(chunks))
    BY <1>1, <1>2, FS_Subset
  <1> QED
    BY <1>3, FS_CardinalityType

\* A chunk that is the first counts for one more beginning.
LEMMA OnesAdded ==
  ASSUME NEW chunks \in Seq(Nat), NEW n \in Nat
  PROVE /\ n = 1 => Cardinality(Ones(Append(chunks, n))) = Cardinality(Ones(chunks)) + 1
        /\ n # 1 => Ones(Append(chunks, n)) = Ones(chunks)
  <1>1. IsFiniteSet(Ones(chunks)) /\ Cardinality(Ones(chunks)) \in Nat
    BY OnesFinite
  <1>0. Len(chunks) \in Nat /\ Len(Append(chunks, n)) = Len(chunks) + 1
        /\ Append(chunks, n)[Len(chunks) + 1] = n
        /\ \A k \in 1 .. Len(chunks) : Append(chunks, n)[k] = chunks[k]
    OBVIOUS
  <1>2. Len(chunks) + 1 \notin Ones(chunks)
    BY <1>0 DEF Ones
  <1> DEFINE more == Append(chunks, n)
  <1> HIDE DEF more
  <1>3. ASSUME NEW k PROVE k \in Ones(more) <=> k \in Ones(chunks) \/ (k = Len(chunks) + 1 /\ n = 1)
    BY <1>0 DEF Ones, more
  <1>4. n = 1 => Ones(more) = Ones(chunks) \cup {Len(chunks) + 1}
    BY <1>3
  <1>5. n # 1 => Ones(more) = Ones(chunks)
    BY <1>3
  <1>6. Cardinality(Ones(chunks) \cup {Len(chunks) + 1}) = Cardinality(Ones(chunks)) + 1
    BY <1>1, <1>2, FS_AddElement
  <1> QED
    BY <1>4, <1>5, <1>6 DEF more

\* A step of one call.
PromptBecomes(p, a, statuses, chunks, trace) ==
  /\ a \in Ask /\ statuses \in Seq(AttemptStatus) /\ chunks \in Seq(Nat) /\ trace \in Nat
  /\ ask' = [ask EXCEPT ![p] = a] /\ seen' = [seen EXCEPT ![p] = statuses]
  /\ delivered' = [delivered EXCEPT ![p] = chunks] /\ traced' = [traced EXCEPT ![p] = trace]
  /\ CallFits(a, statuses, chunks, trace)

LEMMA PromptKeeps ==
  ASSUME ModelInv, NEW p \in Prompts, NEW a, NEW statuses, NEW chunks, NEW trace,
         PromptBecomes(p, a, statuses, chunks, trace)
  PROVE  ModelInv'
  <1> USE DEF PromptBecomes
  <1>1. ModelTypeOK'
    BY DEF ModelInv, ModelTypeOK
  <1>2. \A q \in Prompts : CallFits(ask'[q], seen'[q], delivered'[q], traced'[q])
    <2> TAKE q \in Prompts
    <2>1. CASE q = p
      BY <2>1 DEF ModelInv, ModelTypeOK
    <2>2. CASE q # p
      <3>1. /\ ask'[q] = ask[q] /\ seen'[q] = seen[q]
            /\ delivered'[q] = delivered[q] /\ traced'[q] = traced[q]
        BY <2>2 DEF ModelInv, ModelTypeOK
      <3> QED
        BY <3>1 DEF ModelInv
    <2> QED
      BY <2>1, <2>2
  <1> QED
    BY <1>1, <1>2 DEF ModelInv, CallFits, AttemptsFit, ChunksFit, TraceFits, Repeatable, Ones

\* What an attempt came to is one more status.
LEMMA StatusAdded ==
  ASSUME NEW statuses \in Seq(AttemptStatus), NEW status \in AttemptStatus
  PROVE  /\ Append(statuses, status) \in Seq(AttemptStatus)
         /\ Len(Append(statuses, status)) = Len(statuses) + 1 /\ Len(statuses) \in Nat
         /\ Append(statuses, status)[Len(statuses) + 1] = status
         /\ \A n \in 1 .. Len(statuses) : Append(statuses, status)[n] = statuses[n]
  OBVIOUS

\* An attempt that failed, with a status that may be repeated or not.
LEMMA FailureKeeps ==
  ASSUME ModelInv, NEW p \in Prompts, NEW status \in AttemptStatus,
         ask[p].stage = "calling",
         NEW place \in {"backing_off", "raised"},
         place = (IF Repeatable(ask[p], status) THEN Later(p) ELSE "raised"),
         ask' = [ask EXCEPT ![p].stage = place],
         seen' = [seen EXCEPT ![p] = Append(@, status)],
         delivered' = delivered, traced' = traced
  PROVE  ModelInv'
  <1> USE ModelAssumption
  <1> DEFINE a == [ask[p] EXCEPT !.stage = place]
             statuses == Append(seen[p], status)
  <1>1. /\ ask[p] \in Ask /\ seen[p] \in Seq(AttemptStatus)
        /\ delivered[p] \in Seq(Nat) /\ traced[p] \in Nat
        /\ CallFits(ask[p], seen[p], delivered[p], traced[p])
    BY DEF ModelInv, ModelTypeOK
  <1>2. /\ a \in Ask /\ a.stage = place /\ a.attempts = ask[p].attempts
        /\ a.next = ask[p].next /\ a.kind = ask[p].kind
        /\ a.attempts \in Nat /\ MaxAttempts \in Nat
    <2>1. place \in Stage
      BY DEF Stage
    <2>2. a \in Ask
      BY <1>1, <2>1 DEF Ask
    <2>3. /\ a.stage = place /\ a.attempts = ask[p].attempts
          /\ a.next = ask[p].next /\ a.kind = ask[p].kind
      BY <1>1 DEF Ask
    <2> QED
      BY <2>2, <2>3, AskHas
  <1>3. /\ statuses \in Seq(AttemptStatus) /\ Len(seen[p]) \in Nat
        /\ Len(statuses) = Len(seen[p]) + 1 /\ statuses[Len(seen[p]) + 1] = status
        /\ \A n \in 1 .. Len(seen[p]) : statuses[n] = seen[p][n]
    BY <1>1, StatusAdded
  <1>4. \A s : Repeatable(a, s) <=> Repeatable(ask[p], s)
    BY <1>2 DEF Repeatable
  <1>5. AttemptsFit(a, statuses)
    <2>1. /\ Len(statuses) = a.attempts /\ a.attempts > 0
          /\ \A n \in 1 .. Len(seen[p]) : Repeatable(ask[p], seen[p][n])
      BY <1>1, <1>2, <1>3 DEF CallFits, AttemptsFit
    <2>2. place = "backing_off" => Repeatable(ask[p], status) /\ a.attempts < MaxAttempts
      BY <1>2 DEF Later
    <2>3. place = "raised" /\ a.attempts < MaxAttempts => ~Repeatable(ask[p], status)
      BY <1>2 DEF Later
    <2> HIDE DEF a, statuses
    <2>4. \A n \in 1 .. Len(statuses) :
            n < a.attempts \/ a.stage = "backing_off" => Repeatable(a, statuses[n])
      <3> TAKE n \in 1 .. Len(statuses)
      <3>1. CASE n \in 1 .. Len(seen[p])
        BY <1>3, <1>4, <2>1, <3>1
      <3>2. CASE n = Len(seen[p]) + 1
        BY <1>2, <1>3, <1>4, <2>1, <2>2, <3>2
      <3> QED
        BY <1>3, <3>1, <3>2
    <2> QED
      BY <1>2, <1>3, <1>4, <2>1, <2>2, <2>3, <2>4 DEF AttemptsFit
  <1>6. ChunksFit(a, delivered[p])
    BY <1>1, <1>2 DEF CallFits, ChunksFit
  <1>7. TraceFits(a, statuses, traced[p])
    BY <1>1 DEF CallFits, TraceFits
  <1>8. CallFits(a, statuses, delivered[p], traced[p])
    BY <1>5, <1>6, <1>7 DEF CallFits
  <1>9. /\ ask' = [ask EXCEPT ![p] = a] /\ seen' = [seen EXCEPT ![p] = statuses]
        /\ delivered' = [delivered EXCEPT ![p] = delivered[p]]
        /\ traced' = [traced EXCEPT ![p] = traced[p]]
    BY DEF ModelInv, ModelTypeOK
  <1> HIDE DEF a, statuses
  <1> QED
    <2>1. PromptBecomes(p, a, statuses, delivered[p], traced[p])
      BY <1>1, <1>2, <1>3, <1>8, <1>9 DEF PromptBecomes
    <2> QED
      BY <2>1, PromptKeeps

\* An attempt that ended the call, which gets its trace.
LEMMA EndKeepsModel ==
  ASSUME ModelInv, NEW p \in Prompts, NEW status \in AttemptStatus,
         ask[p].stage = "calling", NEW tokens \in 0 .. MaxTokens,
         ask[p].kind = "stream" => ask[p].next > Chunks \/ status = "cut",
         ask' = [ask EXCEPT ![p] = [@ EXCEPT !.stage = "ended", !.tokens = tokens]],
         seen' = [seen EXCEPT ![p] = Append(@, status)],
         delivered' = delivered, Trace(p)
  PROVE  ModelInv'
  <1> USE ModelAssumption
  <1> DEFINE a == [ask[p] EXCEPT !.stage = "ended", !.tokens = tokens]
             statuses == Append(seen[p], status)
  <1>1. /\ ask[p] \in Ask /\ seen[p] \in Seq(AttemptStatus)
        /\ delivered[p] \in Seq(Nat) /\ traced[p] \in Nat
        /\ CallFits(ask[p], seen[p], delivered[p], traced[p])
    BY DEF ModelInv, ModelTypeOK
  <1>2. /\ a \in Ask /\ a.stage = "ended" /\ a.attempts = ask[p].attempts
        /\ a.next = ask[p].next /\ a.kind = ask[p].kind
        /\ a.attempts \in Nat
    <2>1. "ended" \in Stage
      BY DEF Stage
    <2>2. a \in Ask
      BY <1>1, <2>1 DEF Ask
    <2>3. /\ a.stage = "ended" /\ a.attempts = ask[p].attempts
          /\ a.next = ask[p].next /\ a.kind = ask[p].kind
      BY <1>1 DEF Ask
    <2> QED
      BY <2>2, <2>3, AskHas
  <1>3. /\ statuses \in Seq(AttemptStatus) /\ Len(seen[p]) \in Nat
        /\ Len(statuses) = Len(seen[p]) + 1 /\ statuses[Len(seen[p]) + 1] = status
        /\ \A n \in 1 .. Len(seen[p]) : statuses[n] = seen[p][n]
    BY <1>1, StatusAdded
  <1>4. \A s : Repeatable(a, s) <=> Repeatable(ask[p], s)
    BY <1>2 DEF Repeatable
  <1>5. AttemptsFit(a, statuses)
    <2>1. /\ Len(statuses) = a.attempts /\ a.attempts > 0
          /\ \A n \in 1 .. Len(seen[p]) : Repeatable(ask[p], seen[p][n])
      BY <1>1, <1>2, <1>3 DEF CallFits, AttemptsFit
    <2> HIDE DEF a, statuses
    <2>2. \A n \in 1 .. Len(statuses) :
            n < a.attempts \/ a.stage = "backing_off" => Repeatable(a, statuses[n])
      <3> TAKE n \in 1 .. Len(statuses)
      <3>1. CASE n \in 1 .. Len(seen[p])
        BY <1>3, <1>4, <2>1, <3>1
      <3>2. CASE n = Len(seen[p]) + 1
        BY <1>2, <1>3, <2>1, <3>2
      <3> QED
        BY <1>3, <3>1, <3>2
    <2> QED
      BY <1>2, <2>1, <2>2 DEF AttemptsFit
  <1>6. ChunksFit(a, delivered[p])
    BY <1>1, <1>2 DEF CallFits, ChunksFit
  <1>7. TraceFits(a, statuses, a.attempts)
    BY <1>2, <1>3 DEF TraceFits
  <1>8. CallFits(a, statuses, delivered[p], a.attempts)
    BY <1>5, <1>6, <1>7 DEF CallFits
  <1>9. /\ ask' = [ask EXCEPT ![p] = a] /\ seen' = [seen EXCEPT ![p] = statuses]
        /\ delivered' = [delivered EXCEPT ![p] = delivered[p]]
        /\ traced' = [traced EXCEPT ![p] = a.attempts]
    BY <1>2 DEF ModelInv, ModelTypeOK, Trace
  <1> HIDE DEF a, statuses
  <1> QED
    <2>1. PromptBecomes(p, a, statuses, delivered[p], a.attempts)
      BY <1>1, <1>2, <1>3, <1>8, <1>9 DEF PromptBecomes
    <2> QED
      BY <2>1, PromptKeeps

\* A step of a call in which no attempt ends and no chunk is delivered.
LEMMA QuietKeeps ==
  ASSUME ModelInv, NEW p \in Prompts, NEW a \in Ask,
         ask' = [ask EXCEPT ![p] = a], UNCHANGED <<seen, delivered, traced>>,
         AttemptsFit(a, seen[p]), ChunksFit(a, delivered[p]),
         ask[p].stage # "ended"
  PROVE  ModelInv'
  <1>1. /\ seen[p] \in Seq(AttemptStatus) /\ delivered[p] \in Seq(Nat) /\ traced[p] \in Nat
        /\ CallFits(ask[p], seen[p], delivered[p], traced[p])
    BY DEF ModelInv, ModelTypeOK
  <1>2. TraceFits(a, seen[p], traced[p])
    BY <1>1 DEF CallFits, TraceFits
  <1>3. /\ seen' = [seen EXCEPT ![p] = seen[p]]
        /\ delivered' = [delivered EXCEPT ![p] = delivered[p]]
        /\ traced' = [traced EXCEPT ![p] = traced[p]]
    BY DEF ModelInv, ModelTypeOK
  <1>4. PromptBecomes(p, a, seen[p], delivered[p], traced[p])
    BY <1>1, <1>2, <1>3 DEF PromptBecomes, CallFits
  <1> QED
    BY <1>4, PromptKeeps

\* A chunk is delivered to the consumer of a stream.
LEMMA YieldKeeps ==
  ASSUME ModelInv, NEW p \in Prompts, Yield(p), seen' = seen
  PROVE  ModelInv'
  <1> USE ModelAssumption
  <1> DEFINE n == ask[p].next
             a == [ask[p] EXCEPT !.stage = "yielded", !.next = n + 1]
             chunks == Append(delivered[p], n)
  <1>1. /\ ask[p] \in Ask /\ seen[p] \in Seq(AttemptStatus)
        /\ delivered[p] \in Seq(Nat) /\ traced[p] \in Nat
        /\ CallFits(ask[p], seen[p], delivered[p], traced[p])
        /\ ask[p].stage = "calling" /\ n <= Chunks
    BY DEF ModelInv, ModelTypeOK, Yield, Is
  <1>2. /\ a \in Ask /\ a.stage = "yielded" /\ a.attempts = ask[p].attempts
        /\ a.next = n + 1 /\ a.kind = ask[p].kind /\ n \in Nat \ {0}
        /\ a.attempts \in Nat
    <2>1. "yielded" \in Stage /\ n + 1 \in 1 .. Chunks + 1
      BY <1>1, AskHas DEF Stage
    <2>2. a \in Ask
      BY <1>1, <2>1 DEF Ask
    <2>3. /\ a.stage = "yielded" /\ a.attempts = ask[p].attempts
          /\ a.next = n + 1 /\ a.kind = ask[p].kind
      BY <1>1 DEF Ask
    <2> QED
      BY <1>1, <2>2, <2>3, AskHas
  <1>3. /\ chunks \in Seq(Nat) /\ Len(delivered[p]) \in Nat
        /\ Len(chunks) = Len(delivered[p]) + 1 /\ chunks[Len(delivered[p]) + 1] = n
        /\ \A k \in 1 .. Len(delivered[p]) : chunks[k] = delivered[p][k]
    BY <1>1, <1>2
  <1>4. AttemptsFit(a, seen[p])
    BY <1>1, <1>2 DEF CallFits, AttemptsFit, Repeatable
  <1>5. Cardinality(Ones(delivered[p])) \in Nat
    BY <1>1, OnesFinite
  <1>6. /\ n = 1 => Cardinality(Ones(chunks)) = Cardinality(Ones(delivered[p])) + 1
        /\ n # 1 => Ones(chunks) = Ones(delivered[p])
    BY <1>1, <1>2, OnesAdded
  <1>7. ChunksFit(a, chunks)
    <2>1. /\ n - 1 <= Len(delivered[p])
          /\ \A k \in 1 .. n - 1 : delivered[p][Len(delivered[p]) - (n - 1) + k] = k
          /\ n = 1 => Cardinality(Ones(delivered[p])) < a.attempts
          /\ n # 1 => Cardinality(Ones(delivered[p])) <= a.attempts
      BY <1>1, <1>2 DEF CallFits, ChunksFit
    <2> HIDE DEF n, a, chunks
    <2>2. Cardinality(Ones(chunks)) <= a.attempts
      BY <1>2, <1>5, <1>6, <2>1
    <2>3. \A k \in 1 .. n : chunks[Len(chunks) - n + k] = k
      <3> TAKE k \in 1 .. n
      <3>1. CASE k = n
        BY <1>2, <1>3, <3>1
      <3>2. CASE k \in 1 .. n - 1
        <4>1. Len(chunks) - n + k = Len(delivered[p]) - (n - 1) + k
          BY <1>2, <1>3
        <4>2. Len(delivered[p]) - (n - 1) + k \in 1 .. Len(delivered[p])
          <5>1. n \in Nat /\ n - 1 <= Len(delivered[p]) /\ Len(delivered[p]) \in Nat
            BY <1>2, <1>3, <2>1
          <5> QED
            BY <3>2, <5>1
        <4> QED
          BY <1>3, <2>1, <3>2, <4>1, <4>2
      <3> QED
        BY <1>2, <3>1, <3>2
    <2>4. a.next - 1 = n /\ a.next # 1 /\ n <= Len(chunks)
      BY <1>2, <1>3, <2>1
    <2> QED
      BY <1>2, <2>2, <2>3, <2>4 DEF ChunksFit
  <1>8. TraceFits(a, seen[p], traced[p])
    BY <1>1 DEF CallFits, TraceFits
  <1>9. /\ ask' = [ask EXCEPT ![p] = a] /\ seen' = [seen EXCEPT ![p] = seen[p]]
        /\ delivered' = [delivered EXCEPT ![p] = chunks]
        /\ traced' = [traced EXCEPT ![p] = traced[p]]
    BY DEF ModelInv, ModelTypeOK, Yield
  <1>10. CallFits(a, seen[p], chunks, traced[p])
    BY <1>4, <1>7, <1>8 DEF CallFits
  <1> HIDE DEF a, chunks, n
  <1> QED
    <2>1. PromptBecomes(p, a, seen[p], chunks, traced[p])
      BY <1>1, <1>2, <1>3, <1>9, <1>10 DEF PromptBecomes
    <2> QED
      BY <2>1, PromptKeeps

LEMMA ModelInductive == ProviderSpec => []ModelInv
  <1> USE ModelAssumption
  <1>1. ProviderInit => ModelInv
    <2> SUFFICES ASSUME ProviderInit PROVE ModelInv
      OBVIOUS
    <2>1. ModelTypeOK
      BY DEF ProviderInit, ModelInit, ModelTypeOK, Ask, Stage, Kind
    <2>2. \A p \in Prompts : CallFits(ask[p], seen[p], delivered[p], traced[p])
      BY DEF ProviderInit, ModelInit, CallFits, AttemptsFit, ChunksFit, TraceFits
    <2> QED
      BY <2>1, <2>2 DEF ModelInv
  <1>2. ModelInv /\ [ProviderNext]_providerVars => ModelInv'
    <2> SUFFICES ASSUME ModelInv, [ProviderNext]_providerVars PROVE ModelInv'
      OBVIOUS
    <2>0. \A p \in Prompts :
            /\ ask[p] \in Ask /\ seen[p] \in Seq(AttemptStatus) /\ delivered[p] \in Seq(Nat)
            /\ CallFits(ask[p], seen[p], delivered[p], traced[p])
      BY DEF ModelInv, ModelTypeOK
    <2>1. ASSUME NEW p \in Prompts, BeginCall(p) PROVE ModelInv'
      <3> PICK kind \in Kind, timed \in BOOLEAN : Generate(p)!(kind, timed)
        BY <2>1 DEF BeginCall, Generate
      <3> DEFINE a == [ask[p] EXCEPT !.stage = "calling", !.kind = kind, !.timed = timed,
                                     !.attempts = 1]
      <3>1. /\ a \in Ask /\ a.stage = "calling" /\ a.kind = kind /\ a.attempts = 1
            /\ a.next = ask[p].next
        <4>1. "calling" \in Stage /\ 1 \in 0 .. MaxAttempts
          BY DEF Stage
        <4>2. a \in Ask
          BY <2>0, <4>1 DEF Ask
        <4> QED
          BY <2>0, <4>2 DEF Ask
      <3>2. ask' = [ask EXCEPT ![p] = a] /\ ask[p].stage = "new"
        BY DEF ModelInv, ModelTypeOK
      <3>3. /\ ask[p].next = 1 /\ Len(delivered[p]) = 0 /\ Len(seen[p]) = 0
        BY <2>0, <3>2 DEF CallFits, AttemptsFit, ChunksFit
      <3>4. Ones(delivered[p]) = {} /\ Cardinality(Ones(delivered[p])) = 0
        BY <3>3, FS_EmptySet DEF Ones
      <3> HIDE DEF a
      <3>5. AttemptsFit(a, seen[p]) /\ ChunksFit(a, delivered[p])
        BY <3>1, <3>3, <3>4 DEF AttemptsFit, ChunksFit
      <3> QED
        BY <2>1, <3>1, <3>2, <3>5, QuietKeeps DEF BeginCall, Generate
    <2>2. ASSUME NEW p \in Prompts, NEW status \in AttemptStatus,
                 ask[p].stage = "calling", Saw(p, status), UNCHANGED <<delivered, traced>>,
                 Fall(p, IF Repeatable(ask[p], status) THEN Later(p) ELSE "raised")
          PROVE  ModelInv'
      <3>1. Later(p) \in {"backing_off", "raised"}
        BY DEF Later
      <3> QED
        BY <2>2, <3>1, FailureKeeps DEF Fall, To, Saw
    <2>3. ASSUME NEW p \in Prompts, NEW reply \in Reply, Refused(p, reply), Saw(p, reply.status)
          PROVE  ModelInv'
      <3>1. /\ reply.status \in ReplyStatus /\ reply.status \in AttemptStatus
            /\ reply.status # "timed_out"
        BY DEF Reply, ReplyStatus, AttemptStatus
      <3>2. ask[p].stage = "calling" /\ UNCHANGED <<delivered, traced>>
        BY <2>3 DEF Refused, FailTransiently, GiveUp
      <3>3. Repeatable(ask[p], reply.status) <=> Judgement(reply) = "transient"
        BY <3>1 DEF Repeatable, Judgement
      <3>4. Fall(p, IF Repeatable(ask[p], reply.status) THEN Later(p) ELSE "raised")
        BY <2>3, <3>3 DEF Refused, FailTransiently, GiveUp
      <3> QED
        BY <2>2, <2>3, <3>1, <3>2, <3>4
    <2>4. ASSUME NEW p \in Prompts, Respond(p) PROVE ModelInv'
      <3> PICK reply \in Reply : Respond(p)!(reply)
        BY <2>4 DEF Respond
      <3>1. CASE Refused(p, reply)
        BY <2>3, <3>1
      <3>2. CASE AnsweredBy(p, reply)
        <4> PICK tokens \in 0 .. MaxTokens : Answer(p)!(tokens)
          BY <3>2 DEF AnsweredBy, Answer
        <4>1. reply.status \in AttemptStatus
          BY DEF Reply, AttemptStatus
        <4>2. /\ ask[p].stage = "calling" /\ ask[p].kind = "generation"
              /\ ask' = [ask EXCEPT ![p] = [@ EXCEPT !.stage = "ended", !.tokens = tokens]]
              /\ seen' = [seen EXCEPT ![p] = Append(@, reply.status)]
              /\ delivered' = delivered /\ Trace(p)
          BY DEF Is, Saw
        <4> QED
          BY <4>1, <4>2, EndKeepsModel
      <3> QED
        BY <3>1, <3>2
    <2>5. ASSUME NEW p \in Prompts, RefuseStream(p) PROVE ModelInv'
      BY <2>3, <2>5 DEF RefuseStream
    <2>6. ASSUME NEW p \in Prompts, HttpTimesOut(p) \/ ConnectionBreaks(p) PROVE ModelInv'
      <3>1. "no_reply" \in AttemptStatus /\ Repeatable(ask[p], "no_reply")
        BY DEF AttemptStatus, ReplyStatus, Repeatable
      <3> QED
        BY <2>2, <2>6, <3>1 DEF HttpTimesOut, ConnectionBreaks, FailTransiently
    <2>7. ASSUME NEW p \in Prompts, CallTimesOut(p) PROVE ModelInv'
      <3>1. "timed_out" \in AttemptStatus
            /\ (Repeatable(ask[p], "timed_out") <=> ask[p].kind # "stream")
        BY <2>0 DEF AttemptStatus, Repeatable, Ask, Kind
      <3>2. Fall(p, IF Repeatable(ask[p], "timed_out") THEN Later(p) ELSE "raised")
        BY <2>7, <3>1 DEF CallTimesOut, TimeOut
      <3> QED
        BY <2>2, <2>7, <3>1, <3>2 DEF CallTimesOut, TimeOut
    <2>8. ASSUME NEW p \in Prompts, UnusableLine(p) PROVE ModelInv'
      <3>1. "unusable" \in AttemptStatus /\ ~Repeatable(ask[p], "unusable")
        BY DEF AttemptStatus, Repeatable
      <3> QED
        BY <2>2, <2>8, <3>1 DEF UnusableLine, GiveUp
    <2>9. ASSUME NEW p \in Prompts, NEW status \in AttemptStatus, To(p, "ended"), Trace(p),
                 Saw(p, status), delivered' = delivered, ask[p].stage = "calling",
                 ask[p].next > Chunks \/ status = "cut"
          PROVE  ModelInv'
      <3>1. /\ ask[p].tokens \in 0 .. MaxTokens
            /\ [ask[p] EXCEPT !.stage = "ended"]
                 = [ask[p] EXCEPT !.stage = "ended", !.tokens = ask[p].tokens]
        BY <2>0 DEF Ask
      <3>2. ask' = [ask EXCEPT ![p] = [@ EXCEPT !.stage = "ended", !.tokens = ask[p].tokens]]
        BY <2>9, <3>1 DEF To, ModelInv, ModelTypeOK
      <3> QED
        BY <2>9, <3>1, <3>2, EndKeepsModel DEF Saw
    <2>10. ASSUME NEW p \in Prompts, DoneLine(p) \/ BodyEnds(p) PROVE ModelInv'
      <3>1. "ok" \in AttemptStatus /\ "cut" \in AttemptStatus
        BY DEF AttemptStatus, ReplyStatus
      <3> QED
        BY <2>9, <2>10, <3>1 DEF DoneLine, BodyEnds, Open, EndStream
    <2>11. ASSUME NEW p \in Prompts, ContentLine(p) PROVE ModelInv'
      BY <2>11, YieldKeeps DEF ContentLine
    <2>12. ASSUME NEW p \in Prompts, Cancelled(p) \/ NextLine(p) \/ SendAgain(p) PROVE ModelInv'
      <3> PICK a \in Ask :
            /\ ask' = [ask EXCEPT ![p] = a] /\ a.kind = ask[p].kind
            /\ \/ /\ ask[p].stage \in {"calling", "yielded", "backing_off"}
                  /\ a.stage = "cancelled" /\ a.attempts = ask[p].attempts
                  /\ a.next = ask[p].next
               \/ /\ ask[p].stage = "yielded" /\ a.stage = "calling"
                  /\ a.attempts = ask[p].attempts /\ a.next = ask[p].next
               \/ /\ ask[p].stage = "backing_off" /\ a.stage = "calling"
                  /\ a.attempts = ask[p].attempts + 1 /\ a.next = 1
        <4>1. CASE Cancelled(p)
          <5>1. [ask[p] EXCEPT !.stage = "cancelled"] \in Ask
            BY <2>0 DEF Ask, Stage
          <5> QED
            BY <2>0, <4>1, <5>1 DEF Cancelled, CallCancelled, Fall, To, Ask, ModelInv, ModelTypeOK
        <4>2. CASE NextLine(p)
          <5>1. [ask[p] EXCEPT !.stage = "calling"] \in Ask
            BY <2>0 DEF Ask, Stage
          <5> QED
            BY <2>0, <4>2, <5>1 DEF NextLine, Consume, To, Ask, ModelInv, ModelTypeOK
        <4>3. CASE SendAgain(p)
          <5>1. ask[p].stage = "backing_off" /\ ask[p].attempts < MaxAttempts
            BY <2>0, <4>3 DEF SendAgain, Retry, CallFits, AttemptsFit
          <5>2. [ask[p] EXCEPT !.stage = "calling", !.attempts = @ + 1, !.next = 1] \in Ask
            <6>1. /\ "calling" \in Stage /\ 1 \in 1 .. Chunks + 1
                  /\ ask[p].attempts + 1 \in 0 .. MaxAttempts
              BY <2>0, <5>1, AskHas DEF Stage
            <6> QED
              BY <2>0, <6>1 DEF Ask
          <5> QED
            BY <2>0, <4>3, <5>1, <5>2 DEF SendAgain, Retry, Ask, ModelInv, ModelTypeOK
        <4> QED
          BY <2>12, <4>1, <4>2, <4>3
      <3>1. UNCHANGED <<seen, delivered, traced>>
        BY <2>12 DEF Cancelled, CallCancelled, NextLine, Consume, SendAgain, Retry
      <3>2. /\ a.attempts \in Nat /\ ask[p].attempts \in Nat /\ MaxAttempts \in Nat
            /\ Len(seen[p]) \in Nat /\ Len(delivered[p]) \in Nat
            /\ ask[p].next \in Nat
        BY <2>0 DEF Ask
      <3>3. AttemptsFit(a, seen[p])
        BY <2>0, <3>2 DEF CallFits, AttemptsFit, Repeatable
      <3>4. ChunksFit(a, delivered[p])
        <4>1. Cardinality(Ones(delivered[p])) \in Nat
          BY <2>0, OnesFinite
        <4>2. ask[p].stage # "new" /\ a.stage # "new"
          OBVIOUS
        <4>3. /\ ask[p].next = 1 => Cardinality(Ones(delivered[p])) < ask[p].attempts
              /\ Cardinality(Ones(delivered[p])) <= ask[p].attempts
          BY <2>0, <3>2, <4>1, <4>2 DEF CallFits, ChunksFit
        <4>4. CASE a.next = ask[p].next
          BY <2>0, <3>2, <4>1, <4>2, <4>3, <4>4 DEF CallFits, ChunksFit
        <4>5. CASE a.attempts = ask[p].attempts + 1 /\ a.next = 1
          BY <3>2, <4>1, <4>2, <4>3, <4>5 DEF ChunksFit
        <4> QED
          BY <4>4, <4>5
      <3> QED
        BY <3>1, <3>3, <3>4, QuietKeeps
    <2>13. ASSUME NEW p \in Prompts, OpenStream(p) \/ Silence(p) \/ Trickle(p) PROVE ModelInv'
      BY <2>13 DEF OpenStream, Silence, Trickle, modelVars, ModelInv, ModelTypeOK
    <2>14. CASE UNCHANGED providerVars
      BY <2>14 DEF providerVars, modelVars, ModelInv, ModelTypeOK
    <2> QED
      BY <2>1, <2>4, <2>5, <2>6, <2>7, <2>8, <2>10, <2>11, <2>12, <2>13, <2>14 DEF ProviderNext
  <1> QED
    BY <1>1, <1>2, PTL DEF ProviderSpec

\* However calls overlap, whatever their policy: a request is sent again only after a
\* failure that is transient, and given up early only after one that is not.
THEOREM OnlyTransientsAreRepeated == ProviderSpec => []RepeatsOnlyTransient
  <1> USE ModelAssumption
  <1>1. ModelInv => RepeatsOnlyTransient
    <2> SUFFICES ASSUME ModelInv, NEW p \in Prompts
                 PROVE  /\ \A n \in 1 .. Len(seen[p]) : n < ask[p].attempts =>
                             \/ seen[p][n] \in {"limited", "unavailable", "no_reply"}
                             \/ seen[p][n] = "timed_out" /\ ask[p].kind = "generation"
                        /\ ask[p].stage = "raised" /\ ask[p].attempts < MaxAttempts =>
                             /\ seen[p][Len(seen[p])] \notin {"limited", "unavailable", "no_reply"}
                             /\ seen[p][Len(seen[p])] = "timed_out" => ask[p].kind = "stream"
      BY DEF RepeatsOnlyTransient
    <2>1. AttemptsFit(ask[p], seen[p]) /\ ask[p] \in Ask
      BY DEF ModelInv, ModelTypeOK, CallFits
    <2> QED
      BY <2>1 DEF AttemptsFit, Repeatable, Ask, Kind
  <1> QED
    BY <1>1, ModelInductive, PTL

\* A stream with a trace ended with the output from its beginning, all of it unless its
\* body was cut, after at most one beginning for each attempt: for any number of chunks.
THEOREM TracedStreamsAreWhole == ProviderSpec => []TracedStreamIsWhole
  <1> USE ModelAssumption
  <1>1. ModelInv => TracedStreamIsWhole
    <2> SUFFICES ASSUME ModelInv, NEW p \in Prompts, ask[p].kind = "stream", traced[p] > 0
                 PROVE  LET chunks == delivered[p]  got == ask[p].next - 1 IN
                        /\ got = Chunks \/ seen[p][Len(seen[p])] = "cut"
                        /\ Len(chunks) >= got
                        /\ \A n \in 1 .. got : chunks[Len(chunks) - got + n] = n
                        /\ Cardinality({n \in 1 .. Len(chunks) : chunks[n] = 1}) <= traced[p]
      BY DEF TracedStreamIsWhole
    <2>1. /\ ask[p] \in Ask /\ delivered[p] \in Seq(Nat)
          /\ ChunksFit(ask[p], delivered[p]) /\ TraceFits(ask[p], seen[p], traced[p])
      BY DEF ModelInv, ModelTypeOK, CallFits
    <2>2. /\ ask[p].stage = "ended" /\ traced[p] = ask[p].attempts
          /\ ask[p].next > Chunks \/ seen[p][Len(seen[p])] = "cut"
      BY <2>1 DEF TraceFits
    <2>3. ask[p].next \in 1 .. Chunks + 1 /\ Len(delivered[p]) \in Nat
      BY <2>1 DEF Ask
    <2>4. /\ ask[p].next - 1 <= Len(delivered[p])
          /\ \A n \in 1 .. ask[p].next - 1 :
               delivered[p][Len(delivered[p]) - (ask[p].next - 1) + n] = n
          /\ \/ Cardinality(Ones(delivered[p])) < ask[p].attempts
             \/ Cardinality(Ones(delivered[p])) <= ask[p].attempts
      BY <2>1, <2>2 DEF ChunksFit
    <2>5. Cardinality(Ones(delivered[p])) \in Nat /\ ask[p].attempts \in Nat
      BY <2>1, OnesFinite, AskHas
    <2>6. /\ ask[p].next - 1 = Chunks \/ seen[p][Len(seen[p])] = "cut"
          /\ Cardinality(Ones(delivered[p])) <= traced[p]
      <3>1. ask[p].next > Chunks => ask[p].next - 1 = Chunks
        BY <2>3, ModelAssumption
      <3>2. Cardinality(Ones(delivered[p])) <= ask[p].attempts
        BY <2>4, <2>5
      <3> QED
        BY <2>2, <3>1, <3>2
    <2> QED
      BY <2>3, <2>4, <2>6 DEF Ones
  <1> QED
    BY <1>1, ModelInductive, PTL

\* The ledger's sets are finite, its tokens are those reported for the answers, and
\* only the body of a stream stays open.
LedgerInv ==
  /\ IsFiniteSet(Generations("ended")) /\ IsFiniteSet(Generations("raised"))
  /\ IsFiniteSet(Counted(reported))
  /\ ledger = [requests |-> Cardinality(Generations("ended")),
               tokens |-> Cardinality(Counted(reported))]
  /\ metered = [requests |-> Cardinality(Generations("ended")),
                tokens |-> Cardinality(Counted(reported)),
                failures |-> Cardinality(Generations("raised"))]
  /\ reported \in [Prompts -> Nat] /\ exchange \in [Prompts -> {"none", "sent", "open"}]
  /\ \A p \in Prompts :
       /\ exchange[p] = "open" => ask[p].kind = "stream" /\ ask[p].stage # "new"
       /\ reported[p] = IF Is(p, "generation", "ended") THEN ask[p].tokens ELSE 0
       /\ ask[p].stage = "ended" => seen[p][Len(seen[p])] \in {"ok", "cut"}

\* Tokens under a new name are counted besides the others.
LEMMA TokensAdded ==
  ASSUME NEW used \in [Prompts -> Nat], IsFiniteSet(Counted(used)),
         NEW p \in Prompts, used[p] = 0, NEW n \in Nat
  PROVE  /\ IsFiniteSet(Counted([used EXCEPT ![p] = n]))
         /\ Cardinality(Counted([used EXCEPT ![p] = n])) = Cardinality(Counted(used)) + n
  <1> DEFINE more == [used EXCEPT ![p] = n]
             added == {p} \X (1 .. n)
  <1>1. /\ more \in [Prompts -> Nat] /\ more[p] = n
        /\ \A q \in Prompts \ {p} : more[q] = used[q]
    OBVIOUS
  <1> HIDE DEF more
  <1>2. \A c : c \in Counted(used) <=> \E q \in Prompts : \E k \in 1 .. used[q] : c = <<q, k>>
    BY DEF Counted
  <1>3. \A c : c \in Counted(more) <=> \E q \in Prompts : \E k \in 1 .. more[q] : c = <<q, k>>
    BY <1>1 DEF Counted
  <1>4. \A c : c \in added <=> \E k \in 1 .. n : c = <<p, k>>
    OBVIOUS
  <1>5. 1 .. used[p] = {}
    OBVIOUS
  <1> HIDE DEF added
  <1>6. Counted(more) = Counted(used) \cup added
    <2>1. \A c : c \in Counted(more) => c \in Counted(used) \cup added
      BY <1>1, <1>2, <1>3, <1>4
    <2>2. \A c : c \in added => c \in Counted(more)
      BY <1>1, <1>3, <1>4
    <2>3. \A c : c \in Counted(used) => c \in Counted(more)
      BY <1>1, <1>2, <1>3, <1>5
    <2> QED
      BY <2>1, <2>2, <2>3
  <1>7. Counted(used) \cap added = {}
    BY <1>2, <1>4, <1>5
  <1>8. IsFiniteSet(added) /\ Cardinality(added) = n
    <2>1. IsFiniteSet({p}) /\ Cardinality({p}) = 1
      BY FS_Singleton
    <2>2. IsFiniteSet(1 .. n) /\ Cardinality(1 .. n) = n
      <3>1. 1 \in Int /\ n \in Int
        OBVIOUS
      <3>2. IsFiniteSet(1 .. n) /\ Cardinality(1 .. n) = IF 1 > n THEN 0 ELSE n - 1 + 1
        BY <3>1, FS_Interval
      <3> QED
        BY <3>2
    <2>3. IsFiniteSet({p} \X (1 .. n)) /\ Cardinality({p} \X (1 .. n)) = 1 * n
      BY <2>1, <2>2, FS_Product
    <2> QED
      BY <2>3 DEF added
  <1>9. Cardinality({}) = 0
    BY FS_EmptySet
  <1>10. IsFiniteSet(Counted(more)) /\ Cardinality(Counted(more)) = Cardinality(Counted(used)) + n - 0
    <2>1. /\ IsFiniteSet(Counted(used) \cup added)
          /\ Cardinality(Counted(used) \cup added)
               = Cardinality(Counted(used)) + Cardinality(added) - Cardinality(Counted(used) \cap added)
      BY <1>8, FS_Union
    <2> QED
      BY <1>6, <1>7, <1>8, <1>9, <2>1
  <1>11. Cardinality(Counted(used)) \in Nat
    BY FS_CardinalityType
  <1> QED
    BY <1>10, <1>11 DEF more

\* A step of one call that answers no generation: at most it raises.
LEMMA StepKeepsLedger ==
  ASSUME ModelInv, LedgerInv, NEW p \in Prompts, NEW a \in Ask, NEW statuses,
         ask' = [ask EXCEPT ![p] = a], seen' = [seen EXCEPT ![p] = statuses],
         ask[p].stage \notin {"ended", "raised"}, UNCHANGED <<ledger, reported>>,
         NEW request \in {"none", "sent", "open"}, exchange' = [exchange EXCEPT ![p] = request],
         request = "open" => a.kind = "stream" /\ a.stage # "new",
         a.stage = "ended" => a.kind = "stream" /\ statuses[Len(statuses)] \in {"ok", "cut"},
         metered' = IF a.stage = "raised" /\ a.kind = "generation"
                    THEN [metered EXCEPT !.failures = @ + 1] ELSE metered
  PROVE  LedgerInv'
  <1>1. /\ ask'[p] = a /\ seen'[p] = statuses
        /\ \A q \in Prompts \ {p} : ask'[q] = ask[q] /\ seen'[q] = seen[q]
    BY DEF ModelInv, ModelTypeOK
  <1>2. ~Is(p, "generation", "ended") /\ ~Is(p, "generation", "ended")'
    BY <1>1 DEF Is
  <1>3. Generations("ended")' = Generations("ended")
    BY <1>1, <1>2 DEF Generations, Is
  <1>4. p \notin Generations("raised")
    BY DEF Generations, Is
  <1>5. /\ IsFiniteSet(Generations("raised")')
        /\ metered' = [requests |-> Cardinality(Generations("ended")),
                       tokens |-> Cardinality(Counted(reported)),
                       failures |-> Cardinality(Generations("raised")')]
    <2>1. CASE a.stage = "raised" /\ a.kind = "generation"
      <3>1. Generations("raised")' = Generations("raised") \cup {p}
        BY <1>1, <2>1 DEF Generations, Is
      <3>2. /\ IsFiniteSet(Generations("raised") \cup {p})
            /\ Cardinality(Generations("raised") \cup {p}) = Cardinality(Generations("raised")) + 1
        BY <1>4, FS_AddElement DEF LedgerInv
      <3>3. metered' = [requests |-> Cardinality(Generations("ended")),
                        tokens |-> Cardinality(Counted(reported)),
                        failures |-> Cardinality(Generations("raised")) + 1]
        BY <2>1 DEF LedgerInv
      <3> QED
        BY <3>1, <3>2, <3>3
    <2>2. CASE ~(a.stage = "raised" /\ a.kind = "generation")
      <3>1. Generations("raised")' = Generations("raised")
        BY <1>1, <1>4, <2>2 DEF Generations, Is
      <3> QED
        BY <2>2, <3>1 DEF LedgerInv
    <2> QED
      BY <2>1, <2>2
  <1>6. \A q \in Prompts :
          /\ reported'[q] = IF Is(q, "generation", "ended")' THEN ask'[q].tokens ELSE 0
          /\ ask'[q].stage = "ended" => seen'[q][Len(seen'[q])] \in {"ok", "cut"}
          /\ exchange'[q] = "open" => ask'[q].kind = "stream" /\ ask'[q].stage # "new"
    <2> TAKE q \in Prompts
    <2>1. CASE q = p
      BY <1>1, <1>2, <2>1 DEF LedgerInv
    <2>2. CASE q # p
      BY <1>1, <2>2 DEF LedgerInv, Is
    <2> QED
      BY <2>1, <2>2
  <1>7. Counted(reported)' = Counted(reported)
    BY DEF Counted
  <1> QED
    BY <1>3, <1>5, <1>6, <1>7 DEF LedgerInv

\* An answer adds itself and the tokens that its body reports.
LEMMA AnswerKeepsLedger ==
  ASSUME ModelInv, LedgerInv, NEW p \in Prompts, NEW reply \in Reply,
         AnsweredBy(p, reply), Saw(p, reply.status)
  PROVE  LedgerInv'
  <1> PICK tokens \in 0 .. MaxTokens : Answer(p)!(tokens)
    BY DEF AnsweredBy, Answer
  <1> DEFINE n == reply.usage.tokens
             a == [ask[p] EXCEPT !.stage = "ended", !.tokens = tokens]
  <1>1. /\ ask[p] \in Ask /\ ask[p].kind = "generation" /\ ask[p].stage = "calling"
        /\ ask' = [ask EXCEPT ![p] = a]
    BY DEF Is, ModelInv, ModelTypeOK
  <1>2. a.stage = "ended" /\ a.tokens = tokens /\ a.kind = "generation"
    BY <1>1 DEF Ask
  <1> HIDE DEF a
  <1>3. ask'[p] = a /\ \A q \in Prompts \ {p} : ask'[q] = ask[q]
    BY <1>1 DEF ModelInv, ModelTypeOK
  <1>4. n \in Nat /\ Tokens(reply.usage) = n /\ tokens = n
    <2>1. n \in Nat /\ reply.usage.name \in {"prompt_tokens", "input_tokens"}
      BY ModelAssumption DEF Reply, Usage
    <2>2. Tokens(reply.usage) = n
      BY <2>1 DEF Tokens, Field
    <2> QED
      BY <1>2, <1>3, <2>1, <2>2 DEF AnsweredBy
  <1>5. reply.status = "ok"
    BY DEF AnsweredBy, Judgement
  <1>6. /\ seen'[p] = Append(seen[p], "ok") /\ \A q \in Prompts \ {p} : seen'[q] = seen[q]
        /\ seen[p] \in Seq(AttemptStatus)
    BY <1>5 DEF Saw, ModelInv, ModelTypeOK
  <1>7. seen'[p][Len(seen'[p])] = "ok"
    BY <1>6
  <1>8. reported[p] = 0 /\ reported' = [reported EXCEPT ![p] = n]
        /\ reported \in [Prompts -> Nat]
    BY <1>1 DEF LedgerInv, Is, AnsweredBy
  <1>9. /\ IsFiniteSet(Counted(reported)')
        /\ Cardinality(Counted(reported)') = Cardinality(Counted(reported)) + n
    <2>1. /\ IsFiniteSet(Counted([reported EXCEPT ![p] = n]))
          /\ Cardinality(Counted([reported EXCEPT ![p] = n])) = Cardinality(Counted(reported)) + n
      BY <1>4, <1>8, TokensAdded DEF LedgerInv
    <2>2. Counted(reported)' = Counted([reported EXCEPT ![p] = n])
      BY <1>8 DEF Counted
    <2> QED
      BY <2>1, <2>2
  <1>10. Generations("ended")' = Generations("ended") \cup {p} /\ p \notin Generations("ended")
    BY <1>1, <1>2, <1>3 DEF Generations, Is
  <1>11. Generations("raised")' = Generations("raised")
    BY <1>1, <1>2, <1>3 DEF Generations, Is
  <1>12. /\ IsFiniteSet(Generations("ended")')
         /\ Cardinality(Generations("ended")') = Cardinality(Generations("ended")) + 1
    BY <1>10, FS_AddElement DEF LedgerInv
  <1>13. /\ ledger' = [requests |-> Cardinality(Generations("ended")) + 1,
                       tokens |-> Cardinality(Counted(reported)) + n]
         /\ metered' = [requests |-> Cardinality(Generations("ended")) + 1,
                        tokens |-> Cardinality(Counted(reported)) + n,
                        failures |-> Cardinality(Generations("raised"))]
    BY <1>4 DEF LedgerInv, Measure
  <1>14. \A q \in Prompts :
          /\ reported'[q] = IF Is(q, "generation", "ended")' THEN ask'[q].tokens ELSE 0
          /\ ask'[q].stage = "ended" => seen'[q][Len(seen'[q])] \in {"ok", "cut"}
          /\ exchange'[q] = "open" => ask'[q].kind = "stream" /\ ask'[q].stage # "new"
    <2> TAKE q \in Prompts
    <2>0. exchange' = [exchange EXCEPT ![p] = "none"]
      BY DEF Saw
    <2>1. CASE q = p
      BY <1>2, <1>3, <1>4, <1>7, <1>8, <2>0, <2>1 DEF LedgerInv, Is
    <2>2. CASE q # p
      BY <1>3, <1>6, <1>8, <2>0, <2>2 DEF LedgerInv, Is
    <2> QED
      BY <2>1, <2>2
  <1>15. reported' \in [Prompts -> Nat] /\ exchange' \in [Prompts -> {"none", "sent", "open"}]
    BY <1>4, <1>8 DEF LedgerInv, Saw
  <1> QED
    BY <1>9, <1>11, <1>12, <1>13, <1>14, <1>15 DEF LedgerInv

\* The same for the steps as the actions write them.
LEMMA CallKeepsLedger ==
  ASSUME ModelInv, ModelInv', LedgerInv, NEW p \in Prompts, NEW statuses,
         ask' = [ask EXCEPT ![p] = ask'[p]], seen' = [seen EXCEPT ![p] = statuses],
         ask'[p].kind = ask[p].kind \/ ask[p].stage = "new",
         ask[p].stage \notin {"ended", "raised"}, UNCHANGED <<ledger, reported>>,
         NEW request \in {"none", "sent", "open"}, exchange' = [exchange EXCEPT ![p] = request],
         request = "open" => ask'[p].kind = "stream" /\ ask'[p].stage # "new",
         ask'[p].stage = "ended" => ask'[p].kind = "stream" /\ statuses[Len(statuses)] \in {"ok", "cut"},
         metered' = IF ask'[p].stage = "raised" /\ ask'[p].kind = "generation"
                    THEN [metered EXCEPT !.failures = @ + 1] ELSE metered
  PROVE  LedgerInv'
  <1>1. ask'[p] \in Ask
    BY DEF ModelInv, ModelTypeOK
  <1> QED
    BY <1>1, StepKeepsLedger

LEMMA LedgerInductive ==
  ASSUME ModelInv, ModelInv', LedgerInv, [ProviderNext]_providerVars
  PROVE  LedgerInv'
  <1>0. /\ ask \in [Prompts -> Ask] /\ ask' \in [Prompts -> Ask]
        /\ seen \in [Prompts -> Seq(AttemptStatus)]
        /\ exchange \in [Prompts -> {"none", "sent", "open"}]
    BY DEF ModelInv, ModelTypeOK, LedgerInv
  <1>1. ASSUME NEW p \in Prompts, NEW place \in Stage, Fall(p, place)
        PROVE  /\ ask' = [ask EXCEPT ![p] = ask'[p]] /\ ask'[p].stage = place
               /\ ask'[p].kind = ask[p].kind /\ ask'[p].next = ask[p].next
               /\ metered' = IF ask'[p].stage = "raised" /\ ask'[p].kind = "generation"
                             THEN [metered EXCEPT !.failures = @ + 1] ELSE metered
    <2>1. ask' = [ask EXCEPT ![p] = [ask[p] EXCEPT !.stage = place]]
      BY <1>0, <1>1 DEF Fall, To
    <2>2. ask'[p] = [ask[p] EXCEPT !.stage = place] /\ ask' = [ask EXCEPT ![p] = ask'[p]]
      BY <1>0, <2>1
    <2>3. /\ ask'[p].stage = place /\ ask'[p].kind = ask[p].kind /\ ask'[p].next = ask[p].next
      BY <1>0, <2>2 DEF Ask
    <2> QED
      BY <1>1, <2>2, <2>3 DEF Fall
  <1>2. ASSUME NEW p \in Prompts, NEW place \in {"backing_off", "raised", "cancelled"},
               Fall(p, place), ask[p].stage \in {"calling", "yielded", "backing_off"},
               UNCHANGED <<ledger, reported>>, exchange' = [exchange EXCEPT ![p] = "none"],
               NEW statuses, seen' = [seen EXCEPT ![p] = statuses]
        PROVE  LedgerInv'
    <2>1. place \in Stage
      BY DEF Stage
    <2> QED
      BY <1>1, <1>2, <2>1, CallKeepsLedger
  <1>3. ASSUME NEW p \in Prompts, NEW status, Saw(p, status), UNCHANGED reported,
               FailTransiently(p) \/ GiveUp(p) \/ TimeOut(p)
        PROVE  LedgerInv'
    <2>1. ask[p].stage = "calling" /\ UNCHANGED ledger
      BY <1>3 DEF FailTransiently, GiveUp, TimeOut
    <2>2. PICK place \in {"backing_off", "raised", "cancelled"} : Fall(p, place)
      BY <1>3 DEF FailTransiently, GiveUp, TimeOut, Later
    <2>3. exchange' = [exchange EXCEPT ![p] = "none"]
          /\ seen' = [seen EXCEPT ![p] = Append(seen[p], status)]
      BY <1>3 DEF Saw
    <2> QED
      BY <1>2, <1>3, <2>1, <2>2, <2>3
  <1>4. ASSUME NEW p \in Prompts, BeginCall(p) PROVE LedgerInv'
    <2>0. PICK kind \in Kind, timed \in BOOLEAN : Generate(p)!(kind, timed)
      BY <1>4 DEF BeginCall, Generate
    <2>1. ask' = [ask EXCEPT ![p] = [ask[p] EXCEPT !.stage = "calling", !.kind = kind,
                                                   !.timed = timed, !.attempts = 1]]
      BY <1>0, <2>0
    <2>2. /\ ask'[p] = [ask[p] EXCEPT !.stage = "calling", !.kind = kind, !.timed = timed,
                                      !.attempts = 1]
          /\ ask' = [ask EXCEPT ![p] = ask'[p]]
      BY <1>0, <2>1
    <2>3. ask'[p].stage = "calling"
      BY <1>0, <2>2 DEF Ask
    <2>4. /\ ask[p].stage = "new" /\ UNCHANGED <<ledger, metered, reported>>
          /\ exchange' = [exchange EXCEPT ![p] = "sent"] /\ seen' = [seen EXCEPT ![p] = seen[p]]
      BY <1>0, <1>4 DEF BeginCall, Generate
    <2> QED
      BY <2>2, <2>3, <2>4, CallKeepsLedger
  <1>5. ASSUME NEW p \in Prompts, Respond(p) PROVE LedgerInv'
    <2>1. PICK reply \in Reply : /\ AnsweredBy(p, reply) \/ Refused(p, reply)
                                 /\ Saw(p, reply.status)
      BY <1>5 DEF Respond
    <2> QED
      BY <1>3, <2>1, AnswerKeepsLedger DEF Refused
  <1>6. ASSUME NEW p \in Prompts, RefuseStream(p) PROVE LedgerInv'
    BY <1>3, <1>6 DEF RefuseStream, Refused
  <1>7. ASSUME NEW p \in Prompts,
               HttpTimesOut(p) \/ CallTimesOut(p) \/ UnusableLine(p) \/ ConnectionBreaks(p)
        PROVE  LedgerInv'
    BY <1>3, <1>7 DEF HttpTimesOut, CallTimesOut, UnusableLine, ConnectionBreaks
  <1>8. ASSUME NEW p \in Prompts, Cancelled(p) PROVE LedgerInv'
    <2>1. /\ Fall(p, "cancelled") /\ ask[p].stage \in {"calling", "yielded", "backing_off"}
          /\ UNCHANGED <<ledger, reported>> /\ exchange' = [exchange EXCEPT ![p] = "none"]
          /\ seen' = [seen EXCEPT ![p] = seen[p]]
      BY <1>0, <1>8 DEF Cancelled, CallCancelled
    <2> QED
      BY <1>2, <2>1
  <1>9. ASSUME NEW p \in Prompts, NEW a,
               a.stage = "calling" \/ a.stage = "yielded", a.kind = ask[p].kind,
               ask' = [ask EXCEPT ![p] = a],
               ask[p].stage = "calling" \/ ask[p].stage = "yielded" \/ ask[p].stage = "backing_off",
               UNCHANGED <<seen, ledger, metered, reported>>,
               NEW request, request = exchange[p] \/ request = "sent",
               exchange' = [exchange EXCEPT ![p] = request]
        PROVE  LedgerInv'
    <2>1. ask'[p] = a /\ seen' = [seen EXCEPT ![p] = seen[p]]
      BY <1>0, <1>9
    <2>2. request \in {"none", "sent", "open"} /\ (request = "open" => a.kind = "stream")
      BY <1>0, <1>9 DEF LedgerInv
    <2> QED
      BY <1>9, <2>1, <2>2, CallKeepsLedger
  <1>10. ASSUME NEW p \in Prompts, SendAgain(p) PROVE LedgerInv'
    <2> DEFINE a == [ask[p] EXCEPT !.stage = "calling", !.attempts = @ + 1, !.next = 1]
    <2>1. a.stage = "calling" /\ a.kind = ask[p].kind
      BY <1>0 DEF Ask
    <2>2. ask' = [ask EXCEPT ![p] = a] /\ ask[p].stage = "backing_off"
          /\ UNCHANGED <<seen, ledger, metered, reported>>
          /\ exchange' = [exchange EXCEPT ![p] = "sent"]
      BY <1>0, <1>10 DEF SendAgain, Retry
    <2> HIDE DEF a
    <2> QED
      BY <1>9, <2>1, <2>2
  <1>11. ASSUME NEW p \in Prompts, ContentLine(p) PROVE LedgerInv'
    <2> DEFINE a == [ask[p] EXCEPT !.stage = "yielded", !.next = @ + 1]
    <2>1. a.stage = "yielded" /\ a.kind = ask[p].kind
      BY <1>0 DEF Ask
    <2>2. ask' = [ask EXCEPT ![p] = a] /\ ask[p].stage = "calling"
          /\ UNCHANGED <<seen, ledger, metered, reported>>
          /\ exchange' = [exchange EXCEPT ![p] = exchange[p]]
      BY <1>0, <1>11 DEF ContentLine, Yield, Is
    <2> HIDE DEF a
    <2> QED
      BY <1>9, <2>1, <2>2
  <1>12. ASSUME NEW p \in Prompts, NextLine(p) PROVE LedgerInv'
    <2> DEFINE a == [ask[p] EXCEPT !.stage = "calling"]
    <2>1. a.stage = "calling" /\ a.kind = ask[p].kind
      BY <1>0 DEF Ask
    <2>2. ask' = [ask EXCEPT ![p] = a] /\ ask[p].stage = "yielded"
          /\ UNCHANGED <<seen, ledger, metered, reported>>
          /\ exchange' = [exchange EXCEPT ![p] = exchange[p]]
      BY <1>0, <1>12 DEF NextLine, Consume, To
    <2> HIDE DEF a
    <2> QED
      BY <1>9, <2>1, <2>2
  <1>13. ASSUME NEW p \in Prompts, DoneLine(p) \/ BodyEnds(p) PROVE LedgerInv'
    <2>1. PICK status \in {"ok", "cut"} : Saw(p, status)
      BY <1>13 DEF DoneLine, BodyEnds
    <2>2. /\ To(p, "ended") /\ ask[p].stage = "calling" /\ exchange[p] = "open"
          /\ UNCHANGED <<ledger, metered, reported>>
      BY <1>13 DEF DoneLine, BodyEnds, Open, EndStream
    <2>3. ask[p].kind = "stream"
      BY <2>2 DEF LedgerInv
    <2>4. /\ ask'[p] = [ask[p] EXCEPT !.stage = "ended"] /\ ask' = [ask EXCEPT ![p] = ask'[p]]
      BY <1>0, <2>2 DEF To
    <2>5. ask'[p].stage = "ended" /\ ask'[p].kind = "stream"
      BY <1>0, <2>3, <2>4 DEF Ask
    <2>6. /\ seen' = [seen EXCEPT ![p] = Append(seen[p], status)]
          /\ exchange' = [exchange EXCEPT ![p] = "none"]
      BY <2>1 DEF Saw
    <2>7. Append(seen[p], status)[Len(Append(seen[p], status))] = status
      <3>1. seen[p] \in Seq(AttemptStatus) /\ status \in AttemptStatus
        BY <1>0 DEF AttemptStatus, ReplyStatus
      <3> QED
        BY <3>1
    <2>8. /\ metered' = IF ask'[p].stage = "raised" /\ ask'[p].kind = "generation"
                        THEN [metered EXCEPT !.failures = @ + 1] ELSE metered
          /\ ask'[p].kind = ask[p].kind /\ ask[p].stage \notin {"ended", "raised"}
          /\ UNCHANGED <<ledger, reported>>
      BY <2>2, <2>3, <2>5
    <2> DEFINE statuses == Append(seen[p], status)
    <2>9. statuses[Len(statuses)] \in {"ok", "cut"}
      BY <2>7
    <2>10. seen' = [seen EXCEPT ![p] = statuses] /\ exchange' = [exchange EXCEPT ![p] = "none"]
      BY <2>6
    <2> HIDE DEF statuses
    <2> QED
      BY <2>4, <2>5, <2>8, <2>9, <2>10, CallKeepsLedger
  <1>14. ASSUME NEW p \in Prompts, OpenStream(p) PROVE LedgerInv'
    <2>1. /\ UNCHANGED <<ask, ledger, metered, seen, reported>>
          /\ ask[p].kind = "stream" /\ ask[p].stage = "calling"
          /\ exchange' = [exchange EXCEPT ![p] = "open"]
      BY <1>14 DEF OpenStream, Sent, modelVars
    <2>2. /\ \A q \in Prompts :
               exchange'[q] = "open" => ask'[q].kind = "stream" /\ ask'[q].stage # "new"
          /\ exchange' \in [Prompts -> {"none", "sent", "open"}]
      BY <1>0, <2>1 DEF LedgerInv
    <2>3. /\ Generations("ended")' = Generations("ended")
          /\ Generations("raised")' = Generations("raised") /\ Counted(reported)' = Counted(reported)
      BY <2>1 DEF Generations, Is, Counted
    <2> QED
      BY <2>1, <2>2, <2>3 DEF LedgerInv, Is
  <1>15. ASSUME UNCHANGED <<modelVars, exchange, seen, reported>> PROVE LedgerInv'
    BY <1>15 DEF modelVars, LedgerInv, Generations, Is, Counted
  <1>16. CASE \E p \in Prompts : Silence(p) \/ Trickle(p)
    BY <1>15, <1>16 DEF Silence, Trickle
  <1>17. CASE UNCHANGED providerVars
    BY <1>15, <1>17 DEF providerVars
  <1> QED
    BY <1>4, <1>5, <1>6, <1>7, <1>8, <1>10, <1>11, <1>12, <1>13, <1>14, <1>16, <1>17
       DEF ProviderNext

\* However calls overlap and fail, time out and are cancelled: the ledger and the metrics
\* hold the answered generations, once each, with the tokens that the provider reported;
\* no other call has a trace, and none ended without a reply.
THEOREM LedgerAlwaysHoldsReports == ProviderSpec => []LedgerHoldsReports
  <1>1. ProviderInit => LedgerInv
    <2> SUFFICES ASSUME ProviderInit PROVE LedgerInv
      OBVIOUS
    <2>1. /\ \A p \in Prompts : /\ ask[p].stage = "new" /\ ask[p].tokens = 0
                                /\ exchange[p] = "none" /\ reported[p] = 0
          /\ reported = [p \in Prompts |-> 0] /\ exchange = [p \in Prompts |-> "none"]
      BY DEF ProviderInit, ModelInit
    <2>2. Generations("ended") = {} /\ Generations("raised") = {} /\ Counted(reported) = {}
      BY <2>1 DEF Generations, Is, Counted
    <2>3. Cardinality({}) = 0 /\ IsFiniteSet({})
      BY FS_EmptySet
    <2>4. /\ ledger = [requests |-> 0, tokens |-> 0]
          /\ metered = [requests |-> 0, tokens |-> 0, failures |-> 0]
      BY DEF ProviderInit, ModelInit
    <2> QED
      BY <2>1, <2>2, <2>3, <2>4 DEF LedgerInv, Is
  <1>2. ModelInv /\ ModelInv' /\ LedgerInv /\ [ProviderNext]_providerVars => LedgerInv'
    BY LedgerInductive
  <1>3. ModelInv /\ LedgerInv => LedgerHoldsReports
    <2> SUFFICES ASSUME ModelInv, LedgerInv PROVE LedgerHoldsReports
      OBVIOUS
    <2>1. Counted([p \in Generations("ended") |-> ask[p].tokens]) = Counted(reported)
      <3> DEFINE used == [p \in Generations("ended") |-> ask[p].tokens]
      <3>1. /\ DOMAIN used = Generations("ended") /\ Generations("ended") \subseteq Prompts
            /\ \A p \in Generations("ended") : used[p] = reported[p]
            /\ \A p \in Prompts \ Generations("ended") : reported[p] = 0
            /\ DOMAIN reported = Prompts
        BY DEF Generations, LedgerInv
      <3> HIDE DEF used
      <3>2. \A c : c \in Counted(used) <=>
                     \E p \in Generations("ended") : \E k \in 1 .. used[p] : c = <<p, k>>
        BY <3>1 DEF Counted
      <3>3. \A c : c \in Counted(reported) <=>
                     \E p \in Prompts : \E k \in 1 .. reported[p] : c = <<p, k>>
        BY <3>1 DEF Counted
      <3>4. 1 .. 0 = {}
        OBVIOUS
      <3>5. \A c : c \in Counted(used) <=> c \in Counted(reported)
        BY <3>1, <3>2, <3>3, <3>4
      <3>6. Counted(used) = Counted(reported)
        BY <3>5
      <3> QED
        BY <3>6 DEF used
    <2>2. \A p \in Generations("raised") \cup Generations("cancelled") : traced[p] = 0
      <3> SUFFICES ASSUME NEW p \in Prompts, ask[p].stage \in {"raised", "cancelled"}
                   PROVE  traced[p] = 0
        BY DEF Generations, Is
      <3>1. TraceFits(ask[p], seen[p], traced[p]) /\ traced[p] \in Nat
        BY DEF ModelInv, ModelTypeOK, CallFits
      <3> QED
        BY <3>1 DEF TraceFits
    <2>3. LedgerMatchesAnswers
      BY <2>1, <2>2 DEF LedgerMatchesAnswers, LedgerInv
    <2> QED
      BY <2>3 DEF LedgerHoldsReports, LedgerInv
  <1> QED
    BY <1>1, <1>2, <1>3, ModelInductive, PTL DEF ProviderSpec
=============================================================================
