-------------------------- MODULE EngineeringAgent --------------------------
(***************************************************************************)
(* EngineeringAgent of engineering/runtime.py: one agent, whose runs share *)
(* the call counter, the clock and the change tracker.  A step of a run    *)
(* goes from one await to the next.  The retriever, inspector, planner,    *)
(* validator, analyzer and the tools are the agent's collaborators.        *)
(***************************************************************************)
EXTENDS Naturals, FiniteSets

CONSTANTS
  Runs,           \* calls of run()
  Paths,          \* files the implementation tool may change
  MaxIterations, MaxFiles, MaxCalls,  \* EngineeringLimits
  MaxTime,        \* max_execution_seconds, in ticks
  HasAnalyzer     \* a failure_analyzer was given

ASSUME AgentAssumption ==
  /\ IsFiniteSet(Paths)
  /\ MaxIterations \in Nat \ {0}
  /\ MaxFiles \in Nat \ {0}
  /\ MaxCalls \in Nat \ {0}
  /\ MaxTime \in Nat \ {0}
  /\ HasAnalyzer \in BOOLEAN

\* What a run awaits.
Before == {"retrieve", "inspect", "plan", "validate"}
Tools == {"implement", "targeted", "broader", "correct"}
Place == {"new", "analyze", "over"} \cup Before \cup Tools

\* A report says completed or escalated; an exception of a collaborator or the
\* caller's cancellation leaves without a report.
Outcome == {"none", "completed", "escalated", "raised"}

Tests == {"targeted", "broader"}

VARIABLES
  run,      \* where each run is, its iterations and its outcome
  calls,    \* _calls
  left,     \* ticks until max_execution_seconds have passed since _started
  changed,  \* the paths in the change tracker
  passed,   \* history: test stages passed since the run last changed files
  made,     \* history: calls each run has made
  shared,   \* history: runs that were under way when another one began
  spent     \* history: runs that began with too many files in the tracker

agentVars == <<run, calls, left, changed, passed, made, shared, spent>>

AgentTypeOK ==
  /\ run \in [Runs -> [pc : Place, iterations : 0 .. MaxIterations, outcome : Outcome]]
  /\ calls \in 0 .. MaxCalls
  /\ left \in 0 .. MaxTime
  /\ changed \in SUBSET Paths
  /\ passed \in [Runs -> SUBSET Tests]
  /\ made \in [Runs -> Nat]
  /\ shared \in SUBSET Runs
  /\ spent \in SUBSET Runs

AgentInit ==
  /\ run = [r \in Runs |-> [pc |-> "new", iterations |-> 0, outcome |-> "none"]]
  /\ calls = 0
  /\ left = MaxTime
  /\ changed = {}
  /\ passed = [r \in Runs |-> {}]
  /\ made = [r \in Runs |-> 0]
  /\ shared = {}
  /\ spent = {}

-----------------------------------------------------------------------------
\* Helpers

At(r, place) == run[r].pc = place

UnderWay(r) == run[r].pc \notin {"new", "over"}

\* Variant: one call too many is allowed.
StoppedLate == calls > MaxCalls \/ left = 0

\* _guard raises.
Stopped == calls >= MaxCalls \/ left = 0

TooMany(paths) == Cardinality(paths) > MaxFiles

End(r, outcome) == run' = [run EXCEPT ![r].pc = "over", ![r].outcome = outcome]

\* The run goes on to a collaborator that is not counted, unless _guard raises.
Await(r, place) ==
  IF Stopped THEN End(r, "escalated") ELSE run' = [run EXCEPT ![r].pc = place]

\* The run makes a counted call, unless _guard raises: begun is 1 where the call
\* is the first of an iteration, tests the stages passed before it.
Call(r, place, begun, tests) ==
  /\ passed' = [passed EXCEPT ![r] = tests]
  /\ IF Stopped
     THEN /\ run' = [run EXCEPT ![r] = [pc |-> "over", outcome |-> "escalated",
                                       iterations |-> @.iterations + begun]]
          /\ UNCHANGED <<calls, made>>
     ELSE /\ run' = [run EXCEPT ![r].pc = place, ![r].iterations = @ + begun]
          /\ calls' = calls + 1
          /\ made' = [made EXCEPT ![r] = @ + 1]

\* The last iteration's failure escalates, an earlier one is corrected.
AfterAnalysis(r) ==
  IF run[r].iterations >= MaxIterations
  THEN End(r, "escalated") /\ UNCHANGED <<calls, made, passed>>
  ELSE Call(r, "correct", 0, {})

-----------------------------------------------------------------------------
\* EngineeringAgent.run

\* run() resets the counter and the clock that all runs of the agent share; the
\* tracker keeps what earlier runs changed.
Start(r) ==
  /\ At(r, "new")
  /\ run' = [run EXCEPT ![r].pc = "retrieve"]
  /\ calls' = 0
  /\ left' = MaxTime
  /\ shared' = shared \cup {s \in Runs : UnderWay(s)}
  /\ spent' = IF Cardinality(changed) > MaxFiles THEN spent \cup {r} ELSE spent
  /\ UNCHANGED <<changed, passed, made>>

\* The retriever, the inspector or the planner answers.
Prepared(r) ==
  /\ run[r].pc \in Before \ {"validate"}
  /\ Await(r, CASE At(r, "retrieve") -> "inspect"
                [] At(r, "inspect")  -> "plan"
                [] At(r, "plan")     -> "validate")
  /\ UNCHANGED <<calls, left, changed, passed, made, shared, spent>>

\* The validator accepts the plan, and the first iteration begins.
Accepted(r) ==
  /\ At(r, "validate")
  /\ Call(r, "implement", 1, {})
  /\ UNCHANGED <<left, changed, shared, spent>>

Rejected(r) ==
  /\ At(r, "validate")
  /\ End(r, "escalated")
  /\ UNCHANGED <<calls, left, changed, passed, made, shared, spent>>

\* The implementation tool answers, with whatever status: the changes that its
\* output reports are recorded, and only then counted against the limit.
Implemented(r) == \E paths \in SUBSET Paths :
  /\ At(r, "implement")
  /\ changed' = changed \cup paths
  /\ IF TooMany(changed')
     THEN End(r, "escalated") /\ UNCHANGED <<calls, passed, made>>
     ELSE Call(r, "targeted", 0, {})
  /\ UNCHANGED <<left, shared, spent>>

\* A test tool succeeds: the broader tests follow the targeted ones, and after
\* them the run is complete.
TestPassed(r) ==
  /\ run[r].pc \in Tests
  /\ IF At(r, "targeted")
     THEN Call(r, "broader", 0, {"targeted"})
     ELSE /\ End(r, "completed")
          /\ passed' = [passed EXCEPT ![r] = @ \cup {"broader"}]
          /\ UNCHANGED <<calls, made>>
  /\ UNCHANGED <<left, changed, shared, spent>>

\* A test tool fails, is denied or times out: the failure is analyzed.
TestFailed(r) ==
  /\ run[r].pc \in Tests
  /\ IF HasAnalyzer THEN Call(r, "analyze", 0, passed[r]) ELSE AfterAnalysis(r)
  /\ UNCHANGED <<left, changed, shared, spent>>

Analyzed(r) ==
  /\ At(r, "analyze")
  /\ AfterAnalysis(r)
  /\ UNCHANGED <<left, changed, shared, spent>>

\* Variant: a corrected implementation is not tested from the start.
CorrectedBroader(r) ==
  /\ At(r, "correct")
  /\ Call(r, "broader", 1, {})
  /\ UNCHANGED <<left, changed, shared, spent>>

\* The correction tool answers, with whatever status, and the next iteration
\* begins; the files it changed are not recorded.
Corrected(r) ==
  /\ At(r, "correct")
  /\ Call(r, "implement", 1, {})
  /\ UNCHANGED <<left, changed, shared, spent>>

\* A collaborator raises or the caller is cancelled: run() handles neither.
Raised(r) ==
  /\ UnderWay(r)
  /\ End(r, "raised")
  /\ UNCHANGED <<calls, left, changed, passed, made, shared, spent>>

Tick ==
  /\ left > 0 /\ \E r \in Runs : UnderWay(r)
  /\ left' = left - 1
  /\ UNCHANGED <<run, calls, changed, passed, made, shared, spent>>

Answered(r) ==
  \/ Prepared(r) \/ Accepted(r) \/ Rejected(r) \/ Implemented(r)
  \/ TestPassed(r) \/ TestFailed(r) \/ Analyzed(r) \/ Corrected(r)

AgentNext ==
  \/ Tick
  \/ \E r \in Runs : Start(r) \/ Answered(r) \/ Raised(r)

AgentSpec == AgentInit /\ [][AgentNext]_agentVars

-----------------------------------------------------------------------------
\* Properties

\* A run reports "completed" only when both test stages passed after the last
\* call in which it implemented or corrected anything.
CompletedIsTested == \A r \in Runs :
  run[r].outcome = "completed" => passed[r] = Tests

\* What the limits bound although all runs of an agent share its counter, its clock
\* and its tracker.  A run during which no other run of the agent began makes no more
\* calls than max_tool_calls, the failure analysis included.  The limit on changed
\* files holds for the life of the agent: once too many files have been changed, no
\* later run of the agent completes.
LimitsOutliveRuns ==
  /\ \A r \in Runs \ shared : made[r] <= MaxCalls
  /\ \A r \in spent : run[r].outcome # "completed"
=============================================================================
