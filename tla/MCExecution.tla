----------------------------- MODULE MCExecution -----------------------------
(***************************************************************************)
(* Where calls wait for their execution, for TLC: the task scheduler, the  *)
(* tool executor, batches and the concurrency limiter.  They share no      *)
(* state; a behaviour uses one of them.                                    *)
(***************************************************************************)
EXTENDS TaskScheduler, ToolExecutor, Batches, ConcurrencyLimiter

VARIABLE used  \* the component that the calls go to

vars == <<schedulerVars, toolVars, batchVars, limiterVars, used>>

Init ==
  /\ SchedulerInit /\ ToolInit /\ BatchInit /\ LimiterInit
  /\ used \in {"scheduler", "tools", "batches", "limiter"}

OfScheduler(A) ==
  used = "scheduler" /\ A /\ UNCHANGED <<toolVars, batchVars, limiterVars, used>>

OfTools(A) ==
  used = "tools" /\ A /\ UNCHANGED <<schedulerVars, batchVars, limiterVars, used>>

OfBatches(A) ==
  used = "batches" /\ A /\ UNCHANGED <<schedulerVars, toolVars, limiterVars, used>>

OfLimiter(A) ==
  used = "limiter" /\ A /\ UNCHANGED <<schedulerVars, toolVars, batchVars, used>>

Next ==
  \/ OfScheduler(SchedulerNext) \/ OfTools(ToolNext)
  \/ OfBatches(BatchNext) \/ OfLimiter(LimiterNext)

Spec == Init /\ [][Next]_vars

\* The fairness of each component, for the one that is used: operations end, time
\* passes, and the event loop resumes whoever can go on.
FairSpec ==
  /\ Spec
  /\ \A t \in Tasks : WF_vars(OfScheduler(Enter(t)))
  /\ \A w \in Slots :
       /\ WF_vars(OfScheduler(Take(w)))
       /\ WF_vars(OfScheduler(\E result \in {"value", "error"} : OperationEnds(w, result)))
       /\ WF_vars(OfScheduler(WorkerCancelled(w)))
  /\ \A c \in Closers :
       WF_vars(OfScheduler(CloseDrained(c))) /\ WF_vars(OfScheduler(CloseEnds(c)))
  /\ WF_vars(OfTools(ToolTick))
  /\ \A c \in Calls : WF_vars(OfTools(Progress(c)))
  /\ WF_vars(OfBatches(NextAttempt))
  /\ \A o \in Operation : WF_vars(OfBatches(OperationReturns(o) \/ OperationRaises(o)))
  /\ \A w \in Works :
       /\ WF_vars(OfLimiter(Attempting(w)))
       /\ WF_vars(OfLimiter(RunsOn(w)))
       /\ WF_vars(OfLimiter(Returns(w) \/ Raises(w)))

-----------------------------------------------------------------------------
\* Whoever waits is answered, for a worker, for a tool that may never return, for
\* a batch and its retries or for a permit, under the exceptions that the parts
\* name.
EveryCallEnds ==
  EverySubmissionEnds /\ EveryCallReturns /\ EveryBatchCallEnds /\ EveryWorkEnds
=============================================================================
