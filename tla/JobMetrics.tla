------------------------------ MODULE JobMetrics ------------------------------
(***************************************************************************)
(* The job queue with the metrics that Worker.run_once records of it       *)
(* (observability/worker.py, record_task of observability/runtime.py), for *)
(* workers of one process that share one MetricsRegistry.  A metric is     *)
(* recorded after the row is written and in the same turn of the event     *)
(* loop; a handler that is cancelled and a job without a handler record    *)
(* none.  The registry is memory of the process: it dies with it.          *)
(***************************************************************************)
EXTENDS JobQueue, FiniteSets

VARIABLES
  metrics,    \* eis_tasks_total by status, and eis_task_retries_total
  unreported  \* history: attempts of earlier processes, and interrupted ones

metricsVars == <<job, worker, stopping, crashes, metrics, unreported>>

NoMetrics == [completed |-> 0, retry |-> 0, failed |-> 0, retries |-> 0]

MetricsInit ==
  /\ JobInit
  /\ metrics = NoMetrics
  /\ unreported = {}

-----------------------------------------------------------------------------
\* Steps

\* Each attempt at a job that has a handler, by its number.
Claimed == UNION {{j} \X (1 .. job[j].attempts) : j \in Jobs \ Unhandled}

Attempt(w) == <<worker[w].job, worker[w].attempts>>

\* record_task(TaskMetric(kind, status, latency, retries)); increment() adds the value.
RecordTask(status, retries) ==
  /\ metrics' = [metrics EXCEPT ![status] = @ + 1, !.retries = @ + retries]
  /\ UNCHANGED unreported

RecordedReturn(w) ==
  /\ HandlerSucceeds(w)
  /\ RecordTask("completed", worker[w].attempts - 1)

\* Variant: the metric takes the limit to be reached once later than the store does.
StatusOfRaiseLate(w) == IF worker[w].attempts <= MaxAttempts THEN "retry" ELSE "failed"

StatusOfRaise(w) == IF Retry(worker[w].attempts) THEN "retry" ELSE "failed"

RecordedRaise(w) ==
  /\ HandlerRaises(w)
  /\ RecordTask(StatusOfRaise(w), worker[w].attempts)

Interrupted(w) ==
  /\ Interrupt(w)
  /\ unreported' = unreported \cup (IF At(w, "handling") THEN {Attempt(w)} ELSE {})
  /\ UNCHANGED metrics

\* Variant: the registry is kept where the table is.
DiedMeasured(w) ==
  /\ Die(w)
  /\ unreported' = Claimed
  /\ UNCHANGED metrics

\* The counters of the next process start from zero.
Died(w) ==
  /\ Die(w)
  /\ metrics' = NoMetrics
  /\ unreported' = Claimed

Unrecorded ==
  /\ \/ \E j \in Jobs : Enqueue(j)
     \/ \E w \in Workers : RunOnce(w) \/ Stop(w)
     \/ Tick
  /\ UNCHANGED <<metrics, unreported>>

MetricsNext ==
  \/ Unrecorded
  \/ \E w \in Workers :
       RecordedReturn(w) \/ RecordedRaise(w) \/ Interrupted(w) \/ Died(w)

MetricsSpec == MetricsInit /\ [][MetricsNext]_metricsVars

FairMetrics == MetricsSpec /\ JobFairness

-----------------------------------------------------------------------------
\* Properties

InHand == {w \in Workers : At(w, "handling")}

\* The attempts that this process has seen the end of.
Reported == (Claimed \ unreported) \ {Attempt(w) : w \in InHand}

\* The rows of a status that an attempt of this process gave it.
With(status) ==
  {j \in Jobs \ Unhandled : job[j].status = status /\ <<j, job[j].attempts>> \notin unreported}

\* An attempt with each attempt at the same job up to it.
SoFar(attempts) == UNION {{a} \X (1 .. a[2]) : a \in attempts}

\* What the registry of a process tells agrees with the table, through retries, expired
\* leases, interrupted handlers and the deaths of earlier processes: completed and failed
\* tasks are the rows that this process finished so, each once, and each attempt it saw
\* the end of is counted once.  eis_task_retries_total is exact too, but no number of
\* retries: each attempt adds all the attempts so far, a completed one itself excepted.
MetricsFitTable ==
  /\ metrics.completed = Cardinality(With("completed"))
  /\ metrics.failed = Cardinality(With("failed"))
  /\ metrics.completed + metrics.retry + metrics.failed = Cardinality(Reported)
  /\ metrics.retries + metrics.completed = Cardinality(SoFar(Reported))
=============================================================================
