------------------------------- MODULE JobQueue -------------------------------
(***************************************************************************)
(* The durable job queue: observability/jobs.py (JobStore) and the worker  *)
(* loop of observability/worker.py.                                        *)
(*                                                                         *)
(* Every JobStore method is one SQLite transaction, except that claim()    *)
(* selects a row before its guarded update.  Workers of one process share  *)
(* an event loop: run_once is atomic up to the await of the handler.  With *)
(* Interleaved, workers live in several processes and their statements     *)
(* interleave.  Time is kept as the ticks left until each lease_until.     *)
(***************************************************************************)
EXTENDS Naturals

CONSTANTS
  NumJobs,       \* bound: jobs ever enqueued; a job is its rowid
  Workers,
  LeaseTicks,    \* lease_seconds
  MaxAttempts,   \* max_attempts
  Unhandled,     \* jobs whose kind has no handler
  Stoppable,     \* workers that may be asked to stop
  Interleaved,   \* do workers run in several processes?
  Overrun,       \* may a handler run longer than its lease?
  MaxCrashes,    \* bound: interruptions and deaths in the middle of work
  MaxClaims,     \* bound: claims of one job
  Idle,          \* a worker outside run_once
  NoLease        \* NULL

Jobs == 1 .. NumJobs

JobStatus == {"absent", "queued", "running", "completed", "failed"}

\* Ticks until a lease may be recovered; 0 means lease_until < now.
LeaseLeft == 0 .. LeaseTicks + 1

Row == [status : JobStatus, attempts : Nat, left : LeaseLeft \cup {NoLease}]

\* Where run_once is: after recover_expired, after the SELECT of claim, in
\* the branch without handler, or awaiting the handler.
Stage == {"recovered", "selected", "rejecting", "handling"}

Frame == [at : Stage, job : Jobs, attempts : Nat, left : LeaseLeft]

ASSUME JobAssumption ==
  /\ NumJobs \in Nat \ {0}
  /\ LeaseTicks \in Nat
  /\ MaxAttempts \in Nat
  /\ Unhandled \subseteq Jobs
  /\ Stoppable \subseteq Workers
  /\ Interleaved \in BOOLEAN
  /\ Overrun \in BOOLEAN
  /\ MaxCrashes \in Nat
  /\ MaxClaims \in Nat
  /\ Idle \notin Frame
  /\ NoLease \notin LeaseLeft

VARIABLES
  job,       \* the jobs table
  worker,    \* each worker's frame inside run_once
  stopping,  \* GracefulShutdown.stopping of each worker
  crashes

jobVars == <<job, worker, stopping, crashes>>

JobTypeOK ==
  /\ job \in [Jobs -> Row]
  /\ worker \in [Workers -> Frame \cup {Idle}]
  /\ stopping \in [Workers -> BOOLEAN]
  /\ crashes \in 0 .. MaxCrashes

JobInit ==
  /\ job = [j \in Jobs |-> [status |-> "absent", attempts |-> 0, left |-> NoLease]]
  /\ worker = [w \in Workers |-> Idle]
  /\ stopping = [w \in Workers |-> FALSE]
  /\ crashes = 0

-----------------------------------------------------------------------------
\* Helpers

At(w, stage) == worker[w] # Idle /\ worker[w].at = stage

\* Within one process no other worker is between its first statement and the
\* await of its handler.
Turn(w) ==
  Interleaved \/ \A v \in Workers \ {w} : worker[v] = Idle \/ At(v, "handling")

Queued == {j \in Jobs : job[j].status = "queued"}

\* Variant: recover_expired without its comparison of lease_until with now.
RecoveredEarly ==
  [j \in Jobs |-> IF job[j].status = "running"
                  THEN [job[j] EXCEPT !.status = "queued", !.left = NoLease]
                  ELSE job[j]]

\* Variant: recover_expired looks for rows without a lease.
RecoveredUnleased ==
  [j \in Jobs |-> IF job[j].status = "running" /\ job[j].left = NoLease
                  THEN [job[j] EXCEPT !.status = "queued"]
                  ELSE job[j]]

\* The table after recover_expired: leases that ran out go back to the queue.
Recovered ==
  [j \in Jobs |-> IF job[j].status = "running" /\ job[j].left = 0
                  THEN [job[j] EXCEPT !.status = "queued", !.left = NoLease]
                  ELSE job[j]]

\* Variant: LIMIT 1 without ORDER BY.
AnyQueued(j) == j \in Queued

\* ORDER BY rowid LIMIT 1
Oldest(j) == \A i \in Queued : j <= i

\* Variant: the lease has run out when it is taken.
ClaimedUnleased(row, left) ==
  [status |-> "running", attempts |-> row.attempts + 1, left |-> 0]

\* The row after the UPDATE of claim().
ClaimedRow(row, left) ==
  [status |-> "running", attempts |-> row.attempts + 1, left |-> left]

\* The row after complete(), and after fail().
CompletedRow(row) == [row EXCEPT !.status = "completed", !.left = NoLease]

FailedRow(row, retry) ==
  [row EXCEPT !.status = IF retry THEN "queued" ELSE "failed", !.left = NoLease]

\* Variant: the limit reached once too late.
RetryOnceMore(attempts) == attempts <= MaxAttempts

Retry(attempts) == attempts < MaxAttempts

-----------------------------------------------------------------------------
\* Actions

Enqueue(j) ==
  /\ job[j].status = "absent"
  /\ \A i \in Jobs : i < j => job[i].status # "absent"
  /\ job' = [job EXCEPT ![j].status = "queued"]
  /\ UNCHANGED <<worker, stopping, crashes>>

\* run_once starts: should_accept() and recover_expired().
RecoverExpired(w) ==
  /\ worker[w] = Idle
  /\ ~stopping[w]
  /\ Turn(w)
  /\ job' = Recovered
  /\ worker' = [worker EXCEPT ![w] =
                  [at |-> "recovered", job |-> 1, attempts |-> 0, left |-> 0]]
  /\ UNCHANGED <<stopping, crashes>>

\* claim() selects the first queued row, or finds none.
Select(w) ==
  /\ At(w, "recovered")
  /\ \/ \E j \in Queued :
          /\ Oldest(j)
          /\ worker' = [worker EXCEPT ![w] =
                          [at |-> "selected", job |-> j, left |-> LeaseTicks + 1,
                           attempts |-> job[j].attempts + 1]]
     \/ Queued = {} /\ worker' = [worker EXCEPT ![w] = Idle]
  /\ UNCHANGED <<job, stopping, crashes>>

\* claim() updates the row if it is still queued, and run_once looks up the
\* handler of its kind.
TakeRow(w) ==
  /\ At(w, "selected")
  /\ LET j == worker[w].job IN
       \/ /\ job[j].status = "queued"
          /\ job[j].attempts < MaxClaims
          /\ job' = [job EXCEPT ![j] = ClaimedRow(@, worker[w].left)]
          /\ worker' = [worker EXCEPT ![w].at =
                          IF j \in Unhandled THEN "rejecting" ELSE "handling"]
       \/ /\ job[j].status # "queued"
          /\ worker' = [worker EXCEPT ![w] = Idle]
          /\ UNCHANGED job
  /\ UNCHANGED <<stopping, crashes>>

\* No handler for the kind: fail without retry.
Reject(w) ==
  /\ At(w, "rejecting")
  /\ job' = [job EXCEPT ![worker[w].job] = FailedRow(@, FALSE)]
  /\ worker' = [worker EXCEPT ![w] = Idle]
  /\ UNCHANGED <<stopping, crashes>>

HandlerSucceeds(w) ==
  /\ At(w, "handling")
  /\ Turn(w)
  /\ job' = [job EXCEPT ![worker[w].job] = CompletedRow(@)]
  /\ worker' = [worker EXCEPT ![w] = Idle]
  /\ UNCHANGED <<stopping, crashes>>

\* The handler raises: the decision to retry uses the claimed Job object.
HandlerRaises(w) ==
  /\ At(w, "handling")
  /\ Turn(w)
  /\ job' = [job EXCEPT ![worker[w].job] = FailedRow(@, Retry(worker[w].attempts))]
  /\ worker' = [worker EXCEPT ![w] = Idle]
  /\ UNCHANGED <<stopping, crashes>>

\* run_once is cancelled, or its last write raises: the row stays as it is.
Interrupt(w) ==
  /\ worker[w] # Idle
  /\ Turn(w)
  /\ crashes < MaxCrashes
  /\ crashes' = crashes + 1
  /\ worker' = [worker EXCEPT ![w] = Idle]
  /\ UNCHANGED <<job, stopping>>

\* The workers that live in the process of w.
Process(w) == IF Interleaved THEN {w} ELSE Workers

\* The process of w dies, with whatever its workers were doing, and starts again: only
\* the table outlives it.
Die(w) ==
  /\ crashes < MaxCrashes
  /\ crashes' = crashes + (IF \A v \in Process(w) : worker[v] = Idle THEN 0 ELSE 1)
  /\ worker' = [v \in Workers |-> IF v \in Process(w) THEN Idle ELSE worker[v]]
  /\ stopping' = [v \in Workers |-> stopping[v] /\ v \notin Process(w)]
  /\ UNCHANGED job

\* Worker.stop()
Stop(w) ==
  /\ w \in Stoppable
  /\ ~stopping[w]
  /\ Turn(w)
  /\ stopping' = [stopping EXCEPT ![w] = TRUE]
  /\ UNCHANGED <<job, worker, crashes>>

Less(left) == IF left = NoLease \/ left = 0 THEN left ELSE left - 1

\* Time passes; unless Overrun, no claim outlives its lease.
Tick ==
  /\ Overrun \/ \A w \in Workers :
       worker[w] # Idle /\ worker[w].at # "recovered" => worker[w].left > 1
  /\ job' = [j \in Jobs |-> [job[j] EXCEPT !.left = Less(@)]]
  /\ worker' = [w \in Workers |-> IF worker[w] = Idle THEN Idle
                                  ELSE [worker[w] EXCEPT !.left = Less(@)]]
  /\ UNCHANGED <<stopping, crashes>>

RunOnce(w) == RecoverExpired(w) \/ Select(w) \/ TakeRow(w) \/ Reject(w)

JobNext ==
  \/ \E j \in Jobs : Enqueue(j)
  \/ \E w \in Workers : RunOnce(w) \/ HandlerSucceeds(w) \/ HandlerRaises(w)
                          \/ Interrupt(w) \/ Die(w) \/ Stop(w)
  \/ Tick

JobSpec == JobInit /\ [][JobNext]_jobVars

-----------------------------------------------------------------------------
\* Safety

\* A worker that claimed a job and has not written its outcome.
Holds(w) == At(w, "handling") \/ At(w, "rejecting")

\* While handlers finish within their lease, a worker owns the job it claimed:
\* the row is running under that worker's lease and no one else holds it.
HandlerOwnsJob ==
  \A w \in Workers : Holds(w) =>
    /\ job[worker[w].job].status = "running"
    /\ job[worker[w].job].left = worker[w].left
    /\ \A v \in Workers \ {w} : Holds(v) => worker[v].job # worker[w].job

\* A job is never started more than max_attempts times.
AttemptsBounded == \A j \in Jobs : job[j].attempts <= MaxAttempts

\* Every claim beyond max_attempts is paid for by an interrupted one: a
\* handler that fails is never retried past the limit.
ExtraAttemptsInterrupted == \A j \in Jobs : job[j].attempts <= MaxAttempts + crashes

-----------------------------------------------------------------------------
\* Action properties

\* A finished job is never queued, run or finished differently afterwards.
FinishedIsFinal ==
  [][\A j \in Jobs : job[j].status \in {"completed", "failed"} => job'[j] = job[j]]_jobVars

\* A job is claimed only when no older job is queued.
OldestFirst ==
  [][\A i, j \in Jobs :
       job'[j].attempts > job[j].attempts /\ i < j => job[i].status # "queued"]_jobVars

-----------------------------------------------------------------------------
\* Liveness: workers keep calling run_once, handlers end and time passes.  The
\* ready queue of the event loop is first in first out, so a worker that waits
\* for its turn again and again gets it: strong fairness.

JobFairness ==
  /\ WF_jobVars(Tick)
  /\ \A w \in Workers : /\ SF_jobVars(RunOnce(w))
                        /\ SF_jobVars(HandlerSucceeds(w) \/ HandlerRaises(w))

FairJobs == JobSpec /\ JobFairness

\* Interrupted or not, every enqueued job is completed or failed in the end.
EveryJobFinishes ==
  \A j \in Jobs : job[j].status = "queued" ~> job[j].status \in {"completed", "failed"}
=============================================================================
