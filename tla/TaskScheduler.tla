---------------------------- MODULE TaskScheduler ----------------------------
(***************************************************************************)
(* The priority scheduler of performance/scheduler.py on an asyncio event  *)
(* loop.  A step runs from one await that suspends to the next: putting    *)
(* into a full queue, getting from an empty one, the operation, the future *)
(* of a submission, the join of drain() and the gather of close().         *)
(* Submissions are numbered by their sequence number.                      *)
(***************************************************************************)
EXTENDS Naturals, FiniteSets

CONSTANTS
  NumTasks,     \* bound: submissions
  Priorities,   \* values of Priority
  NumWorkers,   \* workers
  MaxQueue,     \* max_queue
  Slots,        \* worker tasks; one is reused when nothing refers to it
  Closers,      \* concurrent calls of close()
  Gone          \* a worker task that has ended or was never created

Tasks == 1 .. NumTasks

\* Where a submission is: its put is blocked, its item is queued or taken.
Stage == {"new", "blocked", "queued", "running", "over"}

\* The submission's future.  A cancelled future was cancelled by its caller
\* (withdrawn), by its own operation (aborted) or by close() (cancelled).
Promise == {"pending", "value", "error", "withdrawn", "aborted", "cancelled"}

\* A live worker task: the submission it runs, 0 in get(), and whether close()
\* has cancelled it.
Worker == [task : 0 .. NumTasks, doomed : BOOLEAN]

ClosePlace == {"idle", "draining", "drained", "gathering"}

ASSUME SchedulerAssumption ==
  /\ NumTasks \in Nat \ {0}
  /\ Priorities \subseteq Nat
  /\ NumWorkers \in Nat \ {0}
  /\ MaxQueue \in Nat \ {0}
  /\ IsFiniteSet(Slots)
  /\ Gone \notin Worker

VARIABLES
  stage, priority, promise,  \* of each submission
  worker,                   \* the worker tasks
  crew,                     \* _tasks
  started,                  \* _started
  closer,                   \* where each close() is
  gathered,                 \* the worker tasks each close() waits for
  late,                     \* history: submissions not yet queued when a close() began
  lost                      \* history: workers of the crew that an operation ended

tasks == <<stage, priority, promise>>
closing == <<closer, gathered>>
schedulerVars == <<tasks, worker, crew, started, closing, late, lost>>

SchedulerTypeOK ==
  /\ stage \in [Tasks -> Stage]
  /\ priority \in [Tasks -> Priorities \cup {0}]
  /\ promise \in [Tasks -> Promise]
  /\ worker \in [Slots -> Worker \cup {Gone}]
  /\ crew \in SUBSET Slots
  /\ started \in BOOLEAN
  /\ closer \in [Closers -> ClosePlace]
  /\ gathered \in [Closers -> SUBSET Slots]
  /\ late \in SUBSET Tasks
  /\ lost \in Nat

SchedulerInit ==
  /\ stage = [t \in Tasks |-> "new"]
  /\ priority = [t \in Tasks |-> 0]
  /\ promise = [t \in Tasks |-> "pending"]
  /\ worker = [w \in Slots |-> Gone]
  /\ crew = {}
  /\ started = FALSE
  /\ closer = [c \in Closers |-> "idle"]
  /\ gathered = [c \in Closers |-> {}]
  /\ late = {}
  /\ lost = 0

-----------------------------------------------------------------------------
\* Helpers

QueuedIn(places) == {t \in Tasks : places[t] = "queued"}

Full == Cardinality(QueuedIn(stage)) >= MaxQueue

\* Variant: a queue in arrival order.
BeforeByArrival(t, u) == t < u

\* The order of the tuples in the priority queue.
Before(t, u) == priority[t] < priority[u] \/ (priority[t] = priority[u] /\ t < u)

Waits(w) == worker[w] # Gone /\ worker[w].task = 0 /\ ~worker[w].doomed

Runs(w) == worker[w] # Gone /\ worker[w].task # 0 /\ ~worker[w].doomed

Alive == {w \in Slots : worker[w] # Gone}

\* join() counts items put and not done, not the blocked puts.
Unfinished(places) == {t \in Tasks : places[t] \in {"queued", "running"}}

\* task_done() wakes every drain() when nothing is unfinished.
WakeDrains ==
  closer' = IF Unfinished(stage') = {}
            THEN [c \in Closers |-> IF closer[c] = "draining" THEN "drained" ELSE closer[c]]
            ELSE closer

\* Worker w, done with what it ran (places, futures), loops to its next get():
\* it drops withdrawn items and takes the first other one, or waits.
Fetch(w, places, promises) ==
  LET queue == QueuedIn(places)
      open == {t \in queue : promises[t] = "pending"}
  IN \/ /\ open = {}
        /\ stage' = [t \in Tasks |-> IF t \in queue THEN "over" ELSE places[t]]
        /\ worker' = [worker EXCEPT ![w].task = 0]
     \/ \E t \in open :
          /\ \A u \in open \ {t} : Before(t, u)
          /\ stage' = [u \in Tasks |->
                         IF u = t THEN "running"
                         ELSE IF u \in queue \ open /\ Before(u, t) THEN "over" ELSE places[u]]
          /\ worker' = [worker EXCEPT ![w].task = t]

\* Variant: start() creates one worker less.
CrewShort ==
  IF started THEN UNCHANGED <<worker, crew, started, lost>>
  ELSE /\ started' = TRUE
       /\ lost' = 0
       /\ \E hired \in SUBSET {w \in Slots :
                                 worker[w] = Gone /\ \A c \in Closers : w \notin gathered[c]} :
            /\ Cardinality(hired) = NumWorkers - 1
            /\ crew' = hired
            /\ worker' = [w \in Slots |-> IF w \in hired
                                          THEN [task |-> 0, doomed |-> FALSE]
                                          ELSE worker[w]]

\* start()
CrewHired ==
  IF started THEN UNCHANGED <<worker, crew, started, lost>>
  ELSE /\ started' = TRUE
       /\ lost' = 0
       /\ \E hired \in SUBSET {w \in Slots :
                                 worker[w] = Gone /\ \A c \in Closers : w \notin gathered[c]} :
            /\ Cardinality(hired) = NumWorkers
            /\ crew' = hired
            /\ worker' = [w \in Slots |-> IF w \in hired
                                          THEN [task |-> 0, doomed |-> FALSE]
                                          ELSE worker[w]]

\* Variant: an operation that fails leaves the future of a submission pending.
SettledOnValue(t, result) ==
  [promise EXCEPT ![t] = IF @ = "pending" /\ result = "value" THEN result ELSE @]

\* The future takes the first result it is given.
Settled(t, result) == [promise EXCEPT ![t] = IF @ = "pending" THEN result ELSE @]

-----------------------------------------------------------------------------
\* Submissions

Submit(t, p) ==
  /\ stage[t] = "new"
  /\ \A u \in Tasks : u < t => stage[u] # "new"
  /\ CrewHired
  /\ priority' = [priority EXCEPT ![t] = p]
  /\ stage' = [stage EXCEPT ![t] = IF Full THEN "blocked" ELSE "queued"]
  /\ late' = IF \A c \in Closers : closer[c] = "idle" THEN late ELSE late \cup {t}
  /\ UNCHANGED <<promise, closing>>

\* A blocked put resumes and finds room.
Enter(t) ==
  /\ stage[t] = "blocked"
  /\ ~Full
  /\ stage' = [stage EXCEPT ![t] = "queued"]
  /\ UNCHANGED <<priority, promise, worker, crew, started, closing, late, lost>>

\* The task that called submit() is cancelled.
Withdraw(t) ==
  /\ stage[t] \in {"blocked", "queued", "running"}
  /\ promise[t] = "pending"
  /\ promise' = [promise EXCEPT ![t] = "withdrawn"]
  /\ stage' = IF stage[t] = "blocked" THEN [stage EXCEPT ![t] = "over"] ELSE stage
  /\ UNCHANGED <<priority, worker, crew, started, closing, late, lost>>

-----------------------------------------------------------------------------
\* Workers

Take(w) ==
  /\ Waits(w)
  /\ QueuedIn(stage) # {}
  /\ Fetch(w, stage, promise)
  /\ WakeDrains
  /\ UNCHANGED <<priority, promise, crew, started, gathered, late, lost>>

\* The operation returns or raises, and the worker goes on.
OperationEnds(w, result) ==
  /\ Runs(w)
  /\ promise' = Settled(worker[w].task, result)
  /\ Fetch(w, [stage EXCEPT ![worker[w].task] = "over"], promise')
  /\ WakeDrains
  /\ UNCHANGED <<priority, crew, started, gathered, late, lost>>

\* The worker leaves its loop with CancelledError.
Die(w, result) ==
  /\ worker' = [worker EXCEPT ![w] = Gone]
  /\ IF worker[w].task = 0
     THEN UNCHANGED <<stage, promise, closer>>
     ELSE /\ promise' = Settled(worker[w].task, result)
          /\ stage' = [stage EXCEPT ![worker[w].task] = "over"]
          /\ WakeDrains
  /\ UNCHANGED <<priority, crew, started, gathered, late>>

\* The operation itself ends in CancelledError: the worker re-raises it.
OperationCancelled(w) ==
  /\ Runs(w)
  /\ Die(w, "aborted")
  /\ lost' = lost + 1

\* A worker that close() cancelled resumes.
WorkerCancelled(w) ==
  /\ worker[w] # Gone
  /\ worker[w].doomed
  /\ Die(w, "cancelled")
  /\ UNCHANGED lost

-----------------------------------------------------------------------------
\* close()

CancelCrew(c) ==
  /\ worker' = [w \in Slots |-> IF w \in crew \cap Alive
                                THEN [worker[w] EXCEPT !.doomed = TRUE] ELSE worker[w]]
  /\ gathered' = [gathered EXCEPT ![c] = crew]
  /\ closer' = [closer EXCEPT ![c] = "gathering"]

\* Variant: close() does not drain.
DrainSkipped == TRUE

NothingToDrain == Unfinished(stage) = {}

Close(c) ==
  /\ closer[c] = "idle"
  /\ started
  /\ IF NothingToDrain THEN CancelCrew(c)
     ELSE /\ closer' = [closer EXCEPT ![c] = "draining"]
          /\ UNCHANGED <<worker, gathered>>
  /\ late' = late \cup {t \in Tasks : stage[t] = "blocked"}
  /\ UNCHANGED <<tasks, crew, started, lost>>

\* drain() returns, whatever was submitted since it was woken.
CloseDrained(c) ==
  /\ closer[c] = "drained"
  /\ CancelCrew(c)
  /\ UNCHANGED <<tasks, crew, started, late, lost>>

CloseEnds(c) ==
  /\ closer[c] = "gathering"
  /\ \A w \in gathered[c] : worker[w] = Gone
  /\ closer' = [closer EXCEPT ![c] = "idle"]
  /\ gathered' = [gathered EXCEPT ![c] = {}]
  /\ crew' = {}
  /\ started' = FALSE
  /\ UNCHANGED <<tasks, worker, late, lost>>

SchedulerNext ==
  \/ \E t \in Tasks : (\E p \in Priorities : Submit(t, p)) \/ Enter(t) \/ Withdraw(t)
  \/ \E w \in Slots : \/ Take(w)
                      \/ \E result \in {"value", "error"} : OperationEnds(w, result)
                      \/ OperationCancelled(w)
                      \/ WorkerCancelled(w)
  \/ \E c \in Closers : Close(c) \/ CloseDrained(c) \/ CloseEnds(c)

SchedulerSpec == SchedulerInit /\ [][SchedulerNext]_schedulerVars

-----------------------------------------------------------------------------
\* Safety

\* While the scheduler is open its crew is complete but for the workers that an
\* operation ended with CancelledError: restarts neither add nor drop any.
FixedCrew ==
  started /\ (\A c \in Closers : closer[c] # "gathering") =>
    Cardinality(Alive) + lost = NumWorkers

\* close() cancels no submission that was in the queue when it was called, and
\* whatever is over was answered.
AcceptedIsAnswered ==
  \A t \in Tasks : /\ promise[t] = "cancelled" => t \in late
                   /\ stage[t] = "over" => promise[t] # "pending"

\* A submission starts only when no more urgent one, or equally urgent and
\* earlier one, is queued and still wanted.
UrgentFirst ==
  [][\A t, u \in Tasks :
       /\ stage[t] = "queued" /\ stage'[t] = "running"
       /\ stage[u] = "queued" /\ promise[u] = "pending"
       => priority[t] < priority[u] \/ (priority[t] = priority[u] /\ t <= u)]_schedulerVars

-----------------------------------------------------------------------------
\* Liveness, when operations end and the event loop resumes whoever can go on.

\* Every submission is answered, blocked puts included, unless it is late for a
\* close() or operations have ended the whole crew.
EverySubmissionEnds ==
  \A t \in Tasks :
    stage[t] # "new" ~> promise[t] # "pending" \/ t \in late \/ lost = NumWorkers
=============================================================================
