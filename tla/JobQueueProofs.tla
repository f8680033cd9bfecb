---------------------------- MODULE JobQueueProofs ----------------------------
(***************************************************************************)
(* Proofs about JobQueue for every number of jobs, workers, processes,     *)
(* ticks of a lease, attempts, interruptions and deaths of processes.      *)
(***************************************************************************)
EXTENDS JobMetrics, FiniteSetTheorems, TLAPS

-----------------------------------------------------------------------------
\* Typing

\* The rows the transactions write are well typed.
LEMMA RowTypes ==
  ASSUME JobAssumption, NEW row \in Row
  PROVE  /\ CompletedRow(row) \in Row
         /\ \A retry \in BOOLEAN : FailedRow(row, retry) \in Row
         /\ \A left \in LeaseLeft : ClaimedRow(row, left) \in Row
         /\ [row EXCEPT !.left = Less(@)] \in Row
  <1>1. \A left \in LeaseLeft : left # 0 => left - 1 \in LeaseLeft
    BY DEF LeaseLeft, JobAssumption
  <1>2. Less(row.left) \in LeaseLeft \cup {NoLease}
    BY <1>1 DEF Less, Row
  <1>3. CompletedRow(row) \in Row
    BY DEF CompletedRow, Row, JobStatus
  <1>4. \A retry \in BOOLEAN : FailedRow(row, retry) \in Row
    BY DEF FailedRow, Row, JobStatus
  <1>5. \A left \in LeaseLeft : ClaimedRow(row, left) \in Row
    BY DEF ClaimedRow, Row, JobStatus
  <1>6. [row EXCEPT !.left = Less(@)] \in Row
    BY <1>2 DEF Row
  <1> QED
    BY <1>3, <1>4, <1>5, <1>6

\* Each worker's frame stays a frame when a tick passes.
LEMMA FrameTick ==
  ASSUME JobAssumption, NEW f \in Frame
  PROVE  /\ [f EXCEPT !.left = Less(@)] \in Frame
         /\ f.left > 1 => Less(f.left) >= 1
  <1>1. f.left # NoLease
    BY DEF JobAssumption, Frame
  <1>2. Less(f.left) \in LeaseLeft
    BY <1>1 DEF Less, Frame, LeaseLeft
  <1> QED
    BY <1>1, <1>2 DEF Frame, Less, LeaseLeft, JobAssumption

\* A process that dies leaves the table, and its workers outside run_once; where one
\* process has all the workers, either one of them was busy or nothing changes.
LEMMA DeathIdles ==
  ASSUME JobTypeOK, NEW w \in Workers, Die(w)
  PROVE  /\ job' = job /\ crashes < MaxCrashes
         /\ \A v \in Workers : worker'[v] \in {worker[v], Idle}
         /\ \A v \in Workers : /\ Holds(v)' => Holds(v) /\ worker'[v] = worker[v]
                               /\ At(v, "selected")' => At(v, "selected") /\ worker'[v] = worker[v]
         /\ ~Interleaved => /\ \A v \in Workers : worker'[v] = Idle
                            /\ crashes' = crashes + 1 \/ (worker' = worker /\ crashes' = crashes)
  <1>1. \A v \in Workers : worker'[v] = IF v \in Process(w) THEN Idle ELSE worker[v]
    BY DEF Die
  <1>2. ASSUME ~Interleaved
        PROVE  crashes' = crashes + 1 \/ (worker' = worker /\ crashes' = crashes)
    <2>1. Process(w) = Workers
      BY <1>2 DEF Process
    <2>2. CASE \A v \in Workers : worker[v] = Idle
      <3>1. crashes' = crashes + 0 /\ crashes \in Nat
        BY <2>1, <2>2 DEF Die, JobTypeOK
      <3>2. worker' = worker
        BY <2>1, <2>2 DEF Die, JobTypeOK
      <3> QED
        BY <3>1, <3>2
    <2>3. CASE ~\A v \in Workers : worker[v] = Idle
      BY <2>1, <2>3 DEF Die
    <2> QED
      BY <2>2, <2>3
  <1> QED
    BY <1>1, <1>2 DEF Die, Process, Holds, At

\* The jobs table and the workers' frames keep their types, in any number of
\* processes, whatever is interrupted.
THEOREM TypeCorrect == JobSpec => []JobTypeOK
  <1> USE JobAssumption
  <1>1. JobInit => JobTypeOK
    BY DEF JobInit, JobTypeOK, Row, JobStatus, JobAssumption
  <1>2. JobTypeOK /\ [JobNext]_jobVars => JobTypeOK'
    <2> SUFFICES ASSUME JobTypeOK, [JobNext]_jobVars PROVE JobTypeOK'
      OBVIOUS
    <2>1. ASSUME NEW j \in Jobs, Enqueue(j) PROVE JobTypeOK'
      BY <2>1 DEF Enqueue, JobTypeOK, Row, JobStatus
    <2>2. ASSUME NEW w \in Workers, RecoverExpired(w) PROVE JobTypeOK'
      <3>1. job' \in [Jobs -> Row]
        BY <2>2 DEF RecoverExpired, Recovered, JobTypeOK, Row, JobStatus
      <3>2. [at |-> "recovered", job |-> 1, attempts |-> 0, left |-> 0] \in Frame
        BY DEF Frame, Stage, LeaseLeft, Jobs, JobAssumption
      <3> QED
        BY <2>2, <3>1, <3>2 DEF RecoverExpired, JobTypeOK
    <2>3. ASSUME NEW w \in Workers, Select(w) PROVE JobTypeOK'
      <3>1. CASE worker' = [worker EXCEPT ![w] = Idle]
        BY <2>3, <3>1 DEF Select, JobTypeOK
      <3>2. ASSUME NEW j \in Queued,
                   worker' = [worker EXCEPT ![w] =
                                [at |-> "selected", job |-> j, left |-> LeaseTicks + 1,
                                 attempts |-> job[j].attempts + 1]]
            PROVE  JobTypeOK'
        <4>1. j \in Jobs /\ job[j] \in Row
          BY DEF Queued, JobTypeOK
        <4>2. LeaseTicks + 1 \in LeaseLeft /\ job[j].attempts + 1 \in Nat
          BY <4>1 DEF LeaseLeft, Row, JobAssumption
        <4> QED
          BY <2>3, <3>2, <4>1, <4>2 DEF Select, JobTypeOK, Frame, Stage
      <3> QED
        BY <2>3, <3>1, <3>2 DEF Select
    <2>4. ASSUME NEW w \in Workers, TakeRow(w) PROVE JobTypeOK'
      <3>1. worker[w] \in Frame
        BY <2>4 DEF TakeRow, At, JobTypeOK
      <3>2. ClaimedRow(job[worker[w].job], worker[w].left) \in Row
        BY <3>1, RowTypes DEF Frame, JobTypeOK
      <3>3. job' \in [Jobs -> Row]
        BY <2>4, <3>2 DEF TakeRow, JobTypeOK
      <3>4. worker' \in [Workers -> Frame \cup {Idle}]
        BY <2>4, <3>1 DEF TakeRow, JobTypeOK, Frame, Stage
      <3> QED
        BY <2>4, <3>3, <3>4 DEF TakeRow, JobTypeOK
    <2>5. ASSUME NEW w \in Workers, Reject(w) PROVE JobTypeOK'
      <3>1. worker[w] \in Frame
        BY <2>5 DEF Reject, At, JobTypeOK
      <3>2. FailedRow(job[worker[w].job], FALSE) \in Row
        BY <3>1, RowTypes DEF Frame, JobTypeOK
      <3> QED
        BY <2>5, <3>2 DEF Reject, JobTypeOK
    <2>6. ASSUME NEW w \in Workers, HandlerSucceeds(w) PROVE JobTypeOK'
      <3>1. worker[w] \in Frame
        BY <2>6 DEF HandlerSucceeds, At, JobTypeOK
      <3>2. CompletedRow(job[worker[w].job]) \in Row
        BY <3>1, RowTypes DEF Frame, JobTypeOK
      <3> QED
        BY <2>6, <3>2 DEF HandlerSucceeds, JobTypeOK
    <2>7. ASSUME NEW w \in Workers, HandlerRaises(w) PROVE JobTypeOK'
      <3>1. worker[w] \in Frame
        BY <2>7 DEF HandlerRaises, At, JobTypeOK
      <3>2. Retry(worker[w].attempts) \in BOOLEAN
        BY DEF Retry
      <3>3. FailedRow(job[worker[w].job], Retry(worker[w].attempts)) \in Row
        BY <3>1, <3>2, RowTypes DEF Frame, JobTypeOK
      <3> QED
        BY <2>7, <3>3 DEF HandlerRaises, JobTypeOK
    <2>8. ASSUME NEW w \in Workers, Interrupt(w) PROVE JobTypeOK'
      BY <2>8 DEF Interrupt, JobTypeOK, JobAssumption
    <2>9. ASSUME NEW w \in Workers, Stop(w) PROVE JobTypeOK'
      BY <2>9 DEF Stop, JobTypeOK
    <2>10. CASE Tick
      <3>1. job' \in [Jobs -> Row]
        BY <2>10, RowTypes DEF Tick, JobTypeOK
      <3>2. worker' \in [Workers -> Frame \cup {Idle}]
        BY <2>10, FrameTick DEF Tick, JobTypeOK
      <3> QED
        BY <2>10, <3>1, <3>2 DEF Tick, JobTypeOK
    <2>11. CASE UNCHANGED jobVars
      BY <2>11 DEF jobVars, JobTypeOK
    <2>12. ASSUME NEW w \in Workers, Die(w) PROVE JobTypeOK'
      <3>1. crashes' \in 0 .. MaxCrashes
        BY <2>12 DEF Die, JobTypeOK, JobAssumption
      <3>2. worker' \in [Workers -> Frame \cup {Idle}] /\ stopping' \in [Workers -> BOOLEAN]
        BY <2>12 DEF Die, JobTypeOK
      <3> QED
        BY <2>12, <3>1, <3>2 DEF Die, JobTypeOK
    <2> QED
      BY <2>1, <2>2, <2>3, <2>4, <2>5, <2>6, <2>7, <2>8, <2>9, <2>10, <2>11, <2>12
         DEF JobNext, RunOnce
  <1> QED
    BY <1>1, <1>2, PTL DEF JobSpec

-----------------------------------------------------------------------------
\* Ownership

\* A worker that selected or holds a job has a lease that has not run out.
LeasesHold ==
  \A w \in Workers : worker[w] # Idle /\ worker[w].at # "recovered" => worker[w].left >= 1

FinishedUnleased ==
  \A j \in Jobs : job[j].status \in {"completed", "failed"} => job[j].left = NoLease

\* HandlerOwnsJob is not inductive alone: recover_expired could take the row of
\* a handler whose lease ran out, and time could touch a finished row.
OwnershipInv == HandlerOwnsJob /\ LeasesHold /\ FinishedUnleased

\* A worker that holds a job is in a frame.
LEMMA HolderFrame ==
  ASSUME JobTypeOK, NEW w \in Workers, Holds(w)
  PROVE  /\ worker[w] \in Frame
         /\ worker[w].job \in Jobs
         /\ worker[w] # Idle
         /\ worker[w].at # "recovered"
  BY DEF JobTypeOK, Holds, At, Frame

\* The last write of a holder ends its own hold and touches no one else's.
LEMMA ReleaseKeepsOwnership ==
  ASSUME JobTypeOK, JobTypeOK', OwnershipInv, NEW w \in Workers, Holds(w), NEW row,
         row.left = NoLease,
         job' = [job EXCEPT ![worker[w].job] = row],
         worker' = [worker EXCEPT ![w] = Idle]
  PROVE  OwnershipInv'
  <1>1. worker'[w] = Idle /\ \A v \in Workers \ {w} : worker'[v] = worker[v]
    BY DEF JobTypeOK
  <1>2. \A v \in Workers : Holds(v)' => v # w /\ Holds(v)
    BY <1>1 DEF Holds, At
  <1>3. \A v \in Workers \ {w} :
          Holds(v) => job'[worker[v].job] = job[worker[v].job]
    <2> SUFFICES ASSUME NEW v \in Workers \ {w}, Holds(v)
                 PROVE  job'[worker[v].job] = job[worker[v].job]
      OBVIOUS
    <2>1. worker[v].job # worker[w].job
      BY DEF OwnershipInv, HandlerOwnsJob
    <2>2. worker[v].job \in Jobs
      BY HolderFrame
    <2> QED
      BY <2>1, <2>2 DEF JobTypeOK
  <1>4. HandlerOwnsJob'
    BY <1>1, <1>2, <1>3 DEF OwnershipInv, HandlerOwnsJob
  <1>5. LeasesHold'
    BY <1>1 DEF OwnershipInv, LeasesHold
  <1>6. FinishedUnleased'
    BY DEF OwnershipInv, FinishedUnleased, JobTypeOK
  <1> QED
    BY <1>4, <1>5, <1>6 DEF OwnershipInv

\* A worker that leaves run_once, or has only selected a row, holds nothing;
\* the holders keep their jobs as long as the table keeps their rows.
LEMMA StepKeepsOwnership ==
  ASSUME JobTypeOK, OwnershipInv, NEW w \in Workers, NEW frame,
         worker' = [worker EXCEPT ![w] = frame],
         frame = Idle \/ frame.at \in {"recovered", "selected"},
         frame # Idle /\ frame.at # "recovered" => frame.left >= 1,
         \A v \in Workers : Holds(v) => job'[worker[v].job] = job[worker[v].job],
         FinishedUnleased'
  PROVE  OwnershipInv'
  <1>1. worker'[w] = frame /\ \A v \in Workers \ {w} : worker'[v] = worker[v]
    BY DEF JobTypeOK
  <1>2. \A v \in Workers : Holds(v)' => v # w /\ Holds(v)
    BY <1>1 DEF Holds, At
  <1>3. HandlerOwnsJob'
    BY <1>1, <1>2 DEF OwnershipInv, HandlerOwnsJob
  <1>4. LeasesHold'
    BY <1>1 DEF OwnershipInv, LeasesHold
  <1> QED
    BY <1>3, <1>4 DEF OwnershipInv

LEMMA OwnershipInductive == ASSUME ~Overrun PROVE JobSpec => []OwnershipInv
  <1> USE JobAssumption
  <1>1. JobInit => OwnershipInv
    BY DEF JobInit, OwnershipInv, HandlerOwnsJob, LeasesHold, FinishedUnleased, Holds, At
  <1>2. JobTypeOK /\ JobTypeOK' /\ OwnershipInv /\ [JobNext]_jobVars => OwnershipInv'
    <2> SUFFICES ASSUME JobTypeOK, JobTypeOK', OwnershipInv, [JobNext]_jobVars PROVE OwnershipInv'
      OBVIOUS
    <2>1. ASSUME NEW j \in Jobs, Enqueue(j) PROVE OwnershipInv'
      BY <2>1 DEF Enqueue, OwnershipInv, HandlerOwnsJob, LeasesHold, FinishedUnleased,
                  JobTypeOK, Holds, At
    <2>2. ASSUME NEW w \in Workers, RecoverExpired(w) PROVE OwnershipInv'
      <3>1. \A v \in Workers : Holds(v) => job'[worker[v].job] = job[worker[v].job]
        <4> SUFFICES ASSUME NEW v \in Workers, Holds(v)
                     PROVE  job'[worker[v].job] = job[worker[v].job]
          OBVIOUS
        <4>1. worker[v].job \in Jobs /\ worker[v].left >= 1
          BY HolderFrame DEF OwnershipInv, LeasesHold
        <4>2. job[worker[v].job].left # 0
          BY <4>1 DEF OwnershipInv, HandlerOwnsJob
        <4> QED
          BY <2>2, <4>1, <4>2 DEF RecoverExpired, Recovered
      <3>2. FinishedUnleased'
        <4>1. \A j \in Jobs : job'[j] = job[j] \/ job'[j].status = "queued"
          <5> SUFFICES ASSUME NEW j \in Jobs
                       PROVE  job'[j] = job[j] \/ job'[j].status = "queued"
            OBVIOUS
          <5>1. [job[j] EXCEPT !.status = "queued", !.left = NoLease].status = "queued"
            BY DEF JobTypeOK, Row
          <5> QED
            BY <2>2, <5>1 DEF RecoverExpired, Recovered
        <4> QED
          BY <4>1 DEF OwnershipInv, FinishedUnleased
      <3> DEFINE frame == [at |-> "recovered", job |-> 1, attempts |-> 0, left |-> 0]
      <3>3. worker' = [worker EXCEPT ![w] = frame] /\ frame.at = "recovered"
        BY <2>2 DEF RecoverExpired
      <3> HIDE DEF frame
      <3> QED
        BY <3>1, <3>2, <3>3, StepKeepsOwnership
    <2>3. ASSUME NEW w \in Workers, Select(w) PROVE OwnershipInv'
      <3>1. job' = job
        BY <2>3 DEF Select
      <3>2. FinishedUnleased'
        BY <3>1 DEF OwnershipInv, FinishedUnleased
      <3>3. CASE worker' = [worker EXCEPT ![w] = Idle]
        BY <3>1, <3>2, <3>3, StepKeepsOwnership
      <3>4. ASSUME NEW j \in Queued,
                   worker' = [worker EXCEPT ![w] =
                                [at |-> "selected", job |-> j, left |-> LeaseTicks + 1,
                                 attempts |-> job[j].attempts + 1]]
            PROVE  OwnershipInv'
        <4> DEFINE frame == [at |-> "selected", job |-> j, left |-> LeaseTicks + 1,
                             attempts |-> job[j].attempts + 1]
        <4>1. frame.left >= 1 /\ frame.at = "selected"
          BY DEF JobAssumption
        <4>2. worker' = [worker EXCEPT ![w] = frame]
          BY <3>4
        <4> HIDE DEF frame
        <4> QED
          BY <3>1, <3>2, <4>1, <4>2, StepKeepsOwnership
      <3> QED
        BY <2>3, <3>3, <3>4 DEF Select
    <2>4. ASSUME NEW w \in Workers, TakeRow(w) PROVE OwnershipInv'
      <3> DEFINE j == worker[w].job
      <3>1. /\ worker[w] \in Frame /\ j \in Jobs /\ worker[w].left >= 1
            /\ ~Holds(w)
        BY <2>4 DEF TakeRow, At, Holds, JobTypeOK, Frame, OwnershipInv, LeasesHold
      <3>2. CASE job[j].status # "queued"
        <4>1. job' = job /\ worker' = [worker EXCEPT ![w] = Idle]
          BY <2>4, <3>2 DEF TakeRow
        <4>2. FinishedUnleased'
          BY <4>1 DEF OwnershipInv, FinishedUnleased
        <4> QED
          BY <4>1, <4>2, StepKeepsOwnership
      <3>3. CASE job[j].status = "queued"
        <4>1. /\ job' = [job EXCEPT ![j] = ClaimedRow(@, worker[w].left)]
              /\ worker' = [worker EXCEPT ![w].at = IF j \in Unhandled THEN "rejecting"
                                                   ELSE "handling"]
          BY <2>4, <3>3 DEF TakeRow
        <4>2. /\ worker'[w].job = j /\ worker'[w].left = worker[w].left
              /\ worker'[w].at # "recovered"
              /\ \A v \in Workers \ {w} : worker'[v] = worker[v]
          BY <3>1, <4>1 DEF JobTypeOK, Frame
        <4>3. \A v \in Workers \ {w} : Holds(v)' => Holds(v) /\ worker[v].job # j
          BY <3>3, <4>2 DEF Holds, At, OwnershipInv, HandlerOwnsJob
        <4>4. job'[j].status = "running" /\ job'[j].left = worker[w].left
          BY <3>1, <4>1 DEF ClaimedRow, JobTypeOK
        <4>5. \A v \in Workers \ {w} : Holds(v) => worker[v].job \in Jobs
          BY HolderFrame
        <4>6. \A i \in Jobs \ {j} : job'[i] = job[i]
          BY <4>1 DEF JobTypeOK
        <4> HIDE DEF j
        <4>7. HandlerOwnsJob'
          BY <4>2, <4>3, <4>4, <4>5, <4>6 DEF OwnershipInv, HandlerOwnsJob
        <4>8. LeasesHold'
          BY <3>1, <4>2 DEF OwnershipInv, LeasesHold
        <4>9. FinishedUnleased'
          BY <4>4, <4>6 DEF OwnershipInv, FinishedUnleased
        <4> QED
          BY <4>7, <4>8, <4>9 DEF OwnershipInv
      <3> QED
        BY <3>2, <3>3
    <2>5. ASSUME NEW w \in Workers,
                 Reject(w) \/ HandlerSucceeds(w) \/ HandlerRaises(w)
          PROVE  OwnershipInv'
      <3>1. Holds(w)
        BY <2>5 DEF Reject, HandlerSucceeds, HandlerRaises, Holds
      <3>2. PICK row : /\ row.left = NoLease
                       /\ job' = [job EXCEPT ![worker[w].job] = row]
                       /\ worker' = [worker EXCEPT ![w] = Idle]
        <4>1. job[worker[w].job] \in Row
          BY <3>1, HolderFrame DEF JobTypeOK
        <4>2. /\ CompletedRow(job[worker[w].job]).left = NoLease
              /\ FailedRow(job[worker[w].job], FALSE).left = NoLease
              /\ FailedRow(job[worker[w].job], Retry(worker[w].attempts)).left = NoLease
          BY <4>1 DEF CompletedRow, FailedRow, Row
        <4>3. CASE Reject(w)
          BY <4>2, <4>3 DEF Reject
        <4>4. CASE HandlerSucceeds(w)
          BY <4>2, <4>4 DEF HandlerSucceeds
        <4>5. CASE HandlerRaises(w)
          BY <4>2, <4>5 DEF HandlerRaises
        <4> QED
          BY <2>5, <4>3, <4>4, <4>5
      <3> QED
        BY <3>1, <3>2, ReleaseKeepsOwnership
    <2>6. ASSUME NEW w \in Workers, Interrupt(w) PROVE OwnershipInv'
      <3>1. job' = job /\ worker' = [worker EXCEPT ![w] = Idle]
        BY <2>6 DEF Interrupt
      <3>2. FinishedUnleased'
        BY <3>1 DEF OwnershipInv, FinishedUnleased
      <3> QED
        BY <3>1, <3>2, StepKeepsOwnership
    <2>7. CASE Tick
      <3>1. /\ \A w \in Workers : worker'[w] = IF worker[w] = Idle THEN Idle
                                   ELSE [worker[w] EXCEPT !.left = Less(@)]
            /\ \A j \in Jobs : job'[j] = [job[j] EXCEPT !.left = Less(@)]
        BY <2>7 DEF Tick
      <3>2. \A w \in Workers :
              worker[w] # Idle => /\ worker'[w] \in Frame
                                  /\ worker'[w].at = worker[w].at
                                  /\ worker'[w].job = worker[w].job
                                  /\ worker'[w].left = Less(worker[w].left)
        BY <3>1, FrameTick DEF JobTypeOK, Frame
      <3>3. \A j \in Jobs : /\ job'[j].status = job[j].status
                            /\ job'[j].left = Less(job[j].left)
        BY <3>1 DEF JobTypeOK, Row
      <3>4. \A w \in Workers : /\ worker[w] = Idle => worker'[w] = Idle
                               /\ Holds(w)' => Holds(w)
        BY <3>1, <3>2 DEF Holds, At
      <3>5. HandlerOwnsJob'
        <4> SUFFICES ASSUME NEW w \in Workers, Holds(w)'
                     PROVE  /\ job'[worker'[w].job].status = "running"
                            /\ job'[worker'[w].job].left = worker'[w].left
                            /\ \A v \in Workers \ {w} :
                                 Holds(v)' => worker'[v].job # worker'[w].job
          BY DEF HandlerOwnsJob
        <4>1. Holds(w) /\ worker[w] # Idle /\ worker[w].job \in Jobs
          BY <3>4, HolderFrame
        <4>2. \A v \in Workers : Holds(v)' => Holds(v) /\ worker[v] # Idle
          BY <3>4, HolderFrame
        <4> QED
          BY <3>2, <3>3, <4>1, <4>2 DEF OwnershipInv, HandlerOwnsJob
      <3>6. LeasesHold'
        <4> SUFFICES ASSUME NEW w \in Workers, worker'[w] # Idle, worker'[w].at # "recovered"
                     PROVE  worker'[w].left >= 1
          BY DEF LeasesHold
        <4>1. worker[w] # Idle /\ worker[w] \in Frame /\ worker[w].at # "recovered"
          BY <3>2, <3>4 DEF JobTypeOK
        <4>2. worker[w].left > 1
          BY <2>7, <4>1 DEF Tick
        <4> QED
          BY <3>2, <4>1, <4>2, FrameTick
      <3>7. FinishedUnleased'
        BY <3>3 DEF OwnershipInv, FinishedUnleased, Less
      <3> QED
        BY <3>5, <3>6, <3>7 DEF OwnershipInv
    <2>8. CASE UNCHANGED jobVars \/ \E w \in Workers : Stop(w)
      <3>1. job' = job /\ worker' = worker
        BY <2>8 DEF jobVars, Stop
      <3> QED
        BY <3>1 DEF OwnershipInv, HandlerOwnsJob, LeasesHold, FinishedUnleased, Holds, At
    <2>9. ASSUME NEW w \in Workers, Die(w) PROVE OwnershipInv'
      <3>1. HandlerOwnsJob'
        BY <2>9, DeathIdles DEF OwnershipInv, HandlerOwnsJob
      <3>2. LeasesHold'
        BY <2>9, DeathIdles DEF OwnershipInv, LeasesHold
      <3>3. FinishedUnleased'
        BY <2>9, DeathIdles DEF OwnershipInv, FinishedUnleased
      <3> QED
        BY <3>1, <3>2, <3>3 DEF OwnershipInv
    <2> QED
      BY <2>1, <2>2, <2>3, <2>4, <2>5, <2>6, <2>7, <2>8, <2>9 DEF JobNext, RunOnce
  <1> QED
    BY <1>1, <1>2, TypeCorrect, PTL DEF JobSpec

\* While handlers finish within their lease, no job is held by two workers and
\* none is queued, completed or failed under its handler, whatever crashes.
THEOREM HandlersOwnTheirJobs == ASSUME ~Overrun PROVE JobSpec => []HandlerOwnsJob
  <1>1. OwnershipInv => HandlerOwnsJob
    BY DEF OwnershipInv
  <1> QED
    BY <1>1, OwnershipInductive, PTL

\* While handlers finish within their lease, a completed or failed row is
\* never written again: no second completion, no retry of a finished job.
THEOREM FinishedJobsAreFinal == ASSUME ~Overrun PROVE JobSpec => FinishedIsFinal
  <1> USE JobAssumption
  <1> DEFINE Final == \A j \in Jobs :
                        job[j].status \in {"completed", "failed"} => job'[j] = job[j]
  <1>1. JobTypeOK /\ OwnershipInv /\ [JobNext]_jobVars => [Final]_jobVars
    <2> SUFFICES ASSUME JobTypeOK, OwnershipInv, [JobNext]_jobVars,
                        NEW j \in Jobs, job[j].status \in {"completed", "failed"}
                 PROVE  job'[j] = job[j]
      OBVIOUS
    <2>1. ASSUME NEW i \in Jobs, Enqueue(i) PROVE job'[j] = job[j]
      BY <2>1 DEF Enqueue, JobTypeOK
    <2>2. ASSUME NEW w \in Workers, RecoverExpired(w) PROVE job'[j] = job[j]
      BY <2>2 DEF RecoverExpired, Recovered
    <2>3. ASSUME NEW w \in Workers, Select(w) \/ Interrupt(w) \/ Die(w) \/ Stop(w)
          PROVE  job'[j] = job[j]
      BY <2>3 DEF Select, Interrupt, Die, Stop
    <2>4. ASSUME NEW w \in Workers, TakeRow(w) PROVE job'[j] = job[j]
      BY <2>4 DEF TakeRow, JobTypeOK
    <2>5. ASSUME NEW w \in Workers,
                 Reject(w) \/ HandlerSucceeds(w) \/ HandlerRaises(w)
          PROVE  job'[j] = job[j]
      <3>1. job[worker[w].job].status = "running"
        BY <2>5 DEF Reject, HandlerSucceeds, HandlerRaises, Holds, OwnershipInv, HandlerOwnsJob
      <3>2. worker[w].job # j
        BY <3>1
      <3> QED
        BY <2>5, <3>2 DEF Reject, HandlerSucceeds, HandlerRaises, JobTypeOK
    <2>6. CASE Tick
      <3>1. job[j] \in Row /\ job[j].left = NoLease
        BY DEF OwnershipInv, FinishedUnleased, JobTypeOK
      <3>2. job'[j] = [job[j] EXCEPT !.left = NoLease]
        BY <2>6, <3>1 DEF Tick, Less
      <3> QED
        BY <3>1, <3>2 DEF Row
    <2>7. CASE UNCHANGED jobVars
      BY <2>7 DEF jobVars
    <2> QED
      BY <2>1, <2>2, <2>3, <2>4, <2>5, <2>6, <2>7 DEF JobNext, RunOnce
  <1> QED
    BY <1>1, TypeCorrect, OwnershipInductive, PTL DEF JobSpec, FinishedIsFinal

-----------------------------------------------------------------------------
\* Attempts, for the workers of one process

\* Only one worker is between its first statement and the await of its handler.
OneTurn ==
  \A v, w \in Workers :
    v # w /\ worker[v] # Idle /\ worker[w] # Idle => At(v, "handling") \/ At(w, "handling")

\* The attempt a worker goes by is the one its row counts, or will when it is claimed.
AttemptsKnown ==
  \A w \in Workers :
    /\ Holds(w) => worker[w].attempts = job[worker[w].job].attempts
    /\ At(w, "selected") => worker[w].attempts = job[worker[w].job].attempts + 1

Held(j) == \E w \in Workers : Holds(w) /\ worker[w].job = j

\* The row may be claimed again, now or when its lease is over.
Claimable(j) == job[j].status \notin {"completed", "failed"} /\ ~Held(j)

\* The limit leaves an attempt to every row that may be claimed again, or an
\* interruption has paid for it.
AttemptsInv ==
  /\ OneTurn
  /\ AttemptsKnown
  /\ ExtraAttemptsInterrupted
  /\ \A j \in Jobs : Claimable(j) => job[j].attempts < MaxAttempts + crashes

\* A step that changes no attempts, lets no row become claimable and ends the turn of
\* its worker or is the first of it.
LEMMA StepKeepsAttempts ==
  ASSUME JobTypeOK, AttemptsInv, NEW w \in Workers, NEW frame, crashes' = crashes,
         worker' = [worker EXCEPT ![w] = frame],
         \/ frame = Idle
         \/ frame.at = "recovered" /\ \A v \in Workers \ {w} : worker[v] = Idle \/ At(v, "handling"),
         \A j \in Jobs : job'[j].attempts = job[j].attempts,
         \A j \in Jobs : Claimable(j)' => Claimable(j) \/ job[j].attempts < MaxAttempts
  PROVE  AttemptsInv'
  <1> USE JobAssumption
  <1>1. worker'[w] = frame /\ \A v \in Workers \ {w} : worker'[v] = worker[v]
    BY DEF JobTypeOK
  <1>2. OneTurn'
    BY <1>1 DEF AttemptsInv, OneTurn, At
  <1>3. AttemptsKnown'
    <2> SUFFICES ASSUME NEW v \in Workers, Holds(v)' \/ At(v, "selected")'
                 PROVE  /\ Holds(v)' => worker'[v].attempts = job'[worker'[v].job].attempts
                        /\ At(v, "selected")' => worker'[v].attempts = job'[worker'[v].job].attempts + 1
      BY DEF AttemptsKnown
    <2>1. v # w /\ worker'[v] = worker[v]
      BY <1>1 DEF Holds, At
    <2>2. worker[v].job \in Jobs
      BY <2>1 DEF JobTypeOK, Frame, Holds, At
    <2> QED
      BY <2>1, <2>2 DEF AttemptsInv, AttemptsKnown, Holds, At
  <1>4. \A j \in Jobs : job[j].attempts \in Nat /\ crashes \in Nat /\ MaxAttempts \in Nat
    BY DEF JobTypeOK, Row
  <1>5. ExtraAttemptsInterrupted'
    BY DEF AttemptsInv, ExtraAttemptsInterrupted
  <1>6. \A j \in Jobs : Claimable(j)' => job'[j].attempts < MaxAttempts + crashes'
    BY <1>4 DEF AttemptsInv
  <1> QED
    BY <1>2, <1>3, <1>5, <1>6 DEF AttemptsInv

LEMMA AttemptsInductive ==
  ASSUME ~Overrun, ~Interleaved, MaxAttempts # 0
  PROVE  JobSpec => []AttemptsInv
  <1> USE JobAssumption
  <1>1. JobInit => AttemptsInv
    BY DEF JobInit, AttemptsInv, OneTurn, AttemptsKnown, ExtraAttemptsInterrupted, Claimable, Held,
           Holds, At
  <1>2. JobTypeOK /\ JobTypeOK' /\ OwnershipInv /\ AttemptsInv /\ [JobNext]_jobVars => AttemptsInv'
    <2> SUFFICES ASSUME JobTypeOK, JobTypeOK', OwnershipInv, AttemptsInv, [JobNext]_jobVars
                 PROVE  AttemptsInv'
      OBVIOUS
    <2>0. \A j \in Jobs : job[j].attempts \in Nat /\ crashes \in Nat /\ MaxAttempts \in Nat
      BY DEF JobTypeOK, Row
    <2>1. ASSUME NEW i \in Jobs, Enqueue(i) PROVE AttemptsInv'
      <3>1. /\ worker' = worker /\ crashes' = crashes
            /\ \A j \in Jobs : /\ job'[j].attempts = job[j].attempts
                               /\ job'[j].status \in {job[j].status, "queued"}
                               /\ job'[j] # job[j] => job[j].status = "absent"
        BY <2>1 DEF Enqueue, JobTypeOK, Row
      <3>2. \A j \in Jobs : Claimable(j)' => Claimable(j)
        BY <3>1 DEF Claimable, Held, Holds, At
      <3>3. AttemptsKnown'
        <4>1. \A v \in Workers : Holds(v) \/ At(v, "selected") => worker[v].job \in Jobs
          BY DEF JobTypeOK, Frame, Holds, At
        <4> QED
          BY <3>1, <4>1 DEF AttemptsInv, AttemptsKnown, Holds, At
      <3> QED
        BY <3>1, <3>2, <3>3 DEF AttemptsInv, OneTurn, At, ExtraAttemptsInterrupted
    <2>2. ASSUME NEW w \in Workers, RecoverExpired(w) PROVE AttemptsInv'
      <3> DEFINE frame == [at |-> "recovered", job |-> 1, attempts |-> 0, left |-> 0]
      <3>1. /\ worker' = [worker EXCEPT ![w] = frame] /\ frame.at = "recovered"
            /\ crashes' = crashes /\ worker[w] = Idle
        BY <2>2 DEF RecoverExpired
      <3>2. \A v \in Workers \ {w} : worker[v] = Idle \/ At(v, "handling")
        BY <2>2 DEF RecoverExpired, Turn
      <3>3. \A j \in Jobs : job'[j].status = job[j].status \/ job[j].status = "running"
        BY <2>2 DEF RecoverExpired, Recovered, JobTypeOK, Row
      <3>4. worker'[w] = frame /\ \A v \in Workers \ {w} : worker'[v] = worker[v]
        BY <3>1 DEF JobTypeOK
      <3>5. \A j \in Jobs : Held(j) => Held(j)'
        BY <3>1, <3>4 DEF Held, Holds, At
      <3>6. \A j \in Jobs : Claimable(j)' => Claimable(j)
        BY <3>3, <3>5 DEF Claimable
      <3>7. \A j \in Jobs : job'[j].attempts = job[j].attempts
        <4> SUFFICES ASSUME NEW j \in Jobs PROVE job'[j].attempts = job[j].attempts
          OBVIOUS
        <4>1. [job[j] EXCEPT !.status = "queued", !.left = NoLease].attempts = job[j].attempts
          BY DEF JobTypeOK, Row
        <4> QED
          BY <2>2, <4>1 DEF RecoverExpired, Recovered
      <3>8. \A j \in Jobs : Claimable(j)' => Claimable(j) \/ job[j].attempts < MaxAttempts
        BY <3>6
      <3> HIDE DEF frame
      <3> QED
        BY <3>1, <3>2, <3>7, <3>8, StepKeepsAttempts
    <2>3. ASSUME NEW w \in Workers, Select(w) PROVE AttemptsInv'
      <3>1. job' = job /\ crashes' = crashes /\ ~Holds(w) /\ worker[w] # Idle
        BY <2>3 DEF Select, Holds, At
      <3>2. CASE worker' = [worker EXCEPT ![w] = Idle]
        <4>1. \A v \in Workers : Holds(v)' <=> Holds(v)
          BY <3>1, <3>2 DEF Holds, At, JobTypeOK
        <4>2. \A v \in Workers : Holds(v) => worker'[v] = worker[v]
          BY <3>1, <3>2 DEF JobTypeOK
        <4>3. \A j \in Jobs : Claimable(j)' => Claimable(j)
          BY <3>1, <4>1, <4>2 DEF Claimable, Held
        <4> QED
          BY <3>1, <3>2, <4>3, StepKeepsAttempts
      <3>3. ASSUME NEW j \in Queued,
                   worker' = [worker EXCEPT ![w] =
                                [at |-> "selected", job |-> j, left |-> LeaseTicks + 1,
                                 attempts |-> job[j].attempts + 1]]
            PROVE  AttemptsInv'
        <4>1. /\ worker'[w].at = "selected" /\ worker'[w].job = j /\ worker'[w] # Idle
              /\ worker'[w].attempts = job[j].attempts + 1
              /\ \A v \in Workers \ {w} : worker'[v] = worker[v]
          BY <3>3 DEF JobTypeOK, JobAssumption, Frame, Stage, LeaseLeft, Row, Queued
        <4>2. \A v \in Workers : Holds(v)' <=> Holds(v)
          BY <3>1, <4>1 DEF Holds, At
        <4>3. \A i \in Jobs : Claimable(i)' <=> Claimable(i)
          BY <3>1, <4>1, <4>2 DEF Claimable, Held
        <4>4. OneTurn'
          BY <2>3, <3>1, <4>1 DEF AttemptsInv, OneTurn, At, Select
        <4>5. AttemptsKnown'
          BY <3>1, <4>1, <4>2 DEF AttemptsInv, AttemptsKnown, At, Holds
        <4> QED
          BY <3>1, <4>3, <4>4, <4>5 DEF AttemptsInv, ExtraAttemptsInterrupted
      <3> QED
        BY <2>3, <3>2, <3>3 DEF Select
    <2>4. ASSUME NEW w \in Workers, TakeRow(w) PROVE AttemptsInv'
      <3>0. PICK j \in Jobs : j = worker[w].job
        BY <2>4 DEF TakeRow, At, JobTypeOK, Frame
      <3>1. worker[w] \in Frame /\ At(w, "selected") /\ ~Holds(w) /\ crashes' = crashes
        BY <2>4 DEF TakeRow, At, Holds, JobTypeOK
      <3>2. CASE job[j].status # "queued"
        <4>1. job' = job /\ worker' = [worker EXCEPT ![w] = Idle]
          BY <2>4, <3>0, <3>2 DEF TakeRow
        <4>2. \A v \in Workers : (Holds(v)' <=> Holds(v)) /\ (Holds(v) => worker'[v] = worker[v])
          BY <3>1, <4>1 DEF Holds, At, JobTypeOK
        <4>3. \A i \in Jobs : Claimable(i)' => Claimable(i)
          BY <4>1, <4>2 DEF Claimable, Held
        <4> QED
          BY <3>1, <4>1, <4>3, StepKeepsAttempts
      <3>3. CASE job[j].status = "queued"
        <4>1. /\ job' = [job EXCEPT ![j] = ClaimedRow(@, worker[w].left)]
              /\ worker' = [worker EXCEPT ![w].at = IF j \in Unhandled THEN "rejecting"
                                                   ELSE "handling"]
          BY <2>4, <3>0, <3>3 DEF TakeRow
        <4>2. /\ worker'[w].job = j /\ worker'[w].attempts = worker[w].attempts
              /\ worker'[w] # Idle /\ Holds(w)'
              /\ \A v \in Workers \ {w} : worker'[v] = worker[v]
          <5>1. worker'[w] \in Frame
            BY <3>1, <4>1 DEF JobTypeOK, Frame, Stage
          <5> QED
            BY <3>0, <3>1, <4>1, <5>1 DEF JobTypeOK, Frame, Holds, At, JobAssumption
        <4>3. job'[j].attempts = job[j].attempts + 1 /\ \A i \in Jobs \ {j} : job'[i] = job[i]
          BY <3>1, <4>1 DEF ClaimedRow, JobTypeOK
        <4>4. ~Held(j)
          BY <3>3 DEF Held, OwnershipInv, HandlerOwnsJob
        <4>5. \A v \in Workers \ {w} : worker[v] = Idle \/ At(v, "handling")
          BY <3>1 DEF AttemptsInv, OneTurn, At
        <4>6. \A i \in Jobs \ {j} : Held(i) => Held(i)'
          BY <3>1, <4>2 DEF Held, Holds, At
        <4>7. Held(j)'
          BY <4>2 DEF Held
        <4>8. job[j].attempts < MaxAttempts + crashes
          BY <3>1, <3>3, <4>4 DEF AttemptsInv, Claimable
        <4>9. \A v \in Workers \ {w} : Holds(v) => worker[v].job \in Jobs \ {j}
          BY <4>4, HolderFrame DEF Held
        <4>10. worker[w].attempts = job[j].attempts + 1
          BY <3>0, <3>1 DEF AttemptsInv, AttemptsKnown
        <4>11. \A v \in Workers \ {w} : At(v, "handling") => At(v, "handling")'
          BY <4>2 DEF At
        <4>12. OneTurn'
          BY <4>2, <4>5, <4>11 DEF OneTurn
        <4>13. AttemptsKnown'
          <5> SUFFICES ASSUME NEW v \in Workers
                       PROVE  /\ Holds(v)' => worker'[v].attempts = job'[worker'[v].job].attempts
                              /\ At(v, "selected")' =>
                                   worker'[v].attempts = job'[worker'[v].job].attempts + 1
            BY DEF AttemptsKnown
          <5>1. CASE v = w
            <6>1. ~At(w, "selected")'
              BY <4>2 DEF Holds, At
            <6> QED
              BY <5>1, <6>1, <4>2, <4>3, <4>10
          <5>2. CASE v # w
            <6>1. ~At(v, "selected")' /\ (Holds(v)' => Holds(v))
              BY <5>2, <4>2, <4>5 DEF At, Holds
            <6> QED
              BY <5>2, <6>1, <4>2, <4>3, <4>9 DEF AttemptsInv, AttemptsKnown
          <5> QED
            BY <5>1, <5>2
        <4>14. \A i \in Jobs \ {j} : Claimable(i)' => Claimable(i)
          BY <4>3, <4>6 DEF Claimable
        <4>15. ExtraAttemptsInterrupted'
          BY <2>0, <3>1, <4>3, <4>8 DEF AttemptsInv, ExtraAttemptsInterrupted
        <4>16. \A i \in Jobs : Claimable(i)' => job'[i].attempts < MaxAttempts + crashes'
          <5> SUFFICES ASSUME NEW i \in Jobs, Claimable(i)'
                       PROVE  job'[i].attempts < MaxAttempts + crashes'
            OBVIOUS
          <5>1. i # j
            BY <4>7 DEF Claimable
          <5>2. job'[i] = job[i] /\ Claimable(i)
            BY <4>3, <4>14, <5>1
          <5> QED
            BY <3>1, <5>2 DEF AttemptsInv
        <4> QED
          BY <4>12, <4>13, <4>15, <4>16 DEF AttemptsInv
      <3> QED
        BY <3>2, <3>3
    <2>5. ASSUME NEW w \in Workers,
                 Reject(w) \/ HandlerSucceeds(w) \/ HandlerRaises(w)
          PROVE  AttemptsInv'
      <3> DEFINE j == worker[w].job
      <3>1. Holds(w) /\ crashes' = crashes /\ worker' = [worker EXCEPT ![w] = Idle]
        BY <2>5 DEF Reject, HandlerSucceeds, HandlerRaises, Holds
      <3>2. j \in Jobs /\ job[j] \in Row /\ worker[w].attempts = job[j].attempts
        BY <3>1, HolderFrame DEF JobTypeOK, AttemptsInv, AttemptsKnown
      <3>3. /\ \A i \in Jobs : job'[i].attempts = job[i].attempts
            /\ \A i \in Jobs \ {j} : job'[i] = job[i]
            /\ job'[j].status \in {"completed", "failed"} \/ Retry(worker[w].attempts)
        <4>1. PICK row : /\ job' = [job EXCEPT ![j] = row] /\ row.attempts = job[j].attempts
                         /\ row.status \in {"completed", "failed"} \/ Retry(worker[w].attempts)
          <5> DEFINE retry == Retry(worker[w].attempts)
          <5>1. /\ CompletedRow(job[j]).attempts = job[j].attempts
                /\ CompletedRow(job[j]).status = "completed"
            BY <3>2 DEF CompletedRow, Row
          <5>2. \A again \in BOOLEAN :
                  /\ FailedRow(job[j], again).attempts = job[j].attempts
                  /\ ~again => FailedRow(job[j], again).status = "failed"
            BY <3>2 DEF FailedRow, Row
          <5>3. retry \in BOOLEAN
            BY DEF Retry
          <5>4. CASE Reject(w)
            BY <5>2, <5>4 DEF Reject
          <5>5. CASE HandlerSucceeds(w)
            BY <5>1, <5>5 DEF HandlerSucceeds
          <5>6. CASE HandlerRaises(w)
            <6>1. job' = [job EXCEPT ![j] = FailedRow(@, retry)]
              BY <5>6 DEF HandlerRaises
            <6> HIDE DEF retry
            <6>2. FailedRow(job[j], retry).status = "failed" \/ retry
              BY <5>2, <5>3
            <6>3. FailedRow(job[j], retry).attempts = job[j].attempts
              BY <5>2, <5>3
            <6> QED
              BY <6>1, <6>2, <6>3 DEF retry
          <5> QED
            BY <2>5, <5>4, <5>5, <5>6
        <4> HIDE DEF j
        <4> QED
          BY <3>2, <4>1 DEF JobTypeOK
      <3>4. \A i \in Jobs \ {j} : Held(i) => Held(i)'
        BY <3>1 DEF Held, Holds, At, JobTypeOK
      <3>5. \A i \in Jobs : Claimable(i)' => Claimable(i) \/ job[i].attempts < MaxAttempts
        BY <3>2, <3>3, <3>4 DEF Claimable, Retry
      <3> QED
        BY <3>1, <3>3, <3>5, StepKeepsAttempts
    <2>6. ASSUME NEW w \in Workers, Interrupt(w) PROVE AttemptsInv'
      <3>1. /\ job' = job /\ worker' = [worker EXCEPT ![w] = Idle] /\ crashes' = crashes + 1
            /\ worker'[w] = Idle /\ \A v \in Workers \ {w} : worker'[v] = worker[v]
        BY <2>6 DEF Interrupt, JobTypeOK
      <3>2. OneTurn' /\ AttemptsKnown'
        BY <3>1 DEF AttemptsInv, OneTurn, AttemptsKnown, Holds, At
      <3>3. \A j \in Jobs : job'[j].attempts < MaxAttempts + crashes'
        BY <2>0, <3>1 DEF AttemptsInv, ExtraAttemptsInterrupted
      <3>4. ExtraAttemptsInterrupted'
        BY <2>0, <3>1 DEF AttemptsInv, ExtraAttemptsInterrupted
      <3> QED
        BY <3>2, <3>3, <3>4 DEF AttemptsInv
    <2>7. CASE Tick
      <3>1. \A w \in Workers :
              /\ (worker'[w] = Idle) <=> (worker[w] = Idle)
              /\ worker[w] # Idle => /\ worker'[w].at = worker[w].at
                                     /\ worker'[w].job = worker[w].job
                                     /\ worker'[w].attempts = worker[w].attempts
        BY <2>7, FrameTick DEF Tick, JobTypeOK, Frame, JobAssumption
      <3>2. \A j \in Jobs : job'[j].status = job[j].status /\ job'[j].attempts = job[j].attempts
        BY <2>7 DEF Tick, JobTypeOK, Row
      <3>3. crashes' = crashes
        BY <2>7 DEF Tick
      <3>4. \A w \in Workers : /\ Holds(w)' <=> Holds(w)
                               /\ \A stage \in Stage : At(w, stage)' <=> At(w, stage)
        BY <3>1 DEF Holds, At
      <3>5. \A j \in Jobs : Claimable(j)' <=> Claimable(j)
        BY <3>1, <3>2, <3>4, HolderFrame DEF Claimable, Held
      <3>6. OneTurn'
        BY <3>1, <3>4 DEF AttemptsInv, OneTurn, Stage
      <3>7. AttemptsKnown'
        <4>1. \A v \in Workers : Holds(v) \/ At(v, "selected") => worker[v] # Idle /\ worker[v].job \in Jobs
          BY DEF JobTypeOK, Frame, Holds, At
        <4> QED
          BY <3>1, <3>2, <3>4, <4>1 DEF AttemptsInv, AttemptsKnown, Stage
      <3> QED
        BY <3>2, <3>3, <3>5, <3>6, <3>7 DEF AttemptsInv, ExtraAttemptsInterrupted
    <2>8. CASE UNCHANGED jobVars \/ \E w \in Workers : Stop(w)
      <3>1. job' = job /\ worker' = worker /\ crashes' = crashes
        BY <2>8 DEF jobVars, Stop
      <3> QED
        BY <3>1 DEF AttemptsInv, OneTurn, AttemptsKnown, ExtraAttemptsInterrupted, Claimable, Held,
                    Holds, At
    <2>9. ASSUME NEW w \in Workers, Die(w) PROVE AttemptsInv'
      <3>1. OneTurn' /\ AttemptsKnown'
        BY <2>9, DeathIdles DEF OneTurn, AttemptsKnown, Holds, At
      <3>2. CASE crashes' = crashes + 1
        <4>1. \A j \in Jobs : job'[j].attempts < MaxAttempts + crashes'
          BY <2>0, <2>9, <3>2, DeathIdles DEF AttemptsInv, ExtraAttemptsInterrupted
        <4>2. ExtraAttemptsInterrupted'
          BY <2>0, <2>9, <3>2, DeathIdles DEF AttemptsInv, ExtraAttemptsInterrupted
        <4> QED
          BY <3>1, <4>1, <4>2 DEF AttemptsInv
      <3>3. CASE worker' = worker /\ crashes' = crashes
        BY <2>9, <3>1, <3>3, DeathIdles
          DEF AttemptsInv, ExtraAttemptsInterrupted, Claimable, Held, Holds, At
      <3> QED
        BY <2>9, <3>2, <3>3, DeathIdles
    <2> QED
      BY <2>1, <2>2, <2>3, <2>4, <2>5, <2>6, <2>7, <2>8, <2>9 DEF JobNext, RunOnce
  <1> QED
    BY <1>1, <1>2, TypeCorrect, OwnershipInductive, PTL DEF JobSpec

\* Of workers in one process whose handlers finish within their lease, no job is
\* started more often than max_attempts but for interruptions, each of which gives
\* one job one attempt more.
THEOREM ExtraAttemptsArePaidFor ==
  ASSUME ~Overrun, ~Interleaved, MaxAttempts # 0
  PROVE  JobSpec => []ExtraAttemptsInterrupted
  <1>1. AttemptsInv => ExtraAttemptsInterrupted
    BY DEF AttemptsInv
  <1> QED
    BY <1>1, AttemptsInductive, PTL

-----------------------------------------------------------------------------
\* Order, for the workers of one process

\* Rows are inserted in the order of their rowids.
RowsInOrder ==
  \A i, j \in Jobs : i < j /\ job[j].status # "absent" => job[i].status # "absent"

\* The row that a worker has selected or claimed was enqueued.
ChosenRowsExist ==
  \A w \in Workers : worker[w] # Idle /\ worker[w].at # "recovered" =>
    job[worker[w].job].status # "absent"

\* No row older than the selected one is queued meanwhile.
SelectedOldest ==
  \A w \in Workers : At(w, "selected") =>
    \A i \in Jobs : i < worker[w].job => job[i].status # "queued"

OrderInv == OneTurn /\ RowsInOrder /\ ChosenRowsExist /\ SelectedOldest

\* The others wait outside run_once or for their handlers.
Alone(w) == \A v \in Workers \ {w} : worker[v] = Idle \/ At(v, "handling")

\* A worker whose frame is none of a selection keeps the order, when it writes rows
\* only while the others have selected nothing.
LEMMA StepKeepsOrder ==
  ASSUME JobTypeOK, OrderInv, NEW w \in Workers, NEW frame,
         worker' = [worker EXCEPT ![w] = frame],
         frame = Idle \/ (Alone(w) /\ frame.at # "selected"),
         job' = job \/ Alone(w),
         frame = Idle \/ frame.at = "recovered"
           \/ (frame.job \in Jobs /\ job[frame.job].status # "absent"),
         \A j \in Jobs : job'[j].status = "absent" <=> job[j].status = "absent"
  PROVE  OrderInv'
  <1>1. worker'[w] = frame /\ \A v \in Workers \ {w} : worker'[v] = worker[v]
    BY DEF JobTypeOK
  <1>2. OneTurn'
    BY <1>1 DEF OrderInv, OneTurn, Alone, At
  <1>3. RowsInOrder'
    BY DEF OrderInv, RowsInOrder
  <1>4. SelectedOldest'
    <2> SUFFICES ASSUME NEW v \in Workers, At(v, "selected")'
                 PROVE  \A i \in Jobs : i < worker'[v].job => job'[i].status # "queued"
      BY DEF SelectedOldest
    <2>1. v # w /\ worker'[v] = worker[v] /\ At(v, "selected")
      BY <1>1 DEF At
    <2>2. job' = job
      BY <2>1 DEF Alone, At
    <2> QED
      BY <2>1, <2>2 DEF OrderInv, SelectedOldest
  <1>5. ChosenRowsExist'
    <2>1. \A v \in Workers : worker[v] # Idle => worker[v].job \in Jobs
      BY DEF JobTypeOK, Frame
    <2> QED
      BY <1>1, <2>1 DEF OrderInv, ChosenRowsExist
  <1> QED
    BY <1>2, <1>3, <1>4, <1>5 DEF OrderInv

LEMMA OrderInductive == ASSUME ~Interleaved PROVE JobSpec => []OrderInv
  <1> USE JobAssumption
  <1>1. JobInit => OrderInv
    BY DEF JobInit, OrderInv, OneTurn, RowsInOrder, ChosenRowsExist, SelectedOldest, At
  <1>2. JobTypeOK /\ OrderInv /\ [JobNext]_jobVars => OrderInv'
    <2> SUFFICES ASSUME JobTypeOK, OrderInv, [JobNext]_jobVars PROVE OrderInv'
      OBVIOUS
    <2>1. ASSUME NEW j \in Jobs, Enqueue(j) PROVE OrderInv'
      <3>1. /\ worker' = worker /\ job[j].status = "absent" /\ job'[j].status = "queued"
            /\ \A i \in Jobs : i # j => job'[i] = job[i]
            /\ \A i \in Jobs : i < j => job[i].status # "absent"
        BY <2>1 DEF Enqueue, JobTypeOK, Row
      <3>2. RowsInOrder'
        BY <3>1 DEF OrderInv, RowsInOrder, Jobs
      <3>3. SelectedOldest'
        <4> SUFFICES ASSUME NEW v \in Workers, At(v, "selected")
                     PROVE  \A i \in Jobs : i < worker[v].job => job'[i].status # "queued"
          BY <3>1 DEF SelectedOldest, At
        <4>1. /\ worker[v].job \in Jobs /\ job[worker[v].job].status # "absent"
              /\ \A i \in Jobs : i < worker[v].job => job[i].status # "queued"
          BY DEF JobTypeOK, Frame, At, OrderInv, ChosenRowsExist, SelectedOldest
        <4>2. worker[v].job # j /\ ~(j < worker[v].job)
          BY <3>1, <4>1 DEF OrderInv, RowsInOrder
        <4> QED
          BY <3>1, <4>1, <4>2
      <3>4. ChosenRowsExist'
        <4>1. \A v \in Workers : worker[v] # Idle => worker[v].job \in Jobs
          BY DEF JobTypeOK, Frame
        <4> QED
          BY <3>1, <4>1 DEF OrderInv, ChosenRowsExist
      <3> QED
        BY <3>1, <3>2, <3>3, <3>4 DEF OrderInv, OneTurn, At
    <2>2. ASSUME NEW w \in Workers, RecoverExpired(w) PROVE OrderInv'
      <3> DEFINE frame == [at |-> "recovered", job |-> 1, attempts |-> 0, left |-> 0]
      <3>1. Alone(w) /\ worker' = [worker EXCEPT ![w] = frame] /\ frame.at = "recovered"
        BY <2>2 DEF RecoverExpired, Turn, Alone
      <3>2. \A j \in Jobs : job'[j].status = "absent" <=> job[j].status = "absent"
        BY <2>2 DEF RecoverExpired, Recovered, JobTypeOK, Row
      <3> HIDE DEF frame
      <3> QED
        BY <3>1, <3>2, StepKeepsOrder
    <2>3. ASSUME NEW w \in Workers, Select(w) PROVE OrderInv'
      <3>1. job' = job /\ Alone(w)
        BY <2>3 DEF Select, OrderInv, OneTurn, Alone, At
      <3>2. CASE worker' = [worker EXCEPT ![w] = Idle]
        BY <3>1, <3>2, StepKeepsOrder
      <3>3. ASSUME NEW j \in Queued, Oldest(j),
                   worker' = [worker EXCEPT ![w] =
                                [at |-> "selected", job |-> j, left |-> LeaseTicks + 1,
                                 attempts |-> job[j].attempts + 1]]
            PROVE  OrderInv'
        <4>1. /\ worker'[w].at = "selected" /\ worker'[w].job = j
              /\ \A v \in Workers \ {w} : worker'[v] = worker[v]
          BY <3>3 DEF JobTypeOK
        <4>2. /\ job[j].status # "absent"
              /\ \A i \in Jobs : i < j => job[i].status # "queued"
          BY <3>3 DEF Queued, Oldest, Jobs
        <4>3. OneTurn' /\ RowsInOrder'
          BY <3>1, <4>1 DEF OrderInv, OneTurn, RowsInOrder, Alone, At
        <4>4. SelectedOldest'
          BY <3>1, <4>1, <4>2 DEF SelectedOldest, Alone, At
        <4>5. ChosenRowsExist'
          BY <3>1, <4>1, <4>2 DEF OrderInv, ChosenRowsExist
        <4> QED
          BY <4>3, <4>4, <4>5 DEF OrderInv
      <3> QED
        BY <2>3, <3>2, <3>3 DEF Select
    <2>4. ASSUME NEW w \in Workers, TakeRow(w) PROVE OrderInv'
      <3>1. Alone(w) /\ worker[w] \in Frame /\ worker[w].job \in Jobs
        BY <2>4 DEF TakeRow, OrderInv, OneTurn, Alone, At, JobTypeOK, Frame
      <3>2. PICK frame : worker' = [worker EXCEPT ![w] = frame]
                         /\ \/ frame = Idle
                            \/ frame.at # "selected" /\ frame.job = worker[w].job
        BY <2>4, <3>1 DEF TakeRow, JobTypeOK, Frame
      <3>3. \A j \in Jobs : job'[j].status = "absent" <=> job[j].status = "absent"
        BY <2>4, <3>1 DEF TakeRow, ClaimedRow, JobTypeOK, Row
      <3>4. job[worker[w].job].status # "absent"
        BY <2>4 DEF TakeRow, At, OrderInv, ChosenRowsExist
      <3> QED
        BY <3>1, <3>2, <3>3, <3>4, StepKeepsOrder
    <2>5. ASSUME NEW w \in Workers,
                 Reject(w) \/ HandlerSucceeds(w) \/ HandlerRaises(w)
          PROVE  OrderInv'
      <3>1. /\ worker' = [worker EXCEPT ![w] = Idle]
            /\ Alone(w) /\ worker[w].job \in Jobs /\ Holds(w)
        <4>1. CASE Reject(w)
          BY <4>1 DEF Reject, OrderInv, OneTurn, Alone, Holds, At, JobTypeOK, Frame
        <4>2. CASE HandlerSucceeds(w)
          BY <4>2 DEF HandlerSucceeds, Turn, Alone, Holds, At, JobTypeOK, Frame
        <4>3. CASE HandlerRaises(w)
          BY <4>3 DEF HandlerRaises, Turn, Alone, Holds, At, JobTypeOK, Frame
        <4> QED
          BY <2>5, <4>1, <4>2, <4>3
      <3>2. \A j \in Jobs : job'[j].status = "absent" <=> job[j].status = "absent"
        <4> DEFINE held == worker[w].job
        <4>1. /\ CompletedRow(job[held]).status = "completed"
              /\ \A retry \in BOOLEAN : FailedRow(job[held], retry).status \in {"queued", "failed"}
          BY <3>1 DEF CompletedRow, FailedRow, JobTypeOK, Row
        <4>2. job[held].status # "absent" /\ Retry(worker[w].attempts) \in BOOLEAN
          BY <3>1 DEF Holds, At, OrderInv, ChosenRowsExist, Retry
        <4>3. \E row : /\ job' = [job EXCEPT ![held] = row]
                       /\ row.status \in {"completed", "queued", "failed"}
          BY <2>5, <4>1, <4>2 DEF Reject, HandlerSucceeds, HandlerRaises
        <4> HIDE DEF held
        <4> QED
          BY <4>2, <4>3 DEF JobTypeOK
      <3> QED
        BY <3>1, <3>2, StepKeepsOrder
    <2>6. ASSUME NEW w \in Workers, Interrupt(w) PROVE OrderInv'
      BY <2>6, StepKeepsOrder DEF Interrupt
    <2>7. CASE Tick
      <3>1. \A w \in Workers :
              /\ (worker'[w] = Idle) <=> (worker[w] = Idle)
              /\ worker[w] # Idle => /\ worker'[w].at = worker[w].at
                                     /\ worker'[w].job = worker[w].job
        BY <2>7, FrameTick DEF Tick, JobTypeOK, Frame, JobAssumption
      <3>2. \A j \in Jobs : job'[j].status = job[j].status
        BY <2>7 DEF Tick, JobTypeOK, Row
      <3>3. SelectedOldest'
        <4>1. \A v \in Workers : At(v, "selected") => worker[v].job \in Jobs
          BY DEF JobTypeOK, Frame, At
        <4> QED
          BY <3>1, <3>2, <4>1 DEF OrderInv, SelectedOldest, At
      <3>4. ChosenRowsExist'
        <4>1. \A v \in Workers : worker[v] # Idle => worker[v].job \in Jobs
          BY DEF JobTypeOK, Frame
        <4> QED
          BY <3>1, <3>2, <4>1 DEF OrderInv, ChosenRowsExist
      <3> QED
        BY <3>1, <3>2, <3>3, <3>4 DEF OrderInv, OneTurn, RowsInOrder, At
    <2>8. CASE UNCHANGED jobVars \/ \E w \in Workers : Stop(w)
      BY <2>8 DEF jobVars, Stop, OrderInv, OneTurn, RowsInOrder, ChosenRowsExist, SelectedOldest, At
    <2>9. ASSUME NEW w \in Workers, Die(w) PROVE OrderInv'
      BY <2>9, DeathIdles
        DEF OrderInv, OneTurn, RowsInOrder, ChosenRowsExist, SelectedOldest, At
    <2> QED
      BY <2>1, <2>2, <2>3, <2>4, <2>5, <2>6, <2>7, <2>8, <2>9 DEF JobNext, RunOnce
  <1> QED
    BY <1>1, <1>2, TypeCorrect, PTL DEF JobSpec

\* Of workers in one process a job is claimed only when no older one is queued, however
\* jobs are retried, recovered and enqueued between the two statements of a claim.
THEOREM OldestAreClaimedFirst == ASSUME ~Interleaved PROVE JobSpec => OldestFirst
  <1> USE JobAssumption
  <1> DEFINE First == \A i, j \in Jobs :
                        job'[j].attempts > job[j].attempts /\ i < j => job[i].status # "queued"
  <1>1. JobTypeOK /\ OrderInv /\ [JobNext]_jobVars => [First]_jobVars
    <2> SUFFICES ASSUME JobTypeOK, OrderInv, [JobNext]_jobVars,
                        NEW i \in Jobs, NEW j \in Jobs,
                        job'[j].attempts > job[j].attempts, i < j
                 PROVE  job[i].status # "queued"
      OBVIOUS
    <2>0. job[j] \in Row /\ job[j].attempts \in Nat
      BY DEF JobTypeOK, Row
    <2>1. ASSUME NEW w \in Workers, TakeRow(w) PROVE job[i].status # "queued"
      <3>1. At(w, "selected") /\ worker[w].job = j
        BY <2>0, <2>1 DEF TakeRow, JobTypeOK
      <3> QED
        BY <3>1 DEF OrderInv, SelectedOldest
    <2>2. ASSUME job'[j].attempts = job[j].attempts PROVE FALSE
      BY <2>0, <2>2
    <2>3. CASE Tick
      BY <2>0, <2>2, <2>3 DEF Tick, Row
    <2>4. ASSUME NEW w \in Workers, RecoverExpired(w) PROVE FALSE
      <3>1. [job[j] EXCEPT !.status = "queued", !.left = NoLease].attempts = job[j].attempts
        BY <2>0 DEF Row
      <3> QED
        BY <2>2, <2>4, <3>1 DEF RecoverExpired, Recovered
    <2>5. ASSUME NEW w \in Workers,
                 Reject(w) \/ HandlerSucceeds(w) \/ HandlerRaises(w)
          PROVE  FALSE
      <3>1. /\ CompletedRow(job[j]).attempts = job[j].attempts
            /\ \A retry \in BOOLEAN : FailedRow(job[j], retry).attempts = job[j].attempts
        BY <2>0 DEF CompletedRow, FailedRow, Row
      <3>2. Retry(worker[w].attempts) \in BOOLEAN
        BY DEF Retry
      <3>3. CASE worker[w].job # j
        BY <2>2, <2>5, <3>3 DEF Reject, HandlerSucceeds, HandlerRaises, JobTypeOK
      <3>4. CASE worker[w].job = j
        <4>1. \/ job'[j] = CompletedRow(job[j])
              \/ \E retry \in BOOLEAN : job'[j] = FailedRow(job[j], retry)
          BY <2>5, <3>2, <3>4 DEF Reject, HandlerSucceeds, HandlerRaises, JobTypeOK
        <4> QED
          BY <2>2, <3>1, <4>1
      <3> QED
        BY <3>3, <3>4
    <2>6. ASSUME NEW k \in Jobs, Enqueue(k) PROVE FALSE
      BY <2>0, <2>2, <2>6 DEF Enqueue, JobTypeOK, Row
    <2>7. ASSUME NEW w \in Workers, Select(w) \/ Interrupt(w) \/ Die(w) \/ Stop(w) PROVE FALSE
      BY <2>2, <2>7 DEF Select, Interrupt, Die, Stop
    <2>8. CASE UNCHANGED jobVars
      BY <2>2, <2>8 DEF jobVars
    <2> QED
      BY <2>1, <2>3, <2>4, <2>5, <2>6, <2>7, <2>8 DEF JobNext, RunOnce
  <1> QED
    BY <1>1, TypeCorrect, OrderInductive, PTL DEF JobSpec, OldestFirst

-----------------------------------------------------------------------------
\* The metrics of tasks

\* A handler runs a job that has one, at an attempt that counts.
HandlingKnown ==
  \A w \in Workers : worker[w] # Idle =>
    /\ worker[w].at \in {"selected", "handling"} => worker[w].attempts >= 1
    /\ worker[w].at = "handling" => worker[w].job \notin Unhandled
    /\ worker[w].at = "rejecting" => worker[w].job \in Unhandled

MetricsTyped == metrics \in [completed : Nat, retry : Nat, failed : Nat, retries : Nat]

\* What is unreported has been claimed, and so has what is in hand, which may still be
\* reported; a row was finished at an attempt.
AttemptsTold ==
  /\ unreported \subseteq Claimed
  /\ \A w \in InHand : Attempt(w) \in Claimed \ unreported
  /\ \A j \in Jobs \ Unhandled :
       job[j].status \in {"completed", "failed"} => job[j].attempts >= 1

\* What the metrics fit is finite.
MetricsInv ==
  /\ MetricsTyped /\ HandlingKnown /\ AttemptsTold
  /\ IsFiniteSet(Reported) /\ IsFiniteSet(SoFar(Reported))
  /\ MetricsFitTable

\* The rows of a status are finitely many.
LEMMA RowsFinite ==
  ASSUME JobAssumption, NEW S \in SUBSET Jobs
  PROVE  IsFiniteSet(S) /\ Cardinality(S) \in Nat
  <1>1. IsFiniteSet(Jobs)
    BY FS_Interval DEF Jobs, JobAssumption
  <1> QED
    BY <1>1, FS_Subset, FS_CardinalityType

\* A metrics step is a step of the queue.
LEMMA MetricsRunQueue == MetricsSpec => JobSpec
  <1>1. MetricsInit => JobInit
    BY DEF MetricsInit
  <1>2. [MetricsNext]_metricsVars => [JobNext]_jobVars
    BY DEF MetricsNext, metricsVars, Unrecorded, RecordedReturn, RecordedRaise, Interrupted, Died,
           JobNext, jobVars
  <1> QED
    BY <1>1, <1>2, PTL DEF MetricsSpec, JobSpec

LEMMA PairsOfOne ==
  ASSUME NEW a, NEW n \in Nat
  PROVE  IsFiniteSet({a} \X (1 .. n)) /\ Cardinality({a} \X (1 .. n)) = n
  <1>1. IsFiniteSet({a}) /\ Cardinality({a}) = 1
    BY FS_Singleton
  <1>2. IsFiniteSet(1 .. n) /\ Cardinality(1 .. n) = n
    <2>1. 1 \in Int /\ n \in Int
      OBVIOUS
    <2>2. IsFiniteSet(1 .. n) /\ Cardinality(1 .. n) = IF 1 > n THEN 0 ELSE n - 1 + 1
      BY <2>1, FS_Interval
    <2> QED
      BY <2>2
  <1> DEFINE S == {a}
             T == 1 .. n
  <1>3. IsFiniteSet(S) /\ IsFiniteSet(T) /\ Cardinality(S) = 1 /\ Cardinality(T) = n
    BY <1>1, <1>2
  <1> HIDE DEF S, T
  <1>4. IsFiniteSet(S \X T) /\ Cardinality(S \X T) = Cardinality(S) * Cardinality(T)
    BY <1>3, FS_Product
  <1>5. IsFiniteSet(S \X T) /\ Cardinality(S \X T) = n
    BY <1>3, <1>4
  <1> QED
    BY <1>5 DEF S, T

\* One attempt more has as many attempts up to it as its number says.
LEMMA SoFarAdded ==
  ASSUME NEW told, IsFiniteSet(SoFar(told)), NEW j, NEW n \in Nat, <<j, n>> \notin told
  PROVE  /\ IsFiniteSet(SoFar(told \cup {<<j, n>>}))
         /\ Cardinality(SoFar(told \cup {<<j, n>>})) = Cardinality(SoFar(told)) + n
  <1> DEFINE a == <<j, n>>
             added == {a} \X (1 .. n)
             more == told \cup {a}
  <1>1. a[2] = n /\ a \notin told
    OBVIOUS
  <1>2. IsFiniteSet(added) /\ Cardinality(added) = n
    BY PairsOfOne
  <1>3. \A c : c \in added <=> \E k \in 1 .. n : c = <<a, k>>
    OBVIOUS
  <1> HIDE DEF added, a
  <1>4. \A c : c \in SoFar(told) <=> \E b \in told : \E k \in 1 .. b[2] : c = <<b, k>>
    BY DEF SoFar
  <1>5. \A c : c \in SoFar(more) <=> \E b \in told \cup {a} : \E k \in 1 .. b[2] : c = <<b, k>>
    BY DEF SoFar
  <1> HIDE DEF more
  <1>6. SoFar(more) = SoFar(told) \cup added
    <2>1. \A c : c \in SoFar(more) <=> c \in SoFar(told) \/ c \in added
      BY <1>1, <1>3, <1>4, <1>5
    <2> QED
      BY <2>1
  <1>7. SoFar(told) \cap added = {}
    BY <1>1, <1>3, <1>4
  <1>8. /\ IsFiniteSet(SoFar(told) \cup added)
        /\ Cardinality(SoFar(told) \cup added)
             = Cardinality(SoFar(told)) + Cardinality(added) - Cardinality(SoFar(told) \cap added)
    BY <1>2, FS_Union
  <1>9. Cardinality(SoFar(told)) \in Nat /\ Cardinality({}) = 0
    BY FS_CardinalityType, FS_EmptySet
  <1> QED
    <2>1. IsFiniteSet(SoFar(more)) /\ Cardinality(SoFar(more)) = Cardinality(SoFar(told)) + n
      <3>1. Cardinality(SoFar(more)) = Cardinality(SoFar(told)) + n - 0
        BY <1>2, <1>6, <1>7, <1>8, <1>9
      <3> QED
        BY <1>6, <1>8, <1>9, <3>1
    <2> QED
      BY <2>1 DEF more, a

\* A step that claims, ends and loses no attempt keeps what is told.
LEMMA CountsKept ==
  ASSUME MetricsInv, metrics' = metrics, unreported' = unreported, HandlingKnown',
         \A j \in Jobs \ Unhandled :
           /\ job'[j].attempts = job[j].attempts
           /\ \A status \in {"completed", "failed"} : job'[j].status = status <=> job[j].status = status,
         InHand' = InHand,
         \A w \in InHand : Attempt(w)' = Attempt(w)
  PROVE  MetricsInv'
  <1>1. Claimed' = Claimed
    BY DEF Claimed
  <1>2. With("completed")' = With("completed") /\ With("failed")' = With("failed")
    BY DEF With
  <1>3. {Attempt(w) : w \in InHand}' = {Attempt(w) : w \in InHand}
    OBVIOUS
  <1>4. Reported' = Reported
    BY <1>1, <1>3 DEF Reported
  <1>5. SoFar(Reported)' = SoFar(Reported)
    BY <1>4 DEF SoFar
  <1>6. AttemptsTold'
    BY <1>1 DEF MetricsInv, AttemptsTold
  <1>7. MetricsFitTable'
    BY <1>2, <1>4, <1>5 DEF MetricsInv, MetricsFitTable
  <1> QED
    BY <1>4, <1>5, <1>6, <1>7 DEF MetricsInv, MetricsTyped

\* The handlers of a process have claimed different attempts, each the last of its job.
LEMMA HandsDiffer ==
  ASSUME JobTypeOK, HandlerOwnsJob, AttemptsKnown, MetricsInv, NEW w \in InHand
  PROVE  /\ At(w, "handling") /\ worker[w] # Idle
         /\ worker[w].job \in Jobs \ Unhandled /\ job[worker[w].job].status = "running"
         /\ worker[w].attempts \in Nat /\ worker[w].attempts >= 1
         /\ worker[w].attempts = job[worker[w].job].attempts
         /\ \A v \in InHand \ {w} : worker[v].job # worker[w].job /\ Attempt(v) # Attempt(w)
  <1>1. At(w, "handling") /\ worker[w] \in Frame /\ worker[w] # Idle /\ Holds(w)
    BY DEF InHand, At, Holds, JobTypeOK
  <1>2. \A v \in InHand \ {w} : worker[v].job # worker[w].job
    BY <1>1 DEF InHand, Holds, HandlerOwnsJob
  <1> QED
    BY <1>1, <1>2 DEF MetricsInv, HandlingKnown, HandlerOwnsJob, AttemptsKnown, At, Frame, Attempt, InHand

\* A handler that ends is told once, and its job once if it is finished.
LEMMA EndKept ==
  ASSUME JobAssumption, JobTypeOK, HandlerOwnsJob, AttemptsKnown, MetricsInv, HandlingKnown',
         NEW w \in InHand, InHand' = InHand \ {w}, \A v \in InHand \ {w} : worker'[v] = worker[v],
         NEW status \in {"completed", "retry", "failed"}, NEW retries \in Nat,
         RecordTask(status, retries),
         retries + (IF status = "completed" THEN 1 ELSE 0) = worker[w].attempts,
         NEW j \in Jobs, j = worker[w].job,
         \A i \in Jobs : job'[i].attempts = job[i].attempts,
         \A i \in Jobs \ {j} : job'[i] = job[i],
         job'[j].status = IF status = "retry" THEN "queued" ELSE status
  PROVE  MetricsInv'
  <1>1. Claimed' = Claimed /\ unreported' = unreported
    <2>1. Claimed' = Claimed
      BY DEF Claimed
    <2> QED
      BY <2>1 DEF RecordTask
  <1> DEFINE n == worker[w].attempts
  <1>2. /\ j \in Jobs \ Unhandled /\ job[j].status = "running" /\ n \in Nat /\ n >= 1
        /\ n = job[j].attempts /\ Attempt(w) = <<j, n>>
        /\ \A v \in InHand \ {w} : Attempt(v) # Attempt(w)
    BY HandsDiffer DEF Attempt
  <1>3. <<j, n>> \in Claimed \ unreported
    BY <1>2 DEF MetricsInv, AttemptsTold
  <1>4. Reported' = Reported \cup {<<j, n>>} /\ <<j, n>> \notin Reported
    <2>1. \A v \in InHand \ {w} : Attempt(v)' = Attempt(v)
      BY DEF Attempt
    <2>2. Reported' = (Claimed \ unreported) \ {Attempt(v) : v \in InHand \ {w}}
      BY <1>1, <2>1 DEF Reported
    <2>3. \A c : c \in Reported' <=> c \in Reported \/ c = <<j, n>>
      BY <1>2, <1>3, <2>2 DEF Reported
    <2>4. <<j, n>> \notin Reported
      BY <1>2 DEF Reported
    <2> HIDE DEF n
    <2> QED
      BY <2>3, <2>4
  <1> HIDE DEF n
  <1>5. /\ IsFiniteSet(Reported') /\ Cardinality(Reported') = Cardinality(Reported) + 1
        /\ IsFiniteSet(SoFar(Reported)')
        /\ Cardinality(SoFar(Reported)') = Cardinality(SoFar(Reported)) + n
    <2>1. SoFar(Reported)' = SoFar(Reported')
      BY DEF SoFar
    <2>2. IsFiniteSet(Reported) /\ IsFiniteSet(SoFar(Reported))
      BY DEF MetricsInv
    <2>3. /\ IsFiniteSet(Reported \cup {<<j, n>>})
          /\ Cardinality(Reported \cup {<<j, n>>}) = Cardinality(Reported) + 1
      BY <1>4, <2>2, FS_AddElement
    <2>4. /\ IsFiniteSet(SoFar(Reported \cup {<<j, n>>}))
          /\ Cardinality(SoFar(Reported \cup {<<j, n>>})) = Cardinality(SoFar(Reported)) + n
      BY <1>2, <1>4, <2>2, SoFarAdded
    <2> QED
      BY <1>4, <2>1, <2>3, <2>4
  <1>6. AttemptsTold'
    <2>1. \A v \in InHand' : Attempt(v)' \in Claimed' \ unreported'
      BY <1>1 DEF MetricsInv, AttemptsTold, Attempt
    <2>2. \A i \in Jobs \ Unhandled :
            job'[i].status \in {"completed", "failed"} => job'[i].attempts >= 1
      BY <1>2 DEF MetricsInv, AttemptsTold
    <2> QED
      BY <1>1, <2>1, <2>2 DEF MetricsInv, AttemptsTold
  <1>7. /\ metrics \in [completed : Nat, retry : Nat, failed : Nat, retries : Nat]
        /\ metrics.completed \in Nat /\ metrics.retry \in Nat /\ metrics.failed \in Nat
        /\ metrics.retries \in Nat
        /\ Cardinality(Reported) \in Nat /\ Cardinality(SoFar(Reported)) \in Nat
    BY FS_CardinalityType DEF MetricsInv, MetricsTyped
  <1>8. /\ MetricsTyped'
        /\ metrics'.completed = metrics.completed + (IF status = "completed" THEN 1 ELSE 0)
        /\ metrics'.retry = metrics.retry + (IF status = "retry" THEN 1 ELSE 0)
        /\ metrics'.failed = metrics.failed + (IF status = "failed" THEN 1 ELSE 0)
        /\ metrics'.retries = metrics.retries + retries
    <2>1. CASE status = "completed"
      <3>1. metrics' = [metrics EXCEPT !.completed = @ + 1, !.retries = @ + retries]
        BY <2>1 DEF RecordTask
      <3>2. metrics' = [completed |-> metrics.completed + 1, retry |-> metrics.retry,
                        failed |-> metrics.failed, retries |-> metrics.retries + retries]
        BY <1>7, <3>1
      <3> QED
        BY <1>7, <2>1, <3>2 DEF MetricsTyped
    <2>2. CASE status = "retry"
      <3>1. metrics' = [metrics EXCEPT !.retry = @ + 1, !.retries = @ + retries]
        BY <2>2 DEF RecordTask
      <3>2. metrics' = [completed |-> metrics.completed, retry |-> metrics.retry + 1,
                        failed |-> metrics.failed, retries |-> metrics.retries + retries]
        BY <1>7, <3>1
      <3> QED
        BY <1>7, <2>2, <3>2 DEF MetricsTyped
    <2>3. CASE status = "failed"
      <3>1. metrics' = [metrics EXCEPT !.failed = @ + 1, !.retries = @ + retries]
        BY <2>3 DEF RecordTask
      <3>2. metrics' = [completed |-> metrics.completed, retry |-> metrics.retry,
                        failed |-> metrics.failed + 1, retries |-> metrics.retries + retries]
        BY <1>7, <3>1
      <3> QED
        BY <1>7, <2>3, <3>2 DEF MetricsTyped
    <2> QED
      BY <2>1, <2>2, <2>3
  <1>9. ASSUME NEW which \in {"completed", "failed"}
        PROVE  Cardinality(With(which)') = Cardinality(With(which)) + (IF status = which THEN 1 ELSE 0)
    <2>1. IsFiniteSet(With(which)) /\ Cardinality(With(which)) \in Nat
      BY RowsFinite DEF With
    <2>2. j \notin With(which)
      BY <1>2 DEF With
    <2>3. CASE status = which
      <3>1. job'[j].status = which /\ <<j, job'[j].attempts>> \notin unreported'
        BY <1>1, <1>2, <1>3, <1>9, <2>3
      <3>2. With(which)' = With(which) \cup {j}
        <4>1. \A i \in Jobs \ Unhandled : i \in With(which)' <=> i \in With(which) \/ i = j
          BY <1>1, <1>2, <3>1 DEF With
        <4>2. With(which) \subseteq Jobs \ Unhandled /\ With(which)' \subseteq Jobs \ Unhandled
          BY DEF With
        <4> QED
          BY <1>2, <4>1, <4>2
      <3> QED
        <4>1. Cardinality(With(which) \cup {j}) = Cardinality(With(which)) + 1
          BY <2>1, <2>2, FS_AddElement
        <4> QED
          BY <2>3, <3>2, <4>1
    <2>4. CASE status # which
      <3>1. job'[j].status # which
        BY <1>9, <2>4
      <3>2. With(which)' = With(which)
        BY <1>1, <2>2, <3>1 DEF With
      <3> QED
        BY <2>1, <2>4, <3>2
    <2> QED
      BY <2>3, <2>4
  <1>10. /\ metrics.completed = Cardinality(With("completed"))
         /\ metrics.failed = Cardinality(With("failed"))
         /\ metrics.completed + metrics.retry + metrics.failed = Cardinality(Reported)
         /\ metrics.retries + metrics.completed = Cardinality(SoFar(Reported))
    BY DEF MetricsInv, MetricsFitTable
  <1>11. /\ metrics'.completed + metrics'.retry + metrics'.failed = Cardinality(Reported) + 1
         /\ metrics'.retries + metrics'.completed = Cardinality(SoFar(Reported)) + n
    BY <1>7, <1>8, <1>10 DEF n
  <1>12. MetricsFitTable'
    BY <1>5, <1>8, <1>9, <1>10, <1>11 DEF MetricsFitTable
  <1> QED
    BY <1>5, <1>6, <1>8, <1>12 DEF MetricsInv

\* A worker that moves to another frame, neither to nor from a handler, handles nothing.
LEMMA FrameKeeps ==
  ASSUME JobTypeOK, HandlingKnown, NEW w \in Workers, ~At(w, "handling"), NEW frame,
         worker' = [worker EXCEPT ![w] = frame],
         \/ frame = Idle
         \/ frame.at = "recovered"
         \/ frame.at = "selected" /\ frame.attempts >= 1
         \/ frame.at = "rejecting" /\ frame.job \in Unhandled
  PROVE  HandlingKnown' /\ InHand' = InHand /\ \A v \in InHand : Attempt(v)' = Attempt(v)
  <1>1. worker'[w] = frame /\ \A v \in Workers \ {w} : worker'[v] = worker[v]
    BY DEF JobTypeOK
  <1>2. HandlingKnown'
    BY <1>1 DEF HandlingKnown
  <1>3. \A v \in Workers : At(v, "handling")' <=> At(v, "handling")
    BY <1>1 DEF At
  <1>4. InHand' = InHand
    BY <1>3 DEF InHand
  <1>5. \A v \in InHand : Attempt(v)' = Attempt(v)
    BY <1>1 DEF InHand, Attempt
  <1> QED
    BY <1>2, <1>4, <1>5

\* A worker whose handler ends, or that is interrupted anywhere, is out of run_once.
LEMMA IdleKeeps ==
  ASSUME JobTypeOK, HandlingKnown, NEW w \in Workers, worker' = [worker EXCEPT ![w] = Idle]
  PROVE  /\ HandlingKnown' /\ InHand' = InHand \ {w}
         /\ \A v \in InHand \ {w} : worker'[v] = worker[v] /\ Attempt(v)' = Attempt(v)
  <1>1. worker'[w] = Idle /\ \A v \in Workers \ {w} : worker'[v] = worker[v]
    BY DEF JobTypeOK
  <1>2. HandlingKnown'
    BY <1>1 DEF HandlingKnown
  <1>3. \A v \in Workers : At(v, "handling")' <=> At(v, "handling") /\ v # w
    BY <1>1 DEF At
  <1>4. InHand' = InHand \ {w}
    BY <1>3 DEF InHand
  <1>5. \A v \in InHand \ {w} : worker'[v] = worker[v] /\ Attempt(v)' = Attempt(v)
    BY <1>1 DEF InHand, Attempt
  <1> QED
    BY <1>2, <1>4, <1>5

\* A claim of a job with a handler is one attempt more, and in hand.
LEMMA ClaimKept ==
  ASSUME JobAssumption, JobTypeOK, JobTypeOK', AttemptsKnown, MetricsInv,
         metrics' = metrics, unreported' = unreported,
         NEW w \in Workers, At(w, "selected"), NEW j \in Jobs \ Unhandled, worker[w].job = j,
         job[j].status = "queued", job' = [job EXCEPT ![j] = ClaimedRow(@, worker[w].left)],
         worker' = [worker EXCEPT ![w].at = "handling"]
  PROVE  MetricsInv'
  <1> DEFINE n == job[j].attempts + 1
  <1>1. /\ worker[w] \in Frame /\ worker[w] # Idle /\ worker[w].attempts >= 1
        /\ worker[w].attempts = n
        /\ worker'[w] = [worker[w] EXCEPT !.at = "handling"]
        /\ \A v \in Workers \ {w} : worker'[v] = worker[v]
    BY DEF At, JobTypeOK, MetricsInv, HandlingKnown, AttemptsKnown
  <1>2. /\ worker'[w].at = "handling" /\ worker'[w].job = j
        /\ worker'[w].attempts = n /\ worker'[w] # Idle
    <2>1. [worker[w] EXCEPT !.at = "handling"] \in Frame
      BY <1>1 DEF Frame, Stage
    <2>2. /\ [worker[w] EXCEPT !.at = "handling"].at = "handling"
          /\ [worker[w] EXCEPT !.at = "handling"].job = worker[w].job
          /\ [worker[w] EXCEPT !.at = "handling"].attempts = worker[w].attempts
      BY <1>1 DEF Frame
    <2> QED
      BY <1>1, <2>1, <2>2 DEF JobAssumption
  <1>3. HandlingKnown'
    BY <1>1, <1>2 DEF MetricsInv, HandlingKnown
  <1>4. InHand' = InHand \cup {w} /\ w \notin InHand
    <2>1. \A v \in Workers : At(v, "handling")' <=> At(v, "handling") \/ v = w
      BY <1>1, <1>2 DEF At
    <2>2. ~At(w, "handling")
      BY DEF At
    <2> QED
      BY <2>1, <2>2 DEF InHand
  <1>5. /\ \A i \in Jobs \ {j} : job'[i] = job[i]
        /\ job'[j].status = "running" /\ job'[j].attempts = n
        /\ job[j].attempts \in Nat
    BY DEF JobTypeOK, Row, ClaimedRow
  <1>6. Claimed' = Claimed \cup {<<j, n>>} /\ <<j, n>> \notin Claimed
    <2>1. \A c : c \in Claimed <=>
                   \E i \in Jobs \ Unhandled : \E k \in 1 .. job[i].attempts : c = <<i, k>>
      BY DEF Claimed
    <2>2. \A c : c \in Claimed' <=>
                   \E i \in Jobs \ Unhandled : \E k \in 1 .. job'[i].attempts : c = <<i, k>>
      BY DEF Claimed
    <2>3. 1 .. n = 1 .. job[j].attempts \cup {n}
      BY <1>5
    <2>4. \A c : c \in Claimed' <=> c \in Claimed \/ c = <<j, n>>
      BY <1>5, <2>1, <2>2, <2>3
    <2>5. <<j, n>> \notin Claimed
      BY <1>5, <2>1
    <2> QED
      BY <2>4, <2>5
  <1>7. Attempt(w)' = <<j, n>> /\ \A v \in InHand : Attempt(v)' = Attempt(v)
    BY <1>1, <1>2, <1>4 DEF Attempt, InHand
  <1> HIDE DEF n
  <1>8. Reported' = Reported
    <2>1. <<j, n>> \notin unreported
      BY <1>6 DEF MetricsInv, AttemptsTold
    <2>2. {Attempt(v) : v \in InHand}' = {Attempt(v) : v \in InHand} \cup {<<j, n>>}
      BY <1>4, <1>7
    <2> QED
      BY <1>6, <2>1, <2>2 DEF Reported
  <1>9. AttemptsTold'
    <2>1. unreported' \subseteq Claimed' /\ <<j, n>> \notin unreported
      BY <1>6 DEF MetricsInv, AttemptsTold
    <2>2. \A v \in InHand' : Attempt(v)' \in Claimed' \ unreported'
      BY <1>4, <1>6, <1>7, <2>1 DEF MetricsInv, AttemptsTold
    <2>3. \A i \in Jobs \ Unhandled :
            job'[i].status \in {"completed", "failed"} => job'[i].attempts >= 1
      BY <1>5 DEF MetricsInv, AttemptsTold
    <2> QED
      BY <2>1, <2>2, <2>3 DEF AttemptsTold
  <1>10. With("completed")' = With("completed") /\ With("failed")' = With("failed")
    BY <1>5 DEF With
  <1>11. SoFar(Reported)' = SoFar(Reported)
    BY <1>8 DEF SoFar
  <1>12. MetricsFitTable'
    BY <1>8, <1>10, <1>11 DEF MetricsInv, MetricsFitTable
  <1> QED
    BY <1>3, <1>8, <1>9, <1>11, <1>12 DEF MetricsInv, MetricsTyped

\* An interrupted handler's attempt is no longer in hand, nor is it told.
LEMMA InterruptKept ==
  ASSUME JobTypeOK, HandlerOwnsJob, AttemptsKnown, MetricsInv, NEW w \in Workers, Interrupted(w)
  PROVE  MetricsInv'
  <1>1. job' = job /\ worker' = [worker EXCEPT ![w] = Idle] /\ metrics' = metrics
        /\ unreported' = unreported \cup (IF At(w, "handling") THEN {Attempt(w)} ELSE {})
    BY DEF Interrupted, Interrupt
  <1>2. /\ HandlingKnown' /\ InHand' = InHand \ {w}
        /\ \A v \in InHand \ {w} : Attempt(v)' = Attempt(v)
    BY <1>1, IdleKeeps DEF MetricsInv
  <1>3. Claimed' = Claimed
    BY <1>1 DEF Claimed
  <1>4. CASE w \notin InHand
    <2>1. unreported' = unreported /\ InHand' = InHand
      BY <1>1, <1>2, <1>4 DEF InHand
    <2> QED
      BY <1>1, <1>2, <1>4, <2>1, CountsKept
  <1>5. CASE w \in InHand
    <2>1. unreported' = unreported \cup {Attempt(w)}
      BY <1>1, <1>5 DEF InHand
    <2>2. /\ \A v \in InHand \ {w} : Attempt(v) # Attempt(w)
          /\ worker[w].job \in Jobs \ Unhandled /\ job[worker[w].job].status = "running"
      BY <1>5, HandsDiffer
    <2>3. Reported' = Reported
      <3>1. {Attempt(v) : v \in InHand}' = {Attempt(v) : v \in InHand \ {w}}
        BY <1>2
      <3>2. {Attempt(v) : v \in InHand} = {Attempt(v) : v \in InHand \ {w}} \cup {Attempt(w)}
        BY <1>5
      <3> QED
        BY <1>3, <2>1, <3>1, <3>2 DEF Reported
    <2>4. AttemptsTold'
      <3>1. unreported' \subseteq Claimed'
        BY <1>3, <1>5, <2>1 DEF MetricsInv, AttemptsTold
      <3>2. \A v \in InHand' : Attempt(v)' \in Claimed' \ unreported'
        BY <1>2, <1>3, <2>1, <2>2 DEF MetricsInv, AttemptsTold
      <3> QED
        BY <1>1, <3>1, <3>2 DEF MetricsInv, AttemptsTold
    <2>5. ASSUME NEW status \in {"completed", "failed"} PROVE With(status)' = With(status)
      <3>1. \A j \in Jobs \ Unhandled : job[j].status = status => <<j, job[j].attempts>> # Attempt(w)
        BY <2>2, <2>5 DEF Attempt
      <3> QED
        BY <1>1, <2>1, <3>1 DEF With
    <2>6. SoFar(Reported)' = SoFar(Reported)
      BY <2>3 DEF SoFar
    <2>7. MetricsFitTable'
      BY <1>1, <2>3, <2>5, <2>6 DEF MetricsInv, MetricsFitTable
    <2> QED
      BY <1>1, <1>2, <2>3, <2>4, <2>6, <2>7 DEF MetricsInv, MetricsTyped
  <1> QED
    BY <1>4, <1>5

\* What a process knew is gone with it; the next one has been told nothing yet.
LEMMA DeathKept ==
  ASSUME ~Interleaved, JobTypeOK, MetricsInv, NEW w \in Workers, Died(w)
  PROVE  MetricsInv'
  <1>1. /\ job' = job /\ metrics' = NoMetrics /\ unreported' = Claimed
        /\ \A v \in Workers : worker'[v] = Idle
    BY DeathIdles DEF Died
  <1>2. Claimed' = Claimed
    BY <1>1 DEF Claimed
  <1>3. HandlingKnown' /\ InHand' = {}
    BY <1>1 DEF HandlingKnown, InHand, At
  <1>4. Reported' = {}
    BY <1>1, <1>2 DEF Reported
  <1>5. SoFar(Reported)' = {}
    BY <1>4 DEF SoFar
  <1>6. AttemptsTold'
    BY <1>1, <1>2, <1>3 DEF MetricsInv, AttemptsTold
  <1>7. ASSUME NEW status \in {"completed", "failed"} PROVE With(status)' = {}
    <2>1. \A j \in Jobs \ Unhandled : job[j].status = status => <<j, job[j].attempts>> \in Claimed
      <3> SUFFICES ASSUME NEW j \in Jobs \ Unhandled, job[j].status = status
                   PROVE  <<j, job[j].attempts>> \in Claimed
        OBVIOUS
      <3>1. job[j].attempts \in 1 .. job[j].attempts
        BY <1>7 DEF MetricsInv, AttemptsTold, JobTypeOK, Row
      <3> QED
        BY <3>1 DEF Claimed
    <2> QED
      BY <1>1, <2>1 DEF With
  <1>8. Cardinality({}) = 0 /\ IsFiniteSet({})
    BY FS_EmptySet
  <1>9. MetricsTyped' /\ MetricsFitTable'
    BY <1>1, <1>4, <1>5, <1>7, <1>8 DEF MetricsTyped, MetricsFitTable, NoMetrics
  <1> QED
    BY <1>3, <1>4, <1>5, <1>6, <1>8, <1>9 DEF MetricsInv

\* Writing the end of a handler's job touches its row only.
LEMMA EndedRows ==
  ASSUME JobTypeOK, NEW j \in Jobs, NEW retry \in BOOLEAN,
         \/ job' = [job EXCEPT ![j] = CompletedRow(@)]
         \/ job' = [job EXCEPT ![j] = FailedRow(@, retry)]
  PROVE  /\ \A i \in Jobs \ {j} : job'[i] = job[i]
         /\ job'[j].attempts = job[j].attempts
         /\ job' = [job EXCEPT ![j] = CompletedRow(@)] => job'[j].status = "completed"
         /\ job' = [job EXCEPT ![j] = FailedRow(@, retry)] =>
              job'[j].status = IF retry THEN "queued" ELSE "failed"
  <1>1. job[j] \in Row /\ job \in [Jobs -> Row]
    BY DEF JobTypeOK
  <1>2. /\ CompletedRow(job[j]).attempts = job[j].attempts
        /\ CompletedRow(job[j]).status = "completed"
        /\ FailedRow(job[j], retry).attempts = job[j].attempts
        /\ FailedRow(job[j], retry).status = IF retry THEN "queued" ELSE "failed"
    BY <1>1 DEF CompletedRow, FailedRow, Row
  <1> QED
    BY <1>1, <1>2

LEMMA MetricsInductive ==
  ASSUME ~Interleaved, JobAssumption, JobTypeOK, JobTypeOK', HandlerOwnsJob, AttemptsKnown,
         MetricsInv, [MetricsNext]_metricsVars
  PROVE  MetricsInv'
  <1>0. HandlingKnown /\ crashes \in Nat /\ job \in [Jobs -> Row]
    BY DEF MetricsInv, JobTypeOK, JobAssumption
  <1>1. ASSUME NEW j \in Jobs, Enqueue(j), UNCHANGED <<metrics, unreported>> PROVE MetricsInv'
    <2>1. UNCHANGED <<worker, crashes>> /\ job' = [job EXCEPT ![j].status = "queued"]
          /\ job[j].status = "absent"
      BY <1>1 DEF Enqueue
    <2>2. HandlingKnown' /\ InHand' = InHand /\ \A v \in InHand : Attempt(v)' = Attempt(v)
      BY <1>0, <2>1 DEF HandlingKnown, InHand, At, Attempt
    <2>3. \A i \in Jobs \ Unhandled :
            /\ job'[i].attempts = job[i].attempts
            /\ \A status \in {"completed", "failed"} : job'[i].status = status <=> job[i].status = status
      BY <1>0, <2>1 DEF Row
    <2> QED
      BY <1>0, <1>1, <2>1, <2>2, <2>3, CountsKept
  <1>2. ASSUME NEW w \in Workers, RecoverExpired(w), UNCHANGED <<metrics, unreported>> PROVE MetricsInv'
    <2> DEFINE frame == [at |-> "recovered", job |-> 1, attempts |-> 0, left |-> 0]
    <2>1. worker[w] = Idle /\ crashes' = crashes /\ job' = Recovered
          /\ worker' = [worker EXCEPT ![w] = frame] /\ frame.at = "recovered"
      BY <1>2 DEF RecoverExpired
    <2> HIDE DEF frame
    <2>2. HandlingKnown' /\ InHand' = InHand /\ \A v \in InHand : Attempt(v)' = Attempt(v)
      BY <1>0, <2>1, FrameKeeps DEF At
    <2>3. \A i \in Jobs \ Unhandled :
            /\ job'[i].attempts = job[i].attempts
            /\ \A status \in {"completed", "failed"} : job'[i].status = status <=> job[i].status = status
      <3> SUFFICES ASSUME NEW i \in Jobs
                   PROVE  /\ job'[i].attempts = job[i].attempts
                          /\ \A status \in {"completed", "failed"} :
                               job'[i].status = status <=> job[i].status = status
        OBVIOUS
      <3>1. /\ [job[i] EXCEPT !.status = "queued", !.left = NoLease].status = "queued"
            /\ [job[i] EXCEPT !.status = "queued", !.left = NoLease].attempts = job[i].attempts
        BY <1>0 DEF Row
      <3> QED
        BY <2>1, <3>1 DEF Recovered
    <2> QED
      BY <1>0, <1>2, <2>1, <2>2, <2>3, CountsKept
  <1>3. ASSUME NEW w \in Workers, Select(w), UNCHANGED <<metrics, unreported>> PROVE MetricsInv'
    <2>1. ~At(w, "handling") /\ UNCHANGED <<job, crashes>>
      BY <1>3 DEF Select, At
    <2>2. HandlingKnown' /\ InHand' = InHand /\ \A v \in InHand : Attempt(v)' = Attempt(v)
      <3>1. CASE worker' = [worker EXCEPT ![w] = Idle]
        BY <1>0, <2>1, <3>1, FrameKeeps
      <3>2. ASSUME NEW j \in Queued,
                   worker' = [worker EXCEPT ![w] =
                                [at |-> "selected", job |-> j, left |-> LeaseTicks + 1,
                                 attempts |-> job[j].attempts + 1]]
            PROVE  HandlingKnown' /\ InHand' = InHand /\ \A v \in InHand : Attempt(v)' = Attempt(v)
        <4> DEFINE frame == [at |-> "selected", job |-> j, left |-> LeaseTicks + 1,
                             attempts |-> job[j].attempts + 1]
        <4>1. job[j].attempts \in Nat
          BY <1>0 DEF Queued, Row
        <4>2. frame.attempts >= 1 /\ frame.at = "selected" /\ worker' = [worker EXCEPT ![w] = frame]
          BY <3>2, <4>1
        <4> HIDE DEF frame
        <4> QED
          BY <1>0, <2>1, <4>2, FrameKeeps
      <3> QED
        BY <1>3, <3>1, <3>2 DEF Select
    <2> QED
      BY <1>0, <1>3, <2>1, <2>2, CountsKept
  <1>4. ASSUME NEW w \in Workers, TakeRow(w), UNCHANGED <<metrics, unreported>> PROVE MetricsInv'
    <2> DEFINE j == worker[w].job
    <2>1. /\ At(w, "selected") /\ ~At(w, "handling") /\ worker[w] \in Frame /\ worker[w] # Idle
          /\ j \in Jobs /\ crashes' = crashes
      BY <1>4 DEF TakeRow, At, JobTypeOK, Frame
    <2>2. CASE job[j].status # "queued"
      <3>1. worker' = [worker EXCEPT ![w] = Idle] /\ job' = job
        BY <1>4, <2>2 DEF TakeRow
      <3>2. HandlingKnown' /\ InHand' = InHand /\ \A v \in InHand : Attempt(v)' = Attempt(v)
        BY <1>0, <2>1, <3>1, FrameKeeps
      <3> QED
        BY <1>0, <1>4, <2>1, <3>1, <3>2, CountsKept
    <2>3. CASE job[j].status = "queued" /\ j \in Unhandled
      <3> DEFINE frame == [worker[w] EXCEPT !.at = "rejecting"]
      <3>1. job' = [job EXCEPT ![j] = ClaimedRow(@, worker[w].left)]
            /\ worker' = [worker EXCEPT ![w] = frame]
        BY <1>4, <2>3 DEF TakeRow
      <3>2. frame.at = "rejecting" /\ frame.job \in Unhandled
        BY <2>1, <2>3 DEF Frame
      <3> HIDE DEF frame
      <3>3. HandlingKnown' /\ InHand' = InHand /\ \A v \in InHand : Attempt(v)' = Attempt(v)
        BY <1>0, <2>1, <3>1, <3>2, FrameKeeps
      <3>4. \A i \in Jobs \ Unhandled : job'[i] = job[i]
        BY <1>0, <2>3, <3>1
      <3> QED
        BY <1>0, <1>4, <2>1, <3>3, <3>4, CountsKept
    <2>4. CASE job[j].status = "queued" /\ j \notin Unhandled
      <3>1. job' = [job EXCEPT ![j] = ClaimedRow(@, worker[w].left)]
            /\ worker' = [worker EXCEPT ![w].at = "handling"]
        BY <1>4, <2>4 DEF TakeRow
      <3> QED
        BY <1>4, <2>1, <2>4, <3>1, ClaimKept
    <2> QED
      BY <2>2, <2>3, <2>4
  <1>5. ASSUME NEW w \in Workers, Reject(w), UNCHANGED <<metrics, unreported>> PROVE MetricsInv'
    <2>1. /\ ~At(w, "handling") /\ worker[w].job \in Unhandled /\ crashes' = crashes
          /\ job' = [job EXCEPT ![worker[w].job] = FailedRow(@, FALSE)]
          /\ worker' = [worker EXCEPT ![w] = Idle]
      BY <1>0, <1>5 DEF Reject, At, HandlingKnown
    <2>2. HandlingKnown' /\ InHand' = InHand /\ \A v \in InHand : Attempt(v)' = Attempt(v)
      BY <1>0, <2>1, FrameKeeps
    <2>3. \A i \in Jobs \ Unhandled : job'[i] = job[i]
      BY <1>0, <2>1
    <2> QED
      BY <1>0, <1>5, <2>2, <2>3, CountsKept
  <1>6. ASSUME NEW w \in Workers, Interrupted(w) \/ Died(w) PROVE MetricsInv'
    BY <1>6, InterruptKept, DeathKept
  <1>7. ASSUME NEW w \in Workers, Stop(w), UNCHANGED <<metrics, unreported>> PROVE MetricsInv'
    <2>1. UNCHANGED <<job, worker, crashes>>
      BY <1>7 DEF Stop
    <2>2. HandlingKnown' /\ InHand' = InHand /\ \A v \in InHand : Attempt(v)' = Attempt(v)
      BY <1>0, <2>1 DEF HandlingKnown, InHand, At, Attempt
    <2> QED
      BY <1>0, <1>7, <2>1, <2>2, CountsKept
  <1>8. ASSUME Tick, UNCHANGED <<metrics, unreported>> PROVE MetricsInv'
    <2>1. /\ \A w \in Workers : worker'[w] = IF worker[w] = Idle THEN Idle
                                 ELSE [worker[w] EXCEPT !.left = Less(@)]
          /\ \A i \in Jobs : job'[i] = [job[i] EXCEPT !.left = Less(@)]
          /\ crashes' = crashes
      BY <1>8 DEF Tick
    <2>2. \A w \in Workers :
            /\ worker[w] = Idle => worker'[w] = Idle
            /\ worker[w] # Idle => /\ worker'[w] # Idle
                                   /\ worker'[w].at = worker[w].at
                                   /\ worker'[w].job = worker[w].job
                                   /\ worker'[w].attempts = worker[w].attempts
      <3> SUFFICES ASSUME NEW w \in Workers, worker[w] # Idle
                   PROVE  /\ worker'[w] # Idle /\ worker'[w].at = worker[w].at
                          /\ worker'[w].job = worker[w].job
                          /\ worker'[w].attempts = worker[w].attempts
        BY <2>1
      <3>1. worker[w] \in Frame /\ worker'[w] = [worker[w] EXCEPT !.left = Less(@)]
        BY <2>1 DEF JobTypeOK
      <3>2. worker'[w] \in Frame
        BY <3>1, FrameTick
      <3> QED
        BY <3>1, <3>2 DEF Frame, JobAssumption
    <2>3. HandlingKnown' /\ InHand' = InHand /\ \A v \in InHand : Attempt(v)' = Attempt(v)
      <3>1. HandlingKnown'
        BY <1>0, <2>2 DEF HandlingKnown
      <3>2. \A w \in Workers : At(w, "handling")' <=> At(w, "handling")
        BY <2>2 DEF At
      <3>3. InHand' = InHand
        BY <3>2 DEF InHand
      <3>4. \A v \in InHand : Attempt(v)' = Attempt(v)
        BY <2>2 DEF InHand, At, Attempt
      <3> QED
        BY <3>1, <3>3, <3>4
    <2>4. \A i \in Jobs : job'[i].attempts = job[i].attempts /\ job'[i].status = job[i].status
      BY <2>1 DEF JobTypeOK, Row
    <2> QED
      BY <1>0, <1>8, <2>1, <2>3, <2>4, CountsKept
  <1>9. ASSUME NEW w \in Workers, At(w, "handling"), worker' = [worker EXCEPT ![w] = Idle]
        PROVE  /\ w \in InHand /\ InHand' = InHand \ {w} /\ HandlingKnown'
               /\ \A v \in InHand \ {w} : worker'[v] = worker[v]
               /\ worker[w].job \in Jobs /\ worker[w].attempts \in Nat /\ worker[w].attempts >= 1
    <2>1. w \in InHand
      BY <1>9 DEF InHand
    <2> QED
      BY <1>0, <1>9, <2>1, IdleKeeps, HandsDiffer
  <1>10. ASSUME NEW w \in Workers, RecordedReturn(w) PROVE MetricsInv'
    <2>1. /\ At(w, "handling") /\ job' = [job EXCEPT ![worker[w].job] = CompletedRow(@)]
          /\ worker' = [worker EXCEPT ![w] = Idle]
          /\ RecordTask("completed", worker[w].attempts - 1)
      BY <1>10 DEF RecordedReturn, HandlerSucceeds
    <2>0. /\ w \in InHand /\ InHand' = InHand \ {w} /\ HandlingKnown'
          /\ \A v \in InHand \ {w} : worker'[v] = worker[v]
          /\ worker[w].job \in Jobs /\ worker[w].attempts \in Nat /\ worker[w].attempts >= 1
      BY <1>9, <2>1
    <2>2. PICK j \in Jobs : j = worker[w].job
      BY <2>0
    <2>3. /\ \A i \in Jobs \ {j} : job'[i] = job[i]
          /\ job'[j].attempts = job[j].attempts /\ job'[j].status = "completed"
      BY <2>1, <2>2, EndedRows
    <2>4. worker[w].attempts - 1 \in Nat /\ (worker[w].attempts - 1) + 1 = worker[w].attempts
      BY <2>0
    <2>5. \A i \in Jobs : job'[i].attempts = job[i].attempts
      BY <2>3
    <2> QED
      BY <2>0, <2>1, <2>2, <2>3, <2>4, <2>5, EndKept
  <1>11. ASSUME NEW w \in Workers, RecordedRaise(w) PROVE MetricsInv'
    <2> DEFINE retry == Retry(worker[w].attempts)
    <2>1. /\ At(w, "handling") /\ job' = [job EXCEPT ![worker[w].job] = FailedRow(@, retry)]
          /\ worker' = [worker EXCEPT ![w] = Idle]
          /\ RecordTask(StatusOfRaise(w), worker[w].attempts) /\ retry \in BOOLEAN
          /\ StatusOfRaise(w) = IF retry THEN "retry" ELSE "failed"
      BY <1>11 DEF RecordedRaise, HandlerRaises, Retry, StatusOfRaise
    <2> HIDE DEF retry
    <2>0. /\ w \in InHand /\ InHand' = InHand \ {w} /\ HandlingKnown'
          /\ \A v \in InHand \ {w} : worker'[v] = worker[v]
          /\ worker[w].job \in Jobs /\ worker[w].attempts \in Nat /\ worker[w].attempts >= 1
      BY <1>9, <2>1
    <2>2. PICK j \in Jobs : j = worker[w].job
      BY <2>0
    <2>3. /\ \A i \in Jobs \ {j} : job'[i] = job[i]
          /\ job'[j].attempts = job[j].attempts
          /\ job'[j].status = IF retry THEN "queued" ELSE "failed"
      BY <2>1, <2>2, EndedRows
    <2>4. worker[w].attempts \in Nat /\ worker[w].attempts + 0 = worker[w].attempts
      BY <2>0
    <2>5. \A i \in Jobs : job'[i].attempts = job[i].attempts
      BY <2>3
    <2>6. /\ StatusOfRaise(w) \in {"completed", "retry", "failed"} /\ StatusOfRaise(w) # "completed"
          /\ job'[j].status = IF StatusOfRaise(w) = "retry" THEN "queued" ELSE StatusOfRaise(w)
      BY <2>1, <2>3
    <2> QED
      BY <2>0, <2>1, <2>2, <2>3, <2>4, <2>5, <2>6, EndKept
  <1>12. CASE UNCHANGED metricsVars
    <2>1. UNCHANGED <<job, worker, crashes, metrics, unreported>>
      BY <1>12 DEF metricsVars
    <2>2. HandlingKnown' /\ InHand' = InHand /\ \A v \in InHand : Attempt(v)' = Attempt(v)
      BY <1>0, <2>1 DEF HandlingKnown, InHand, At, Attempt
    <2> QED
      BY <1>0, <2>1, <2>2, CountsKept
  <1> QED
    BY <1>1, <1>2, <1>3, <1>4, <1>5, <1>6, <1>7, <1>8, <1>10, <1>11, <1>12
    DEF MetricsNext, Unrecorded, RunOnce

\* Of workers in one process whose handlers finish within their lease, what run_once has
\* told the registry of the process fits the table: the rows that the process finished are
\* counted once, and so is each attempt it saw the end of, whatever was interrupted and
\* whatever earlier processes did.
THEOREM MetricsAlwaysFit ==
  ASSUME ~Overrun, ~Interleaved, MaxAttempts # 0
  PROVE  MetricsSpec => []MetricsFitTable
  <1>1. MetricsInit => MetricsInv
    <2> SUFFICES ASSUME MetricsInit PROVE MetricsInv
      OBVIOUS
    <2>1. Claimed = {} /\ InHand = {} /\ With("completed") = {} /\ With("failed") = {}
      BY DEF MetricsInit, JobInit, Claimed, InHand, At, With
    <2>2. Cardinality({}) = 0 /\ IsFiniteSet({})
      BY FS_EmptySet
    <2>3. Reported = {}
      BY <2>1 DEF Reported
    <2>4. SoFar(Reported) = {}
      BY <2>3 DEF SoFar
    <2>5. MetricsTyped /\ MetricsFitTable
      BY <2>1, <2>2, <2>3, <2>4 DEF MetricsInit, NoMetrics, MetricsTyped, MetricsFitTable
    <2>6. HandlingKnown /\ AttemptsTold
      BY <2>1 DEF MetricsInit, JobInit, HandlingKnown, AttemptsTold
    <2> QED
      BY <2>2, <2>3, <2>4, <2>5, <2>6 DEF MetricsInv
  <1>2. /\ JobTypeOK /\ JobTypeOK' /\ OwnershipInv /\ AttemptsInv /\ MetricsInv
        /\ [MetricsNext]_metricsVars
        => MetricsInv'
    BY MetricsInductive, JobAssumption DEF OwnershipInv, AttemptsInv
  <1>3. MetricsInv => MetricsFitTable
    BY DEF MetricsInv
  <1>4. JobSpec => []JobTypeOK
    BY TypeCorrect
  <1>5. JobSpec => []OwnershipInv
    BY OwnershipInductive
  <1>6. JobSpec => []AttemptsInv
    BY AttemptsInductive
  <1> QED
    BY <1>1, <1>2, <1>3, <1>4, <1>5, <1>6, MetricsRunQueue, PTL DEF MetricsSpec
=============================================================================
