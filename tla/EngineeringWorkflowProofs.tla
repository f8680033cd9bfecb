----------------------- MODULE EngineeringWorkflowProofs -----------------------
(***************************************************************************)
(* Proofs about EngineeringWorkflow for every number of workflows,         *)
(* runners, phases, faults and requests.                                   *)
(***************************************************************************)
EXTENDS EngineeringWorkflow, TLAPS

-----------------------------------------------------------------------------
\* Typing

\* Recording an event and a new status keeps a row well typed.
LEMMA NoteType ==
  ASSUME NEW row \in Row, NEW kind \in EventKind, NEW p \in 0 .. NumPhases, NEW k \in Nat
  PROVE  /\ Note(row, kind, p, k) \in Row
         /\ Note(row, kind, p, k).phase = row.phase
         /\ Note(row, kind, p, k).status = row.status
         /\ Note(row, kind, p, k).approval = row.approval
  BY DEF Note, Row, Event

LEMMA FailedRowType ==
  ASSUME NEW cur \in Row
  PROVE  FailedRow(cur) \in Row /\ FailedRow(cur).status = "failed"
  <1>1. cur.phase \in 0 .. NumPhases
    BY DEF Row
  <1>2. Note(cur, "failed", cur.phase, 0) \in Row
    BY <1>1, NoteType DEF EventKind
  <1> QED
    BY <1>2 DEF FailedRow, Row, Status

\* The last save of a call stores a well typed row and frees the runner.
LEMMA LeaveType ==
  ASSUME TypeOK, NEW r \in Runners, NEW w \in Workflows,
         NEW cur \in Row, NEW final \in Row, Leave(r, w, cur, final), WorkflowAssumption
  PROVE  /\ store' \in [Workflows -> Row]
         /\ runner' \in [Runners -> Run \cup {Idle}]
         /\ faults' \in 0 .. MaxFaults
  BY DEF TypeOK, Leave, SaveFails, WorkflowAssumption

\* A new checkpoint is a typed row and a typed, fresh request.
LEMMA AskApprovalType ==
  ASSUME TypeOK, WorkflowAssumption, NEW r \in Runners, NEW w \in Workflows,
         NEW cur \in Row, cur.phase \in ApprovalPhases, AskApproval(r, w, cur)
  PROVE  /\ store' \in [Workflows -> Row]
         /\ runner' \in [Runners -> Run \cup {Idle}]
         /\ requested' \in SUBSET Request
         /\ requested \subseteq requested'
         /\ faults' \in 0 .. MaxFaults
  <1>1. PICK k \in FreshSerials(w) :
          LET q == [wf |-> w, phase |-> cur.phase, n |-> k]
          IN /\ requested' = requested \cup {q}
             /\ Leave(r, w, cur, [Note(cur, "waiting", cur.phase, k) EXCEPT
                                    !.status = "waiting", !.approval = q])
    BY DEF AskApproval
  <1> DEFINE q == [wf |-> w, phase |-> cur.phase, n |-> k]
             final == [Note(cur, "waiting", cur.phase, k) EXCEPT
                         !.status = "waiting", !.approval = q]
  <1>2. cur.phase \in Phase /\ cur.phase \in 0 .. NumPhases
    BY DEF WorkflowAssumption, Row
  <1>3. k \in 1 .. MaxRequests /\ k \in Nat
    BY DEF FreshSerials, WorkflowAssumption
  <1>4. q \in Request
    BY <1>2, <1>3 DEF Request
  <1>5. Note(cur, "waiting", cur.phase, k) \in Row
    BY <1>2, <1>3, NoteType DEF EventKind
  <1>6. final \in Row
    BY <1>4, <1>5 DEF Row, Status
  <1>7. Leave(r, w, cur, final)
    BY <1>1
  <1> QED
    BY <1>1, <1>4, <1>6, <1>7, LeaveType DEF TypeOK

\* Starting or refusing an operation.
LEMMA DispatchType ==
  ASSUME TypeOK, WorkflowAssumption, NEW r \in Runners, NEW w \in Workflows,
         NEW cur \in Row, cur.phase \in Phase,
         NEW grant \in Request \cup {NoRequest},
         Dispatch(r, w, cur, grant) \/ Refuse(r, w, cur, grant)
  PROVE  /\ store' \in [Workflows -> Row]
         /\ runner' \in [Runners -> Run \cup {Idle}]
         /\ uses' \in [Request -> Nat]
         /\ faults' \in 0 .. MaxFaults
  <1>1. CASE Dispatch(r, w, cur, grant)
    <2>1. cur.phase < NumPhases
      BY DEF Phase, WorkflowAssumption
    <2>2. [wf |-> w, cur |-> cur, grant |-> grant] \in Run
      BY <2>1 DEF Run
    <2>3. uses' \in [Request -> Nat]
      BY <1>1 DEF Dispatch, TypeOK
    <2> QED
      BY <1>1, <2>2, <2>3 DEF Dispatch, TypeOK
  <1>2. CASE Refuse(r, w, cur, grant)
    BY <1>2, FailedRowType, LeaveType DEF Refuse, TypeOK
  <1> QED
    BY <1>1, <1>2

\* The segment of _run between two awaits keeps every variable well typed.
LEMMA ContinueType ==
  ASSUME TypeOK, WorkflowAssumption, NEW r \in Runners, NEW w \in Workflows,
         NEW cur \in Row, NEW cached \in Request \cup {NoRequest},
         Continue(r, w, cur, cached)
  PROVE  /\ store' \in [Workflows -> Row]
         /\ runner' \in [Runners -> Run \cup {Idle}]
         /\ cache' \in [Workflows -> Request \cup {NoRequest}]
         /\ requested' \in SUBSET Request
         /\ requested \subseteq requested'
         /\ faults' \in 0 .. MaxFaults
         /\ uses' \in [Request -> Nat]
  <1>1. CASE cur.phase = NumPhases /\ UNCHANGED <<cache, requested, uses>> /\
             Leave(r, w, cur, [cur EXCEPT !.status = "completed", !.approval = NoRequest])
    <2>1. [cur EXCEPT !.status = "completed", !.approval = NoRequest] \in Row
      BY DEF Row, Status
    <2> QED
      BY <1>1, <2>1, LeaveType DEF TypeOK
  <1>2. CASE cur.phase \in ApprovalPhases /\ AskApproval(r, w, cur) /\ UNCHANGED <<cache, uses>>
    BY <1>2, AskApprovalType DEF TypeOK
  <1>3. CASE /\ cur.phase \in ApprovalPhases
             /\ cached # NoRequest
             /\ cache' = PopCached(w, cached)
             /\ Dispatch(r, w, cur, cached) \/ Refuse(r, w, cur, cached)
             /\ UNCHANGED requested
    <2>1. cur.phase \in Phase
      BY <1>3 DEF WorkflowAssumption
    <2>2. cache' \in [Workflows -> Request \cup {NoRequest}]
      BY <1>3 DEF PopCached, TypeOK
    <2> QED
      BY <1>3, <2>1, <2>2, DispatchType DEF TypeOK
  <1>4. CASE /\ cur.phase \in Phase \ ApprovalPhases
             /\ Dispatch(r, w, cur, NoRequest) \/ Refuse(r, w, cur, NoRequest)
             /\ UNCHANGED <<cache, requested>>
    BY <1>4, DispatchType DEF TypeOK
  <1> QED
    BY <1>1, <1>2, <1>3, <1>4 DEF Continue

\* The row resume() saves.
LEMMA ResumedRowType ==
  ASSUME TypeOK, WorkflowAssumption, NEW w \in Workflows, store[w].approval \in granted
  PROVE  ResumedRow(w) \in Row /\ ResumedRow(w).status = "running"
  <1>1. store[w] \in Row /\ store[w].approval \in Request
    BY DEF TypeOK
  <1>2. /\ store[w].approval.phase \in 0 .. NumPhases
        /\ store[w].approval.n \in Nat
    BY <1>1 DEF Request, Phase, WorkflowAssumption
  <1>3. Note(store[w], "approved", store[w].approval.phase, store[w].approval.n) \in Row
    BY <1>1, <1>2, NoteType DEF EventKind
  <1> QED
    BY <1>3 DEF ResumedRow, Row, Status

\* The row a runner saves when its operation returns.
LEMMA AdvancedType ==
  ASSUME TypeOK, WorkflowAssumption, NEW r \in Runners, runner[r] # Idle
  PROVE  /\ runner[r].wf \in Workflows
         /\ runner[r].cur \in Row
         /\ Advanced(runner[r]) \in Row
         /\ Advanced(runner[r]).status = "running"
  <1>1. runner[r] \in Run
    BY DEF TypeOK
  <1>2. /\ runner[r].wf \in Workflows
        /\ runner[r].cur \in Row
        /\ runner[r].cur.phase < NumPhases
    BY <1>1 DEF Run
  <1>3. runner[r].cur.phase \in 0 .. NumPhases
    BY <1>2 DEF Row
  <1>4. 0 \in Nat /\ "executed" \in EventKind
    BY DEF EventKind
  <1>5. ASSUME NEW row \in Row, row.phase \in 0 .. NumPhases
        PROVE  /\ Note(row, "executed", row.phase, 0) \in Row
               /\ Note(row, "executed", row.phase, 0).phase = row.phase
    BY <1>4, <1>5, NoteType
  <1>6. runner[r].cur.phase + 1 \in 0 .. NumPhases
    BY <1>2, <1>3 DEF WorkflowAssumption
  <1> QED
    BY <1>2, <1>3, <1>5, <1>6 DEF Advanced, Row, Status

\* Every reachable state is well typed: in particular a persisted phase index
\* never leaves 0 .. NumPhases and a suspended runner is inside a phase.
THEOREM TypeCorrect == Spec => []TypeOK
  <1> USE WorkflowAssumption
  <1>1. Init => TypeOK
    BY DEF Init, TypeOK, Row, Status, WorkflowAssumption
  <1>2. TypeOK /\ [Next]_vars => TypeOK'
    <2> SUFFICES ASSUME TypeOK, [Next]_vars PROVE TypeOK'
      OBVIOUS
    <2>1. ASSUME NEW w \in Workflows, Start(w) PROVE TypeOK'
      BY <2>1 DEF Start, TypeOK, Row, Status
    <2>2. ASSUME NEW w \in Workflows, Escalate(w) PROVE TypeOK'
      <3>1. store[w] \in Row /\ store[w].phase \in 0 .. NumPhases
        BY DEF TypeOK, Row
      <3>2. escalations' \in Nat /\ escalations' \in 0 .. MaxEscalations
        BY <2>2 DEF Escalate, TypeOK, WorkflowAssumption
      <3>3. Note(store[w], "escalated", store[w].phase, escalations') \in Row
        BY <3>1, <3>2, NoteType DEF EventKind
      <3>4. [Note(store[w], "escalated", store[w].phase, escalations') EXCEPT
               !.status = "escalated"] \in Row
        BY <3>3 DEF Row, Status
      <3> QED
        BY <2>2, <3>2, <3>4 DEF Escalate, TypeOK
    <2>4. ASSUME NEW w \in Workflows, ResumeSaveFails(w) PROVE TypeOK'
      BY <2>4, ResumedRowType DEF ResumeSaveFails, SaveFails, TypeOK, WorkflowAssumption
    <2>5. ASSUME NEW r \in Runners, NEW w \in Workflows, RunWorkflow(r, w) PROVE TypeOK'
      <3>1. [store[w] EXCEPT !.status = "running"] \in Row
        BY DEF TypeOK, Row, Status
      <3>2. cache[w] \in Request \cup {NoRequest}
        BY DEF TypeOK
      <3> QED
        BY <2>5, <3>1, <3>2, ContinueType DEF RunWorkflow, TypeOK
    <2>6. ASSUME NEW r \in Runners, NEW w \in Workflows, Resume(r, w) PROVE TypeOK'
      <3>1. store[w].approval \in Request
        BY <2>6 DEF Resume, TypeOK
      <3> QED
        BY <2>6, <3>1, ResumedRowType, ContinueType DEF Resume, TypeOK
    <2>7. ASSUME NEW q \in requested, Grant(q) PROVE TypeOK'
      BY <2>7 DEF Grant, TypeOK
    <2>9. ASSUME NEW r \in Runners, OpReturns(r) PROVE TypeOK'
      <3>1. cache[runner[r].wf] \in Request \cup {NoRequest}
        BY <2>9, AdvancedType DEF OpReturns, TypeOK
      <3>2. spent' \in Nat
        BY <2>9 DEF OpReturns, TypeOK
      <3> QED
        BY <2>9, <3>1, <3>2, AdvancedType, ContinueType DEF OpReturns, TypeOK
    <2>10. ASSUME NEW r \in Runners, OpSaveFails(r) PROVE TypeOK'
      BY <2>10 DEF OpSaveFails, SaveFails, TypeOK, WorkflowAssumption
    <2>11. ASSUME NEW r \in Runners, OpFails(r) PROVE TypeOK'
      <3>1. store[runner[r].wf] \in Row /\ FailedRow(runner[r].cur) \in Row
        BY <2>11, AdvancedType, FailedRowType DEF OpFails, TypeOK
      <3>2. Leave(r, runner[r].wf, store[runner[r].wf], FailedRow(runner[r].cur))
        BY <2>11 DEF OpFails
      <3> QED
        BY <2>11, <3>1, <3>2, AdvancedType, LeaveType DEF OpFails, TypeOK
    <2>12. ASSUME NEW r \in Runners, OpEscalates(r) PROVE TypeOK'
      BY <2>12 DEF OpEscalates, TypeOK, WorkflowAssumption
    <2>13. ASSUME NEW r \in Runners, OpCancelled(r) PROVE TypeOK'
      BY <2>13 DEF OpCancelled, TypeOK, WorkflowAssumption
    <2>14. CASE Restart
      BY <2>14 DEF Restart, TypeOK, WorkflowAssumption
    <2>15. CASE WindowMoves
      BY <2>15 DEF WindowMoves, TypeOK
    <2>16. CASE UNCHANGED vars
      BY <2>16 DEF vars, TypeOK
    <2> QED
      BY <2>1, <2>2, <2>4, <2>5, <2>6, <2>7, <2>9, <2>10, <2>11, <2>12, <2>13,
         <2>14, <2>15, <2>16 DEF Next
  <1> QED
    BY <1>1, <1>2, PTL DEF Spec

-----------------------------------------------------------------------------
\* Approvals

\* Each request starts at most one operation, and none before it is made.
UsesAccounted ==
  \A q \in Request : uses[q] <= 1 /\ (q \notin requested => uses[q] = 0)

\* A cached approval was granted for its workflow and is not spent.
CachedUnspent ==
  \A w \in Workflows : cache[w] # NoRequest =>
    cache[w] \in granted /\ cache[w].wf = w /\ uses[cache[w]] = 0

\* A runner's approval was granted for its workflow; HIGH risk needs one.
RunnersApproved ==
  \A r \in Runners : runner[r] # Idle =>
    /\ runner[r].grant # NoRequest =>
         runner[r].grant \in granted /\ runner[r].grant.wf = runner[r].wf
    /\ runner[r].cur.phase \in HighRiskPhases => runner[r].grant # NoRequest

\* The inductive invariant behind ApprovalUsedOnce: the places an unspent
\* approval can be in are the stored checkpoint and the cache of one workflow.
ApprovalInv ==
  /\ UsesAccounted
  /\ CachedUnspent
  /\ OpenCheckpointUnspent
  /\ RunnersApproved

\* A save of a row that is not a checkpoint, with no approval used.
LEMMA LeaveSafe ==
  ASSUME TypeOK, ApprovalInv, NEW r \in Runners, NEW w \in Workflows,
         NEW cur \in Row, cur.status # "waiting",
         NEW final \in Row, final.status # "waiting",
         Leave(r, w, cur, final),
         requested' = requested, granted' = granted, uses' = uses,
         cache' = cache \/ cache' = [cache EXCEPT ![w] = NoRequest]
  PROVE  ApprovalInv'
  <1>1. UsesAccounted'
    BY DEF ApprovalInv, UsesAccounted
  <1>2. CachedUnspent'
    BY DEF ApprovalInv, CachedUnspent, TypeOK
  <1>3. \A v \in Workflows : v # w => store'[v] = store[v]
    BY DEF Leave, TypeOK
  <1>4. store'[w] = cur \/ store'[w] = final
    BY DEF Leave, TypeOK
  <1>5. OpenCheckpointUnspent'
    BY <1>3, <1>4 DEF ApprovalInv, OpenCheckpointUnspent
  <1>6. RunnersApproved'
    BY DEF ApprovalInv, RunnersApproved, Leave, TypeOK
  <1> QED
    BY <1>1, <1>2, <1>5, <1>6 DEF ApprovalInv

\* A new checkpoint carries a request that nothing has used.
LEMMA AskApprovalSafe ==
  ASSUME TypeOK, WorkflowAssumption, ApprovalInv,
         NEW r \in Runners, NEW w \in Workflows, NEW cur \in Row,
         cur.status # "waiting", cur.phase \in ApprovalPhases,
         AskApproval(r, w, cur), granted' = granted, UNCHANGED <<cache, uses>>
  PROVE  ApprovalInv'
  <1>1. PICK k \in FreshSerials(w) :
          LET q == [wf |-> w, phase |-> cur.phase, n |-> k]
          IN /\ requested' = requested \cup {q}
             /\ Leave(r, w, cur, [Note(cur, "waiting", cur.phase, k) EXCEPT
                                    !.status = "waiting", !.approval = q])
    BY DEF AskApproval
  <1> DEFINE q == [wf |-> w, phase |-> cur.phase, n |-> k]
             final == [Note(cur, "waiting", cur.phase, k) EXCEPT
                         !.status = "waiting", !.approval = q]
  <1>2. k \in 1 .. MaxRequests /\ k \in Nat
    BY DEF FreshSerials, WorkflowAssumption
  <1>3. cur.phase \in Phase /\ cur.phase \in 0 .. NumPhases
    BY DEF WorkflowAssumption, Row
  <1>4. q \in Request /\ q.wf = w /\ q.phase = cur.phase
    BY <1>2, <1>3 DEF Request
  <1>5. q \notin requested
    BY <1>4 DEF FreshSerials
  <1>6. uses[q] = 0
    BY <1>4, <1>5 DEF ApprovalInv, UsesAccounted
  <1>7. Note(cur, "waiting", cur.phase, k) \in Row /\
        Note(cur, "waiting", cur.phase, k).phase = cur.phase
    BY <1>2, <1>3, NoteType DEF EventKind
  <1>8. final.status = "waiting" /\ final.approval = q /\ final.phase = cur.phase
    BY <1>7 DEF Row
  <1>9. /\ runner' = [runner EXCEPT ![r] = Idle]
        /\ \/ store' = [store EXCEPT ![w] = final]
           \/ store' = [store EXCEPT ![w] = cur]
    BY <1>1 DEF Leave
  <1>10. requested' = requested \cup {q}
    BY <1>1
  <1> HIDE DEF q, final
  <1>11. UsesAccounted'
    BY <1>4, <1>6, <1>10 DEF ApprovalInv, UsesAccounted
  <1>12. CachedUnspent'
    BY DEF ApprovalInv, CachedUnspent
  <1>13. ASSUME NEW v \in Workflows, store'[v].status = "waiting"
         PROVE  /\ store'[v].approval \in requested'
                /\ store'[v].approval.wf = v
                /\ store'[v].approval.phase = store'[v].phase
                /\ store'[v].approval.phase \in ApprovalPhases
                /\ uses'[store'[v].approval] = 0
    <2>1. CASE v = w
      <3>1. store'[v] = final
        BY <2>1, <1>9, <1>13 DEF TypeOK
      <3> QED
        BY <3>1, <2>1, <1>4, <1>6, <1>8, <1>10
    <2>2. CASE v # w
      <3>1. store'[v] = store[v]
        BY <2>2, <1>9 DEF TypeOK
      <3> QED
        BY <3>1, <1>10, <1>13 DEF ApprovalInv, OpenCheckpointUnspent
    <2> QED
      BY <2>1, <2>2
  <1>14. OpenCheckpointUnspent'
    BY <1>13 DEF OpenCheckpointUnspent
  <1>15. RunnersApproved'
    BY <1>9 DEF ApprovalInv, RunnersApproved, TypeOK
  <1> QED
    BY <1>11, <1>12, <1>14, <1>15 DEF ApprovalInv

\* Starting an operation spends the approval it was given and no other.
LEMMA DispatchSafe ==
  ASSUME TypeOK, ApprovalInv, NEW r \in Runners, NEW w \in Workflows,
         NEW cur \in Row, cur.status # "waiting",
         NEW grant \in Request \cup {NoRequest},
         grant # NoRequest =>
           /\ grant \in granted /\ grant.wf = w /\ uses[grant] = 0
           /\ cache' = [cache EXCEPT ![w] = NoRequest],
         grant = NoRequest => cache' = cache,
         Dispatch(r, w, cur, grant),
         requested' = requested, granted' = granted
  PROVE  ApprovalInv'
  <1>1. \A v \in Workflows : v # w => store'[v] = store[v]
    BY DEF Dispatch, TypeOK
  <1>2. store'[w] = cur
    BY DEF Dispatch, TypeOK
  <1>3. \A q \in Request : uses'[q] = IF q = grant /\ grant # NoRequest
                                      THEN uses[q] + 1 ELSE uses[q]
    BY DEF Dispatch, TypeOK
  <1>4. UsesAccounted'
    <2> SUFFICES ASSUME NEW q \in Request
                 PROVE  uses'[q] <= 1 /\ (q \notin requested => uses'[q] = 0)
      BY DEF UsesAccounted
    <2>1. uses[q] \in Nat /\ uses[q] <= 1 /\ (q \notin requested => uses[q] = 0)
      BY DEF TypeOK, ApprovalInv, UsesAccounted
    <2>2. CASE q = grant /\ grant # NoRequest
      BY <1>3, <2>1, <2>2 DEF TypeOK
    <2>3. CASE ~(q = grant /\ grant # NoRequest)
      BY <1>3, <2>1, <2>3
    <2> QED
      BY <2>2, <2>3
  <1>5. \A v \in Workflows : cache'[v] # NoRequest =>
          cache'[v] = cache[v] /\ (grant # NoRequest => v # w)
    BY DEF TypeOK
  <1>6. CachedUnspent'
    <2> SUFFICES ASSUME NEW v \in Workflows, cache'[v] # NoRequest
                 PROVE  cache'[v] \in granted /\ cache'[v].wf = v /\ uses'[cache'[v]] = 0
      BY DEF CachedUnspent
    <2>1. cache'[v] \in granted /\ cache'[v].wf = v /\ uses[cache'[v]] = 0
      BY <1>5 DEF ApprovalInv, CachedUnspent
    <2>2. cache'[v] \in Request
      BY <2>1 DEF TypeOK
    <2>3. ~(cache'[v] = grant /\ grant # NoRequest)
      BY <1>5, <2>1
    <2> QED
      BY <1>3, <2>1, <2>2, <2>3
  <1>7. OpenCheckpointUnspent'
    <2> SUFFICES ASSUME NEW v \in Workflows, store'[v].status = "waiting"
                 PROVE  /\ store'[v].approval \in requested'
                        /\ store'[v].approval.wf = v
                        /\ store'[v].approval.phase = store'[v].phase
                        /\ store'[v].approval.phase \in ApprovalPhases
                        /\ uses'[store'[v].approval] = 0
      BY DEF OpenCheckpointUnspent
    <2>1. v # w /\ store'[v] = store[v]
      BY <1>1, <1>2
    <2>2. /\ store[v].approval \in requested
          /\ store[v].approval.wf = v
          /\ store[v].approval.phase = store[v].phase
          /\ store[v].approval.phase \in ApprovalPhases
          /\ uses[store[v].approval] = 0
      BY <2>1 DEF ApprovalInv, OpenCheckpointUnspent
    <2>3. store[v].approval \in Request
      BY <2>2 DEF TypeOK
    <2>4. ~(store[v].approval = grant /\ grant # NoRequest)
      BY <2>1, <2>2
    <2> QED
      BY <1>3, <2>1, <2>2, <2>3, <2>4
  <1>8. RunnersApproved'
    <2>1. /\ \A s \in Runners : s # r => runner'[s] = runner[s]
          /\ runner'[r] = [wf |-> w, cur |-> cur, grant |-> grant]
      BY DEF Dispatch, TypeOK
    <2>2. cur.phase \in HighRiskPhases => grant # NoRequest
      BY DEF Dispatch, Admitted
    <2> QED
      BY <2>1, <2>2 DEF ApprovalInv, RunnersApproved
  <1> QED
    BY <1>4, <1>6, <1>7, <1>8 DEF ApprovalInv

\* The segment of _run between two awaits keeps the approval invariant when
\* the approval it may pop is granted for the workflow and unspent.
LEMMA ContinueSafe ==
  ASSUME TypeOK, WorkflowAssumption, ApprovalInv, NEW r \in Runners,
         NEW w \in Workflows, NEW cur \in Row, cur.status = "running",
         NEW cached \in Request \cup {NoRequest},
         cached # NoRequest =>
           cached \in granted /\ cached.wf = w /\ uses[cached] = 0,
         Continue(r, w, cur, cached), granted' = granted
  PROVE  ApprovalInv'
  <1> DEFINE done == [cur EXCEPT !.status = "completed", !.approval = NoRequest]
  <1>1. done \in Row /\ done.status = "completed"
    BY DEF Row, Status
  <1>2. FailedRow(cur) \in Row /\ FailedRow(cur).status = "failed"
    BY FailedRowType
  <1>3. CASE Leave(r, w, cur, done) /\ UNCHANGED <<cache, requested, uses>>
    BY <1>1, <1>3, LeaveSafe
  <1>4. CASE cur.phase \in ApprovalPhases /\ AskApproval(r, w, cur) /\ UNCHANGED <<cache, uses>>
    BY <1>4, AskApprovalSafe
  <1>5. CASE /\ cached # NoRequest
             /\ cache' = PopCached(w, cached)
             /\ Dispatch(r, w, cur, cached) \/ Refuse(r, w, cur, cached)
             /\ UNCHANGED requested
    <2>1. CASE Dispatch(r, w, cur, cached)
      BY <1>5, <2>1, DispatchSafe DEF PopCached
    <2>2. CASE Refuse(r, w, cur, cached)
      BY <1>2, <1>5, <2>2, LeaveSafe DEF PopCached, Refuse
    <2> QED
      BY <1>5, <2>1, <2>2
  <1>6. CASE /\ Dispatch(r, w, cur, NoRequest) \/ Refuse(r, w, cur, NoRequest)
             /\ UNCHANGED <<cache, requested>>
    <2>1. CASE Dispatch(r, w, cur, NoRequest)
      BY <1>6, <2>1, DispatchSafe
    <2>2. CASE Refuse(r, w, cur, NoRequest)
      BY <1>2, <1>6, <2>2, LeaveSafe DEF Refuse
    <2> QED
      BY <1>6, <2>1, <2>2
  <1> QED
    BY <1>3, <1>4, <1>5, <1>6 DEF Continue

\* The approval invariant is inductive, whatever fails or interleaves.
LEMMA ApprovalInductive == Spec => []ApprovalInv
  <1> USE WorkflowAssumption
  <1>1. Init => ApprovalInv
    BY DEF Init, ApprovalInv, UsesAccounted, CachedUnspent, OpenCheckpointUnspent,
           RunnersApproved
  <1>2. TypeOK /\ ApprovalInv /\ [Next]_vars => ApprovalInv'
    <2> SUFFICES ASSUME TypeOK, ApprovalInv, [Next]_vars PROVE ApprovalInv'
      OBVIOUS
    <2>1. ASSUME NEW w \in Workflows, Start(w) PROVE ApprovalInv'
      BY <2>1 DEF Start, TypeOK, Row, ApprovalInv, UsesAccounted, CachedUnspent,
                  OpenCheckpointUnspent, RunnersApproved
    <2>2. ASSUME NEW w \in Workflows, Escalate(w) PROVE ApprovalInv'
      <3>1. \A v \in Workflows : store'[v].status = "waiting" => store'[v] = store[v]
        BY <2>2 DEF Escalate, TypeOK, Row, Note
      <3> QED
        BY <2>2, <3>1 DEF Escalate, ApprovalInv, UsesAccounted, CachedUnspent,
                          OpenCheckpointUnspent, RunnersApproved
    <2>3. ASSUME NEW w \in Workflows, ResumeSaveFails(w) PROVE ApprovalInv'
      <3>1. \A v \in Workflows : store'[v].status = "waiting" => store'[v] = store[v]
        BY <2>3, ResumedRowType DEF ResumeSaveFails, TypeOK
      <3>2. OpenCheckpointUnspent'
        BY <2>3, <3>1 DEF ResumeSaveFails, ApprovalInv, OpenCheckpointUnspent
      <3>3. /\ store[w].approval \in granted
            /\ store[w].approval.wf = w
            /\ uses[store[w].approval] = 0
        BY <2>3 DEF ResumeSaveFails, ApprovalInv, OpenCheckpointUnspent
      <3>4. CachedUnspent'
        BY <2>3, <3>3 DEF ResumeSaveFails, ApprovalInv, CachedUnspent, TypeOK
      <3> QED
        BY <2>3, <3>2, <3>4 DEF ResumeSaveFails, ApprovalInv, UsesAccounted, RunnersApproved
    <2>4. ASSUME NEW r \in Runners, NEW w \in Workflows, RunWorkflow(r, w)
          PROVE ApprovalInv'
      <3>1. [store[w] EXCEPT !.status = "running"] \in Row
        BY DEF TypeOK, Row, Status
      <3>2. [store[w] EXCEPT !.status = "running"].status = "running"
        BY DEF TypeOK, Row
      <3>3. cache[w] \in Request \cup {NoRequest}
        BY DEF TypeOK
      <3> QED
        BY <2>4, <3>1, <3>2, <3>3, ContinueSafe DEF RunWorkflow, ApprovalInv, CachedUnspent
    <2>5. ASSUME NEW r \in Runners, NEW w \in Workflows, Resume(r, w)
          PROVE ApprovalInv'
      <3>1. /\ store[w].approval \in granted
            /\ store[w].approval \in Request
            /\ store[w].approval.wf = w
            /\ uses[store[w].approval] = 0
        BY <2>5 DEF Resume, ApprovalInv, OpenCheckpointUnspent, TypeOK
      <3> QED
        BY <2>5, <3>1, ResumedRowType, ContinueSafe DEF Resume
    <2>6. ASSUME NEW q \in requested, Grant(q) PROVE ApprovalInv'
      BY <2>6 DEF Grant, ApprovalInv, UsesAccounted, CachedUnspent,
                  OpenCheckpointUnspent, RunnersApproved
    <2>7. ASSUME NEW r \in Runners, OpReturns(r) PROVE ApprovalInv'
      <3>1. cache[runner[r].wf] \in Request \cup {NoRequest}
        BY <2>7, AdvancedType DEF OpReturns, TypeOK
      <3>2. cache[runner[r].wf] # NoRequest =>
              /\ cache[runner[r].wf] \in granted
              /\ cache[runner[r].wf].wf = runner[r].wf
              /\ uses[cache[runner[r].wf]] = 0
        BY <2>7, AdvancedType DEF OpReturns, ApprovalInv, CachedUnspent
      <3> QED
        BY <2>7, <3>1, <3>2, AdvancedType, ContinueSafe DEF OpReturns
    <2>8. ASSUME NEW r \in Runners, OpSaveFails(r) PROVE ApprovalInv'
      BY <2>8 DEF OpSaveFails, TypeOK, ApprovalInv, UsesAccounted, CachedUnspent,
                  OpenCheckpointUnspent, RunnersApproved
    <2>9. ASSUME NEW r \in Runners, OpFails(r) PROVE ApprovalInv'
      <3>1. FailedRow(runner[r].cur).status = "failed"
        BY <2>9, AdvancedType, FailedRowType DEF OpFails
      <3>2. \A v \in Workflows : store'[v].status = "waiting" => store'[v] = store[v]
        BY <2>9, <3>1, AdvancedType DEF OpFails, Leave, TypeOK
      <3> QED
        BY <2>9, <3>2 DEF OpFails, Leave, TypeOK, ApprovalInv, UsesAccounted,
                          CachedUnspent, OpenCheckpointUnspent, RunnersApproved
    <2>10. ASSUME NEW r \in Runners, OpEscalates(r) PROVE ApprovalInv'
      BY <2>10 DEF OpEscalates, TypeOK, ApprovalInv, UsesAccounted, CachedUnspent,
                   OpenCheckpointUnspent, RunnersApproved
    <2>11. ASSUME NEW r \in Runners, OpCancelled(r) PROVE ApprovalInv'
      BY <2>11 DEF OpCancelled, TypeOK, ApprovalInv, UsesAccounted, CachedUnspent,
                   OpenCheckpointUnspent, RunnersApproved
    <2>12. CASE Restart
      BY <2>12 DEF Restart, ApprovalInv, UsesAccounted, CachedUnspent,
                   OpenCheckpointUnspent, RunnersApproved
    <2>13. CASE WindowMoves \/ UNCHANGED vars
      BY <2>13 DEF WindowMoves, vars, ApprovalInv, UsesAccounted, CachedUnspent,
                   OpenCheckpointUnspent, RunnersApproved
    <2> QED
      BY <2>1, <2>2, <2>3, <2>4, <2>5, <2>6, <2>7, <2>8, <2>9, <2>10, <2>11, <2>12,
         <2>13 DEF Next
  <1> QED
    BY <1>1, <1>2, TypeCorrect, PTL DEF Spec

\* No approval starts two operations, with any number of overlapping calls,
\* crashes, cancellations and failing saves.
THEOREM ApprovalsUsedOnce == Spec => []ApprovalUsedOnce
  <1>1. ApprovalInv => ApprovalUsedOnce
    BY DEF ApprovalInv, UsesAccounted, ApprovalUsedOnce
  <1> QED
    BY <1>1, ApprovalInductive, PTL

\* The approval an open checkpoint asks for has started no operation.
THEOREM OpenCheckpointsUnspent == Spec => []OpenCheckpointUnspent
  <1>1. ApprovalInv => OpenCheckpointUnspent
    BY DEF ApprovalInv
  <1> QED
    BY <1>1, ApprovalInductive, PTL

\* A HIGH risk operation runs only under an approval granted for its workflow.
THEOREM HighRiskApproved == Spec => []HighRiskNeedsApproval
  <1>1. ApprovalInv => HighRiskNeedsApproval
    BY DEF ApprovalInv, RunnersApproved, HighRiskNeedsApproval
  <1> QED
    BY <1>1, ApprovalInductive, PTL

-----------------------------------------------------------------------------
\* The trail, while saves work

\* DecisionFor and Explained, with the set of granted requests as a parameter.
DecidedBy(G, w, p, history) ==
  \E q \in G : /\ q.wf = w
              /\ q.phase = p
              /\ [kind |-> "approved", phase |-> p, n |-> q.n] \in history

ExplainedBy(G, w, row) ==
  \A p \in Phase : p < row.phase =>
    /\ [kind |-> "executed", phase |-> p, n |-> 0] \in row.history
    /\ p \in ApprovalPhases => DecidedBy(G, w, p, row.history)

\* What the trail needs of the table and of the frames.
RowsExplained(G, table) == \A w \in Workflows : ExplainedBy(G, w, table[w])

FrameExplained(G, run) ==
  /\ ExplainedBy(G, run.wf, run.cur)
  /\ run.cur.phase \in ApprovalPhases =>
       DecidedBy(G, run.wf, run.cur.phase, run.cur.history)

FramesExplained(G, frames) ==
  \A r \in Runners : frames[r] # Idle => FrameExplained(G, frames[r])

LEMMA TrailByParts ==
  TrailExplainsProgress <=> RowsExplained(granted, store) /\ FramesExplained(granted, runner)
  BY DEF TrailExplainsProgress, RowsExplained, FramesExplained, FrameExplained, Explained,
         ExplainedBy, DecisionFor, DecidedBy

\* Nothing is approved ahead of its operation: resume() hands the approval to the very
\* phase it was asked for, and the cache is empty between any two steps.
GrantsFit ==
  /\ \A w \in Workflows : cache[w] = NoRequest
  /\ \A r \in Runners : runner[r] # Idle /\ runner[r].cur.phase \in ApprovalPhases =>
       /\ runner[r].grant # NoRequest
       /\ runner[r].grant.phase = runner[r].cur.phase

TrailInv ==
  /\ GrantsFit
  /\ RowsExplained(granted, store)
  /\ FramesExplained(granted, runner)

\* A longer history and more grants explain the same progress.
LEMMA ExplainedGrows ==
  ASSUME NEW G, NEW H, G \subseteq H, NEW w, NEW old, NEW new,
         new.phase = old.phase, old.history \subseteq new.history, ExplainedBy(G, w, old)
  PROVE  ExplainedBy(H, w, new)
  BY DEF ExplainedBy, DecidedBy

LEMMA DecidedGrows ==
  ASSUME NEW G, NEW H, G \subseteq H, NEW w, NEW p, NEW old, NEW new,
         old \subseteq new, DecidedBy(G, w, p, old)
  PROVE  DecidedBy(H, w, p, new)
  BY DEF DecidedBy

\* What recording an event does to a row.
LEMMA NoteGrows ==
  ASSUME NEW row \in Row, NEW kind, NEW p, NEW k
  PROVE  /\ Note(row, kind, p, k).phase = row.phase
         /\ Note(row, kind, p, k).history = row.history \cup {[kind |-> kind, phase |-> p, n |-> k]}
         /\ DOMAIN Note(row, kind, p, k) = {"status", "phase", "approval", "history"}
  BY DEF Note, Row

LEMMA FailedRowGrows ==
  ASSUME NEW cur \in Row
  PROVE  FailedRow(cur).phase = cur.phase /\ cur.history \subseteq FailedRow(cur).history
  BY NoteGrows DEF FailedRow

\* A last save of an explained row.
LEMMA LeaveExplained ==
  ASSUME TypeOK, TrailInv, NEW r \in Runners, NEW w \in Workflows, NEW cur, NEW final,
         ExplainedBy(granted, w, cur),
         final.phase = cur.phase, cur.history \subseteq final.history,
         Leave(r, w, cur, final), granted' = granted,
         cache' = cache \/ cache' = [cache EXCEPT ![w] = NoRequest]
  PROVE  TrailInv'
  <1>1. ExplainedBy(granted, w, final)
    BY ExplainedGrows
  <1>2. RowsExplained(granted, store')
    BY <1>1 DEF Leave, RowsExplained, TypeOK, TrailInv
  <1>3. \A s \in Runners : runner'[s] # Idle => runner'[s] = runner[s]
    BY DEF Leave, TypeOK
  <1>4. FramesExplained(granted, runner')
    BY <1>3 DEF FramesExplained, TrailInv
  <1>5. GrantsFit'
    BY <1>3 DEF GrantsFit, TrailInv, TypeOK
  <1> QED
    BY <1>2, <1>4, <1>5 DEF TrailInv

\* Starting an operation whose approval, where one is required, is the one recorded.
LEMMA DispatchExplained ==
  ASSUME TypeOK, TrailInv, NEW r \in Runners, NEW w \in Workflows, NEW cur, NEW grant,
         ExplainedBy(granted, w, cur),
         cur.phase \in ApprovalPhases =>
           /\ grant # NoRequest
           /\ grant.phase = cur.phase
           /\ DecidedBy(granted, w, cur.phase, cur.history),
         Dispatch(r, w, cur, grant), granted' = granted,
         cache' = cache \/ cache' = [cache EXCEPT ![w] = NoRequest]
  PROVE  TrailInv'
  <1>1. RowsExplained(granted, store')
    BY DEF Dispatch, RowsExplained, TypeOK, TrailInv
  <1>2. /\ \A s \in Runners : s # r => runner'[s] = runner[s]
        /\ runner'[r] = [wf |-> w, cur |-> cur, grant |-> grant]
    BY DEF Dispatch, TypeOK
  <1>3. FrameExplained(granted, [wf |-> w, cur |-> cur, grant |-> grant])
    BY DEF FrameExplained
  <1>4. FramesExplained(granted, runner')
    BY <1>2, <1>3 DEF FramesExplained, TrailInv
  <1>5. GrantsFit'
    BY <1>2 DEF GrantsFit, TrailInv, TypeOK
  <1> QED
    BY <1>1, <1>4, <1>5 DEF TrailInv

\* The segment of _run between two awaits explains what it saves and starts.
LEMMA ContinueExplained ==
  ASSUME TypeOK, WorkflowAssumption, TrailInv, NEW r \in Runners, NEW w \in Workflows,
         NEW cur \in Row, NEW cached \in Request \cup {NoRequest},
         ExplainedBy(granted, w, cur),
         cached # NoRequest =>
           /\ cached.phase = cur.phase
           /\ DecidedBy(granted, w, cur.phase, cur.history),
         Continue(r, w, cur, cached), granted' = granted
  PROVE  TrailInv'
  <1> DEFINE done == [cur EXCEPT !.status = "completed", !.approval = NoRequest]
  <1>1. done.phase = cur.phase /\ cur.history \subseteq done.history
    BY DEF Row
  <1>2. FailedRow(cur).phase = cur.phase /\ cur.history \subseteq FailedRow(cur).history
    BY FailedRowGrows
  <1>3. CASE Leave(r, w, cur, done) /\ UNCHANGED cache
    BY <1>1, <1>3, LeaveExplained
  <1>4. CASE AskApproval(r, w, cur) /\ UNCHANGED cache
    <2>1. PICK k \in FreshSerials(w) :
            LET q == [wf |-> w, phase |-> cur.phase, n |-> k]
            IN /\ requested' = requested \cup {q}
               /\ Leave(r, w, cur, [Note(cur, "waiting", cur.phase, k) EXCEPT
                                      !.status = "waiting", !.approval = q])
      BY <1>4 DEF AskApproval
    <2> DEFINE q == [wf |-> w, phase |-> cur.phase, n |-> k]
               noted == Note(cur, "waiting", cur.phase, k)
               final == [noted EXCEPT !.status = "waiting", !.approval = q]
    <2>2. noted.phase = cur.phase /\ cur.history \subseteq noted.history
      BY NoteGrows
    <2>3. final.phase = cur.phase /\ cur.history \subseteq final.history
      <3> HIDE DEF q, noted
      <3> QED
        BY <2>2
    <2>4. Leave(r, w, cur, final)
      BY <2>1
    <2> HIDE DEF final
    <2> QED
      BY <1>4, <2>3, <2>4, LeaveExplained
  <1>5. CASE /\ cached # NoRequest
             /\ cache' = PopCached(w, cached)
             /\ Dispatch(r, w, cur, cached) \/ Refuse(r, w, cur, cached)
    <2>1. CASE Dispatch(r, w, cur, cached)
      BY <1>5, <2>1, DispatchExplained DEF PopCached
    <2>2. CASE Refuse(r, w, cur, cached)
      BY <1>2, <1>5, <2>2, LeaveExplained DEF PopCached, Refuse
    <2> QED
      BY <1>5, <2>1, <2>2
  <1>6. CASE /\ cur.phase \notin ApprovalPhases
             /\ Dispatch(r, w, cur, NoRequest) \/ Refuse(r, w, cur, NoRequest)
             /\ UNCHANGED cache
    <2>1. CASE Dispatch(r, w, cur, NoRequest)
      BY <1>6, <2>1, DispatchExplained
    <2>2. CASE Refuse(r, w, cur, NoRequest)
      BY <1>2, <1>6, <2>2, LeaveExplained DEF Refuse
    <2> QED
      BY <1>6, <2>1, <2>2
  <1> QED
    BY <1>3, <1>4, <1>5, <1>6 DEF Continue

\* The row resume() saves records the decision for its phase.
LEMMA ResumedRowExplained ==
  ASSUME TypeOK, WorkflowAssumption, TrailInv, ApprovalInv, NEW w \in Workflows,
         store[w].status = "waiting", store[w].approval \in granted
  PROVE  /\ ExplainedBy(granted, w, ResumedRow(w))
         /\ ResumedRow(w).phase = store[w].approval.phase
         /\ DecidedBy(granted, w, ResumedRow(w).phase, ResumedRow(w).history)
  <1> DEFINE q == store[w].approval
  <1>1. store[w] \in Row /\ q.wf = w /\ q.phase = store[w].phase
    BY DEF TypeOK, ApprovalInv, OpenCheckpointUnspent
  <1>2. /\ ResumedRow(w).phase = store[w].phase
        /\ ResumedRow(w).history =
             store[w].history \cup {[kind |-> "approved", phase |-> q.phase, n |-> q.n]}
    BY <1>1, NoteGrows DEF ResumedRow
  <1>3. ExplainedBy(granted, w, ResumedRow(w))
    BY <1>2, ExplainedGrows DEF TrailInv, RowsExplained
  <1>4. DecidedBy(granted, w, q.phase, ResumedRow(w).history)
    BY <1>1, <1>2 DEF DecidedBy
  <1> QED
    BY <1>1, <1>2, <1>3, <1>4

\* The row _advance saves has the executed event of the phase it passes.
LEMMA AdvancedExplained ==
  ASSUME TypeOK, WorkflowAssumption, TrailInv, NEW r \in Runners, runner[r] # Idle
  PROVE  ExplainedBy(granted, runner[r].wf, Advanced(runner[r]))
  <1> DEFINE cur == runner[r].cur
             w == runner[r].wf
             row == Advanced(runner[r])
             done == [kind |-> "executed", phase |-> cur.phase, n |-> 0]
  <1>1. cur \in Row /\ cur.phase \in Nat
    BY AdvancedType DEF Row, WorkflowAssumption
  <1>2. FrameExplained(granted, runner[r])
    BY DEF TrailInv, FramesExplained
  <1>3. row.phase = cur.phase + 1 /\ row.history = cur.history \cup {done}
    BY <1>1, NoteGrows DEF Advanced
  <1> SUFFICES ASSUME NEW p \in Phase, p < row.phase
               PROVE  /\ [kind |-> "executed", phase |-> p, n |-> 0] \in row.history
                      /\ p \in ApprovalPhases => DecidedBy(granted, w, p, row.history)
    BY DEF ExplainedBy
  <1>4. cur.history \subseteq row.history /\ done \in row.history
    BY <1>3
  <1>5. CASE p < cur.phase
    <2>1. /\ [kind |-> "executed", phase |-> p, n |-> 0] \in cur.history
          /\ p \in ApprovalPhases => DecidedBy(granted, w, p, cur.history)
      BY <1>2, <1>5 DEF FrameExplained, ExplainedBy
    <2> QED
      BY <2>1, <1>4, DecidedGrows
  <1>6. CASE p = cur.phase
    <2>1. p \in ApprovalPhases => DecidedBy(granted, w, p, cur.history)
      BY <1>2, <1>6 DEF FrameExplained
    <2> QED
      BY <2>1, <1>4, <1>6, DecidedGrows
  <1>7. p < cur.phase \/ p = cur.phase
    BY <1>1, <1>3 DEF Phase, WorkflowAssumption
  <1> QED
    BY <1>5, <1>6, <1>7

\* While saves work, every step keeps progress explained and approvals in their place.
LEMMA TrailInductive ==
  ASSUME ~StoreMayFail
  PROVE  Spec => []TrailInv
  <1> USE WorkflowAssumption
  <1>1. Init => TrailInv
    <2> SUFFICES ASSUME Init PROVE TrailInv
      OBVIOUS
    <2>1. GrantsFit
      BY DEF Init, GrantsFit
    <2>2. RowsExplained(granted, store)
      BY DEF Init, RowsExplained, ExplainedBy, Phase
    <2>3. FramesExplained(granted, runner)
      BY DEF Init, FramesExplained
    <2> QED
      BY <2>1, <2>2, <2>3 DEF TrailInv
  <1>2. TypeOK /\ ApprovalInv /\ TrailInv /\ [Next]_vars => TrailInv'
    <2> SUFFICES ASSUME TypeOK, ApprovalInv, TrailInv, [Next]_vars PROVE TrailInv'
      OBVIOUS
    <2> USE DEF TrailInv
    <2>1. ASSUME NEW w \in Workflows, Start(w) PROVE TrailInv'
      <3>1. \A v \in Workflows : /\ store'[v].phase = store[v].phase
                                 /\ store'[v].history = store[v].history
        BY <2>1 DEF Start, TypeOK, Row
      <3>2. RowsExplained(granted, store')
        BY <3>1 DEF RowsExplained, ExplainedBy
      <3> QED
        BY <2>1, <3>2 DEF Start, GrantsFit
    <2>2. ASSUME NEW w \in Workflows, Escalate(w) PROVE TrailInv'
      <3> DEFINE noted == Note(store[w], "escalated", store[w].phase, escalations')
                 row == [noted EXCEPT !.status = "escalated"]
      <3>1. store[w] \in Row /\ ExplainedBy(granted, w, store[w])
        BY DEF TypeOK, RowsExplained
      <3>2. row.phase = store[w].phase /\ store[w].history \subseteq row.history
        BY <3>1, NoteGrows
      <3>3. store' = [store EXCEPT ![w] = row]
        BY <2>2 DEF Escalate
      <3> HIDE DEF row
      <3>4. ExplainedBy(granted, w, row)
        BY <3>1, <3>2, ExplainedGrows
      <3>5. RowsExplained(granted, store')
        BY <3>3, <3>4 DEF RowsExplained, TypeOK
      <3> QED
        BY <2>2, <3>5 DEF Escalate, GrantsFit
    <2>3. ASSUME NEW w \in Workflows PROVE ~ResumeSaveFails(w)
      BY DEF ResumeSaveFails, SaveFails
    <2>4. ASSUME NEW r \in Runners, NEW w \in Workflows, RunWorkflow(r, w)
          PROVE TrailInv'
      <3> DEFINE cur == [store[w] EXCEPT !.status = "running"]
      <3>1. /\ cur \in Row
            /\ cur.phase = store[w].phase /\ store[w].history \subseteq cur.history
        BY DEF TypeOK, Row, Status
      <3>2. ExplainedBy(granted, w, store[w]) /\ cache[w] = NoRequest
        BY DEF RowsExplained, GrantsFit
      <3>3. Continue(r, w, cur, cache[w]) /\ granted' = granted
        BY <2>4 DEF RunWorkflow
      <3> HIDE DEF cur
      <3>4. ExplainedBy(granted, w, cur)
        BY <3>1, <3>2, ExplainedGrows
      <3> QED
        BY <3>1, <3>2, <3>3, <3>4, ContinueExplained
    <2>5. ASSUME NEW r \in Runners, NEW w \in Workflows, Resume(r, w)
          PROVE TrailInv'
      <3>1. /\ ResumedRow(w) \in Row
            /\ store[w].approval \in Request
        BY <2>5, ResumedRowType DEF Resume, TypeOK
      <3>2. /\ ExplainedBy(granted, w, ResumedRow(w))
            /\ ResumedRow(w).phase = store[w].approval.phase
            /\ DecidedBy(granted, w, ResumedRow(w).phase, ResumedRow(w).history)
        BY <2>5, ResumedRowExplained DEF Resume
      <3>3. Continue(r, w, ResumedRow(w), store[w].approval) /\ granted' = granted
        BY <2>5 DEF Resume
      <3> QED
        BY <3>1, <3>2, <3>3, ContinueExplained
    <2>6. ASSUME NEW q \in requested, Grant(q) PROVE TrailInv'
      <3>1. granted \subseteq granted'
        BY <2>6 DEF Grant
      <3>2. ASSUME NEW w, NEW row, ExplainedBy(granted, w, row)
            PROVE  ExplainedBy(granted', w, row)
        BY <3>1, <3>2, ExplainedGrows
      <3>3. RowsExplained(granted', store)
        BY <3>2 DEF RowsExplained
      <3>4. FramesExplained(granted', runner)
        BY <3>1, <3>2, DecidedGrows DEF FramesExplained, FrameExplained
      <3> QED
        BY <2>6, <3>3, <3>4 DEF Grant, GrantsFit
    <2>7. ASSUME NEW r \in Runners, OpReturns(r) PROVE TrailInv'
      <3>1. cache[runner[r].wf] = NoRequest
        BY <2>7, AdvancedType DEF OpReturns, GrantsFit
      <3> QED
        BY <2>7, <3>1, AdvancedType, AdvancedExplained, ContinueExplained DEF OpReturns
    <2>8. ASSUME NEW r \in Runners PROVE ~OpSaveFails(r)
      BY DEF OpSaveFails, SaveFails
    <2>9. ASSUME NEW r \in Runners, OpFails(r) PROVE TrailInv'
      <3> DEFINE w == runner[r].wf
      <3>1. w \in Workflows /\ runner[r].cur \in Row
        BY <2>9, AdvancedType DEF OpFails
      <3>2. ExplainedBy(granted, w, FailedRow(runner[r].cur))
        BY <2>9, <3>1, FailedRowGrows, ExplainedGrows
        DEF OpFails, FramesExplained, FrameExplained
      <3>3. /\ runner' = [runner EXCEPT ![r] = Idle]
            /\ store' = [store EXCEPT ![w] = FailedRow(runner[r].cur)]
        BY <2>9 DEF OpFails, Leave, SaveFails
      <3>4. RowsExplained(granted, store')
        BY <3>1, <3>2, <3>3 DEF RowsExplained, TypeOK
      <3>5. \A s \in Runners : runner'[s] # Idle => runner'[s] = runner[s]
        BY <3>3 DEF TypeOK
      <3>6. FramesExplained(granted, runner')
        BY <3>5 DEF FramesExplained
      <3> QED
        BY <2>9, <3>4, <3>5, <3>6 DEF OpFails, GrantsFit
    <2>10. ASSUME NEW r \in Runners, OpEscalates(r) \/ OpCancelled(r) PROVE TrailInv'
      <3>1. \A s \in Runners : runner'[s] # Idle => runner'[s] = runner[s]
        BY <2>10 DEF OpEscalates, OpCancelled, TypeOK
      <3>2. FramesExplained(granted, runner')
        BY <3>1 DEF FramesExplained
      <3> QED
        BY <2>10, <3>1, <3>2 DEF OpEscalates, OpCancelled, GrantsFit
    <2>11. CASE Restart
      BY <2>11 DEF Restart, GrantsFit, FramesExplained
    <2>12. CASE WindowMoves \/ UNCHANGED vars
      BY <2>12 DEF WindowMoves, vars, GrantsFit
    <2> QED
      BY <2>1, <2>2, <2>3, <2>4, <2>5, <2>6, <2>7, <2>8, <2>9, <2>10, <2>11, <2>12
      DEF Next
  <1> QED
    BY <1>1, <1>2, TypeCorrect, ApprovalInductive, PTL DEF Spec

\* While saves work, the persisted trail explains the persisted progress and that of
\* every suspended call, with any number of overlapping calls, escalations, crashes
\* and cancellations.
THEOREM TrailsExplainProgress ==
  ASSUME ~StoreMayFail
  PROVE  Spec => []TrailExplainsProgress
  <1>1. TrailInv => TrailExplainsProgress
    BY TrailByParts DEF TrailInv
  <1> QED
    BY <1>1, TrailInductive, PTL

\* While saves work, an operation of an approval phase runs only under the approval
\* that was granted for its workflow and its phase.
THEOREM ApprovalsMatchOperations ==
  ASSUME ~StoreMayFail
  PROVE  Spec => []ApprovalMatchesOperation
  <1>1. TrailInv /\ ApprovalInv => ApprovalMatchesOperation
    BY DEF TrailInv, GrantsFit, ApprovalInv, RunnersApproved, ApprovalMatchesOperation
  <1> QED
    BY <1>1, TrailInductive, ApprovalInductive, PTL

-----------------------------------------------------------------------------
\* The abstract life cycle, while calls do not overlap

\* A suspended call knows the stored row, has its approval recorded in it where one is
\* required, and has taken it out of the cache.
RunnersCurrent ==
  \A r \in Runners : runner[r] # Idle =>
    LET cur == runner[r].cur
    IN /\ store[runner[r].wf] = cur
       /\ cur.status = "running"
       /\ cache[runner[r].wf] = NoRequest
       /\ cur.phase \in ApprovalPhases => cur.phase \in ApprovedPhases(cur.history)

\* An approval stays in the cache only where a save of resume() failed: it is for the
\* phase at which its workflow stands.
CacheCurrent ==
  \A w \in Workflows : cache[w] # NoRequest =>
    /\ cache[w].phase = store[w].phase
    /\ store[w].phase \in ApprovalPhases
    /\ \/ store[w].status = "waiting"
       \/ /\ store[w].status = "running"
          /\ store[w].phase \in ApprovedPhases(store[w].history)

SerialInv == RunnersCurrent /\ CacheCurrent

\* A save changes the abstract life of its row only.
LEMMA SavedLife ==
  ASSUME TypeOK, NEW w \in Workflows, NEW row, store' = [store EXCEPT ![w] = row]
  PROVE  Life' = [Life EXCEPT ![w] = LifeOf(row)]
  BY DEF Life, LifeOf, ApprovedPhases, TypeOK

\* Only the event of an approval adds an approved phase.
LEMMA NotedLife ==
  ASSUME NEW row \in Row, NEW kind \in EventKind \ {"approved"}, NEW p, NEW k
  PROVE  LifeOf(Note(row, kind, p, k)) = LifeOf(row)
  BY NoteGrows DEF LifeOf, ApprovedPhases, Note, Row

LEMMA FailedLife ==
  ASSUME NEW cur \in Row
  PROVE  LifeOf(FailedRow(cur)) = [LifeOf(cur) EXCEPT !.status = "failed"]
  <1> DEFINE noted == Note(cur, "failed", cur.phase, 0)
  <1>1. LifeOf(noted) = LifeOf(cur)
    BY NotedLife DEF EventKind
  <1>2. DOMAIN noted = {"status", "phase", "approval", "history"}
    BY NoteGrows
  <1>3. /\ FailedRow(cur).status = "failed"
        /\ FailedRow(cur).phase = noted.phase
        /\ FailedRow(cur).history = noted.history
    BY <1>2 DEF FailedRow
  <1> QED
    BY <1>1, <1>3 DEF LifeOf

\* A last save: the abstract life settles and the call is over.
LEMMA LeaveSerial ==
  ASSUME TypeOK, SerialInv, \A s, t \in Runners : s = t,
         NEW r \in Runners, NEW w \in Workflows, NEW cur, NEW final,
         Leave(r, w, cur, final),
         \/ cache' = cache /\ cache[w] = NoRequest
         \/ cache' = [cache EXCEPT ![w] = NoRequest]
  PROVE  /\ SerialInv'
         /\ \/ Life' = [Life EXCEPT ![w] = LifeOf(cur)]
            \/ Life' = [Life EXCEPT ![w] = LifeOf(final)]
  <1>1. RunnersCurrent'
    BY DEF RunnersCurrent, Leave, TypeOK
  <1>2. cache'[w] = NoRequest
    BY DEF TypeOK
  <1>3. \A v \in Workflows : v # w => store'[v] = store[v] /\ cache'[v] = cache[v]
    BY DEF Leave, TypeOK
  <1>4. CacheCurrent'
    BY <1>2, <1>3 DEF SerialInv, CacheCurrent, ApprovedPhases
  <1>5. \/ Life' = [Life EXCEPT ![w] = LifeOf(cur)]
        \/ Life' = [Life EXCEPT ![w] = LifeOf(final)]
    BY SavedLife DEF Leave
  <1> QED
    BY <1>1, <1>4, <1>5 DEF SerialInv

\* Starting an operation: the row is stored as it is and the frame knows it.
LEMMA DispatchSerial ==
  ASSUME TypeOK, SerialInv, \A s, t \in Runners : s = t,
         NEW r \in Runners, NEW w \in Workflows, NEW cur \in Row, NEW grant,
         cur.status = "running",
         cur.phase \in ApprovalPhases => cur.phase \in ApprovedPhases(cur.history),
         Dispatch(r, w, cur, grant),
         \/ cache' = cache /\ cache[w] = NoRequest
         \/ cache' = [cache EXCEPT ![w] = NoRequest]
  PROVE  SerialInv' /\ Life' = [Life EXCEPT ![w] = LifeOf(cur)]
  <1>1. store' = [store EXCEPT ![w] = cur]
    BY DEF Dispatch
  <1>2. cache'[w] = NoRequest
    BY DEF TypeOK
  <1>3. \A v \in Workflows : v # w => store'[v] = store[v] /\ cache'[v] = cache[v]
    BY <1>1 DEF TypeOK
  <1>4. CacheCurrent'
    BY <1>2, <1>3 DEF SerialInv, CacheCurrent, ApprovedPhases
  <1>5. runner'[r] = [wf |-> w, cur |-> cur, grant |-> grant] /\ store'[w] = cur
    BY <1>1 DEF Dispatch, TypeOK
  <1>6. \A s \in Runners : /\ runner'[s].wf = w
                            /\ runner'[s].cur = cur
    BY <1>5
  <1>7. RunnersCurrent'
    BY <1>2, <1>5, <1>6 DEF RunnersCurrent
  <1> QED
    BY <1>1, <1>4, <1>7, SavedLife DEF SerialInv

\* The segment of _run between two awaits settles the abstract row.
LEMMA ContinueSerial ==
  ASSUME TypeOK, WorkflowAssumption, SerialInv, \A s, t \in Runners : s = t,
         NEW r \in Runners, NEW w \in Workflows,
         NEW cur \in Row, cur.status = "running",
         NEW cached \in Request \cup {NoRequest},
         cached = NoRequest => cache[w] = NoRequest,
         cached # NoRequest => /\ cur.phase \in ApprovalPhases
                               /\ cur.phase \in ApprovedPhases(cur.history),
         Continue(r, w, cur, cached)
  PROVE  SerialInv' /\ Lifecycle!Settle(w, LifeOf(cur))
  <1> DEFINE l == LifeOf(cur)
             done == [cur EXCEPT !.status = "completed", !.approval = NoRequest]
  <1> USE DEF Lifecycle!Settle
  <1>0. l.phase = cur.phase /\ ApprovalPhases \subseteq Phase /\ cur.phase \in 0 .. NumPhases
    BY DEF LifeOf, WorkflowAssumption, Row
  <1>1. CASE cur.phase = NumPhases /\ Leave(r, w, cur, done) /\ UNCHANGED cache
    <2>1. LifeOf(done) = [l EXCEPT !.status = "completed"]
      BY DEF LifeOf, Row
    <2>2. cache[w] = NoRequest
      BY <1>0, <1>1 DEF Phase, WorkflowAssumption
    <2> HIDE DEF done, l
    <2> QED
      BY <1>0, <1>1, <2>1, <2>2, LeaveSerial DEF l
  <1>2. CASE /\ cur.phase \in ApprovalPhases /\ cached = NoRequest
             /\ AskApproval(r, w, cur) /\ UNCHANGED cache
    <2>1. PICK k \in FreshSerials(w) :
            LET q == [wf |-> w, phase |-> cur.phase, n |-> k]
            IN Leave(r, w, cur, [Note(cur, "waiting", cur.phase, k) EXCEPT
                                   !.status = "waiting", !.approval = q])
      BY <1>2 DEF AskApproval
    <2> DEFINE q == [wf |-> w, phase |-> cur.phase, n |-> k]
               noted == Note(cur, "waiting", cur.phase, k)
               final == [noted EXCEPT !.status = "waiting", !.approval = q]
    <2>2. LifeOf(noted) = l
      BY NotedLife DEF EventKind
    <2>3. DOMAIN noted = {"status", "phase", "approval", "history"}
      BY NoteGrows
    <2>4. LifeOf(final) = [l EXCEPT !.status = "waiting"]
      <3> HIDE DEF q, noted
      <3> QED
        BY <2>2, <2>3 DEF LifeOf
    <2>5. Leave(r, w, cur, final)
      BY <2>1
    <2> HIDE DEF final, l
    <2> QED
      BY <1>0, <1>2, <2>4, <2>5, LeaveSerial DEF l
  <1>3. CASE /\ Dispatch(r, w, cur, cached) \/ Refuse(r, w, cur, cached)
             /\ cur.phase \in Phase
             /\ cur.phase \in ApprovalPhases => cached # NoRequest
             /\ \/ cache' = cache /\ cache[w] = NoRequest
                \/ cache' = [cache EXCEPT ![w] = NoRequest]
    <2>1. CASE Dispatch(r, w, cur, cached)
      BY <1>3, <2>1, DispatchSerial
    <2>2. CASE Refuse(r, w, cur, cached)
      <3>1. Leave(r, w, cur, FailedRow(cur)) /\ l.phase < NumPhases
        BY <1>0, <1>3, <2>2 DEF Refuse, Phase, WorkflowAssumption
      <3> HIDE DEF l
      <3> QED
        BY <1>3, <3>1, LeaveSerial, FailedLife DEF l
    <2> QED
      BY <1>3, <2>1, <2>2
  <1> QED
    BY <1>0, <1>1, <1>2, <1>3 DEF Continue, PopCached

\* The row that resume() saves has the approval of its phase on record.
LEMMA ResumedLife ==
  ASSUME TypeOK, WorkflowAssumption, ApprovalInv, NEW w \in Workflows,
         store[w].status = "waiting", store[w].approval \in granted
  PROVE  /\ store[w].approval \in Request
         /\ store[w].approval.phase = store[w].phase
         /\ store[w].phase \in ApprovalPhases
         /\ ResumedRow(w) \in Row /\ ResumedRow(w).status = "running"
         /\ ResumedRow(w).phase = store[w].phase
         /\ ResumedRow(w).phase \in ApprovedPhases(ResumedRow(w).history)
         /\ LifeOf(ResumedRow(w)) =
              [status |-> "running", phase |-> LifeOf(store[w]).phase,
                approved |-> LifeOf(store[w]).approved \cup {LifeOf(store[w]).phase}]
  <1> DEFINE q == store[w].approval
             noted == Note(store[w], "approved", q.phase, q.n)
  <1>1. /\ store[w] \in Row /\ q \in Request /\ q.phase = store[w].phase
        /\ store[w].phase \in ApprovalPhases
    BY DEF TypeOK, ApprovalInv, OpenCheckpointUnspent
  <1>2. /\ noted.phase = store[w].phase
        /\ noted.history = store[w].history \cup {[kind |-> "approved", phase |-> q.phase, n |-> q.n]}
        /\ DOMAIN noted = {"status", "phase", "approval", "history"}
    BY <1>1, NoteGrows
  <1>3. q.phase \in Phase /\ q.n \in 1 .. MaxRequests
    BY <1>1 DEF Request
  <1>4. ApprovedPhases(noted.history) = ApprovedPhases(store[w].history) \cup {q.phase}
    BY <1>2, <1>3 DEF ApprovedPhases
  <1>5. /\ ResumedRow(w).phase = noted.phase
        /\ ResumedRow(w).history = noted.history
        /\ ResumedRow(w).status = "running"
    <2> ResumedRow(w) = [noted EXCEPT !.status = "running"]
      BY DEF ResumedRow
    <2> HIDE DEF noted
    <2> QED
      BY <1>2
  <1>6. LifeOf(ResumedRow(w)) = [status |-> "running", phase |-> store[w].phase,
                                 approved |-> ApprovedPhases(store[w].history) \cup {store[w].phase}]
    BY <1>1, <1>2, <1>4, <1>5 DEF LifeOf
  <1>7. ResumedRow(w).phase \in ApprovedPhases(ResumedRow(w).history)
    BY <1>1, <1>2, <1>4, <1>5
  <1>8. ResumedRow(w).phase = store[w].phase
    BY <1>2, <1>5
  <1>9. ResumedRow(w) \in Row /\ ResumedRow(w).status = "running"
    BY ResumedRowType
  <1> QED
    BY <1>1, <1>6, <1>7, <1>8, <1>9 DEF LifeOf

\* The row that _advance saves is the row of the call, one phase further.
LEMMA AdvancedLife ==
  ASSUME TypeOK, WorkflowAssumption, NEW r \in Runners, runner[r] # Idle,
         runner[r].cur.status = "running"
  PROVE  LifeOf(Advanced(runner[r])) = [LifeOf(runner[r].cur) EXCEPT !.phase = @ + 1]
  <1> DEFINE cur == runner[r].cur
             noted == Note(cur, "executed", cur.phase, 0)
  <1>1. cur \in Row
    BY AdvancedType
  <1>2. /\ noted.phase = cur.phase
        /\ DOMAIN noted = {"status", "phase", "approval", "history"}
    BY <1>1, NoteGrows
  <1>3. LifeOf(noted) = LifeOf(cur)
    BY <1>1, NotedLife DEF EventKind
  <1>4. Advanced(runner[r]) =
          [noted EXCEPT !.status = "running", !.phase = @ + 1, !.approval = NoRequest]
    BY DEF Advanced
  <1> HIDE DEF noted
  <1>5. /\ Advanced(runner[r]).status = "running"
        /\ Advanced(runner[r]).phase = cur.phase + 1
        /\ Advanced(runner[r]).history = noted.history
    BY <1>2, <1>4
  <1>6. ApprovedPhases(noted.history) = ApprovedPhases(cur.history)
    BY <1>3 DEF LifeOf
  <1> QED
    BY <1>5, <1>6 DEF LifeOf

\* While no call runs, Serial holds of the calls whatever the cache and the rows.
LEMMA IdleIsSerial ==
  ASSUME \A r \in Runners : runner'[r] = Idle, CacheCurrent'
  PROVE  SerialInv'
  BY DEF SerialInv, RunnersCurrent

\* Each step of the runtime is a step of the life cycle or leaves it as it is.
LEMMA StepsAreLife ==
  ASSUME \A r, s \in Runners : r = s, MaxEscalations = 0, WorkflowAssumption,
         TypeOK, ApprovalInv, SerialInv, [Next]_vars
  PROVE  SerialInv' /\ [Lifecycle!Next]_Life
  <1> DEFINE Goal == SerialInv' /\ [Lifecycle!Next]_Life
  <1>0. ASSUME UNCHANGED <<store, cache>>,
               \A r \in Runners : runner'[r] # Idle => runner'[r] = runner[r]
        PROVE  Goal
    <2>1. Life' = Life
      BY <1>0 DEF Life, LifeOf, ApprovedPhases
    <2>2. SerialInv'
      BY <1>0 DEF SerialInv, RunnersCurrent, CacheCurrent, ApprovedPhases
    <2> QED
      BY <2>1, <2>2
  <1>1. ASSUME NEW w \in Workflows, Start(w) PROVE Goal
    <2> DEFINE row == [store[w] EXCEPT !.status = "pending"]
    <2>1. store[w] \in Row /\ store' = [store EXCEPT ![w] = row] /\ store[w].status = "absent"
      BY <1>1 DEF Start, TypeOK
    <2>2. LifeOf(row) = [LifeOf(store[w]) EXCEPT !.status = "pending"]
      BY <2>1 DEF LifeOf, Row
    <2>3. Life[w] = LifeOf(store[w]) /\ Life[w].status = "absent"
      BY <2>1 DEF Life, LifeOf
    <2>4. Lifecycle!Start(w)
      <3>1. Life' = [Life EXCEPT ![w] = [Life[w] EXCEPT !.status = "pending"]]
        BY <2>1, <2>2, <2>3, SavedLife
      <3> QED
        BY <2>3, <3>1 DEF Lifecycle!Start
    <2>5. cache[w] = NoRequest
      BY <2>1 DEF SerialInv, CacheCurrent
    <2>6. \A v \in Workflows : v # w => store'[v] = store[v]
      BY <2>1 DEF TypeOK
    <2>7. CacheCurrent'
      BY <1>1, <2>5, <2>6 DEF SerialInv, CacheCurrent, Start, ApprovedPhases
    <2>8. \A r \in Runners : runner[r] # Idle => runner[r].wf \in Workflows /\ runner[r].wf # w
      BY <2>1, AdvancedType DEF SerialInv, RunnersCurrent
    <2>9. RunnersCurrent'
      BY <1>1, <2>6, <2>8 DEF SerialInv, RunnersCurrent, Start, ApprovedPhases
    <2> QED
      BY <2>4, <2>7, <2>9 DEF SerialInv, Lifecycle!Next
  <1>2. ASSUME NEW w \in Workflows PROVE ~Escalate(w)
    BY DEF Escalate, TypeOK
  <1>3. ASSUME NEW w \in Workflows, ResumeSaveFails(w) PROVE Goal
    <2> DEFINE q == store[w].approval
    <2>1. /\ store[w].status = "waiting" /\ q \in granted
          /\ cache' = [cache EXCEPT ![w] = q]
          /\ \/ UNCHANGED store
             \/ store' = [store EXCEPT ![w] = ResumedRow(w)]
          /\ UNCHANGED runner
      BY <1>3 DEF ResumeSaveFails
    <2>2. /\ q.phase = store[w].phase
          /\ store[w].phase \in ApprovalPhases
          /\ ResumedRow(w).status = "running"
          /\ ResumedRow(w).phase = store[w].phase
          /\ ResumedRow(w).phase \in ApprovedPhases(ResumedRow(w).history)
          /\ LifeOf(ResumedRow(w)) =
               [status |-> "running", phase |-> LifeOf(store[w]).phase,
                approved |-> LifeOf(store[w]).approved \cup {LifeOf(store[w]).phase}]
      BY <2>1, ResumedLife
    <2>3. Life[w] = LifeOf(store[w]) /\ Life[w].status = "waiting"
      BY <2>1 DEF Life, LifeOf
    <2>4. CASE UNCHANGED store
      <3>1. Life' = Life
        BY <2>4 DEF Life, LifeOf, ApprovedPhases
      <3>2. CacheCurrent'
        BY <2>1, <2>2, <2>4 DEF SerialInv, CacheCurrent, TypeOK, ApprovedPhases
      <3>3. \A r \in Runners : runner[r] # Idle => runner[r].wf \in Workflows /\ runner[r].wf # w
        BY <2>1, AdvancedType DEF SerialInv, RunnersCurrent
      <3>4. RunnersCurrent'
        BY <2>1, <2>4, <3>3 DEF SerialInv, RunnersCurrent, TypeOK, ApprovedPhases
      <3> QED
        BY <3>1, <3>2, <3>4 DEF SerialInv
    <2>5. CASE store' = [store EXCEPT ![w] = ResumedRow(w)]
      <3>1. Life' = [Life EXCEPT ![w] = LifeOf(ResumedRow(w))]
        BY <2>5, SavedLife
      <3>2. Lifecycle!Settle(w, [status |-> "running", phase |-> Life[w].phase,
                                approved |-> Life[w].approved \cup {Life[w].phase}])
        BY <2>2, <2>3, <3>1 DEF Lifecycle!Settle
      <3>3. Lifecycle!Approve(w)
        BY <2>3, <3>2 DEF Lifecycle!Approve
      <3>4. /\ store'[w] = ResumedRow(w) /\ cache'[w] = q
            /\ \A v \in Workflows : v # w => store'[v] = store[v] /\ cache'[v] = cache[v]
        BY <2>1, <2>5 DEF TypeOK
      <3>5. CacheCurrent'
        <4> SUFFICES ASSUME NEW v \in Workflows, cache'[v] # NoRequest
                     PROVE  /\ cache'[v].phase = store'[v].phase
                            /\ store'[v].phase \in ApprovalPhases
                            /\ \/ store'[v].status = "waiting"
                               \/ /\ store'[v].status = "running"
                                  /\ store'[v].phase \in ApprovedPhases(store'[v].history)
          BY DEF CacheCurrent, ApprovedPhases
        <4> QED
          BY <2>2, <3>4 DEF SerialInv, CacheCurrent
      <3>6. \A r \in Runners : runner[r] # Idle => runner[r].wf \in Workflows /\ runner[r].wf # w
        BY <2>1, AdvancedType DEF SerialInv, RunnersCurrent
      <3>7. RunnersCurrent'
        BY <2>1, <3>4, <3>6 DEF SerialInv, RunnersCurrent, ApprovedPhases
      <3> QED
        BY <3>3, <3>5, <3>7 DEF SerialInv, Lifecycle!Next
    <2> QED
      BY <2>1, <2>4, <2>5
  <1>4. ASSUME NEW r \in Runners, NEW w \in Workflows, RunWorkflow(r, w) PROVE Goal
    <2> DEFINE cur == [store[w] EXCEPT !.status = "running"]
    <2>1. /\ store[w].status \in {"pending", "running"}
          /\ Continue(r, w, cur, cache[w])
      BY <1>4 DEF RunWorkflow, Runnable
    <2>2. /\ store[w] \in Row /\ cur \in Row /\ cur.status = "running"
          /\ cur.phase = store[w].phase /\ cur.history = store[w].history
      BY DEF TypeOK, Row, Status
    <2>3. Life[w] = LifeOf(store[w]) /\ LifeOf(cur) = [Life[w] EXCEPT !.status = "running"]
      BY <2>2 DEF Life, LifeOf
    <2>4. cache[w] # NoRequest => /\ cur.phase \in ApprovalPhases
                                  /\ cur.phase \in ApprovedPhases(cur.history)
      BY <2>1, <2>2 DEF SerialInv, CacheCurrent
    <2>5. cache[w] \in Request \cup {NoRequest}
      BY DEF TypeOK
    <2> HIDE DEF cur
    <2>6. SerialInv' /\ Lifecycle!Settle(w, LifeOf(cur))
      BY <2>1, <2>2, <2>4, <2>5, ContinueSerial
    <2>7. Lifecycle!Begin(w)
      BY <2>1, <2>3, <2>6 DEF Lifecycle!Begin, LifeOf
    <2> QED
      BY <2>6, <2>7 DEF Lifecycle!Next
  <1>5. ASSUME NEW r \in Runners, NEW w \in Workflows, Resume(r, w) PROVE Goal
    <2>1. /\ store[w].status = "waiting" /\ store[w].approval \in granted
          /\ Continue(r, w, ResumedRow(w), store[w].approval)
      BY <1>5 DEF Resume
    <2>2. /\ store[w].approval \in Request
          /\ ResumedRow(w) \in Row /\ ResumedRow(w).status = "running"
          /\ ResumedRow(w).phase \in ApprovalPhases
          /\ ResumedRow(w).phase \in ApprovedPhases(ResumedRow(w).history)
          /\ LifeOf(ResumedRow(w)) =
               [status |-> "running", phase |-> LifeOf(store[w]).phase,
                approved |-> LifeOf(store[w]).approved \cup {LifeOf(store[w]).phase}]
      BY <2>1, ResumedLife
    <2>3. store[w].approval # NoRequest
      BY <2>2 DEF WorkflowAssumption
    <2>4. SerialInv' /\ Lifecycle!Settle(w, LifeOf(ResumedRow(w)))
      BY <2>1, <2>2, <2>3, ContinueSerial
    <2>5. Life[w] = LifeOf(store[w]) /\ Life[w].status = "waiting"
      BY <2>1 DEF Life, LifeOf
    <2>6. Lifecycle!Approve(w)
      BY <2>2, <2>4, <2>5 DEF Lifecycle!Approve
    <2> QED
      BY <2>4, <2>6 DEF Lifecycle!Next
  <1>6. ASSUME NEW r \in Runners, OpReturns(r) PROVE Goal
    <2> DEFINE w == runner[r].wf
               cur == runner[r].cur
    <2>1. /\ runner[r] # Idle
          /\ Continue(r, w, Advanced(runner[r]), cache[w])
      BY <1>6 DEF OpReturns
    <2>2. /\ w \in Workflows /\ store[w] = cur /\ cur.status = "running"
          /\ cache[w] = NoRequest
          /\ cur.phase \in ApprovalPhases => cur.phase \in ApprovedPhases(cur.history)
      BY <2>1, AdvancedType DEF SerialInv, RunnersCurrent
    <2>3. LifeOf(Advanced(runner[r])) = [LifeOf(cur) EXCEPT !.phase = @ + 1]
      BY <2>1, <2>2, AdvancedLife
    <2>4. SerialInv' /\ Lifecycle!Settle(w, LifeOf(Advanced(runner[r])))
      BY <2>1, <2>2, AdvancedType, ContinueSerial
    <2>5. /\ Life[w] = LifeOf(cur) /\ Life[w].status = "running"
          /\ Life[w].phase = cur.phase /\ Life[w].approved = ApprovedPhases(cur.history)
      BY <2>2 DEF Life, LifeOf
    <2>6. cur.phase < NumPhases
      BY <2>1 DEF TypeOK, Run
    <2>7. Lifecycle!Pass(w)
      BY <2>2, <2>3, <2>4, <2>5, <2>6 DEF Lifecycle!Pass
    <2> QED
      BY <2>2, <2>4, <2>7 DEF Lifecycle!Next
  <1>7. ASSUME NEW r \in Runners, OpFails(r) PROVE Goal
    <2> DEFINE w == runner[r].wf
               cur == runner[r].cur
    <2>1. /\ runner[r] # Idle /\ UNCHANGED cache
          /\ Leave(r, w, store[w], FailedRow(cur))
      BY <1>7 DEF OpFails
    <2>2. /\ w \in Workflows /\ cur \in Row /\ store[w] = cur /\ cur.status = "running"
          /\ cache[w] = NoRequest
      BY <2>1, AdvancedType DEF SerialInv, RunnersCurrent
    <2>3. /\ Life[w] = LifeOf(cur) /\ Life[w].status = "running"
          /\ Life[w].phase = cur.phase
          /\ [Life[w] EXCEPT !.status = "running"] = LifeOf(cur)
      BY <2>2 DEF Life, LifeOf
    <2>4. cur.phase < NumPhases
      BY <2>1 DEF TypeOK, Run
    <2>5. /\ SerialInv'
          /\ \/ Life' = [Life EXCEPT ![w] = LifeOf(cur)]
             \/ Life' = [Life EXCEPT ![w] = LifeOf(FailedRow(cur))]
      BY <2>1, <2>2, LeaveSerial
    <2>6. Lifecycle!Settle(w, LifeOf(cur))
      BY <2>2, <2>3, <2>4, <2>5, FailedLife DEF Lifecycle!Settle
    <2>7. Lifecycle!Begin(w)
      BY <2>3, <2>6 DEF Lifecycle!Begin
    <2> QED
      BY <2>2, <2>5, <2>7 DEF Lifecycle!Next
  <1>8. ASSUME NEW r \in Runners, OpSaveFails(r) \/ OpEscalates(r) \/ OpCancelled(r) PROVE Goal
    BY <1>0, <1>8 DEF OpSaveFails, OpEscalates, OpCancelled, TypeOK
  <1>9. CASE Restart
    <2>1. CacheCurrent' /\ Life' = Life
      BY <1>9 DEF Restart, CacheCurrent, Life, LifeOf, ApprovedPhases
    <2>2. \A r \in Runners : runner'[r] = Idle
      BY <1>9 DEF Restart
    <2> QED
      BY <2>1, <2>2, IdleIsSerial
  <1>10. CASE (\E q \in requested : Grant(q)) \/ WindowMoves \/ UNCHANGED vars
    BY <1>0, <1>10 DEF Grant, WindowMoves, vars
  <1> QED
    BY <1>1, <1>2, <1>3, <1>4, <1>5, <1>6, <1>7, <1>8, <1>9, <1>10 DEF Next

\* While calls do not overlap and nobody escalates, the runtime implements the abstract
\* life cycle: phases in order and one at a time, an approval phase only after an approval
\* for it, terminal rows final; through crashes, cancellations and saves that fail.
THEOREM WorkflowsLiveAsPromised ==
  ASSUME \A r, s \in Runners : r = s, MaxEscalations = 0
  PROVE  Spec => RefinesLifecycle
  <1> USE WorkflowAssumption
  <1>1. Init => SerialInv
    BY DEF Init, SerialInv, RunnersCurrent, CacheCurrent
  <1>2. Init => Lifecycle!Init
    <2> SUFFICES ASSUME Init PROVE Lifecycle!Init
      OBVIOUS
    <2>1. ApprovedPhases({}) = {}
      BY DEF ApprovedPhases
    <2>2. \A w \in Workflows : /\ store[w].status = "absent"
                              /\ store[w].phase = 0
                              /\ store[w].history = {}
      BY DEF Init
    <2>3. \A w \in Workflows : LifeOf(store[w]) =
            [status |-> "absent", phase |-> 0, approved |-> {}]
      BY <2>1, <2>2 DEF LifeOf
    <2>4. Life = [w \in Workflows |-> [status |-> "absent", phase |-> 0, approved |-> {}]]
      BY <2>3 DEF Life
    <2> QED
      BY <2>4 DEF Lifecycle!Init
  <1>3. TypeOK /\ ApprovalInv /\ SerialInv /\ [Next]_vars
          => SerialInv' /\ [Lifecycle!Next]_Life
    BY StepsAreLife
  <1> QED
    BY <1>1, <1>2, <1>3, TypeCorrect, ApprovalInductive, PTL
    DEF Spec, RefinesLifecycle, Lifecycle!Spec
=============================================================================
