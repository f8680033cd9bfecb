------------------------- MODULE EngineeringWorkflow -------------------------
(***************************************************************************)
(* The durable workflow runtime: workflows/runtime.py on top of            *)
(* workflows/store.py and the part of security/runtime.py it calls.        *)
(*                                                                         *)
(* All workflow coroutines of a process share one event loop, so the code  *)
(* between two awaits is atomic.  The only await of the runtime is         *)
(* operations.execute: a step of this module is therefore what a caller or *)
(* a resumed coroutine does up to the next operation it starts or up to    *)
(* its return.  A process may die between two steps; the SQLite row        *)
(* survives, everything else is rebuilt empty.                             *)
(***************************************************************************)
EXTENDS Naturals, FiniteSets

CONSTANTS
  Workflows,       \* workflow ids
  Runners,         \* concurrent calls of run() and resume()
  NumPhases,       \* len(WorkflowPhase): 16 in the code
  ApprovalPhases,  \* approval_phases: {IMPLEMENT} by default
  HighRiskPhases,  \* phases executed as a HIGH risk action: {IMPLEMENT}
  Unreadable,      \* workflows whose repository the principal may not read
  MaxActions,      \* GovernanceLimits.max_actions_per_window
  StoreMayFail,    \* may WorkflowStore.save raise?
  MaxRequests,     \* bound: approval requests per workflow
  MaxFaults,       \* bound: crashes, cancellations, operation escalations, failed saves
  MaxEscalations,  \* bound: calls of escalate()
  Idle,            \* a runner that is not inside run() or resume()
  NoRequest        \* None

Phase == 0 .. NumPhases - 1

\* An approval request: the workflow and phase it was made for and a serial
\* number that stands for its uuid.
Request == [wf : Workflows, phase : Phase, n : 1 .. MaxRequests]

EventKind == {"executed", "failed", "waiting", "approved", "escalated"}

\* A WorkflowEvent, the set of which abstracts the event list; n is the serial of the
\* approval request or escalation.
Event == [kind : EventKind, phase : 0 .. NumPhases, n : Nat]

Status ==
  {"absent", "pending", "running", "waiting", "escalated", "completed", "failed"}

Row == [status : Status, phase : 0 .. NumPhases,
        approval : Request \cup {NoRequest}, history : SUBSET Event]

\* The frame of a suspended _execute: its workflow, state snapshot, approval.
Run == [wf : Workflows, cur : {row \in Row : row.phase < NumPhases},
        grant : Request \cup {NoRequest}]

ASSUME WorkflowAssumption ==
  /\ NumPhases \in Nat \ {0}
  /\ ApprovalPhases \subseteq Phase
  /\ HighRiskPhases \subseteq Phase
  /\ Unreadable \subseteq Workflows
  /\ MaxActions \in Nat
  /\ StoreMayFail \in BOOLEAN
  /\ MaxRequests \in Nat
  /\ MaxFaults \in Nat
  /\ MaxEscalations \in Nat
  /\ Idle \notin Run
  /\ NoRequest \notin Request

VARIABLES
  store,        \* the workflows table: one row per workflow
  runner,       \* each runner's coroutine frame while it awaits an operation
  cache,        \* _approval_cache
  requested,    \* approval requests handed to the approval gate
  granted,      \* requests for which a human holds an APPROVED Approval
  uses,         \* history: operations started under each approval
  spent,        \* actions committed in the current governance window
  faults,       \* bounded environment counters
  escalations

vars == <<store, runner, cache, requested, granted, uses, spent, faults, escalations>>

TypeOK ==
  /\ store \in [Workflows -> Row]
  /\ runner \in [Runners -> Run \cup {Idle}]
  /\ cache \in [Workflows -> Request \cup {NoRequest}]
  /\ requested \in SUBSET Request
  /\ granted \in SUBSET requested
  /\ uses \in [Request -> Nat]
  /\ spent \in Nat
  /\ faults \in 0 .. MaxFaults
  /\ escalations \in 0 .. MaxEscalations

Init ==
  /\ store = [w \in Workflows |-> [status |-> "absent", phase |-> 0,
                                   approval |-> NoRequest, history |-> {}]]
  /\ runner = [r \in Runners |-> Idle]
  /\ cache = [w \in Workflows |-> NoRequest]
  /\ requested = {}
  /\ granted = {}
  /\ uses = [q \in Request |-> 0]
  /\ spent = 0
  /\ faults = 0
  /\ escalations = 0

-----------------------------------------------------------------------------
\* Helpers

Note(row, kind, p, serial) ==
  [row EXCEPT !.history = @ \cup {[kind |-> kind, phase |-> p, n |-> serial]}]

\* SecurityGateway.prepare raises nothing: a HIGH risk action has an approval,
\* any other passes the role check, and the action rate has room.
Admitted(w, p, grant, actions) ==
  /\ IF p \in HighRiskPhases THEN grant # NoRequest ELSE w \notin Unreadable
  /\ actions < MaxActions

\* WorkflowStore.save raises.
SaveFails ==
  /\ StoreMayFail
  /\ faults < MaxFaults
  /\ faults' = faults + 1

\* The call returns to its caller after a last save, or raises because that
\* save failed and leaves the row saved before it.
Leave(r, w, cur, final) ==
  /\ runner' = [runner EXCEPT ![r] = Idle]
  /\ \/ store' = [store EXCEPT ![w] = final] /\ UNCHANGED faults
     \/ store' = [store EXCEPT ![w] = cur] /\ SaveFails

\* Variant: request ids derived from workflow and phase, not fresh uuids.
SerialsNotFresh(w) == 1 .. MaxRequests

FreshSerials(w) ==
  {k \in 1 .. MaxRequests : \A q \in requested : q.wf = w => q.n # k}

\* _checkpoint without a cached approval: ask the gate, persist WAITING.
AskApproval(r, w, cur) ==
  \E k \in FreshSerials(w) :
    LET q == [wf |-> w, phase |-> cur.phase, n |-> k]
    IN /\ \A j \in FreshSerials(w) : k <= j
       /\ requested' = requested \cup {q}
       /\ Leave(r, w, cur, [Note(cur, "waiting", cur.phase, k) EXCEPT
                              !.status = "waiting", !.approval = q])

\* _execute up to its await: the operation starts.
Dispatch(r, w, cur, grant) ==
  /\ Admitted(w, cur.phase, grant, spent')
  /\ store' = [store EXCEPT ![w] = cur]
  /\ runner' = [runner EXCEPT ![r] = [wf |-> w, cur |-> cur, grant |-> grant]]
  /\ uses' = IF grant = NoRequest THEN uses ELSE [uses EXCEPT ![grant] = @ + 1]
  /\ UNCHANGED faults

FailedRow(cur) == [Note(cur, "failed", cur.phase, 0) EXCEPT !.status = "failed"]

\* Variant: the cached approval is read with get instead of pop.
PeekCached(w, cached) == [cache EXCEPT ![w] = cached]

PopCached(w, cached) == [cache EXCEPT ![w] = NoRequest]

\* prepare raises: the workflow fails without starting the operation.
Refuse(r, w, cur, grant) ==
  /\ ~Admitted(w, cur.phase, grant, spent')
  /\ Leave(r, w, cur, FailedRow(cur))
  /\ UNCHANGED uses

\* The loop of _run from its test on, for the persisted state cur and the
\* approval cached for the workflow, up to the next await or return.
Continue(r, w, cur, cached) ==
  \/ /\ cur.phase = NumPhases
     /\ Leave(r, w, cur, [cur EXCEPT !.status = "completed", !.approval = NoRequest])
     /\ UNCHANGED <<cache, requested, uses>>
  \/ /\ cur.phase \in ApprovalPhases
     /\ cached = NoRequest
     /\ AskApproval(r, w, cur)
     /\ UNCHANGED <<cache, uses>>
  \/ /\ cur.phase \in ApprovalPhases
     /\ cached # NoRequest
     /\ cache' = PopCached(w, cached)
     /\ Dispatch(r, w, cur, cached) \/ Refuse(r, w, cur, cached)
     /\ UNCHANGED requested
  \/ /\ cur.phase \in Phase \ ApprovalPhases
     /\ Dispatch(r, w, cur, NoRequest) \/ Refuse(r, w, cur, NoRequest)
     /\ UNCHANGED <<cache, requested>>

-----------------------------------------------------------------------------
\* Calls from outside

Start(w) ==
  /\ store[w].status = "absent"
  /\ store' = [store EXCEPT ![w].status = "pending"]
  /\ UNCHANGED <<runner, cache, requested, granted, uses, spent, faults, escalations>>

\* Variant: a failed workflow may be run again.
RunnableOrFailed == {"pending", "running", "failed"}

Runnable == {"pending", "running"}

\* run() on a row that is neither terminal nor waiting.
RunWorkflow(r, w) ==
  /\ runner[r] = Idle
  /\ store[w].status \in Runnable
  /\ spent' = spent
  /\ Continue(r, w, [store[w] EXCEPT !.status = "running"], cache[w])
  /\ UNCHANGED <<granted, escalations>>

\* Variant: the resumed row is built without the approval event.
ResumedSilently(w) == [store[w] EXCEPT !.status = "running"]

\* The row resume() saves once the supplied approval matches the checkpoint.
ResumedRow(w) ==
  [Note(store[w], "approved", store[w].approval.phase, store[w].approval.n) EXCEPT
     !.status = "running"]

\* resume() with the APPROVED Approval of the stored checkpoint; with any
\* other argument or status it changes nothing.
Resume(r, w) ==
  /\ runner[r] = Idle
  /\ store[w].status = "waiting"
  /\ store[w].approval \in granted
  /\ spent' = spent
  /\ Continue(r, w, ResumedRow(w), store[w].approval)
  /\ UNCHANGED <<granted, escalations>>

\* resume() caches the approval and then its first or second save raises.
ResumeSaveFails(w) ==
  /\ SaveFails
  /\ store[w].status = "waiting"
  /\ store[w].approval \in granted
  /\ cache' = [cache EXCEPT ![w] = store[w].approval]
  /\ \/ UNCHANGED store
     \/ store' = [store EXCEPT ![w] = ResumedRow(w)]
  /\ UNCHANGED <<runner, requested, granted, uses, spent, escalations>>

Escalate(w) ==
  /\ store[w].status # "absent"
  /\ escalations < MaxEscalations
  /\ escalations' = escalations + 1
  /\ store' = [store EXCEPT ![w] =
                 [Note(@, "escalated", @.phase, escalations') EXCEPT !.status = "escalated"]]
  /\ UNCHANGED <<runner, cache, requested, granted, uses, spent, faults>>

\* A human resolves a request positively.  A rejected Approval is never
\* accepted by resume(), so a rejection changes nothing the runtime reads.
Grant(q) ==
  /\ q \in requested \ granted
  /\ granted' = granted \cup {q}
  /\ UNCHANGED <<store, runner, cache, requested, uses, spent, faults, escalations>>

-----------------------------------------------------------------------------
\* The awaited operation ends

\* Variant: the phase index is not incremented.
AdvancedInPlace(run) ==
  [Note(run.cur, "executed", run.cur.phase, 0) EXCEPT
     !.status = "running", !.approval = NoRequest]

\* _advance
Advanced(run) ==
  [Note(run.cur, "executed", run.cur.phase, 0) EXCEPT
     !.status = "running", !.phase = @ + 1, !.approval = NoRequest]

OpReturns(r) ==
  /\ runner[r] # Idle
  /\ spent' = spent + 1
  /\ Continue(r, runner[r].wf, Advanced(runner[r]), cache[runner[r].wf])
  /\ UNCHANGED <<granted, escalations>>

\* The operation succeeded but the save that records it raises.
OpSaveFails(r) ==
  /\ SaveFails
  /\ runner[r] # Idle
  /\ spent' = spent + 1
  /\ runner' = [runner EXCEPT ![r] = Idle]
  /\ UNCHANGED <<store, cache, requested, granted, uses, escalations>>

\* The operation raises: the whole row is replaced by the runner's snapshot.
OpFails(r) ==
  /\ runner[r] # Idle
  /\ spent' = spent + 1
  /\ LET w == runner[r].wf IN
       Leave(r, w, store[w], FailedRow(runner[r].cur))
  /\ UNCHANGED <<cache, requested, granted, uses, escalations>>

\* The operation raises WorkflowEscalation: _run re-raises it unsaved.
OpEscalates(r) ==
  /\ runner[r] # Idle
  /\ faults < MaxFaults
  /\ faults' = faults + 1
  /\ spent' = spent + 1
  /\ runner' = [runner EXCEPT ![r] = Idle]
  /\ UNCHANGED <<store, cache, requested, granted, uses, escalations>>

\* CancelledError at the await skips complete() and every save.
OpCancelled(r) ==
  /\ runner[r] # Idle
  /\ faults < MaxFaults
  /\ faults' = faults + 1
  /\ runner' = [runner EXCEPT ![r] = Idle]
  /\ UNCHANGED <<store, cache, requested, granted, uses, spent, escalations>>

\* The process dies and a new one starts on the same database.
Restart ==
  /\ faults < MaxFaults
  /\ faults' = faults + 1
  /\ runner' = [r \in Runners |-> Idle]
  /\ cache' = [w \in Workflows |-> NoRequest]
  /\ spent' = 0
  /\ UNCHANGED <<store, requested, granted, uses, escalations>>

\* Old actions leave the governance window.
WindowMoves ==
  /\ spent > 0
  /\ spent' \in 0 .. spent - 1
  /\ UNCHANGED <<store, runner, cache, requested, granted, uses, faults, escalations>>

Next ==
  \/ \E w \in Workflows : Start(w) \/ Escalate(w) \/ ResumeSaveFails(w)
  \/ \E r \in Runners, w \in Workflows : RunWorkflow(r, w) \/ Resume(r, w)
  \/ \E q \in requested : Grant(q)
  \/ \E r \in Runners : OpReturns(r) \/ OpSaveFails(r) \/ OpFails(r)
                          \/ OpEscalates(r) \/ OpCancelled(r)
  \/ Restart
  \/ WindowMoves

Spec == Init /\ [][Next]_vars

-----------------------------------------------------------------------------
\* Safety

\* However calls, crashes, cancellations and failing saves interleave, no
\* approval starts two operations: _checkpoint pops the cached approval, and
\* every new checkpoint carries a fresh request id.
ApprovalUsedOnce == \A q \in Request : uses[q] <= 1

\* An operation of an approval phase runs only under an approval that a human
\* granted for this very workflow and phase (resume's id check, then the
\* cache handed from resume to _checkpoint).
ApprovalMatchesOperation ==
  \A r \in Runners : runner[r] # Idle /\ runner[r].cur.phase \in ApprovalPhases =>
    /\ runner[r].grant \in granted
    /\ runner[r].grant.wf = runner[r].wf
    /\ runner[r].grant.phase = runner[r].cur.phase

\* A HIGH risk operation never starts without some approval granted for its
\* workflow, even when saves fail (prepare's check of the approval).
HighRiskNeedsApproval ==
  \A r \in Runners : runner[r] # Idle /\ runner[r].cur.phase \in HighRiskPhases =>
    /\ runner[r].grant \in granted
    /\ runner[r].grant.wf = runner[r].wf

DecisionFor(w, p, history) ==
  \E q \in granted : /\ q.wf = w
                     /\ q.phase = p
                     /\ [kind |-> "approved", phase |-> p, n |-> q.n] \in history

\* The events of a row justify its phase index.
Explained(w, row) ==
  \A p \in Phase : p < row.phase =>
    /\ [kind |-> "executed", phase |-> p, n |-> 0] \in row.history
    /\ p \in ApprovalPhases => DecisionFor(w, p, row.history)

\* Whatever snapshot a save writes last, the persisted trail explains the
\* persisted progress: each phase already passed has its executed event and,
\* where approval is required, the human decision that let it pass.
TrailExplainsProgress ==
  /\ \A w \in Workflows : Explained(w, store[w])
  /\ \A r \in Runners : runner[r] # Idle =>
       /\ Explained(runner[r].wf, runner[r].cur)
       /\ runner[r].cur.phase \in ApprovalPhases =>
            DecisionFor(runner[r].wf, runner[r].cur.phase, runner[r].cur.history)

\* A stored checkpoint can still be answered: it waits at an approval phase
\* for a request made for this workflow and phase, and no operation has used
\* that request's approval yet.
OpenCheckpointUnspent ==
  \A w \in Workflows : store[w].status = "waiting" =>
    LET q == store[w].approval
    IN /\ q \in requested
       /\ q.wf = w
       /\ q.phase = store[w].phase
       /\ q.phase \in ApprovalPhases
       /\ uses[q] = 0

-----------------------------------------------------------------------------
\* Action properties

Terminal == {"escalated", "completed", "failed"}

\* What the two ways to ask for a human document, escalate() ("Persist a workflow
\* escalation and stop autonomous execution") and WorkflowEscalation ("Raised when a
\* workflow must stop and require human intervention"): an escalated workflow stays
\* so, whatever calls are suspended in an operation at that moment, and one whose
\* operation escalates is left in a state that run() does not execute any further.
EscalationStops ==
  [][/\ \A w \in Workflows :
          store[w].status = "escalated" => store'[w].status = "escalated"
     /\ \A r \in Runners :
          OpEscalates(r) => store'[runner[r].wf].status \notin Runnable]_vars

-----------------------------------------------------------------------------
\* Refinement

\* The phases that a row's history tells an approval of.
ApprovedPhases(history) ==
  {p \in Phase : \E k \in 1 .. MaxRequests :
      [kind |-> "approved", phase |-> p, n |-> k] \in history}

LifeOf(row) ==
  [status |-> row.status, phase |-> row.phase, approved |-> ApprovedPhases(row.history)]

Life == [w \in Workflows |-> LifeOf(store[w])]

Lifecycle == INSTANCE WorkflowLifecycle WITH life <- Life

\* When calls on a workflow do not overlap and nobody escalates, every step of the
\* runtime, a failing save included, is a step of the abstract life cycle or none.
RefinesLifecycle == Lifecycle!Spec

-----------------------------------------------------------------------------
\* Liveness.  Operations end, a caller calls run()
\* again on a workflow that is pending or was interrupted, and a human grants
\* and resumes every checkpoint.

Fairness ==
  /\ \A r \in Runners : WF_vars(OpReturns(r) \/ OpFails(r))
  /\ \A w \in Workflows :
       /\ WF_vars(\E r \in Runners : RunWorkflow(r, w))
       /\ WF_vars(\E q \in requested : q.wf = w /\ Grant(q))
       /\ WF_vars(\E r \in Runners : Resume(r, w))

FairSpec == Spec /\ Fairness

\* Every started workflow reaches a terminal status.
EveryWorkflowEnds ==
  \A w \in Workflows : store[w].status = "pending" ~> store[w].status \in Terminal
=============================================================================
