--------------------------- MODULE SecurityGateway ---------------------------
(***************************************************************************)
(* SecurityGateway of security/runtime.py: what an action passes through   *)
(* before and after it touches anything, and IntegrationSecurity, which    *)
(* awaits the external operation between prepare() and complete().  Many   *)
(* actions are under way at once; the governance guard counts an action    *)
(* when it completes, so each prepare() decides without those.             *)
(***************************************************************************)
EXTENDS Integers, FiniteSets, Sequences

CONSTANTS
  Actions,        \* actions, each asked for once
  MaxActions,     \* limits.max_actions_per_window
  WindowSeconds,  \* limits.window_seconds
  Budgets,        \* what is budgeted: "cost" and "seconds"
  Limit,          \* limits.max_cost and limits.max_execution_seconds
  MaxUsage,       \* most that one action is estimated to use, or uses
  MaxClock,       \* bound of the clock
  Requests,       \* approval requests
  NoApproval

ASSUME GatewayAssumption ==
  /\ MaxActions \in Nat \ {0} /\ WindowSeconds \in Nat
  /\ Limit \in Nat /\ MaxUsage \in Nat /\ MaxClock \in Nat
  /\ IsFiniteSet(Actions)

\* What RoleAuthorizer finds, in the order it looks: an unauthenticated principal,
\* a role it does not know, no permission of a role or of the agent that covers
\* the action, a restriction of the resource, or none of these.
Standing == {"unauthenticated", "unknown_role", "not_granted", "restricted", "granted"}

\* high: the action is on the list of high-risk actions, or its risk level is
\* HIGH or CRITICAL, as that of every write of an integration is.
Asked == [standing : Standing, high : BOOLEAN]

Place == {"new", "under_way", "over"}

\* The last three leave no record: a governance limit refuses, the operation is
\* cancelled (or the caller only used check()), the reported usage is negative.
Ending == {"none", "success", "failed", "denied", "approval_required",
           "over_limit", "dropped", "miscounted"}

ApprovalStatus == {"pending", "approved", "rejected"}

Approval == [request : Requests, status : ApprovalStatus]

VARIABLES
  place,      \* how far each action is
  ending,     \* how each action ended
  counted,    \* governance._actions: the completed actions still on its list
  stamp,      \* the time each action was counted at
  used,       \* governance._cost and governance._execution_seconds
  trail,    \* the audit trail, oldest first
  approvals,  \* approval_gate.approvals: the last approval of each request
  handed,     \* every Approval the gate has returned: callers keep them
  clock,      \* time.monotonic()
  peak        \* history: most actions that were under way at one time

gatewayVars ==
  <<place, ending, counted, stamp, used, trail, approvals, handed, clock, peak>>

GatewayTypeOK ==
  /\ place \in [Actions -> Place]
  /\ ending \in [Actions -> Ending]
  /\ counted \in SUBSET Actions
  /\ stamp \in [Actions -> 0 .. MaxClock]
  /\ used \in [Budgets -> Nat]
  /\ trail \in Seq([action : Actions, result : Ending])
  /\ approvals \in [Requests -> ApprovalStatus \cup {"none"}]
  /\ handed \in SUBSET Approval
  /\ clock \in 0 .. MaxClock
  /\ peak \in Nat

GatewayInit ==
  /\ place = [a \in Actions |-> "new"]
  /\ ending = [a \in Actions |-> "none"]
  /\ counted = {}
  /\ stamp = [a \in Actions |-> 0]
  /\ used = [b \in Budgets |-> 0]
  /\ trail = <<>>
  /\ approvals = [r \in Requests |-> "none"]
  /\ handed = {}
  /\ clock = 0
  /\ peak = 0

-----------------------------------------------------------------------------
\* Helpers

UnderWay == {a \in Actions : place[a] = "under_way"}

\* Actions on the guard's list whose stamps are in the window.
Recent == {a \in counted : clock - stamp[a] <= WindowSeconds}

\* SecurityGateway.authorize: high risk needs an approval, whoever asks; the rest
\* is for RoleAuthorizer.
Decision(q) ==
  IF q.high THEN "approval_required"
  ELSE IF q.standing = "granted" THEN "allowed" ELSE "denied"

Approves(approval) == approval # NoApproval /\ approval.status = "approved"

\* prepare() gets past the decision.
Cleared(q, approval) ==
  \/ Decision(q) = "allowed"
  \/ Decision(q) = "approval_required" /\ Approves(approval)

Estimate == [Budgets -> -1 .. MaxUsage]

\* Variant: the list may hold one action more than its limit.
WithinLimitsAtMost(estimate) ==
  /\ Cardinality(Recent) <= MaxActions
  /\ \A b \in Budgets : estimate[b] >= 0 /\ used[b] + estimate[b] <= Limit

\* GovernanceGuard.check
WithinLimits(estimate) ==
  /\ Cardinality(Recent) < MaxActions
  /\ \A b \in Budgets : estimate[b] >= 0 /\ used[b] + estimate[b] <= Limit

Higher(m, n) == IF m > n THEN m ELSE n

End(a, how) ==
  /\ place' = [place EXCEPT ![a] = "over"]
  /\ ending' = [ending EXCEPT ![a] = how]

Audit(a, result) == trail' = Append(trail, [action |-> a, result |-> result])

-----------------------------------------------------------------------------
\* SecurityGateway.prepare

\* No valid approval, or the authorizer denies: recorded, then raised.
Refuse(a) == \E q \in Asked, approval \in handed \cup {NoApproval} :
  /\ place[a] = "new" /\ ~Cleared(q, approval)
  /\ End(a, Decision(q))
  /\ Audit(a, Decision(q))
  /\ UNCHANGED <<counted, stamp, used, approvals, handed, clock, peak>>

\* Cleared, but over a limit: raised without a record.  The guard has taken the
\* stamps that are out of the window off its list.
Exceed(a) == \E q \in Asked, approval \in handed \cup {NoApproval} :
  /\ place[a] = "new" /\ Cleared(q, approval)
  /\ \E estimate \in Estimate : ~WithinLimits(estimate)
  /\ End(a, "over_limit")
  /\ counted' = Recent
  /\ UNCHANGED <<stamp, used, trail, approvals, handed, clock, peak>>

Admit(a) == \E q \in Asked, approval \in handed \cup {NoApproval} :
  /\ place[a] = "new" /\ Cleared(q, approval)
  /\ \E estimate \in Estimate : WithinLimits(estimate)
  /\ place' = [place EXCEPT ![a] = "under_way"]
  /\ counted' = Recent
  /\ peak' = Higher(peak, Cardinality(UnderWay) + 1)
  /\ UNCHANGED <<ending, stamp, used, trail, approvals, handed, clock>>

-----------------------------------------------------------------------------
\* SecurityGateway.complete

\* Variant: the audit record is written before the usage is committed.
CompleteRecordedFirst(a) == \E result \in {"success", "failed"}, usage \in Estimate :
  /\ place[a] = "under_way"
  /\ IF \E b \in Budgets : usage[b] < 0
     THEN /\ End(a, "miscounted")
          /\ UNCHANGED <<counted, stamp, used>>
     ELSE /\ End(a, result)
          /\ counted' = counted \cup {a}
          /\ stamp' = [stamp EXCEPT ![a] = clock]
          /\ used' = [b \in Budgets |-> used[b] + usage[b]]
  /\ Audit(a, result)
  /\ UNCHANGED <<approvals, handed, clock, peak>>

\* The operation returned, or raised an Exception; the caller reports what it used,
\* which need not be what was estimated.  Negative usage is rejected before
\* anything is written.
Complete(a) == \E result \in {"success", "failed"}, usage \in Estimate :
  /\ place[a] = "under_way"
  /\ IF \E b \in Budgets : usage[b] < 0
     THEN /\ End(a, "miscounted")
          /\ UNCHANGED <<counted, stamp, used, trail>>
     ELSE /\ End(a, result)
          /\ counted' = counted \cup {a}
          /\ stamp' = [stamp EXCEPT ![a] = clock]
          /\ used' = [b \in Budgets |-> used[b] + usage[b]]
          /\ Audit(a, result)
  /\ UNCHANGED <<approvals, handed, clock, peak>>

\* A cancelled operation raises CancelledError, which is not an Exception: read()
\* and write() do not reach complete().  A caller of check() never does.
Drop(a) ==
  /\ place[a] = "under_way"
  /\ End(a, "dropped")
  /\ UNCHANGED <<counted, stamp, used, trail, approvals, handed, clock, peak>>

-----------------------------------------------------------------------------
\* InMemoryApprovalGate

RequestApproval(r) ==
  /\ approvals[r] = "none"
  /\ approvals' = [approvals EXCEPT ![r] = "pending"]
  /\ handed' = handed \cup {[request |-> r, status |-> "pending"]}
  /\ UNCHANGED <<place, ending, counted, stamp, used, trail, clock, peak>>

\* An identified approver with a reason resolves any approval the gate has handed
\* out, a resolved one too; without either, resolve() raises and changes nothing.
Resolve(r) == \E status \in {"approved", "rejected"} :
  /\ \E approval \in handed : approval.request = r
  /\ approvals' = [approvals EXCEPT ![r] = status]
  /\ handed' = handed \cup {[request |-> r, status |-> status]}
  /\ UNCHANGED <<place, ending, counted, stamp, used, trail, clock, peak>>

-----------------------------------------------------------------------------

TickClock ==
  /\ clock < MaxClock
  /\ clock' = clock + 1
  /\ UNCHANGED <<place, ending, counted, stamp, used, trail, approvals, handed, peak>>

GatewayNext ==
  \/ TickClock
  \/ \E a \in Actions :
       Refuse(a) \/ Exceed(a) \/ Admit(a) \/ Complete(a) \/ Drop(a)
  \/ \E r \in Requests : RequestApproval(r) \/ Resolve(r)

GatewaySpec == GatewayInit /\ [][GatewayNext]_gatewayVars

-----------------------------------------------------------------------------
\* Properties

\* What the limits bound although actions that are under way are not counted: the
\* completed actions in a window exceed max_actions_per_window by less than the
\* most actions that were ever under way together, and each budget its limit by
\* at most what that many actions use.  One action at a time keeps the rate limit
\* exactly.
LimitsHold ==
  /\ Cardinality(Recent) < MaxActions + Higher(peak, 1)
  /\ \A b \in Budgets : used[b] <= Limit + peak * MaxUsage

\* The audit trail tells every action that was refused or that completed, once and
\* with its result, and it tells every action the guard has counted.  Nothing is
\* recorded of an action that a limit refuses, that is cancelled or that reports
\* negative usage.
TrailTellsOutcome == \A a \in Actions :
  LET own == {n \in DOMAIN trail : trail[n].action = a}
  IN /\ IF ending[a] \in {"success", "failed", "denied", "approval_required"}
        THEN \E n \in own : own = {n} /\ trail[n].result = ending[a]
        ELSE own = {}
     /\ a \in counted => ending[a] \in {"success", "failed"}
=============================================================================
