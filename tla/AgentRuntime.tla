---------------------------- MODULE AgentRuntime -----------------------------
(***************************************************************************)
(* AgentRuntime.run of agents/runtime.py: the steps of a plan through      *)
(* permission and policy gates, with an observer that is told every event  *)
(* and may raise at any.  Planner, policies, tools, observer and           *)
(* escalation handler belong to the application.                           *)
(***************************************************************************)
EXTENDS Naturals, Sequences, FiniteSets

CONSTANT MaxPlan  \* bound of the steps of a plan

ASSUME AgentAssumption == MaxPlan \in Nat

\* What the gates find about a step: a tool of that name, a permission for its
\* resource or for all, policies that allow it.
PlanStep == [registered : BOOLEAN, permitted : BOOLEAN, allowed : BOOLEAN]

\* AgentState
AgentEvent == {"receive", "understand", "plan", "execute", "observe", "verify", "complete",
               "escalate"}

\* handled: by the escalation handler, whose result is returned as it is.
AgentOutcome == {"none", "completed", "escalated", "handled", "raised", "cancelled"}

\* A run stands before the event it emits next, before planning, at the gates of a
\* step, or where it awaits a tool or the escalation handler.
AgentPlace == AgentEvent \cup {"planning", "gate", "tool", "handler", "over"}

VARIABLES
  standing,  \* where the run stands
  plan,      \* the steps, once planned
  done,      \* steps whose tool has returned
  observed,  \* observations collected, by step
  heard,     \* events the observer was told, a call that raised included
  outcome    \* how the run ended

agentVars == <<standing, plan, done, observed, heard, outcome>>

AgentTypeOK ==
  /\ standing \in AgentPlace
  /\ plan \in Seq(PlanStep) /\ Len(plan) <= MaxPlan
  /\ done \in 0 .. Len(plan)
  /\ observed \in Seq(1 .. Len(plan))
  /\ heard \in Seq(AgentEvent)
  /\ outcome \in AgentOutcome

AgentRunInit ==
  /\ standing = "receive" /\ plan = <<>> /\ done = 0 /\ observed = <<>>
  /\ heard = <<>> /\ outcome = "none"

-----------------------------------------------------------------------------
\* Helpers

\* The observer is told; unless it raises, the run goes on at the next place.
Emit(event, next) ==
  /\ heard' = Append(heard, event)
  /\ standing' \in {next, "escalate"}

Over(how) == standing' = "over" /\ outcome' = how

-----------------------------------------------------------------------------
\* Actions

Announce == \E event \in {"receive", "understand"} :
  /\ standing = event
  /\ Emit(event, IF event = "receive" THEN "understand" ELSE "planning")
  /\ UNCHANGED <<plan, done, observed, outcome>>

\* The planner returns a plan, an empty one too, or raises.
MakePlan ==
  /\ standing = "planning"
  /\ \/ \E n \in 0 .. MaxPlan : plan' \in [1 .. n -> PlanStep] /\ standing' = "plan"
     \/ standing' = "escalate" /\ UNCHANGED plan
  /\ UNCHANGED <<done, observed, heard, outcome>>

\* The loop's head: the next step, or the end of the plan.
Ahead(finished) == IF finished < Len(plan) THEN "execute" ELSE "verify"

TellPlan ==
  /\ standing = "plan"
  /\ Emit("plan", Ahead(0))
  /\ UNCHANGED <<plan, done, observed, outcome>>

TellStep ==
  /\ standing = "execute"
  /\ Emit("execute", "gate")
  /\ UNCHANGED <<plan, done, observed, outcome>>

Passes(step) == step.registered /\ step.permitted /\ step.allowed

Authorize ==
  /\ standing = "gate"
  /\ standing' = IF Passes(plan[done + 1]) THEN "tool" ELSE "escalate"
  /\ UNCHANGED <<plan, done, observed, heard, outcome>>

\* Variant: the observer is told before the observation is kept.
ToolReturnsToldFirst ==
  /\ standing = "tool"
  /\ done' = done + 1
  /\ Emit("observe", Ahead(done + 1))
  /\ observed' = IF standing' = "escalate" THEN observed ELSE Append(observed, done + 1)
  /\ UNCHANGED <<plan, outcome>>

\* The observation is kept and told in one step: no await is between them.
ToolReturns ==
  /\ standing = "tool"
  /\ done' = done + 1
  /\ observed' = Append(observed, done + 1)
  /\ Emit("observe", Ahead(done + 1))
  /\ UNCHANGED <<plan, outcome>>

ToolRaises ==
  /\ standing = "tool"
  /\ standing' = "escalate"
  /\ UNCHANGED <<plan, done, observed, heard, outcome>>

TellVerify ==
  /\ standing = "verify"
  /\ Emit("verify", "complete")
  /\ UNCHANGED <<plan, done, observed, outcome>>

\* An observer that raises here makes an escalation of a run it was told complete.
TellComplete ==
  /\ standing = "complete"
  /\ heard' = Append(heard, "complete")
  /\ \/ Over("completed")
     \/ standing' = "escalate" /\ UNCHANGED outcome
  /\ UNCHANGED <<plan, done, observed>>

\* What the observer raises now, nobody catches.
TellEscalation ==
  /\ standing = "escalate"
  /\ heard' = Append(heard, "escalate")
  /\ \/ Over("escalated") \/ Over("raised")
     \/ standing' = "handler" /\ UNCHANGED outcome
  /\ UNCHANGED <<plan, done, observed>>

HandlerEnds == \E how \in {"handled", "raised"} :
  /\ standing = "handler"
  /\ Over(how)
  /\ UNCHANGED <<plan, done, observed, heard>>

\* The caller is cancelled where the run awaits.
CancelRun ==
  /\ standing \in {"tool", "handler"}
  /\ Over("cancelled")
  /\ UNCHANGED <<plan, done, observed, heard>>

AgentNext ==
  \/ Announce \/ MakePlan \/ TellPlan \/ TellStep \/ Authorize
  \/ ToolReturns \/ ToolRaises \/ TellVerify \/ TellComplete
  \/ TellEscalation \/ HandlerEnds \/ CancelRun

AgentRunSpec == AgentRunInit /\ [][AgentNext]_agentVars

-----------------------------------------------------------------------------
\* Properties

Tellings(event) == {n \in 1 .. Len(heard) : heard[n] = event}

Count(event) == Cardinality(Tellings(event))

\* The observer's account and the caller's agree.  Every tool that returned is among
\* the observations, once, in the plan's order, and was told, also if the observer
\* raised at that very event; each tool that ran passed the gates.  The last event
\* says how the run ended: "complete" only of a run that completed all its steps,
\* "escalate" of every other that was not cancelled at a tool.
ObserverKnowsTheRun ==
  /\ observed = [n \in 1 .. done |-> n] /\ Count("observe") = done
  /\ \A n \in 1 .. done : Passes(plan[n])
  /\ standing = "over" =>
       LET last == heard[Len(heard)]
       IN /\ last = "complete" <=> outcome = "completed"
          /\ outcome = "completed" =>
               done = Len(plan) /\ Count("execute") = done /\ Count("escalate") = 0
          /\ outcome \in {"escalated", "handled", "raised"} =>
               last = "escalate" /\ Count("escalate") = 1
          /\ outcome = "cancelled" => last \in {"execute", "escalate"}
=============================================================================
