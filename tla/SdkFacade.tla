------------------------------ MODULE SdkFacade ------------------------------
(***************************************************************************)
(* The EIS class of sdk/api.py as an application uses it from several      *)
(* coroutines: tasks and their results, runs of agents, engineers and      *)
(* workflow runners over them, calls of tools and evaluators, and the      *)
(* audit history.  Handlers are the application's own: they return at once *)
(* or are awaited, and may raise.                                          *)
(***************************************************************************)
EXTENDS Naturals, Sequences

CONSTANTS
  Tasks,  \* tasks
  Runs    \* calls of run_agent, execute_engineering, orchestrate, execute, evaluate_idea,
          \* and of the methods that keep something

Result == {"none", "queued", "running", "completed", "failed"}

\* call: execute and evaluate_idea, which concern no task; keep: register_product,
\* add_knowledge, remember, register_agent and register_tool.
Job == {"agent", "engineering", "workflow", "call", "keep"}

\* raised: the caller of an agent, a tool or an evaluator gets its exception;
\* cancelled: the awaiting caller was, which no handler of exceptions here catches.
Outcome == {"none", "completed", "failed", "raised", "cancelled"}

VARIABLES
  result,   \* _results: the status kept for each task
  run,      \* each run: what it runs, its task, whether it awaits, how it ended
  history,  \* _audit: the entries that runs leave, oldest first
  added     \* what was registered, added or remembered: the calls, oldest first

sdkVars == <<result, run, history, added>>

AnyTask == CHOOSE t \in Tasks : TRUE

SdkInit ==
  /\ result = [t \in Tasks |-> "none"]
  /\ run = [r \in Runs |-> [job |-> "none", task |-> AnyTask, awaits |-> FALSE,
                            outcome |-> "none"]]
  /\ history = <<>> /\ added = <<>>

-----------------------------------------------------------------------------
\* Helpers

Fresh(r) == run[r].job = "none"

Awaits(r, job) == run[r].awaits /\ run[r].job = job

Entered(r, job, t, awaits, outcome) ==
  run' = [run EXCEPT ![r] = [job |-> job, task |-> t, awaits |-> awaits, outcome |-> outcome]]

Left(r, outcome) == run' = [run EXCEPT ![r].awaits = FALSE, ![r].outcome = outcome]

\* Entries with the run they belong to; their text is "success", "failed", "started".
Entry(r, text) == [run |-> r, text |-> text]

Told(entries) == history' = history \o entries

-----------------------------------------------------------------------------
\* Tasks and agents

\* A Task may also be made without create_task: it then has no result yet.
CreateTask(t) ==
  /\ result[t] = "none"
  /\ result' = [result EXCEPT ![t] = "queued"]
  /\ UNCHANGED <<run, history, added>>

\* An unknown agent, or a handler that raises before it returns anything: the
\* result of the task stays as it was.
AgentRefused(r, t) ==
  /\ Fresh(r)
  /\ Entered(r, "agent", t, FALSE, "raised")
  /\ UNCHANGED <<result, history, added>>

\* The handler returns a value: RUNNING is overwritten before anybody can see it.
AgentAnswers(r, t) == \E status \in {"completed", "failed"} :
  /\ Fresh(r)
  /\ Entered(r, "agent", t, FALSE, status)
  /\ result' = [result EXCEPT ![t] = status]
  /\ Told(<<Entry(r, "success")>>)
  /\ UNCHANGED added

AgentStarts(r, t) ==
  /\ Fresh(r)
  /\ Entered(r, "agent", t, TRUE, "none")
  /\ result' = [result EXCEPT ![t] = "running"]
  /\ UNCHANGED <<history, added>>

\* Variant: an agent that did not complete leaves no result.
AgentReturnsIfCompleted(r) == \E status \in {"completed", "failed"} :
  /\ Awaits(r, "agent")
  /\ Left(r, status)
  /\ result' = IF status = "failed" THEN result
               ELSE [result EXCEPT ![run[r].task] = status]
  /\ Told(<<Entry(r, "success")>>)
  /\ UNCHANGED added

\* The entry says "success" of an agent that did not complete, too.
AgentReturns(r) == \E status \in {"completed", "failed"} :
  /\ Awaits(r, "agent")
  /\ Left(r, status)
  /\ result' = [result EXCEPT ![run[r].task] = status]
  /\ Told(<<Entry(r, "success")>>)
  /\ UNCHANGED added

\* Nothing catches what an awaited agent raises: the task stays RUNNING.
AgentRaises(r) == \E outcome \in {"raised", "cancelled"} :
  /\ Awaits(r, "agent")
  /\ Left(r, outcome)
  /\ UNCHANGED <<result, history, added>>

-----------------------------------------------------------------------------
\* Engineers and workflow runners: they keep no result and turn an exception into
\* a failed answer

Opening(job, r) == IF job = "engineering" THEN <<Entry(r, "started")>> ELSE <<>>

Closing(r, outcome) == <<Entry(r, IF outcome = "completed" THEN "success" ELSE "failed")>>

HandlerAnswers(r, t) == \E job \in {"engineering", "workflow"}, outcome \in {"completed", "failed"} :
  /\ Fresh(r)
  /\ Entered(r, job, t, FALSE, outcome)
  /\ Told(Opening(job, r) \o Closing(r, outcome))
  /\ UNCHANGED <<result, added>>

HandlerStarts(r, t) == \E job \in {"engineering", "workflow"} :
  /\ Fresh(r)
  /\ Entered(r, job, t, TRUE, "none")
  /\ Told(Opening(job, r))
  /\ UNCHANGED <<result, added>>

HandlerReturns(r) == \E job \in {"engineering", "workflow"}, outcome \in {"completed", "failed"} :
  /\ Awaits(r, job)
  /\ Left(r, outcome)
  /\ Told(Closing(r, outcome))
  /\ UNCHANGED <<result, added>>

HandlerCancelled(r) == \E job \in {"engineering", "workflow"} :
  /\ Awaits(r, job)
  /\ Left(r, "cancelled")
  /\ UNCHANGED <<result, history, added>>

-----------------------------------------------------------------------------
\* Tools and evaluators: only what returned is told

\* The entry of a call that returned.  A tool that answers success=False is told as
\* a success, too.
Returned(r, outcome) == IF outcome = "completed" THEN <<Entry(r, "success")>> ELSE <<>>

\* An unknown tool raises, as does an evaluator that answers something else.
CallAnswers(r) == \E outcome \in {"completed", "raised"} :
  /\ Fresh(r)
  /\ Entered(r, "call", AnyTask, FALSE, outcome)
  /\ Told(Returned(r, outcome))
  /\ UNCHANGED <<result, added>>

CallStarts(r) ==
  /\ Fresh(r)
  /\ Entered(r, "call", AnyTask, TRUE, "none")
  /\ UNCHANGED <<result, history, added>>

CallEnds(r) == \E outcome \in {"completed", "raised", "cancelled"} :
  /\ Awaits(r, "call")
  /\ Left(r, outcome)
  /\ Told(Returned(r, outcome))
  /\ UNCHANGED <<result, added>>

\* A name, a purpose or a content that is missing raises; nothing is kept of it.
Keep(r) == \E outcome \in {"completed", "raised"} :
  /\ Fresh(r)
  /\ Entered(r, "keep", AnyTask, FALSE, outcome)
  /\ added' = IF outcome = "completed" THEN Append(added, r) ELSE added
  /\ Told(Returned(r, outcome))
  /\ UNCHANGED result

SdkNext ==
  \/ \E t \in Tasks : CreateTask(t)
  \/ \E r \in Runs, t \in Tasks :
       AgentRefused(r, t) \/ AgentAnswers(r, t) \/ AgentStarts(r, t)
       \/ HandlerAnswers(r, t) \/ HandlerStarts(r, t)
  \/ \E r \in Runs :
       AgentReturns(r) \/ AgentRaises(r) \/ HandlerReturns(r) \/ HandlerCancelled(r)
       \/ CallAnswers(r) \/ CallStarts(r) \/ CallEnds(r) \/ Keep(r)

SdkSpec == SdkInit /\ [][SdkNext]_sdkVars

-----------------------------------------------------------------------------
\* Properties

\* The places of a history whose entries belong to these runs.
Places(list, runs) == {n \in 1 .. Len(list) : list[n].run \in runs}

\* A history's entries that belong to these runs are these, one after the other.
Tells(list, runs, entries) == \E at \in [1 .. Len(entries) -> Places(list, runs)] :
  /\ \A i, j \in 1 .. Len(entries) : i < j => at[i] < at[j]
  /\ \A n \in Places(list, runs) : \E i \in 1 .. Len(entries) : at[i] = n
  /\ \A i \in 1 .. Len(entries) : list[at[i]] = entries[i]

\* What the history says of what is kept.
KeepsTold == [n \in 1 .. Len(added) |-> Entry(added[n], "success")]

AgentsOf(t) == {r \in Runs : run[r].job = "agent" /\ run[r].task = t}

\* The part of the property below that is about one task.
TaskFollowsHistory(t) ==
  /\ result[t] \in {"completed", "failed"} =>
       \E n \in Places(history, AgentsOf(t)) :
         /\ run[history[n].run].outcome = result[t]
         /\ \A m \in Places(history, AgentsOf(t)) : m <= n
  /\ result[t] = "running" =>
       \E r \in AgentsOf(t) : run[r].awaits \/ run[r].outcome \in {"raised", "cancelled"}

\* And the part about one run.
RunIsTold(r) ==
  \/ /\ Tells(history, {r}, Opening(run[r].job, r))
     /\ run[r].outcome \in {"none", "raised", "cancelled"}
  \/ /\ Tells(history, {r}, Opening(run[r].job, r) \o Closing(r, run[r].outcome))
     /\ run[r].outcome \in {"completed", "failed"} /\ run[r].job # "agent"
  \/ /\ Tells(history, {r}, <<Entry(r, "success")>>)
     /\ run[r].outcome \in {"completed", "failed"} /\ run[r].job = "agent"

\* The results and the audit history tell the same story of a task's agents, which
\* may run at the same time: a finished task has the outcome of the agent that the
\* history names last for it, and one that is RUNNING although no agent awaits any
\* longer had an agent that raised or was cancelled.  The entries of each run tell how
\* it ended: an engineer's start with "started", "failed" is told of engineers and
\* workflows alone, and nothing is told of a run that raised or was cancelled.  What
\* is kept is what the history says was, in its order.
ResultsFollowHistory ==
  /\ \A t \in Tasks : TaskFollowsHistory(t)
  /\ \A r \in Runs : RunIsTold(r)
  /\ Tells(history, {r \in Runs : run[r].job = "keep"}, KeepsTold)
=============================================================================
