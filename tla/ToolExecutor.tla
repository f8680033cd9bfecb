---------------------------- MODULE ToolExecutor ----------------------------
(***************************************************************************)
(* SecureExecutor and the subprocess backend of tools/execution.py with    *)
(* the checks of tools/policies.py and the tools of tools/builtin.py.  A   *)
(* call goes through the executor or, as the tests do, straight to a tool. *)
(* The executor's timer and the backend's timer have the same length: a    *)
(* tool passes the timeout of its own definition to the backend.  Both are *)
(* counters that time, ToolTick, takes down to 0.                         *)
(***************************************************************************)
EXTENDS Naturals, Sequences

CONSTANTS
  Calls,    \* calls of a tool
  Timeout   \* definition.timeout_seconds, in ticks

ASSUME ToolAssumption == Timeout \in Nat \ {0}

\* What the checks find: a registered tool, arguments and timeout within the
\* limits, every declared permission granted, a policy that allows the tool.
Request == [registered : BOOLEAN, within : BOOLEAN, granted : BOOLEAN, allowed : BOOLEAN]

\* tool: in the tool's own code; spawning, waiting: creating the process and in
\* communicate(); reaping: in process.wait() after kill().
CallPlace == {"idle", "tool", "spawning", "waiting", "reaping", "done"}

ToolStatus == {"success", "failed", "denied", "timeout"}

\* How a call ended: with a ToolResult, or by an exception of the tool when no
\* executor turns it into one, or by its caller's cancellation.
ToolOutcome == ToolStatus \cup {"none", "raised", "cancelled"}

Authorization == {"unknown", "allowed", "denied"}

Process == {"none", "running", "exited", "killed"}

VARIABLES
  call,     \* where each call is, how it ended, what authorization holds
  direct,   \* calls made without the executor
  outer,    \* ticks left on the executor's timer
  inner,    \* ticks left on the backend's timer
  process,  \* the subprocess of each call
  audit     \* the audit events of each call, oldest first

toolVars == <<call, direct, outer, inner, process, audit>>

ToolTypeOK ==
  /\ call \in [Calls -> [pc : CallPlace, outcome : ToolOutcome, authorization : Authorization]]
  /\ direct \in SUBSET Calls
  /\ outer \in [Calls -> 0 .. Timeout]
  /\ inner \in [Calls -> 0 .. Timeout]
  /\ process \in [Calls -> Process]
  /\ audit \in [Calls -> Seq([status : ToolStatus, authorization : Authorization])]

ToolInit ==
  /\ call = [c \in Calls |-> [pc |-> "idle", outcome |-> "none", authorization |-> "unknown"]]
  /\ direct = {}
  /\ outer = [c \in Calls |-> Timeout]
  /\ inner = [c \in Calls |-> Timeout]
  /\ process = [c \in Calls |-> "none"]
  /\ audit = [c \in Calls |-> <<>>]

-----------------------------------------------------------------------------
\* Helpers

CallAt(c, place) == call[c].pc = place

Active(c) == call[c].pc \notin {"idle", "done"}

Move(c, place) == call' = [call EXCEPT ![c].pc = place]

\* Variant: the event is recorded after the call, not in a finally clause.
EndUnlessCancelled(c, outcome, status, authorization) ==
  /\ call' = [call EXCEPT ![c] = [pc |-> "done", outcome |-> outcome,
                                  authorization |-> authorization]]
  /\ audit' = IF c \in direct \/ outcome = "cancelled" THEN audit
              ELSE [audit EXCEPT ![c] = Append(@, [status |-> status,
                                                   authorization |-> authorization])]

\* The call ends; the finally clause of the executor records its status.
EndCall(c, outcome, status, authorization) ==
  /\ call' = [call EXCEPT ![c] = [pc |-> "done", outcome |-> outcome,
                                  authorization |-> authorization]]
  /\ audit' = IF c \in direct THEN audit
              ELSE [audit EXCEPT ![c] = Append(@, [status |-> status,
                                                   authorization |-> authorization])]

\* The tool returns a ToolResult with this status.
Return(c, status) == EndCall(c, status, status, call[c].authorization)

\* The tool raises: the executor answers with this status, a direct caller gets
\* the exception.
Raise(c, status, authorization) ==
  EndCall(c, IF c \in direct THEN "raised" ELSE status, status, authorization)

-----------------------------------------------------------------------------
\* SecureExecutor.execute

\* An unregistered tool fails; the limits, the permissions and the policy deny.
Refusal(q) == IF ~q.registered THEN "failed" ELSE "denied"

Admitted(q) == q.registered /\ q.within /\ q.granted /\ q.allowed

Refuse(c) == \E q \in Request :
  /\ CallAt(c, "idle") /\ ~Admitted(q)
  /\ EndCall(c, Refusal(q), Refusal(q), IF Refusal(q) = "denied" THEN "denied" ELSE "unknown")
  /\ UNCHANGED <<direct, outer, inner, process>>

Admit(c) == \E q \in Request :
  /\ CallAt(c, "idle") /\ Admitted(q)
  /\ call' = [call EXCEPT ![c].pc = "tool", ![c].authorization = "allowed"]
  /\ UNCHANGED <<direct, outer, inner, process, audit>>

\* wait_for cancels the tool where it waits.  Nothing in the backend handles the
\* cancellation, so a process that was created stays as it is.
OuterTimeout(c) ==
  /\ Active(c) /\ c \notin direct /\ outer[c] = 0
  /\ EndCall(c, "timeout", "timeout", call[c].authorization)
  /\ UNCHANGED <<direct, outer, inner, process>>

\* The caller is cancelled; the event keeps the status a call starts with.
Cancel(c) ==
  /\ Active(c)
  /\ EndCall(c, "cancelled", "failed", call[c].authorization)
  /\ UNCHANGED <<direct, outer, inner, process>>

-----------------------------------------------------------------------------
\* A tool, and LocalSubprocessBackend.run

CallDirectly(c) ==
  /\ CallAt(c, "idle")
  /\ Move(c, "tool")
  /\ direct' = direct \cup {c}
  /\ UNCHANGED <<outer, inner, process, audit>>

\* The tool's own checks, or the operating system, refuse.
ToolDenies(c) ==
  /\ CallAt(c, "tool")
  /\ Raise(c, "denied", "denied")
  /\ UNCHANGED <<direct, outer, inner, process>>

\* Any other exception, a command that does not exist among them.
ToolRaises(c) ==
  /\ call[c].pc \in {"tool", "spawning"}
  /\ Raise(c, "failed", call[c].authorization)
  /\ UNCHANGED <<direct, outer, inner, process>>

\* A tool that needs no process, or that rejects its arguments.
ToolAnswers(c) == \E status \in {"success", "failed"} :
  /\ CallAt(c, "tool")
  /\ Return(c, status)
  /\ UNCHANGED <<direct, outer, inner, process>>

Spawn(c) ==
  /\ CallAt(c, "tool")
  /\ Move(c, "spawning")
  /\ UNCHANGED <<direct, outer, inner, process, audit>>

\* The backend's timer starts now, later than the executor's.
Spawned(c) ==
  /\ CallAt(c, "spawning")
  /\ Move(c, "waiting")
  /\ process' = [process EXCEPT ![c] = "running"]
  /\ UNCHANGED <<direct, outer, inner, audit>>

\* communicate() returns; the return code decides.
Collect(c) == \E status \in {"success", "failed"} :
  /\ CallAt(c, "waiting") /\ process[c] = "exited"
  /\ Return(c, status)
  /\ UNCHANGED <<direct, outer, inner, process>>

\* The backend's timer fires, unless the executor's, which started earlier, is
\* due as well: that one cancels the backend first.
InnerTimeout(c) ==
  /\ CallAt(c, "waiting") /\ inner[c] = 0
  /\ ~(c \notin direct /\ outer[c] = 0)
  /\ Move(c, "reaping")
  /\ process' = [process EXCEPT ![c] = IF @ = "running" THEN "killed" ELSE @]
  /\ UNCHANGED <<direct, outer, inner, audit>>

Reap(c) ==
  /\ CallAt(c, "reaping")
  /\ Return(c, "timeout")
  /\ UNCHANGED <<direct, outer, inner, process>>

-----------------------------------------------------------------------------
\* Time and processes

Exit(c) ==
  /\ process[c] = "running"
  /\ process' = [process EXCEPT ![c] = "exited"]
  /\ UNCHANGED <<call, direct, outer, inner, audit>>

Down(n) == IF n = 0 THEN 0 ELSE n - 1

\* A tick takes every running timer down.
ToolTick ==
  /\ outer' = [c \in Calls |-> IF Active(c) /\ c \notin direct THEN Down(outer[c]) ELSE outer[c]]
  /\ inner' = [c \in Calls |-> IF CallAt(c, "waiting") THEN Down(inner[c]) ELSE inner[c]]
  /\ outer' # outer \/ inner' # inner
  /\ UNCHANGED <<call, direct, process, audit>>

Progress(c) ==
  \/ OuterTimeout(c) \/ InnerTimeout(c) \/ Reap(c) \/ Collect(c)

ToolStep(c) ==
  \/ Refuse(c) \/ Admit(c) \/ CallDirectly(c)
  \/ ToolDenies(c) \/ ToolRaises(c) \/ ToolAnswers(c)
  \/ Spawn(c) \/ Spawned(c)
  \/ Progress(c)
  \/ Cancel(c) \/ Exit(c)

ToolNext == ToolTick \/ \E c \in Calls : ToolStep(c)

ToolSpec == ToolInit /\ [][ToolNext]_toolVars

-----------------------------------------------------------------------------
\* Properties

\* Every call through the executor leaves exactly one audit event, when it ends
\* and not before, whichever way it ends, and the event tells the status the
\* caller got; a call whose caller was cancelled is recorded as failed.  "Allowed"
\* is recorded only for a call that passed every check and that its tool did not
\* refuse.  A tool that is called without the executor answers "timeout" only when
\* its process is over: the backend kills it and waits for it.
OutcomesAreTrue ==
  /\ \A c \in Calls \ direct :
       IF CallAt(c, "done")
       THEN /\ Len(audit[c]) = 1
            /\ audit[c][1].status = (IF call[c].outcome = "cancelled" THEN "failed"
                                     ELSE call[c].outcome)
            /\ (audit[c][1].authorization = "denied") <=> (call[c].outcome = "denied")
       ELSE audit[c] = <<>>
  /\ \A c \in direct : call[c].outcome = "timeout" => process[c] \in {"exited", "killed"}

\* Every call through the executor ends, although neither the tool nor its process
\* has to: execution is bounded by the timeout.
EveryCallReturns == \A c \in Calls : (Active(c) /\ c \notin direct) ~> CallAt(c, "done")

\* What the documentation promises and the code does not keep: when a call has
\* been answered with "timeout", its process no longer runs.
TimedOutIsOver == \A c \in Calls :
  call[c].outcome = "timeout" => process[c] # "running"
=============================================================================
