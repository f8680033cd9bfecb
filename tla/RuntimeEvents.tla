---------------------------- MODULE RuntimeEvents ----------------------------
(***************************************************************************)
(* core/runtime.py: EISRuntime, its lifecycle and its local events.  emit  *)
(* calls the handlers one after the other, in the caller's own thread; a   *)
(* handler may itself subscribe, emit, stop the runtime or raise.          *)
(***************************************************************************)
EXTENDS Naturals, Sequences

CONSTANTS
  Handlers,       \* event handlers; one may be subscribed several times
  MaxEvents,      \* bound: events emitted
  MaxSubscribed   \* bound: subscriptions

ASSUME RuntimeAssumption == MaxEvents \in Nat /\ MaxSubscribed \in Nat

VARIABLES
  state,     \* RuntimeState
  handlers,  \* _handlers
  emitting,  \* the calls of emit under way, the innermost last: event, handlers returned
             \* and whether the next one runs
  emitted    \* each event: the handlers registered when it was emitted, those called
             \* so far and the outcome of emit

runtimeVars == <<state, handlers, emitting, emitted>>

RuntimeInit ==
  /\ state = "created"
  /\ handlers = <<>>
  /\ emitting = <<>>
  /\ emitted = <<>>

-----------------------------------------------------------------------------
\* Helpers

Depth == Len(emitting)

Inner == emitting[Depth]

\* The runtime's methods are called from outside, or by the handler that runs.
Calling == Depth > 0 => Inner.running

Outer == SubSeq(emitting, 1, Depth - 1)

-----------------------------------------------------------------------------
\* Actions

\* LifecycleError once stopped.
StartRuntime == Calling /\ state # "stopped" /\ state' = "started"
                  /\ UNCHANGED <<handlers, emitting, emitted>>

\* Before the start it does nothing.
StopRuntime == Calling /\ state = "started" /\ state' = "stopped"
                 /\ UNCHANGED <<handlers, emitting, emitted>>

Subscribe(h) ==
  /\ Calling /\ Len(handlers) < MaxSubscribed
  /\ handlers' = Append(handlers, h)
  /\ UNCHANGED <<state, emitting, emitted>>

\* In any state of the runtime.
EmitEvent ==
  /\ Calling /\ Len(emitted) < MaxEvents
  /\ emitted' = Append(emitted, [copy |-> handlers, called |-> <<>>, outcome |-> "open"])
  /\ emitting' = Append(emitting, [event |-> Len(emitted) + 1, returned |-> 0, running |-> FALSE])
  /\ UNCHANGED <<state, handlers>>

\* Variant: the list itself is iterated.
ReceiversLive(event) == handlers

\* tuple(self._handlers)
Receivers(event) == emitted[event].copy

CallHandler ==
  /\ Depth > 0 /\ ~Inner.running
  /\ LET next == Inner.returned + 1  event == Inner.event IN
       /\ next <= Len(Receivers(event))
       /\ emitting' = [emitting EXCEPT ![Depth].running = TRUE]
       /\ emitted' = [emitted EXCEPT ![event].called = Append(@, Receivers(event)[next])]
  /\ UNCHANGED <<state, handlers>>

HandlerDone ==
  /\ Depth > 0 /\ Inner.running
  /\ emitting' = [emitting EXCEPT ![Depth] = [event |-> @.event, returned |-> @.returned + 1,
                                                running |-> FALSE]]
  /\ UNCHANGED <<state, handlers, emitted>>

\* The exception leaves emit; an emitting handler around it may catch it or raise too.
HandlerRaisesOut ==
  /\ Depth > 0 /\ Inner.running
  /\ emitting' = Outer
  /\ emitted' = [emitted EXCEPT ![Inner.event].outcome = "raised"]
  /\ UNCHANGED <<state, handlers>>

EmitReturns ==
  /\ Depth > 0 /\ ~Inner.running
  /\ Inner.returned = Len(Receivers(Inner.event))
  /\ emitting' = Outer
  /\ emitted' = [emitted EXCEPT ![Inner.event].outcome = "returned"]
  /\ UNCHANGED <<state, handlers>>

RuntimeNext ==
  \/ StartRuntime \/ StopRuntime \/ EmitEvent \/ CallHandler \/ HandlerDone \/ HandlerRaisesOut
  \/ EmitReturns \/ \E h \in Handlers : Subscribe(h)

RuntimeSpec == RuntimeInit /\ [][RuntimeNext]_runtimeVars

-----------------------------------------------------------------------------
\* Properties

\* However handlers emit and subscribe while they run, an event whose emit returned
\* was given to the handlers that were registered when it was emitted, each once per
\* registration and in order, and to no later one; one whose emit raised reached the
\* handlers up to the one that raised, unless none was there.
DeliveredToSubscribers ==
  \A e \in DOMAIN emitted :
    LET event == emitted[e]  calls == Len(event.called) IN
    /\ calls <= Len(event.copy) /\ event.called = SubSeq(event.copy, 1, calls)
    /\ event.outcome = "returned" => calls = Len(event.copy)
    /\ event.outcome = "raised" => calls > 0
=============================================================================
