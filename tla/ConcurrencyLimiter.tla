-------------------------- MODULE ConcurrencyLimiter --------------------------
(***************************************************************************)
(* observability/resilience.py: operations that run under a                *)
(* ConcurrencyLimiter (async with) and are retried by retry_async, whose   *)
(* operation is that block.  asyncio.Semaphore is external: release hands  *)
(* the permit to the first waiter, which may be cancelled before it runs   *)
(* again and then passes the permit on.                                    *)
(***************************************************************************)
EXTENDS Naturals, Sequences, FiniteSets

CONSTANTS
  Works,      \* calls of retry_async
  Permits,    \* limit
  MaxRetries  \* policy.max_retries

ASSUME LimiterAssumption ==
  Permits \in Nat \ {0} /\ MaxRetries \in Nat /\ IsFiniteSet(Works)

\* handed: the semaphore gave a waiter its permit and it has not run since.
WorkStage == {"new", "waiting", "handed", "running", "backing_off", "done", "raised", "cancelled"}

VARIABLES
  work,      \* the stage of each call
  attempts,  \* attempts each call has begun
  semaphore  \* free: _value; waiters: the waiting calls in order

limiterVars == <<work, attempts, semaphore>>

LimiterInit ==
  /\ work = [w \in Works |-> "new"]
  /\ attempts = [w \in Works |-> 0]
  /\ semaphore = [free |-> Permits, waiters |-> <<>>]

-----------------------------------------------------------------------------
\* The semaphore

\* A call gives its permit back and goes to its next stage: the first waiter gets it.
Release(w, stage) ==
  LET next == Head(semaphore.waiters)
  IN IF semaphore.waiters = <<>>
     THEN /\ semaphore' = [semaphore EXCEPT !.free = @ + 1]
          /\ work' = [work EXCEPT ![w] = stage]
     ELSE /\ semaphore' = [semaphore EXCEPT !.waiters = Tail(@)]
          /\ work' = [work EXCEPT ![w] = stage, ![next] = "handed"]

\* A waiter leaves acquire() for its next stage and wakes as many others as there are
\* permits.
Leave(w, stage, free, waiters) ==
  LET woken == IF free < Len(waiters) THEN free ELSE Len(waiters)
  IN /\ semaphore' = [free |-> free - woken,
                      waiters |-> SubSeq(waiters, woken + 1, Len(waiters))]
     /\ work' = [x \in Works |-> IF x = w THEN stage
                                 ELSE IF \E n \in 1 .. woken : waiters[n] = x THEN "handed"
                                 ELSE work[x]]

\* The line when w has left it: deque.remove().
Without(line, w) ==
  IF \E n \in 1 .. Len(line) : line[n] = w
  THEN LET n == CHOOSE m \in 1 .. Len(line) : line[m] = w
       IN SubSeq(line, 1, n - 1) \o SubSeq(line, n + 1, Len(line))
  ELSE line

\* acquire(): a newcomer takes a free permit unless somebody is in line, with or
\* without a permit in hand.
Acquire(w) ==
  IF semaphore.free > 0 /\ \A x \in Works : work[x] \notin {"waiting", "handed"}
  THEN /\ semaphore' = [semaphore EXCEPT !.free = @ - 1]
       /\ work' = [work EXCEPT ![w] = "running"]
  ELSE /\ semaphore' = [semaphore EXCEPT !.waiters = Append(@, w)]
       /\ work' = [work EXCEPT ![w] = "waiting"]

-----------------------------------------------------------------------------
\* retry_async

\* The first attempt, or the next one when its backoff is over.
Attempting(w) ==
  /\ work[w] \in {"new", "backing_off"}
  /\ attempts' = [attempts EXCEPT ![w] = @ + 1]
  /\ Acquire(w)

\* A waiter resumes with its permit.
RunsOn(w) ==
  /\ work[w] = "handed"
  /\ Leave(w, "running", semaphore.free, semaphore.waiters)
  /\ UNCHANGED attempts

Returns(w) ==
  /\ work[w] = "running"
  /\ Release(w, "done")
  /\ UNCHANGED attempts

\* attempt >= selected.max_retries
Exhausted(w) == attempts[w] > MaxRetries

\* __aexit__ gives the permit back before the exception reaches the retry.
Raises(w) == \E retryable \in BOOLEAN :
  /\ work[w] = "running"
  /\ Release(w, IF Exhausted(w) \/ ~retryable THEN "raised" ELSE "backing_off")
  /\ UNCHANGED attempts

\* Variant: a waiter that is cancelled with a permit in its hand drops it.
InHandDropped(w) == 0

\* The permit that a waiter was given before it was cancelled.
InHand(w) == IF work[w] = "handed" THEN 1 ELSE 0

\* The caller is cancelled, wherever it is.
WorkCancelled(w) ==
  /\ \/ /\ work[w] \in {"waiting", "handed"}
        /\ Leave(w, "cancelled", semaphore.free + InHand(w), Without(semaphore.waiters, w))
     \/ work[w] = "backing_off" /\ work' = [work EXCEPT ![w] = "cancelled"]
                                /\ UNCHANGED semaphore
     \/ work[w] = "running" /\ Release(w, "cancelled")
  /\ UNCHANGED attempts

LimiterNext == \E w \in Works :
  Attempting(w) \/ RunsOn(w) \/ Returns(w) \/ Raises(w) \/ WorkCancelled(w)

LimiterSpec == LimiterInit /\ [][LimiterNext]_limiterVars

-----------------------------------------------------------------------------
\* Properties

Holding == {w \in Works : work[w] \in {"handed", "running"}}

\* However operations fail, are retried and are cancelled while they wait, while a
\* permit is on its way to them or while they run, every permit is free or held by
\* one operation, and none stays free while somebody waits, unless a waiter is about
\* to resume and hand it on: no operation is over the limit and no permit leaks.
PermitsConserved ==
  /\ Cardinality(Holding) + semaphore.free = Permits
  /\ semaphore.free > 0 /\ semaphore.waiters # <<>> => \E w \in Works : work[w] = "handed"

\* Whoever waits gets its turn, and every call ends.
EveryWorkEnds == \A w \in Works : work[w] = "waiting" ~> work[w] \in {"done", "raised", "cancelled"}
=============================================================================
