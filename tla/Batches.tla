------------------------------- MODULE Batches -------------------------------
(***************************************************************************)
(* performance/execution.py: a call of retry_optimized whose operation is  *)
(* batch_gather over a list of operations.  asyncio.gather (external)      *)
(* raises the first exception of a batch and leaves its other operations   *)
(* running; when the call is cancelled it cancels the operations of the    *)
(* batch it awaits, and not those an earlier attempt left behind.          *)
(***************************************************************************)
EXTENDS Naturals, Sequences, FiniteSets

CONSTANTS
  NumOperations,   \* len(operations)
  BatchSize,       \* batch_size
  BatchAttempts    \* config.max_attempts

ASSUME BatchAssumption ==
  /\ NumOperations \in Nat
  /\ BatchSize \in Nat \ {0}
  /\ BatchAttempts \in Nat \ {0}

Operation == 1 .. NumOperations

Attempt == 1 .. BatchAttempts

\* transient: an exception for which retryable() is true; fatal: any other.
Outcome == {"value", "transient", "fatal"}

Execution == {"unstarted", "running", "cancelled"} \cup Outcome

Place == {"called", "gathering", "sleeping", "returned", "raised", "cancelled"}

VARIABLES
  place,     \* where the call is
  attempt,   \* the attempt it is in
  batch,     \* start: the operations before the awaited batch
  results,   \* the list of results, each as the attempt and operation it is from
  executed   \* each operation in each attempt

batchVars == <<place, attempt, batch, results, executed>>

BatchTypeOK ==
  /\ place \in Place
  /\ attempt \in Attempt
  /\ batch \in Nat
  /\ results \in Seq(Attempt \X Operation)
  /\ executed \in [Attempt -> [Operation -> Execution]]

BatchInit ==
  /\ place = "called"
  /\ attempt = 1
  /\ batch = 0
  /\ results = <<>>
  /\ executed = [a \in Attempt |-> [o \in Operation |-> "unstarted"]]

-----------------------------------------------------------------------------
\* Helpers

\* operations[start : start + batch_size]
Slice(start) == {o \in Operation : start < o /\ o <= start + BatchSize}

\* The executions of attempt a, with the operations of its batch from start on running.
Launched(executions, a, start) ==
  [executions EXCEPT ![a] =
     [o \in Operation |-> IF o \in Slice(start) THEN "running" ELSE executions[a][o]]]

\* gather's results, in the order of the batch.
Gathered(start) ==
  [n \in 1 .. Cardinality(Slice(start)) |-> <<attempt, start + n>>]

\* The next batch starts, or the call returns.
AfterBatch(executions) ==
  LET next == batch + BatchSize
  IN IF next >= NumOperations
     THEN /\ place' = "returned"
          /\ executed' = executions
          /\ UNCHANGED batch
     ELSE /\ batch' = next
          /\ executed' = Launched(executions, attempt, next)
          /\ UNCHANGED place

-----------------------------------------------------------------------------
\* The call

BeginBatches ==
  /\ place = "called"
  /\ IF NumOperations = 0 THEN place' = "returned" /\ UNCHANGED executed
     ELSE place' = "gathering" /\ executed' = Launched(executed, 1, 0)
  /\ UNCHANGED <<attempt, batch, results>>

\* An operation of the awaited batch returns.
OperationReturns(o) ==
  /\ place = "gathering" /\ executed[attempt][o] = "running"
  /\ LET executions == [executed EXCEPT ![attempt][o] = "value"] IN
       IF \A other \in Slice(batch) : executions[attempt][other] = "value"
       THEN /\ results' = results \o Gathered(batch)
            /\ AfterBatch(executions)
       ELSE /\ executed' = executions
            /\ UNCHANGED <<place, batch, results>>
  /\ UNCHANGED attempt

GivesUp(outcome) == attempt >= BatchAttempts \/ outcome = "fatal"

\* The first exception of the batch ends the attempt.
OperationRaises(o) == \E outcome \in {"transient", "fatal"} :
  /\ place = "gathering" /\ executed[attempt][o] = "running"
  /\ executed' = [executed EXCEPT ![attempt][o] = outcome]
  /\ place' = IF GivesUp(outcome) THEN "raised" ELSE "sleeping"
  /\ UNCHANGED <<attempt, batch, results>>

\* An operation that nobody awaits any more ends: its outcome is not seen.
LeftoverEnds(a, o) == \E outcome \in Outcome :
  /\ executed[a][o] = "running"
  /\ place # "gathering" \/ a < attempt
  /\ executed' = [executed EXCEPT ![a][o] = outcome]
  /\ UNCHANGED <<place, attempt, batch, results>>

\* Variant: the results of the failed attempt are kept.
FreshResultsKept == results

\* batch_gather starts with an empty list.
FreshResults == <<>>

\* The backoff is over: every operation is executed again.
NextAttempt ==
  /\ place = "sleeping"
  /\ place' = "gathering"
  /\ attempt' = attempt + 1
  /\ batch' = 0
  /\ results' = FreshResults
  /\ executed' = Launched(executed, attempt + 1, 0)

CallCancelledInBatch ==
  /\ place \in {"gathering", "sleeping"}
  /\ place' = "cancelled"
  /\ executed' = IF place = "sleeping" THEN executed
                 ELSE [executed EXCEPT ![attempt] =
                         [o \in Operation |-> IF executed[attempt][o] = "running" THEN "cancelled"
                                              ELSE executed[attempt][o]]]
  /\ UNCHANGED <<attempt, batch, results>>

BatchNext ==
  \/ BeginBatches \/ NextAttempt \/ CallCancelledInBatch
  \/ \E o \in Operation : OperationReturns(o) \/ OperationRaises(o)
  \/ \E a \in Attempt, o \in Operation : LeftoverEnds(a, o)

BatchSpec == BatchInit /\ [][BatchNext]_batchVars

-----------------------------------------------------------------------------
\* Properties

\* The attempt that the call is in decides how it ends.  A call that returns has the
\* value of every operation, once, in order, and all of that attempt: neither a value
\* of an attempt that failed nor an operation that such an attempt left running gets
\* among them.  Whatever those raise, and whenever, a call raises for an operation of
\* that attempt: a fatal exception at once, a transient one only when the attempts
\* are used up.
OneAttemptDecides ==
  /\ place = "returned" =>
       /\ results = [n \in Operation |-> <<attempt, n>>]
       /\ \A o \in Operation : executed[attempt][o] = "value"
  /\ place = "raised" =>
       \E o \in Operation : \/ executed[attempt][o] = "fatal"
                            \/ attempt = BatchAttempts /\ executed[attempt][o] = "transient"

\* A call ends, through its batches, its attempts and the sleeps between them.
EveryBatchCallEnds == place = "gathering" ~> place \in {"returned", "raised", "cancelled"}
=============================================================================
