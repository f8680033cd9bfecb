---------------------------- MODULE ExecutionProofs ----------------------------
(***************************************************************************)
(* Proofs about batches, the tool executor, the task scheduler and the     *)
(* concurrency limiter, for every number of operations, attempts, calls,   *)
(* tasks, workers and permits.                                             *)
(***************************************************************************)
EXTENDS Batches, ToolExecutor, TaskScheduler, ConcurrencyLimiter, FiniteSetTheorems,
        FunctionTheorems, SequenceTheorems, TLAPS

-----------------------------------------------------------------------------
\* Batches

\* The last operation of the batch that starts after the first start operations.
LastOf(start) ==
  IF start + BatchSize <= NumOperations THEN start + BatchSize ELSE NumOperations

\* A batch is an interval of operations, and gather's results follow its order.
LEMMA SliceIsInterval ==
  ASSUME BatchAssumption, NEW start \in Nat, start <= NumOperations
  PROVE  /\ Slice(start) = start + 1 .. LastOf(start)
         /\ Cardinality(Slice(start)) = LastOf(start) - start
         /\ LastOf(start) \in Nat /\ start <= LastOf(start) /\ LastOf(start) <= NumOperations
  <1> DEFINE first == start + 1
             last == LastOf(start)
  <1>1. /\ last \in Nat /\ start <= last /\ last <= NumOperations
        /\ last <= start + BatchSize
    BY DEF LastOf, BatchAssumption
  <1>2. Slice(start) = first .. last
    BY <1>1 DEF Slice, Operation, LastOf, BatchAssumption
  <1>3. first \in Int /\ last \in Int /\ first = start + 1
    BY <1>1
  <1>4. Cardinality(first .. last) = last - start
    <2> HIDE DEF first, last
    <2>1. Cardinality(first .. last) = IF first > last THEN 0 ELSE last - first + 1
      BY <1>3, FS_Interval
    <2> QED
      BY <2>1, <1>1, <1>3
  <1> QED
    BY <1>1, <1>2, <1>4

\* The values of attempt a for the first n operations, in order.
ValuesOf(a, n) == [o \in 1 .. n |-> <<a, o>>]

LEMMA ValuesOfIsSeq ==
  ASSUME NEW a, NEW n \in Nat
  PROVE  /\ ValuesOf(a, n) \in Seq({a} \X Nat) /\ Len(ValuesOf(a, n)) = n
         /\ \A i \in 1 .. n : ValuesOf(a, n)[i] = <<a, i>>
  <1>1. ValuesOf(a, n) \in [1 .. n -> {a} \X Nat]
    BY DEF ValuesOf
  <1>2. ValuesOf(a, n) \in Seq({a} \X Nat)
    BY <1>1, SeqDef
  <1>3. Len(ValuesOf(a, n)) = n /\ \A i \in 1 .. n : ValuesOf(a, n)[i] = <<a, i>>
    BY DEF ValuesOf
  <1> QED
    BY <1>2, <1>3

LEMMA GatheredExtends ==
  ASSUME BatchAssumption, NEW start \in Nat, start <= NumOperations,
         results = ValuesOf(attempt, start)
  PROVE  results \o Gathered(start) = ValuesOf(attempt, LastOf(start))
  <1> DEFINE size == LastOf(start) - start
             V == {attempt} \X Nat
             whole == Gathered(start)
  <1>1. LastOf(start) \in Nat /\ start <= LastOf(start) /\ size \in Nat
        /\ start + size = LastOf(start) /\ Cardinality(Slice(start)) = size
    <2>1. /\ LastOf(start) \in Nat /\ start <= LastOf(start)
          /\ Cardinality(Slice(start)) = LastOf(start) - start
      BY SliceIsInterval
    <2> QED
      BY <2>1
  <1>2. whole = [n \in 1 .. size |-> <<attempt, start + n>>]
    BY <1>1 DEF Gathered
  <1> HIDE DEF size, whole
  <1>3. whole \in Seq(V) /\ Len(whole) = size
    <2>1. whole \in [1 .. size -> V]
      BY <1>1, <1>2
    <2>2. Len(whole) = size
      BY <1>1, <1>2
    <2> HIDE DEF V
    <2>3. whole \in Seq(V)
      BY <1>1, <2>1, SeqDef
    <2> QED
      BY <2>2, <2>3
  <1>4. results \in Seq(V) /\ Len(results) = start
    BY ValuesOfIsSeq
  <1>5. /\ results \o whole \in Seq(V)
        /\ Len(results \o whole) = LastOf(start)
        /\ \A i \in 1 .. start + size :
             (results \o whole)[i] = IF i <= start THEN results[i] ELSE whole[i - start]
    <2> HIDE DEF V
    <2> QED
      BY <1>1, <1>3, <1>4, ConcatProperties
  <1>6. ASSUME NEW i \in 1 .. LastOf(start)
        PROVE  (results \o whole)[i] = <<attempt, i>>
    <2>1. CASE i <= start
      <3>1. i \in 1 .. start /\ i \in 1 .. start + size
        BY <2>1, <1>1
      <3> QED
        BY <2>1, <3>1, <1>5, ValuesOfIsSeq
    <2>2. CASE ~(i <= start)
      <3>1. i - start \in 1 .. size /\ start + (i - start) = i
        BY <2>2, <1>1
      <3> QED
        BY <2>2, <3>1, <1>1, <1>2, <1>5
    <2> QED
      BY <2>1, <2>2
  <1>7. ValuesOf(attempt, LastOf(start)) \in Seq(V)
    BY <1>1, ValuesOfIsSeq
  <1> QED
    <2> HIDE DEF V
    <2>1. /\ \A i \in 1 .. LastOf(start) : ValuesOf(attempt, LastOf(start))[i] = <<attempt, i>>
          /\ Len(ValuesOf(attempt, LastOf(start))) = LastOf(start)
      BY <1>1, ValuesOfIsSeq
    <2> DEFINE values == ValuesOf(attempt, LastOf(start))
               extended == results \o whole
    <2>2. /\ values \in Seq(V) /\ extended \in Seq(V) /\ Len(extended) = Len(values)
          /\ \A i \in 1 .. Len(extended) : extended[i] = values[i]
      <3>1. Len(extended) = Len(values) /\ Len(extended) = LastOf(start)
        BY <1>5, <2>1
      <3>2. \A i \in 1 .. LastOf(start) : extended[i] = values[i]
        BY <1>6, <2>1
      <3> HIDE DEF values, extended
      <3> QED
        BY <1>5, <1>7, <3>1, <3>2 DEF values, extended
    <2>3. extended = values
      <3> HIDE DEF values, extended
      <3> QED
        BY <2>2, SeqEqual
    <2> QED
      BY <2>3, Zenon DEF whole

\* Where the call is, and what has happened to the attempt it is in: the batches before
\* the awaited one have their values, in order; a call that ended has its reason.
BatchInv ==
  /\ attempt \in Attempt /\ batch \in Nat
  /\ executed \in [Attempt -> [Operation -> Execution]]
  /\ place = "called" => results = <<>> /\ attempt = 1 /\ batch = 0
  /\ place = "gathering" =>
       /\ batch < NumOperations
       /\ results = ValuesOf(attempt, batch)
       /\ \A o \in Operation : o <= batch => executed[attempt][o] = "value"
  /\ place = "sleeping" => attempt < BatchAttempts /\ NumOperations > 0
  /\ OneAttemptDecides

LEMMA LaunchedKeeps ==
  ASSUME NEW executions \in [Attempt -> [Operation -> Execution]],
         NEW a \in Attempt, NEW start \in Nat
  PROVE  /\ Launched(executions, a, start) \in [Attempt -> [Operation -> Execution]]
         /\ \A o \in Operation :
              o <= start => Launched(executions, a, start)[a][o] = executions[a][o]
  <1>1. "running" \in Execution
    BY DEF Execution
  <1>2. Launched(executions, a, start) \in [Attempt -> [Operation -> Execution]]
    BY <1>1 DEF Launched
  <1>3. ASSUME NEW o \in Operation, o <= start
        PROVE  Launched(executions, a, start)[a][o] = executions[a][o]
    BY <1>3 DEF Launched, Slice, Operation
  <1> QED
    BY <1>2, <1>3

LEMMA EmptyValues == \A a : ValuesOf(a, 0) = <<>>
  BY DEF ValuesOf

LEMMA BatchInductive == BatchSpec => []BatchInv
  <1> USE BatchAssumption
  <1>0. 1 \in Attempt /\ "running" \in Execution /\ "unstarted" \in Execution
        /\ Outcome \subseteq Execution /\ "cancelled" \in Execution
    BY DEF Attempt, Execution, Outcome, BatchAssumption
  <1>1. BatchInit => BatchInv
    BY <1>0 DEF BatchInit, BatchInv, OneAttemptDecides
  <1>2. BatchInv /\ [BatchNext]_batchVars => BatchInv'
    <2> SUFFICES ASSUME BatchInv, [BatchNext]_batchVars PROVE BatchInv'
      OBVIOUS
    <2>0. /\ attempt \in Attempt /\ batch \in Nat
          /\ executed \in [Attempt -> [Operation -> Execution]]
          /\ Operation \subseteq Nat
      BY DEF BatchInv, Operation
    <2>1. CASE BeginBatches
      <3>1. CASE NumOperations = 0
        BY <2>0, <2>1, <3>1, EmptyValues
        DEF BeginBatches, BatchInv, OneAttemptDecides, Operation, ValuesOf
      <3>2. CASE NumOperations # 0
        <4>1. /\ place' = "gathering" /\ executed' = Launched(executed, 1, 0)
              /\ attempt' = 1 /\ batch' = 0 /\ results' = <<>>
          BY <2>1, <3>2 DEF BeginBatches, BatchInv
        <4>2. executed' \in [Attempt -> [Operation -> Execution]]
          BY <1>0, <2>0, <4>1, LaunchedKeeps
        <4>3. 0 < NumOperations
          BY <3>2 DEF BatchAssumption
        <4> QED
          BY <1>0, <4>1, <4>2, <4>3, EmptyValues DEF BatchInv, OneAttemptDecides, Operation
      <3> QED
        BY <3>1, <3>2
    <2>2. CASE NextAttempt
      <3>1. /\ attempt + 1 \in Attempt /\ attempt' = attempt + 1 /\ results' = <<>>
            /\ batch' = 0 /\ place' = "gathering" /\ 0 < NumOperations
            /\ executed' = Launched(executed, attempt + 1, 0)
        BY <2>2 DEF NextAttempt, BatchInv, Attempt, FreshResults, BatchAssumption
      <3>2. executed' \in [Attempt -> [Operation -> Execution]]
        BY <2>0, <3>1, LaunchedKeeps
      <3> QED
        BY <3>1, <3>2, EmptyValues DEF BatchInv, OneAttemptDecides, Operation
    <2>3. CASE CallCancelledInBatch
      <3>1. executed' \in [Attempt -> [Operation -> Execution]]
        BY <1>0, <2>0, <2>3 DEF CallCancelledInBatch
      <3> QED
        BY <2>0, <2>3, <3>1 DEF CallCancelledInBatch, BatchInv, OneAttemptDecides
    <2>4. ASSUME NEW o \in Operation, OperationReturns(o) PROVE BatchInv'
      <3> DEFINE executions == [executed EXCEPT ![attempt][o] = "value"]
      <3>1. /\ \A other \in Operation :
                  executed[attempt][other] = "value" => executions[attempt][other] = "value"
            /\ executions \in [Attempt -> [Operation -> Execution]]
            /\ place = "gathering" /\ attempt' = attempt /\ batch < NumOperations
        BY <1>0, <2>0, <2>4 DEF OperationReturns, Outcome, BatchInv
      <3>2. IF \A other \in Slice(batch) : executions[attempt][other] = "value"
            THEN results' = results \o Gathered(batch) /\ AfterBatch(executions)
            ELSE executed' = executions /\ UNCHANGED <<place, batch, results>>
        BY <2>4 DEF OperationReturns
      <3> HIDE DEF executions
      <3>3. CASE \A other \in Slice(batch) : executions[attempt][other] = "value"
        <4>1. results' = ValuesOf(attempt, LastOf(batch))
          <5>1. batch <= NumOperations
            BY <2>0, <3>1 DEF BatchAssumption
          <5>2. results = ValuesOf(attempt, batch)
            BY <3>1 DEF BatchInv
          <5> QED
            BY <2>0, <3>2, <3>3, <5>1, <5>2, GatheredExtends
        <4>2. /\ LastOf(batch) \in Nat /\ Slice(batch) = batch + 1 .. LastOf(batch)
          BY <2>0, <3>1, SliceIsInterval DEF BatchAssumption
        <4>3. ASSUME NEW other \in Operation, other <= LastOf(batch)
              PROVE  executions[attempt][other] = "value"
          <5>1. CASE other <= batch
            BY <3>1, <5>1 DEF BatchInv
          <5>2. CASE ~(other <= batch)
            BY <2>0, <3>3, <4>2, <4>3, <5>2
          <5> QED
            BY <5>1, <5>2
        <4>4. AfterBatch(executions)
          BY <3>2, <3>3
        <4>5. CASE batch + BatchSize >= NumOperations
          <5>1. LastOf(batch) = NumOperations
            BY <2>0, <4>5 DEF LastOf, BatchAssumption
          <5>2. place' = "returned" /\ executed' = executions /\ batch' = batch
            BY <4>4, <4>5 DEF AfterBatch
          <5>3. results' = [n \in Operation |-> <<attempt', n>>]
            BY <3>1, <4>1, <5>1 DEF ValuesOf, Operation
          <5>4. \A other \in Operation : executed'[attempt'][other] = "value"
            BY <3>1, <4>3, <5>1, <5>2 DEF Operation
          <5> QED
            BY <2>0, <3>1, <5>2, <5>3, <5>4 DEF BatchInv, OneAttemptDecides
        <4>6. CASE ~(batch + BatchSize >= NumOperations)
          <5>1. LastOf(batch) = batch + BatchSize /\ batch + BatchSize \in Nat
                /\ batch + BatchSize < NumOperations
            BY <2>0, <4>6 DEF LastOf, BatchAssumption
          <5>2. /\ place' = place /\ batch' = batch + BatchSize
                /\ executed' = Launched(executions, attempt, batch + BatchSize)
            BY <4>4, <4>6 DEF AfterBatch
          <5>3. /\ executed' \in [Attempt -> [Operation -> Execution]]
                /\ \A other \in Operation :
                     other <= batch' => executed'[attempt][other] = executions[attempt][other]
            BY <2>0, <3>1, <5>1, <5>2, LaunchedKeeps
          <5>4. \A other \in Operation : other <= batch' => executed'[attempt'][other] = "value"
            BY <3>1, <4>3, <5>1, <5>2, <5>3
          <5>5. results' = ValuesOf(attempt', batch')
            BY <3>1, <4>1, <5>1, <5>2
          <5> QED
            BY <2>0, <3>1, <5>1, <5>2, <5>3, <5>4, <5>5 DEF BatchInv, OneAttemptDecides
        <4> QED
          BY <4>5, <4>6
      <3>4. CASE ~(\A other \in Slice(batch) : executions[attempt][other] = "value")
        <4>1. executed' = executions /\ UNCHANGED <<place, batch, results>>
          BY <3>2, <3>4
        <4> QED
          BY <2>0, <3>1, <4>1 DEF BatchInv, OneAttemptDecides
      <3> QED
        BY <3>3, <3>4
    <2>5. ASSUME NEW o \in Operation, OperationRaises(o) PROVE BatchInv'
      <3>1. PICK outcome \in {"transient", "fatal"} :
              /\ executed' = [executed EXCEPT ![attempt][o] = outcome]
              /\ place' = IF GivesUp(outcome) THEN "raised" ELSE "sleeping"
        BY <2>5 DEF OperationRaises
      <3>2. /\ executed'[attempt][o] = outcome
            /\ executed' \in [Attempt -> [Operation -> Execution]]
            /\ UNCHANGED <<attempt, batch, results>> /\ 0 < NumOperations
        BY <1>0, <2>0, <2>5, <3>1 DEF OperationRaises, Outcome, Operation, BatchAssumption
      <3>3. /\ attempt >= BatchAttempts => attempt = BatchAttempts
            /\ ~(attempt >= BatchAttempts) => attempt < BatchAttempts
        BY <2>0 DEF Attempt, BatchAssumption
      <3>4. CASE GivesUp(outcome)
        BY <2>0, <3>1, <3>2, <3>3, <3>4 DEF GivesUp, BatchInv, OneAttemptDecides
      <3>5. CASE ~GivesUp(outcome)
        BY <2>0, <3>1, <3>2, <3>3, <3>5 DEF GivesUp, BatchInv, OneAttemptDecides
      <3> QED
        BY <3>4, <3>5
    <2>6. ASSUME NEW a \in Attempt, NEW o \in Operation, LeftoverEnds(a, o) PROVE BatchInv'
      <3>1. PICK outcome \in Outcome : executed' = [executed EXCEPT ![a][o] = outcome]
        BY <2>6 DEF LeftoverEnds
      <3>2. /\ executed[a][o] = "running" /\ (place # "gathering" \/ a < attempt)
            /\ UNCHANGED <<place, attempt, batch, results>>
        BY <2>6 DEF LeftoverEnds
      <3>3. executed' \in [Attempt -> [Operation -> Execution]]
        BY <1>0, <2>0, <3>1
      <3>4. ASSUME NEW other \in Operation, executed[attempt][other] # "running"
            PROVE  executed'[attempt][other] = executed[attempt][other]
        BY <2>0, <3>1, <3>2, <3>4
      <3> QED
        BY <2>0, <3>2, <3>3, <3>4 DEF BatchInv, OneAttemptDecides
    <2>7. CASE UNCHANGED batchVars
      BY <2>7 DEF batchVars, BatchInv, OneAttemptDecides
    <2> QED
      BY <2>1, <2>2, <2>3, <2>4, <2>5, <2>6, <2>7 DEF BatchNext
  <1> QED
    BY <1>1, <1>2, PTL DEF BatchSpec

\* Whatever operations of earlier attempts still do, a call that returns has the values
\* of one attempt, all of them and in order, and a call that raises does so for an
\* operation of its last attempt.
THEOREM OneAttemptAlwaysDecides == BatchSpec => []OneAttemptDecides
  BY BatchInductive, PTL DEF BatchInv

-----------------------------------------------------------------------------
\* The tool executor

CallRecord == [pc : CallPlace, outcome : ToolOutcome, authorization : Authorization]

AuditEvent == [status : ToolStatus, authorization : Authorization]

\* What holds of call c.  A call through the executor is under way only when it was
\* allowed, and has no event before it ends; a process is over when it is reaped.
CallInv(c) ==
  /\ c \in direct => call[c].pc # "idle"
  /\ c \notin direct /\ call[c].pc # "done" => audit[c] = <<>>
  /\ c \notin direct /\ Active(c) => call[c].authorization = "allowed"
  /\ call[c].pc # "done" => call[c].outcome = "none"
  /\ call[c].pc = "waiting" => process[c] # "none"
  /\ call[c].pc = "reaping" => process[c] \in {"exited", "killed"}
  /\ c \in direct /\ call[c].outcome = "timeout" => process[c] \in {"exited", "killed"}
  /\ c \notin direct /\ call[c].pc = "done" =>
       /\ Len(audit[c]) = 1
       /\ audit[c][1].status = (IF call[c].outcome = "cancelled" THEN "failed"
                                ELSE call[c].outcome)
       /\ (audit[c][1].authorization = "denied") <=> (call[c].outcome = "denied")

ToolInv ==
  /\ ToolTypeOK
  /\ \A c \in Calls : CallInv(c)

\* A call that ends, with an event that fits its outcome, keeps the invariant.
LEMMA EndCallKeeps ==
  ASSUME ToolInv, NEW c \in Calls, call[c].pc # "done",
         NEW outcome \in ToolOutcome, NEW status \in ToolStatus,
         NEW authorization \in Authorization,
         EndCall(c, outcome, status, authorization),
         UNCHANGED <<direct, outer, inner, process>>,
         c \in direct /\ outcome = "timeout" => process[c] \in {"exited", "killed"},
         c \notin direct => status = (IF outcome = "cancelled" THEN "failed" ELSE outcome),
         c \notin direct => (authorization = "denied" <=> outcome = "denied")
  PROVE  ToolInv'
  <1> DEFINE event == [status |-> status, authorization |-> authorization]
  <1>0. /\ call \in [Calls -> CallRecord]
        /\ audit \in [Calls -> Seq(AuditEvent)]
        /\ event \in AuditEvent
    BY DEF ToolInv, ToolTypeOK, CallRecord, AuditEvent
  <1>1. /\ call' \in [Calls -> CallRecord]
        /\ call'[c] = [pc |-> "done", outcome |-> outcome, authorization |-> authorization]
        /\ \A other \in Calls \ {c} : call'[other] = call[other]
    BY <1>0 DEF EndCall, CallRecord, CallPlace
  <1>2. /\ audit' \in [Calls -> Seq(AuditEvent)]
        /\ \A other \in Calls \ {c} : audit'[other] = audit[other]
    BY <1>0 DEF EndCall
  <1>3. c \notin direct => audit'[c] = <<event>>
    <2> SUFFICES ASSUME c \notin direct PROVE audit'[c] = <<event>>
      OBVIOUS
    <2>1. audit[c] = <<>>
      BY DEF ToolInv, CallInv
    <2>2. audit'[c] = Append(audit[c], event)
      BY <1>0 DEF EndCall
    <2> QED
      BY <2>1, <2>2
  <1>4. ToolTypeOK'
    BY <1>1, <1>2 DEF ToolInv, ToolTypeOK, CallRecord, AuditEvent
  <1>5. CallInv(c)'
    BY <1>1, <1>3 DEF CallInv, Active
  <1>6. ASSUME NEW other \in Calls \ {c} PROVE CallInv(other)'
    BY <1>1, <1>2 DEF ToolInv, CallInv, Active
  <1> QED
    BY <1>4, <1>5, <1>6 DEF ToolInv

LEMMA ToolInductive == ToolSpec => []ToolInv
  <1> USE ToolAssumption
  <1>1. ToolInit => ToolInv
    BY DEF ToolInit, ToolInv, ToolTypeOK, CallInv, Active, CallPlace, ToolOutcome,
           Authorization, Process
  <1>2. ToolInv /\ [ToolNext]_toolVars => ToolInv'
    <2> SUFFICES ASSUME ToolInv, [ToolNext]_toolVars PROVE ToolInv'
      OBVIOUS
    <2>0. /\ ToolStatus \subseteq ToolOutcome
          /\ "success" \in ToolStatus /\ "failed" \in ToolStatus /\ "denied" \in ToolStatus
          /\ "timeout" \in ToolStatus /\ "raised" \in ToolOutcome /\ "cancelled" \in ToolOutcome
          /\ "unknown" \in Authorization /\ "allowed" \in Authorization
          /\ "denied" \in Authorization
      BY DEF ToolStatus, ToolOutcome, Authorization
    <2>1. CASE ToolTick
      <3>1. ToolTypeOK'
        <4>1. \A n \in 0 .. Timeout : Down(n) \in 0 .. Timeout
          BY DEF Down, ToolAssumption
        <4>2. /\ outer' \in [Calls -> 0 .. Timeout] /\ inner' \in [Calls -> 0 .. Timeout]
              /\ UNCHANGED <<call, direct, process, audit>>
          BY <2>1, <4>1 DEF ToolTick, ToolInv, ToolTypeOK
        <4> QED
          BY <4>2 DEF ToolInv, ToolTypeOK
      <3>2. \A c \in Calls : CallInv(c)'
        BY <2>1 DEF ToolTick, ToolInv, CallInv, Active
      <3> QED
        BY <3>1, <3>2 DEF ToolInv
    <2>2. ASSUME NEW c \in Calls, ToolStep(c) PROVE ToolInv'
      <3>0. /\ call[c] \in CallRecord /\ call[c].authorization \in Authorization
            /\ CallInv(c) /\ process[c] \in Process
        BY DEF ToolInv, ToolTypeOK, CallRecord
      <3>1. CASE Refuse(c)
        <4>1. PICK q \in Request :
                /\ EndCall(c, Refusal(q), Refusal(q),
                           IF Refusal(q) = "denied" THEN "denied" ELSE "unknown")
                /\ call[c].pc = "idle" /\ UNCHANGED <<direct, outer, inner, process>>
          BY <3>1 DEF Refuse, CallAt
        <4>2. Refusal(q) \in {"failed", "denied"}
          BY DEF Refusal
        <4>3. c \notin direct
          BY <3>0, <4>1 DEF CallInv
        <4> QED
          BY <2>0, <4>1, <4>2, <4>3, EndCallKeeps
      <3>2. CASE OuterTimeout(c)
        <4>1. /\ EndCall(c, "timeout", "timeout", call[c].authorization)
              /\ UNCHANGED <<direct, outer, inner, process>>
              /\ c \notin direct /\ call[c].pc # "done" /\ call[c].authorization = "allowed"
          BY <3>0, <3>2 DEF OuterTimeout, Active, CallInv
        <4> QED
          BY <2>0, <4>1, EndCallKeeps
      <3>3. CASE Cancel(c)
        <4>1. /\ EndCall(c, "cancelled", "failed", call[c].authorization)
              /\ UNCHANGED <<direct, outer, inner, process>>
              /\ call[c].pc # "done"
              /\ c \notin direct => call[c].authorization = "allowed"
          BY <3>0, <3>3 DEF Cancel, Active, CallInv
        <4> QED
          BY <2>0, <3>0, <4>1, EndCallKeeps
      <3>4. CASE ToolDenies(c)
        <4> DEFINE outcome == IF c \in direct THEN "raised" ELSE "denied"
        <4>1. /\ EndCall(c, outcome, "denied", "denied")
              /\ UNCHANGED <<direct, outer, inner, process>>
              /\ call[c].pc # "done"
          BY <3>4 DEF ToolDenies, Raise, CallAt
        <4>2. outcome \in ToolOutcome /\ outcome # "timeout" /\ outcome # "cancelled"
              /\ (c \notin direct => outcome = "denied")
          BY <2>0
        <4> QED
          BY <2>0, <4>1, <4>2, EndCallKeeps
      <3>5. CASE ToolRaises(c)
        <4> DEFINE outcome == IF c \in direct THEN "raised" ELSE "failed"
        <4>1. /\ EndCall(c, outcome, "failed", call[c].authorization)
              /\ UNCHANGED <<direct, outer, inner, process>>
              /\ call[c].pc # "done"
              /\ c \notin direct => call[c].authorization = "allowed"
          BY <3>0, <3>5 DEF ToolRaises, Raise, CallAt, CallInv, Active
        <4>2. outcome \in ToolOutcome /\ outcome # "timeout" /\ outcome # "cancelled"
              /\ (c \notin direct => outcome = "failed")
          BY <2>0
        <4> QED
          BY <2>0, <3>0, <4>1, <4>2, EndCallKeeps
      <3>6. CASE ToolAnswers(c) \/ Collect(c)
        <4>1. PICK status \in {"success", "failed"} :
                /\ EndCall(c, status, status, call[c].authorization)
                /\ UNCHANGED <<direct, outer, inner, process>>
                /\ call[c].pc # "done"
                /\ c \notin direct => call[c].authorization = "allowed"
          BY <3>0, <3>6 DEF ToolAnswers, Collect, Return, CallAt, CallInv, Active
        <4> QED
          BY <2>0, <3>0, <4>1, EndCallKeeps
      <3>7. CASE Reap(c)
        <4>1. /\ EndCall(c, "timeout", "timeout", call[c].authorization)
              /\ UNCHANGED <<direct, outer, inner, process>>
              /\ call[c].pc # "done" /\ process[c] \in {"exited", "killed"}
              /\ c \notin direct => call[c].authorization = "allowed"
          BY <3>0, <3>7 DEF Reap, Return, CallAt, CallInv, Active
        <4> QED
          BY <2>0, <3>0, <4>1, EndCallKeeps
      <3>8. CASE \/ Admit(c) \/ CallDirectly(c) \/ Spawn(c) \/ Spawned(c)
                 \/ InnerTimeout(c) \/ Exit(c)
        <4>1. ToolTypeOK'
          <5> USE DEF Move, ToolInv, ToolTypeOK, CallPlace, Process
          <5>1. CASE Admit(c)
            <6>1. /\ call' = [call EXCEPT ![c].pc = "tool", ![c].authorization = "allowed"]
                  /\ UNCHANGED <<direct, outer, inner, process, audit>>
              BY <5>1 DEF Admit
            <6>2. call'[c] = [call[c] EXCEPT !.pc = "tool", !.authorization = "allowed"]
              BY <6>1
            <6>3. call'[c] \in CallRecord
              BY <2>0, <3>0, <6>2 DEF CallRecord
            <6>4. call' \in [Calls -> CallRecord]
              BY <6>1, <6>3 DEF CallRecord
            <6> QED
              BY <6>1, <6>4 DEF CallRecord
          <5>2. CASE CallDirectly(c)
            BY <5>2 DEF CallDirectly
          <5>3. CASE Spawn(c)
            BY <5>3 DEF Spawn
          <5>4. CASE Spawned(c)
            BY <5>4 DEF Spawned
          <5>5. CASE InnerTimeout(c)
            BY <5>5 DEF InnerTimeout
          <5>6. CASE Exit(c)
            BY <5>6 DEF Exit
          <5> QED
            BY <3>8, <5>1, <5>2, <5>3, <5>4, <5>5, <5>6
        <4>2. CallInv(c)'
          <5> USE DEF CallInv, CallAt, Active, Move, ToolInv, ToolTypeOK
          <5>1. CASE Admit(c)
            BY <3>0, <5>1 DEF Admit
          <5>2. CASE CallDirectly(c)
            BY <3>0, <5>2 DEF CallDirectly
          <5>3. CASE Spawn(c)
            BY <3>0, <5>3 DEF Spawn
          <5>4. CASE Spawned(c)
            BY <3>0, <5>4 DEF Spawned
          <5>5. CASE InnerTimeout(c)
            BY <3>0, <5>5 DEF InnerTimeout, Process
          <5>6. CASE Exit(c)
            BY <3>0, <5>6 DEF Exit
          <5> QED
            BY <3>8, <5>1, <5>2, <5>3, <5>4, <5>5, <5>6
        <4>3. ASSUME NEW other \in Calls \ {c} PROVE CallInv(other)'
          BY <3>8
          DEF Admit, CallDirectly, Spawn, Spawned, InnerTimeout, Exit, Move, CallInv, Active,
              ToolInv, ToolTypeOK
        <4> QED
          BY <4>1, <4>2, <4>3 DEF ToolInv
      <3> QED
        BY <2>2, <3>1, <3>2, <3>3, <3>4, <3>5, <3>6, <3>7, <3>8 DEF ToolStep, Progress
    <2>3. CASE UNCHANGED toolVars
      BY <2>3 DEF toolVars, ToolInv, ToolTypeOK, CallInv, Active
    <2> QED
      BY <2>1, <2>2, <2>3 DEF ToolNext
  <1> QED
    BY <1>1, <1>2, PTL DEF ToolSpec

\* Every call through the executor is recorded once, when it ends, with the status and
\* the authorization it had; a tool called directly answers "timeout" only when its
\* process is over.
THEOREM OutcomesAreAlwaysTrue == ToolSpec => []OutcomesAreTrue
  <1>1. ToolInv => OutcomesAreTrue
    BY DEF ToolInv, ToolTypeOK, CallInv, OutcomesAreTrue, CallAt
  <1> QED
    BY <1>1, ToolInductive, PTL

-----------------------------------------------------------------------------
\* The task scheduler

\* A worker runs a task that is running, and no other worker does.
WorkersRunOne ==
  /\ \A w \in Slots : worker[w] # Gone /\ worker[w].task # 0 => stage[worker[w].task] = "running"
  /\ \A v, w \in Slots : /\ worker[v] # Gone /\ worker[w] # Gone
                         /\ worker[v].task = worker[w].task /\ worker[v].task # 0
                         => v = w

\* Whatever close() may still cancel is late for it: what was blocked while one was
\* under way, what came into the queue after its drain() was woken, what runs in a
\* worker that it has cancelled.
CancellableIsLate ==
  /\ \A c \in Closers : closer[c] # "idle" =>
       \A t \in Tasks : stage[t] = "blocked" => t \in late
  /\ \A c \in Closers : closer[c] = "drained" => Unfinished(stage) \subseteq late
  /\ \A w \in Slots : worker[w] # Gone /\ worker[w].doomed /\ worker[w].task # 0 =>
       worker[w].task \in late

SchedulerInv == SchedulerTypeOK /\ WorkersRunOne /\ CancellableIsLate /\ AcceptedIsAnswered

\* What a worker does between two operations: it takes the first wanted item and drops
\* unwanted ones.
LEMMA TaskIsSet ==
  \A r \in Worker, n \in 0 .. NumTasks :
    [r EXCEPT !.task = n] = [task |-> n, doomed |-> r.doomed]
  BY DEF Worker

LEMMA FetchDoes ==
  ASSUME SchedulerAssumption, worker \in [Slots -> Worker \cup {Gone}],
         NEW w \in Slots, worker[w] # Gone, ~worker[w].doomed,
         NEW places \in [Tasks -> Stage], NEW promises \in [Tasks -> Promise],
         Fetch(w, places, promises)
  PROVE  /\ stage' \in [Tasks -> Stage] /\ worker' \in [Slots -> Worker \cup {Gone}]
         /\ \A v \in Slots \ {w} : worker'[v] = worker[v]
         /\ worker'[w] \in Worker /\ worker'[w] # Gone /\ ~worker'[w].doomed
         /\ worker'[w].task # 0 =>
              /\ worker'[w].task \in Tasks /\ places[worker'[w].task] = "queued"
              /\ stage'[worker'[w].task] = "running"
         /\ \A t \in Tasks : stage'[t] # places[t] =>
              /\ places[t] = "queued"
              /\ \/ stage'[t] = "over" /\ promises[t] # "pending"
                 \/ stage'[t] = "running"
         /\ \A t, u \in Tasks :
              /\ places[t] = "queued" /\ stage'[t] = "running"
              /\ places[u] = "queued" /\ promises[u] = "pending" /\ u # t
              => Before(t, u)
  <1> USE DEF SchedulerAssumption
  <1> DEFINE queue == QueuedIn(places)
             open == {t \in queue : promises[t] = "pending"}
  <1>1. /\ worker[w] \in Worker /\ worker[w].task \in 0 .. NumTasks
        /\ worker[w] = [task |-> worker[w].task, doomed |-> FALSE]
        /\ queue \subseteq Tasks /\ Tasks \subseteq 0 .. NumTasks /\ 0 \notin Tasks
    BY DEF Worker, QueuedIn, Tasks
  <1>2. \A n \in 0 .. NumTasks :
          /\ [worker EXCEPT ![w].task = n] = [worker EXCEPT ![w] = [task |-> n, doomed |-> FALSE]]
          /\ [task |-> n, doomed |-> FALSE] \in Worker
    <2> TAKE n \in 0 .. NumTasks
    <2>1. [worker[w] EXCEPT !.task = n] = [task |-> n, doomed |-> worker[w].doomed]
          /\ worker[w].doomed = FALSE
      BY <1>1, TaskIsSet DEF Worker
    <2>2. [worker EXCEPT ![w].task = n] = [worker EXCEPT ![w] = [worker[w] EXCEPT !.task = n]]
      OBVIOUS
    <2> QED
      BY <2>1, <2>2 DEF Worker
  <1>3. CASE /\ open = {}
             /\ stage' = [t \in Tasks |-> IF t \in queue THEN "over" ELSE places[t]]
             /\ worker' = [worker EXCEPT ![w].task = 0]
    <2>1. worker' = [worker EXCEPT ![w] = [task |-> 0, doomed |-> FALSE]]
          /\ [task |-> 0, doomed |-> FALSE] \in Worker
      <3>1. 0 \in 0 .. NumTasks
        OBVIOUS
      <3> QED
        BY <1>2, <1>3, <3>1
    <2>2. /\ worker'[w] = [task |-> 0, doomed |-> FALSE]
          /\ worker' \in [Slots -> Worker \cup {Gone}]
          /\ \A v \in Slots \ {w} : worker'[v] = worker[v]
      BY <2>1
    <2>3. stage' \in [Tasks -> Stage]
      BY <1>3 DEF Stage
    <2>4. \A t \in Tasks : t \in queue <=> places[t] = "queued"
      BY DEF QueuedIn
    <2>5. \A t \in queue : promises[t] # "pending"
      BY <1>3
    <2>6. \A t \in Tasks : stage'[t] = IF t \in queue THEN "over" ELSE places[t]
      BY <1>3
    <2> QED
      BY <2>1, <2>2, <2>3, <2>4, <2>5, <2>6
  <1>4. ASSUME NEW t \in open, \A u \in open \ {t} : Before(t, u),
               stage' = [u \in Tasks |->
                           IF u = t THEN "running"
                           ELSE IF u \in queue \ open /\ Before(u, t) THEN "over" ELSE places[u]],
               worker' = [worker EXCEPT ![w].task = t]
        PROVE  /\ stage' \in [Tasks -> Stage] /\ worker' \in [Slots -> Worker \cup {Gone}]
               /\ \A v \in Slots \ {w} : worker'[v] = worker[v]
               /\ worker'[w] = [task |-> t, doomed |-> FALSE] /\ worker'[w] \in Worker
               /\ t \in Tasks /\ places[t] = "queued" /\ stage'[t] = "running"
               /\ \A u \in Tasks : stage'[u] # places[u] =>
                    /\ places[u] = "queued"
                    /\ \/ stage'[u] = "over" /\ promises[u] # "pending"
                       \/ stage'[u] = "running"
               /\ \A u, v \in Tasks :
                    /\ places[u] = "queued" /\ stage'[u] = "running"
                    /\ places[v] = "queued" /\ promises[v] = "pending" /\ v # u
                    => Before(u, v)
    <2>0. t \in Tasks /\ t \in 0 .. NumTasks /\ t \in queue
      BY <1>1, <1>4
    <2>1. worker' = [worker EXCEPT ![w] = [task |-> t, doomed |-> FALSE]]
          /\ [task |-> t, doomed |-> FALSE] \in Worker
      BY <1>2, <1>4, <2>0
    <2>2. /\ worker'[w] = [task |-> t, doomed |-> FALSE]
          /\ worker' \in [Slots -> Worker \cup {Gone}]
          /\ \A v \in Slots \ {w} : worker'[v] = worker[v]
      BY <2>1
    <2>3. stage' \in [Tasks -> Stage]
      BY <1>4 DEF Stage
    <2>4. \A u \in Tasks : /\ u \in queue <=> places[u] = "queued"
                           /\ u \in open <=> places[u] = "queued" /\ promises[u] = "pending"
      BY DEF QueuedIn
    <2>5. \A u \in Tasks : stage'[u] = IF u = t THEN "running"
                           ELSE IF u \in queue \ open /\ Before(u, t) THEN "over" ELSE places[u]
      BY <1>4
    <2> HIDE DEF open, queue
    <2>6. \A u \in Tasks : stage'[u] # places[u] =>
            /\ places[u] = "queued"
            /\ (stage'[u] = "over" /\ promises[u] # "pending") \/ stage'[u] = "running"
      BY <2>0, <2>4, <2>5
    <2>7. \A u \in Tasks : places[u] = "queued" /\ stage'[u] = "running" => u = t
      BY <2>4, <2>5
    <2>8. \A u, v \in Tasks :
            /\ places[u] = "queued" /\ stage'[u] = "running"
            /\ places[v] = "queued" /\ promises[v] = "pending" /\ v # u
            => Before(u, v)
      BY <1>4, <2>4, <2>7
    <2> QED
      BY <2>0, <2>1, <2>2, <2>3, <2>4, <2>5, <2>6, <2>8
  <1>5. CASE \E t \in open :
               /\ \A u \in open \ {t} : Before(t, u)
               /\ stage' = [u \in Tasks |->
                              IF u = t THEN "running"
                              ELSE IF u \in queue \ open /\ Before(u, t) THEN "over" ELSE places[u]]
               /\ worker' = [worker EXCEPT ![w].task = t]
    <2>1. PICK t \in open :
               /\ \A u \in open \ {t} : Before(t, u)
               /\ stage' = [u \in Tasks |->
                              IF u = t THEN "running"
                              ELSE IF u \in queue \ open /\ Before(u, t) THEN "over" ELSE places[u]]
               /\ worker' = [worker EXCEPT ![w].task = t]
      BY <1>5
    <2> HIDE DEF open, queue
    <2>2. /\ stage' \in [Tasks -> Stage] /\ worker' \in [Slots -> Worker \cup {Gone}]
          /\ \A v \in Slots \ {w} : worker'[v] = worker[v]
          /\ worker'[w] = [task |-> t, doomed |-> FALSE] /\ worker'[w] \in Worker
          /\ t \in Tasks /\ places[t] = "queued" /\ stage'[t] = "running"
          /\ \A u \in Tasks : stage'[u] # places[u] =>
               /\ places[u] = "queued"
               /\ (stage'[u] = "over" /\ promises[u] # "pending") \/ stage'[u] = "running"
          /\ \A u, v \in Tasks :
               /\ places[u] = "queued" /\ stage'[u] = "running"
               /\ places[v] = "queued" /\ promises[v] = "pending" /\ v # u
               => Before(u, v)
      BY <1>4, <2>1
    <2>3. worker'[w].task = t /\ ~worker'[w].doomed
      BY <2>2
    <2>4. worker'[w] # Gone
      BY <2>2
    <2> QED
      BY <2>2, <2>3, <2>4
  <1> QED
    BY <1>3, <1>5 DEF Fetch

\* Waking the calls of drain() moves a call only when nothing is unfinished any more.
LEMMA WakeDoes ==
  ASSUME closer \in [Closers -> ClosePlace], WakeDrains
  PROVE  /\ closer' \in [Closers -> ClosePlace]
         /\ \A c \in Closers : closer'[c] # closer[c] =>
              closer[c] = "draining" /\ closer'[c] = "drained" /\ Unfinished(stage') = {}
  BY DEF WakeDrains, ClosePlace

\* A promise keeps the first result it is given.
LEMMA SettledDoes ==
  ASSUME promise \in [Tasks -> Promise], NEW t \in Tasks, NEW result \in Promise
  PROVE  /\ Settled(t, result) \in [Tasks -> Promise]
         /\ \A u \in Tasks \ {t} : Settled(t, result)[u] = promise[u]
         /\ promise[t] # "pending" => Settled(t, result)[t] = promise[t]
         /\ promise[t] = "pending" => Settled(t, result)[t] = result
  BY DEF Settled

\* start() adds idle workers only.
LEMMA HiredDoes ==
  ASSUME SchedulerAssumption, SchedulerTypeOK, CrewHired
  PROVE  /\ worker' \in [Slots -> Worker \cup {Gone}] /\ crew' \in SUBSET Slots
         /\ started' \in BOOLEAN /\ lost' \in Nat
         /\ \A w \in Slots : worker'[w] # worker[w] =>
              worker[w] = Gone /\ worker'[w] = [task |-> 0, doomed |-> FALSE]
  <1> USE DEF SchedulerAssumption
  <1>1. [task |-> 0, doomed |-> FALSE] \in Worker
    BY DEF Worker
  <1>2. CASE started
    BY <1>2 DEF CrewHired, SchedulerTypeOK
  <1>3. CASE ~started
    <2>1. PICK hired \in SUBSET {w \in Slots :
                                 worker[w] = Gone /\ \A c \in Closers : w \notin gathered[c]} :
            /\ crew' = hired /\ lost' = 0 /\ started' = TRUE
            /\ worker' = [w \in Slots |-> IF w \in hired
                                          THEN [task |-> 0, doomed |-> FALSE]
                                          ELSE worker[w]]
      BY <1>3 DEF CrewHired
    <2>2. \A w \in Slots : worker'[w] # worker[w] =>
              worker[w] = Gone /\ worker'[w] = [task |-> 0, doomed |-> FALSE]
      BY <2>1
    <2>3. worker' \in [Slots -> Worker \cup {Gone}]
      BY <1>1, <2>1 DEF SchedulerTypeOK
    <2> QED
      BY <2>1, <2>2, <2>3
  <1> QED
    BY <1>2, <1>3

\* close() cancels the crew: what a worker runs stays, and it is doomed.
LEMMA CancelDoes ==
  ASSUME SchedulerAssumption, SchedulerTypeOK, NEW c \in Closers, CancelCrew(c)
  PROVE  /\ worker' \in [Slots -> Worker \cup {Gone}]
         /\ closer' = [closer EXCEPT ![c] = "gathering"] /\ closer' \in [Closers -> ClosePlace]
         /\ gathered' \in [Closers -> SUBSET Slots]
         /\ \A w \in Slots : /\ worker'[w] = Gone <=> worker[w] = Gone
                             /\ worker'[w] # Gone => worker'[w].task = worker[w].task
  <1> USE DEF SchedulerAssumption
  <1>1. \A r \in Worker : [r EXCEPT !.doomed = TRUE] \in Worker
                          /\ [r EXCEPT !.doomed = TRUE].task = r.task
    BY DEF Worker
  <1>2. \A w \in Slots : worker'[w] = IF w \in crew \cap Alive
                                      THEN [worker[w] EXCEPT !.doomed = TRUE] ELSE worker[w]
    BY DEF CancelCrew
  <1>3. \A w \in crew \cap Alive : worker[w] \in Worker /\ worker[w] # Gone
    BY DEF Alive, SchedulerTypeOK
  <1>4. worker' \in [Slots -> Worker \cup {Gone}]
    BY <1>1, <1>3 DEF CancelCrew, SchedulerTypeOK
  <1>5. \A w \in Slots : /\ worker'[w] = Gone <=> worker[w] = Gone
                         /\ worker'[w] # Gone => worker'[w].task = worker[w].task
    BY <1>1, <1>2, <1>3
  <1>6. /\ closer' = [closer EXCEPT ![c] = "gathering"] /\ closer' \in [Closers -> ClosePlace]
        /\ gathered' \in [Closers -> SUBSET Slots]
    BY DEF CancelCrew, SchedulerTypeOK, ClosePlace
  <1> QED
    BY <1>4, <1>5, <1>6

\* A worker that goes on to its next item keeps the invariant.
LEMMA FetchKeeps ==
  ASSUME SchedulerAssumption, SchedulerInv, NEW w \in Slots, worker[w] # Gone, ~worker[w].doomed,
         NEW places \in [Tasks -> Stage], NEW promises \in [Tasks -> Promise],
         \A t \in Tasks : \/ places[t] = stage[t] /\ t # worker[w].task
                          \/ t = worker[w].task /\ places[t] = "over" /\ promises[t] # "pending",
         \A t \in Tasks : promises[t] = promise[t]
                          \/ (promise[t] = "pending" /\ promises[t] \in {"value", "error"}),
         promise' = promises, Fetch(w, places, promises), WakeDrains,
         UNCHANGED <<priority, crew, started, gathered, late, lost>>
  PROVE  SchedulerInv'
  <1>1. SchedulerTypeOK /\ WorkersRunOne /\ CancellableIsLate /\ AcceptedIsAnswered
    BY DEF SchedulerInv
  <1>2. worker \in [Slots -> Worker \cup {Gone}] /\ closer \in [Closers -> ClosePlace]
        /\ stage \in [Tasks -> Stage]
    BY <1>1 DEF SchedulerTypeOK
  <1>3. /\ stage' \in [Tasks -> Stage] /\ worker' \in [Slots -> Worker \cup {Gone}]
        /\ \A v \in Slots \ {w} : worker'[v] = worker[v]
        /\ worker'[w] \in Worker /\ worker'[w] # Gone /\ ~worker'[w].doomed
        /\ worker'[w].task # 0 =>
             /\ worker'[w].task \in Tasks /\ places[worker'[w].task] = "queued"
             /\ stage'[worker'[w].task] = "running"
        /\ \A t \in Tasks : stage'[t] # places[t] =>
             /\ places[t] = "queued"
             /\ (stage'[t] = "over" /\ promises[t] # "pending") \/ stage'[t] = "running"
    BY <1>2, FetchDoes
  <1>4. /\ closer' \in [Closers -> ClosePlace]
        /\ \A c \in Closers : closer'[c] # closer[c] =>
             closer[c] = "draining" /\ closer'[c] = "drained" /\ Unfinished(stage') = {}
    BY <1>2, WakeDoes
  <1>5. SchedulerTypeOK'
    BY <1>1, <1>3, <1>4 DEF SchedulerTypeOK
  <1>6. \A v \in Slots : worker[v] # Gone /\ worker[v].task # 0 => worker[v].task \in Tasks
    BY <1>2 DEF Worker, Tasks, SchedulerAssumption
  <1>7. \A v \in Slots \ {w} : worker'[v] # Gone /\ worker'[v].task # 0 =>
          /\ worker'[v].task \in Tasks /\ worker'[v].task # worker[w].task
          /\ places[worker'[v].task] = "running" /\ stage'[worker'[v].task] = "running"
    <2> SUFFICES ASSUME NEW v \in Slots \ {w}, worker'[v] # Gone, worker'[v].task # 0
                 PROVE  /\ worker'[v].task \in Tasks /\ worker'[v].task # worker[w].task
                        /\ places[worker'[v].task] = "running"
                        /\ stage'[worker'[v].task] = "running"
      OBVIOUS
    <2>1. worker'[v] = worker[v] /\ worker[v].task \in Tasks
      BY <1>3, <1>6
    <2>2. worker[v].task # worker[w].task /\ stage[worker[v].task] = "running"
      BY <1>1, <2>1 DEF WorkersRunOne
    <2>3. places[worker[v].task] = "running"
      BY <2>1, <2>2
    <2> QED
      BY <1>3, <2>1, <2>2, <2>3
  <1>8. WorkersRunOne'
    <2>1. \A v \in Slots : worker'[v] # Gone /\ worker'[v].task # 0 =>
            stage'[worker'[v].task] = "running"
      BY <1>3, <1>7
    <2>2. ASSUME NEW u \in Slots, NEW v \in Slots, worker'[u] # Gone, worker'[v] # Gone,
                 worker'[u].task = worker'[v].task, worker'[u].task # 0
          PROVE  u = v
      <3>1. CASE u # w /\ v # w
        BY <1>1, <1>3, <2>2, <3>1 DEF WorkersRunOne
      <3>2. CASE u = w /\ v # w
        BY <1>3, <1>7, <2>2, <3>2
      <3>3. CASE u # w /\ v = w
        BY <1>3, <1>7, <2>2, <3>3
      <3> QED
        BY <3>1, <3>2, <3>3
    <2> QED
      BY <2>1, <2>2 DEF WorkersRunOne
  <1>9. \A t \in Tasks : /\ stage'[t] = "blocked" => stage[t] = "blocked"
                         /\ stage'[t] \in {"queued", "running"} => stage[t] \in {"queued", "running"}
    BY <1>3
  <1>10. CancellableIsLate'
    <2>1. \A c \in Closers : closer'[c] # "idle" =>
            \A t \in Tasks : stage'[t] = "blocked" => t \in late'
      BY <1>1, <1>4, <1>9 DEF CancellableIsLate
    <2>2. \A c \in Closers : closer'[c] = "drained" => Unfinished(stage') \subseteq late'
      BY <1>1, <1>4, <1>9 DEF CancellableIsLate, Unfinished
    <2>3. \A v \in Slots : worker'[v] # Gone /\ worker'[v].doomed /\ worker'[v].task # 0 =>
            worker'[v].task \in late'
      BY <1>1, <1>3 DEF CancellableIsLate
    <2> QED
      BY <2>1, <2>2, <2>3 DEF CancellableIsLate
  <1>11. AcceptedIsAnswered'
    <2>1. \A t \in Tasks : promise'[t] = "cancelled" => t \in late'
      BY <1>1 DEF AcceptedIsAnswered
    <2>2. \A t \in Tasks : stage'[t] = "over" => promise'[t] # "pending"
      BY <1>1, <1>3 DEF AcceptedIsAnswered
    <2> QED
      BY <2>1, <2>2 DEF AcceptedIsAnswered
  <1> QED
    BY <1>5, <1>8, <1>10, <1>11 DEF SchedulerInv

\* A worker that ends keeps the invariant: close() has cancelled it and what it ran is
\* late, or its operation ended with CancelledError.
LEMMA DieKeeps ==
  ASSUME SchedulerAssumption, SchedulerInv, NEW w \in Slots, worker[w] # Gone,
         NEW result \in {"aborted", "cancelled"}, result = "cancelled" => worker[w].doomed,
         Die(w, result), lost' \in Nat
  PROVE  SchedulerInv'
  <1>1. SchedulerTypeOK /\ WorkersRunOne /\ CancellableIsLate /\ AcceptedIsAnswered
    BY DEF SchedulerInv
  <1>2. /\ worker' \in [Slots -> Worker \cup {Gone}] /\ worker'[w] = Gone
        /\ \A v \in Slots \ {w} : worker'[v] = worker[v]
    BY <1>1 DEF Die, SchedulerTypeOK
  <1>3. UNCHANGED <<priority, crew, started, gathered, late>>
    BY DEF Die
  <1>4. CASE worker[w].task = 0
    <2>1. UNCHANGED <<stage, promise, closer>>
      BY <1>4 DEF Die
    <2>2. SchedulerTypeOK'
      BY <1>1, <1>2, <1>3, <2>1 DEF SchedulerTypeOK
    <2>3. WorkersRunOne'
      BY <1>1, <1>2, <2>1 DEF WorkersRunOne
    <2>4. CancellableIsLate'
      BY <1>1, <1>2, <1>3, <2>1 DEF CancellableIsLate, Unfinished
    <2>5. AcceptedIsAnswered'
      BY <1>1, <1>3, <2>1 DEF AcceptedIsAnswered
    <2> QED
      BY <2>2, <2>3, <2>4, <2>5 DEF SchedulerInv
  <1>5. CASE worker[w].task # 0
    <2> DEFINE t == worker[w].task
    <2>1. t \in Tasks /\ stage[t] = "running" /\ (worker[w].doomed => t \in late)
      BY <1>1, <1>5 DEF SchedulerTypeOK, Worker, Tasks, WorkersRunOne, CancellableIsLate,
                        SchedulerAssumption
    <2>2. promise' = Settled(t, result) /\ stage' = [stage EXCEPT ![t] = "over"] /\ WakeDrains
      BY <1>5 DEF Die
    <2>3. /\ promise' \in [Tasks -> Promise] /\ \A u \in Tasks \ {t} : promise'[u] = promise[u]
          /\ promise[t] # "pending" => promise'[t] = promise[t]
          /\ promise[t] = "pending" => promise'[t] = result
      BY <1>1, <2>1, <2>2, SettledDoes DEF SchedulerTypeOK, Promise
    <2>4. /\ stage' \in [Tasks -> Stage] /\ stage'[t] = "over"
          /\ \A u \in Tasks \ {t} : stage'[u] = stage[u]
      BY <1>1, <2>1, <2>2 DEF SchedulerTypeOK, Stage
    <2>5. /\ closer' \in [Closers -> ClosePlace]
          /\ \A c \in Closers : closer'[c] # closer[c] =>
               closer[c] = "draining" /\ closer'[c] = "drained" /\ Unfinished(stage') = {}
      BY <1>1, <2>2, WakeDoes DEF SchedulerTypeOK
    <2>6. SchedulerTypeOK'
      BY <1>1, <1>2, <1>3, <2>3, <2>4, <2>5 DEF SchedulerTypeOK
    <2>7. \A v \in Slots : worker'[v] # Gone /\ worker'[v].task # 0 =>
            v # w /\ worker'[v] = worker[v] /\ worker[v].task \in Tasks \ {t}
      BY <1>1, <1>2, <1>5 DEF SchedulerTypeOK, Worker, Tasks, WorkersRunOne, SchedulerAssumption
    <2> HIDE DEF t
    <2>8. WorkersRunOne'
      BY <1>1, <2>4, <2>7 DEF WorkersRunOne
    <2>9. CancellableIsLate'
      <3>1. \A c \in Closers : closer'[c] # "idle" =>
              \A u \in Tasks : stage'[u] = "blocked" => u \in late'
        BY <1>1, <1>3, <2>4, <2>5 DEF CancellableIsLate
      <3>2. \A c \in Closers : closer'[c] = "drained" => Unfinished(stage') \subseteq late'
        BY <1>1, <1>3, <2>4, <2>5 DEF CancellableIsLate, Unfinished
      <3>3. \A v \in Slots : worker'[v] # Gone /\ worker'[v].doomed /\ worker'[v].task # 0 =>
              worker'[v].task \in late'
        BY <1>1, <1>3, <2>7 DEF CancellableIsLate
      <3> QED
        BY <3>1, <3>2, <3>3 DEF CancellableIsLate
    <2>10. AcceptedIsAnswered'
      <3>1. promise'[t] # "pending" /\ (promise'[t] = "cancelled" => t \in late')
        BY <1>1, <1>3, <2>1, <2>3 DEF AcceptedIsAnswered
      <3>2. \A u \in Tasks \ {t} : /\ promise'[u] = "cancelled" => u \in late'
                                   /\ stage'[u] = "over" => promise'[u] # "pending"
        BY <1>1, <1>3, <2>3, <2>4 DEF AcceptedIsAnswered
      <3> QED
        BY <3>1, <3>2 DEF AcceptedIsAnswered
    <2> QED
      BY <2>6, <2>8, <2>9, <2>10 DEF SchedulerInv
  <1> QED
    BY <1>4, <1>5

LEMMA SchedulerStarts == SchedulerAssumption /\ SchedulerInit => SchedulerInv
  <1> SUFFICES ASSUME SchedulerAssumption, SchedulerInit
               PROVE  SchedulerInv
    OBVIOUS
  <1>1. SchedulerTypeOK
    BY DEF SchedulerInit, SchedulerTypeOK, Stage, Promise, ClosePlace
  <1>2. WorkersRunOne
    BY DEF SchedulerInit, WorkersRunOne
  <1>3. CancellableIsLate
    BY DEF SchedulerInit, CancellableIsLate
  <1>4. AcceptedIsAnswered
    BY DEF SchedulerInit, AcceptedIsAnswered
  <1> QED
    BY <1>1, <1>2, <1>3, <1>4 DEF SchedulerInv

LEMMA SchedulerInductive ==
  ASSUME SchedulerAssumption, SchedulerInv, [SchedulerNext]_schedulerVars
  PROVE  SchedulerInv'
  <1> USE DEF SchedulerAssumption
  <1>0. SchedulerTypeOK /\ WorkersRunOne /\ CancellableIsLate /\ AcceptedIsAnswered
    BY DEF SchedulerInv
  <1>a. \A w \in Slots : worker[w] # Gone =>
          worker[w].task \in Nat /\ (worker[w].task # 0 => worker[w].task \in Tasks)
    BY <1>0 DEF SchedulerTypeOK, Worker, Tasks
  <1>1. ASSUME NEW t \in Tasks, NEW p \in Priorities, Submit(t, p)
        PROVE  SchedulerInv'
    <2>1. /\ worker' \in [Slots -> Worker \cup {Gone}] /\ crew' \in SUBSET Slots
          /\ started' \in BOOLEAN /\ lost' \in Nat
          /\ \A w \in Slots : worker'[w] # worker[w] =>
               worker[w] = Gone /\ worker'[w] = [task |-> 0, doomed |-> FALSE]
      BY <1>0, <1>1, HiredDoes DEF Submit
    <2>2. /\ stage[t] = "new" /\ stage' = [stage EXCEPT ![t] = IF Full THEN "blocked" ELSE "queued"]
          /\ priority' = [priority EXCEPT ![t] = p]
          /\ late' = IF \A c \in Closers : closer[c] = "idle" THEN late ELSE late \cup {t}
          /\ UNCHANGED <<promise, closer, gathered>>
      BY <1>1 DEF Submit, closing
    <2>3. /\ stage' \in [Tasks -> Stage] /\ stage'[t] \in {"blocked", "queued"}
          /\ \A u \in Tasks \ {t} : stage'[u] = stage[u]
          /\ priority' \in [Tasks -> Priorities \cup {0}]
          /\ late' \in SUBSET Tasks /\ late \subseteq late'
      BY <1>0, <2>2 DEF SchedulerTypeOK, Stage
    <2>4. SchedulerTypeOK'
      BY <1>0, <2>1, <2>2, <2>3 DEF SchedulerTypeOK
    <2>5. \A w \in Slots : worker'[w] # Gone /\ worker'[w].task # 0 =>
            worker'[w] = worker[w] /\ worker[w].task \in Tasks \ {t}
      BY <1>0, <1>a, <2>1, <2>2 DEF WorkersRunOne
    <2>6. WorkersRunOne'
      BY <1>0, <2>3, <2>5 DEF WorkersRunOne
    <2>7. CancellableIsLate'
      <3>1. \A c \in Closers : closer'[c] # "idle" =>
              \A u \in Tasks : stage'[u] = "blocked" => u \in late'
        BY <1>0, <2>2, <2>3 DEF CancellableIsLate
      <3>2. \A c \in Closers : closer'[c] = "drained" => Unfinished(stage') \subseteq late'
        BY <1>0, <2>2, <2>3 DEF CancellableIsLate, Unfinished
      <3>3. \A v \in Slots : worker'[v] # Gone /\ worker'[v].doomed /\ worker'[v].task # 0 =>
              worker'[v].task \in late'
        BY <1>0, <2>3, <2>5 DEF CancellableIsLate
      <3> QED
        BY <3>1, <3>2, <3>3 DEF CancellableIsLate
    <2>8. AcceptedIsAnswered'
      BY <1>0, <2>2, <2>3 DEF AcceptedIsAnswered
    <2> QED
      BY <2>4, <2>6, <2>7, <2>8 DEF SchedulerInv
  <1>2. ASSUME NEW t \in Tasks, Enter(t)
        PROVE  SchedulerInv'
    <2>1. /\ stage[t] = "blocked" /\ stage' = [stage EXCEPT ![t] = "queued"]
          /\ UNCHANGED <<priority, promise, worker, crew, started, closer, gathered, late, lost>>
      BY <1>2 DEF Enter, closing
    <2>2. /\ stage' \in [Tasks -> Stage] /\ stage'[t] = "queued"
          /\ \A u \in Tasks \ {t} : stage'[u] = stage[u]
      BY <1>0, <2>1 DEF SchedulerTypeOK, Stage
    <2>3. SchedulerTypeOK'
      BY <1>0, <2>1, <2>2 DEF SchedulerTypeOK
    <2>4. WorkersRunOne'
      BY <1>0, <1>a, <2>1, <2>2 DEF WorkersRunOne
    <2>5. CancellableIsLate'
      <3>1. \A c \in Closers : closer'[c] # "idle" =>
              \A u \in Tasks : stage'[u] = "blocked" => u \in late'
        BY <1>0, <2>1, <2>2 DEF CancellableIsLate
      <3>2. \A c \in Closers : closer'[c] = "drained" => Unfinished(stage') \subseteq late'
        BY <1>0, <2>1, <2>2 DEF CancellableIsLate, Unfinished
      <3>3. \A v \in Slots : worker'[v] # Gone /\ worker'[v].doomed /\ worker'[v].task # 0 =>
              worker'[v].task \in late'
        BY <1>0, <2>1 DEF CancellableIsLate
      <3> QED
        BY <3>1, <3>2, <3>3 DEF CancellableIsLate
    <2>6. AcceptedIsAnswered'
      BY <1>0, <2>1, <2>2 DEF AcceptedIsAnswered
    <2> QED
      BY <2>3, <2>4, <2>5, <2>6 DEF SchedulerInv
  <1>3. ASSUME NEW t \in Tasks, Withdraw(t)
        PROVE  SchedulerInv'
    <2>1. /\ promise[t] = "pending" /\ promise' = [promise EXCEPT ![t] = "withdrawn"]
          /\ stage' = IF stage[t] = "blocked" THEN [stage EXCEPT ![t] = "over"] ELSE stage
          /\ UNCHANGED <<priority, worker, crew, started, closer, gathered, late, lost>>
      BY <1>3 DEF Withdraw, closing
    <2>2. /\ stage' \in [Tasks -> Stage] /\ promise' \in [Tasks -> Promise]
          /\ promise'[t] = "withdrawn" /\ \A u \in Tasks \ {t} : promise'[u] = promise[u]
          /\ \A u \in Tasks : stage'[u] # stage[u] => u = t /\ stage[u] = "blocked" /\ stage'[u] = "over"
      BY <1>0, <2>1 DEF SchedulerTypeOK, Stage, Promise
    <2>3. SchedulerTypeOK'
      BY <1>0, <2>1, <2>2 DEF SchedulerTypeOK
    <2>4. WorkersRunOne'
      BY <1>0, <1>a, <2>1, <2>2 DEF WorkersRunOne
    <2>5. CancellableIsLate'
      BY <1>0, <2>1, <2>2 DEF CancellableIsLate, Unfinished
    <2>6. AcceptedIsAnswered'
      BY <1>0, <2>1, <2>2 DEF AcceptedIsAnswered
    <2> QED
      BY <2>3, <2>4, <2>5, <2>6 DEF SchedulerInv
  <1>4. ASSUME NEW w \in Slots, Take(w)
        PROVE  SchedulerInv'
    <2>1. /\ worker[w] # Gone /\ ~worker[w].doomed /\ worker[w].task = 0
          /\ Fetch(w, stage, promise) /\ WakeDrains
          /\ UNCHANGED <<priority, promise, crew, started, gathered, late, lost>>
      BY <1>4 DEF Take, Waits
    <2>2. stage \in [Tasks -> Stage] /\ promise \in [Tasks -> Promise]
      BY <1>0 DEF SchedulerTypeOK
    <2>3. \A t \in Tasks : t # worker[w].task
      BY <2>1 DEF Tasks
    <2> QED
      BY <2>1, <2>2, <2>3, FetchKeeps
  <1>5. ASSUME NEW w \in Slots, NEW result \in {"value", "error"}, OperationEnds(w, result)
        PROVE  SchedulerInv'
    <2> DEFINE t == worker[w].task
               places == [stage EXCEPT ![t] = "over"]
    <2>1. /\ worker[w] # Gone /\ ~worker[w].doomed /\ t \in Tasks
          /\ promise' = Settled(t, result) /\ Fetch(w, places, promise') /\ WakeDrains
          /\ UNCHANGED <<priority, crew, started, gathered, late, lost>>
      BY <1>a, <1>5 DEF OperationEnds, Runs
    <2>2. /\ promise' \in [Tasks -> Promise]
          /\ \A u \in Tasks \ {t} : promise'[u] = promise[u]
          /\ promise[t] # "pending" => promise'[t] = promise[t]
          /\ promise[t] = "pending" => promise'[t] = result
      BY <1>0, <2>1, SettledDoes DEF SchedulerTypeOK, Promise
    <2>3. /\ places \in [Tasks -> Stage] /\ places[t] = "over"
          /\ \A u \in Tasks \ {t} : places[u] = stage[u]
      BY <1>0, <2>1 DEF SchedulerTypeOK, Stage
    <2> HIDE DEF places
    <2>4. \A u \in Tasks : \/ places[u] = stage[u] /\ u # worker[w].task
                           \/ u = worker[w].task /\ places[u] = "over" /\ promise'[u] # "pending"
      BY <2>1, <2>2, <2>3
    <2>5. \A u \in Tasks : promise'[u] = promise[u]
                           \/ (promise[u] = "pending" /\ promise'[u] \in {"value", "error"})
      <3> HIDE DEF t
      <3> QED
        BY <2>2
    <2> QED
      BY <2>1, <2>2, <2>3, <2>4, <2>5, FetchKeeps
  <1>6. ASSUME NEW w \in Slots, OperationCancelled(w) \/ WorkerCancelled(w)
        PROVE  SchedulerInv'
    <2>1. lost \in Nat
      BY <1>0 DEF SchedulerTypeOK
    <2>2. CASE OperationCancelled(w)
      <3>1. worker[w] # Gone /\ Die(w, "aborted") /\ lost' \in Nat
        BY <2>1, <2>2 DEF OperationCancelled, Runs
      <3> QED
        BY <3>1, DieKeeps
    <2>3. CASE WorkerCancelled(w)
      <3>1. worker[w] # Gone /\ worker[w].doomed /\ Die(w, "cancelled") /\ lost' \in Nat
        BY <2>1, <2>3 DEF WorkerCancelled
      <3> QED
        BY <3>1, DieKeeps
    <2> QED
      BY <1>6, <2>2, <2>3
  <1>7. ASSUME NEW c \in Closers, CancelCrew(c), UNCHANGED <<stage, priority, promise, crew, started, lost>>,
               late' = late \cup {t \in Tasks : stage[t] = "blocked"},
               Unfinished(stage) \subseteq late
        PROVE  SchedulerInv'
    <2>1. /\ worker' \in [Slots -> Worker \cup {Gone}]
          /\ closer' = [closer EXCEPT ![c] = "gathering"] /\ closer' \in [Closers -> ClosePlace]
          /\ gathered' \in [Closers -> SUBSET Slots]
          /\ \A w \in Slots : /\ worker'[w] = Gone <=> worker[w] = Gone
                              /\ worker'[w] # Gone => worker'[w].task = worker[w].task
      BY <1>0, <1>7, CancelDoes
    <2>2. SchedulerTypeOK'
      BY <1>0, <1>7, <2>1 DEF SchedulerTypeOK
    <2>3. WorkersRunOne'
      BY <1>0, <1>7, <2>1 DEF WorkersRunOne
    <2>4. CancellableIsLate'
      <3>1. \A d \in Closers : closer'[d] # "idle" =>
              \A u \in Tasks : stage'[u] = "blocked" => u \in late'
        BY <1>7
      <3>2. \A d \in Closers : closer'[d] = "drained" => Unfinished(stage') \subseteq late'
        BY <1>7 DEF Unfinished
      <3>3. \A v \in Slots : worker'[v] # Gone /\ worker'[v].task # 0 => worker'[v].task \in late'
        BY <1>0, <1>a, <1>7, <2>1 DEF WorkersRunOne, Unfinished
      <3> QED
        BY <3>1, <3>2, <3>3 DEF CancellableIsLate
    <2>5. AcceptedIsAnswered'
      BY <1>0, <1>7 DEF AcceptedIsAnswered
    <2> QED
      BY <2>2, <2>3, <2>4, <2>5 DEF SchedulerInv
  <1>8. ASSUME NEW c \in Closers, Close(c)
        PROVE  SchedulerInv'
    <2>1. late' = late \cup {t \in Tasks : stage[t] = "blocked"}
          /\ UNCHANGED <<stage, priority, promise, crew, started, lost>>
      BY <1>8 DEF Close, tasks
    <2>2. CASE NothingToDrain
      BY <1>7, <1>8, <2>1, <2>2 DEF Close, NothingToDrain
    <2>3. CASE ~NothingToDrain
      <3>1. closer' = [closer EXCEPT ![c] = "draining"] /\ UNCHANGED <<worker, gathered>>
        BY <1>8, <2>3 DEF Close
      <3>2. closer' \in [Closers -> ClosePlace]
            /\ \A d \in Closers : closer'[d] = "drained" => closer[d] = "drained"
        BY <1>0, <3>1 DEF SchedulerTypeOK, ClosePlace
      <3>3. SchedulerTypeOK'
        BY <1>0, <2>1, <3>1, <3>2 DEF SchedulerTypeOK
      <3>4. WorkersRunOne'
        BY <1>0, <2>1, <3>1 DEF WorkersRunOne
      <3>5. CancellableIsLate'
        BY <1>0, <2>1, <3>1, <3>2 DEF CancellableIsLate, Unfinished
      <3>6. AcceptedIsAnswered'
        BY <1>0, <2>1 DEF AcceptedIsAnswered
      <3> QED
        BY <3>3, <3>4, <3>5, <3>6 DEF SchedulerInv
    <2> QED
      BY <2>2, <2>3
  <1>9. ASSUME NEW c \in Closers, CloseDrained(c)
        PROVE  SchedulerInv'
    <2>1. /\ closer[c] = "drained" /\ CancelCrew(c)
          /\ UNCHANGED <<stage, priority, promise, crew, started, late, lost>>
      BY <1>9 DEF CloseDrained, tasks
    <2>2. Unfinished(stage) \subseteq late
          /\ late' = late \cup {t \in Tasks : stage[t] = "blocked"}
      BY <1>0, <2>1 DEF CancellableIsLate
    <2> QED
      BY <1>7, <2>1, <2>2
  <1>10. ASSUME NEW c \in Closers, CloseEnds(c)
         PROVE  SchedulerInv'
    <2>1. /\ closer' = [closer EXCEPT ![c] = "idle"] /\ gathered' = [gathered EXCEPT ![c] = {}]
          /\ crew' = {} /\ started' = FALSE
          /\ UNCHANGED <<stage, priority, promise, worker, late, lost>>
      BY <1>10 DEF CloseEnds, tasks
    <2>2. closer' \in [Closers -> ClosePlace] /\ gathered' \in [Closers -> SUBSET Slots]
          /\ \A d \in Closers : closer'[d] # closer[d] => closer'[d] = "idle"
      BY <1>0, <2>1 DEF SchedulerTypeOK, ClosePlace
    <2>3. SchedulerTypeOK'
      BY <1>0, <2>1, <2>2 DEF SchedulerTypeOK
    <2>4. WorkersRunOne'
      BY <1>0, <2>1 DEF WorkersRunOne
    <2>5. CancellableIsLate'
      BY <1>0, <2>1, <2>2 DEF CancellableIsLate, Unfinished
    <2>6. AcceptedIsAnswered'
      BY <1>0, <2>1 DEF AcceptedIsAnswered
    <2> QED
      BY <2>3, <2>4, <2>5, <2>6 DEF SchedulerInv
  <1>11. CASE UNCHANGED schedulerVars
    BY <1>0, <1>11 DEF schedulerVars, tasks, closing, SchedulerInv, SchedulerTypeOK, WorkersRunOne,
                       CancellableIsLate, AcceptedIsAnswered, Unfinished
  <1> QED
    BY <1>1, <1>2, <1>3, <1>4, <1>5, <1>6, <1>8, <1>9, <1>10, <1>11 DEF SchedulerNext

\* Whatever interleaving of submissions, workers, withdrawals and concurrent closes:
\* close() cancels nothing that was queued before it, and a submission that is over was
\* answered (performance/scheduler.py, close(), _worker()).
THEOREM AcceptedIsAnsweredAlways == SchedulerSpec => []AcceptedIsAnswered
  <1>1. SchedulerInit => SchedulerInv
    BY SchedulerStarts, SchedulerAssumption
  <1>2. SchedulerInv /\ [SchedulerNext]_schedulerVars => SchedulerInv'
    BY SchedulerInductive, SchedulerAssumption
  <1>3. SchedulerInv => AcceptedIsAnswered
    BY DEF SchedulerInv
  <1> QED
    BY <1>1, <1>2, <1>3, PTL DEF SchedulerSpec

\* A submission starts only in a worker that goes on to its next item.
LEMMA OnlyFetchStarts ==
  ASSUME SchedulerAssumption, SchedulerInv, SchedulerNext,
         NEW t \in Tasks, stage[t] = "queued", stage'[t] = "running"
  PROVE  \E w \in Slots : Take(w) \/ \E result \in {"value", "error"} : OperationEnds(w, result)
  <1>0. stage \in [Tasks -> Stage] /\ worker \in [Slots -> Worker \cup {Gone}]
    BY DEF SchedulerInv, SchedulerTypeOK
  <1>1. ASSUME NEW u \in Tasks, NEW p \in Priorities, Submit(u, p) PROVE FALSE
    BY <1>0, <1>1 DEF Submit
  <1>2. ASSUME NEW u \in Tasks, Enter(u) PROVE FALSE
    BY <1>0, <1>2 DEF Enter
  <1>3. ASSUME NEW u \in Tasks, Withdraw(u) PROVE FALSE
    BY <1>0, <1>3 DEF Withdraw
  <1>4. ASSUME NEW w \in Slots, NEW result, Die(w, result) PROVE FALSE
    <2>1. CASE worker[w].task = 0
      BY <1>4, <2>1 DEF Die
    <2>2. CASE worker[w].task # 0
      BY <1>0, <1>4, <2>2 DEF Die
    <2> QED
      BY <2>1, <2>2
  <1>5. ASSUME NEW c \in Closers, Close(c) \/ CloseDrained(c) \/ CloseEnds(c) PROVE FALSE
    BY <1>5 DEF Close, CloseDrained, CloseEnds, tasks
  <1> QED
    BY <1>1, <1>2, <1>3, <1>4, <1>5 DEF SchedulerNext, OperationCancelled, WorkerCancelled

\* What starts is the most urgent of what is queued and wanted, whatever was withdrawn
\* before (performance/scheduler.py, _worker() and the PriorityQueue of tuples).
THEOREM UrgentFirstAlways == SchedulerSpec => UrgentFirst
  <1> DEFINE Urgent == \A t, u \in Tasks :
       /\ stage[t] = "queued" /\ stage'[t] = "running"
       /\ stage[u] = "queued" /\ promise[u] = "pending"
       => priority[t] < priority[u] \/ (priority[t] = priority[u] /\ t <= u)
  <1>1. SchedulerInit => SchedulerInv
    BY SchedulerStarts, SchedulerAssumption
  <1>2. SchedulerInv /\ [SchedulerNext]_schedulerVars => SchedulerInv'
    BY SchedulerInductive, SchedulerAssumption
  <1>3. SchedulerInv /\ [SchedulerNext]_schedulerVars => [Urgent]_schedulerVars
    <2> SUFFICES ASSUME SchedulerInv, SchedulerNext, NEW t \in Tasks, NEW u \in Tasks,
                        stage[t] = "queued", stage'[t] = "running",
                        stage[u] = "queued", promise[u] = "pending"
                 PROVE  priority[t] < priority[u] \/ (priority[t] = priority[u] /\ t <= u)
      OBVIOUS
    <2>1. /\ stage \in [Tasks -> Stage] /\ promise \in [Tasks -> Promise]
          /\ worker \in [Slots -> Worker \cup {Gone}]
      BY DEF SchedulerInv, SchedulerTypeOK
    <2>2. t \in Nat /\ u \in Nat
      BY DEF Tasks, SchedulerAssumption
    <2>3. PICK w \in Slots :
            Take(w) \/ \E result \in {"value", "error"} : OperationEnds(w, result)
      BY SchedulerAssumption, OnlyFetchStarts
    <2>4. CASE Take(w)
      <3>1. worker[w] # Gone /\ ~worker[w].doomed /\ Fetch(w, stage, promise)
        BY <2>4 DEF Take, Waits
      <3>2. u # t => Before(t, u)
        BY <2>1, <3>1, FetchDoes, SchedulerAssumption
      <3> QED
        BY <2>2, <3>2 DEF Before
    <2>5. ASSUME NEW result \in {"value", "error"}, OperationEnds(w, result)
          PROVE  priority[t] < priority[u] \/ (priority[t] = priority[u] /\ t <= u)
      <3> DEFINE done == worker[w].task
                 places == [stage EXCEPT ![done] = "over"]
      <3>1. /\ worker[w] # Gone /\ ~worker[w].doomed /\ done # 0
            /\ promise' = Settled(done, result) /\ Fetch(w, places, promise')
        BY <2>5 DEF OperationEnds, Runs
      <3>2. done \in Tasks /\ stage[done] = "running"
        BY <2>1, <3>1, SchedulerAssumption
        DEF SchedulerInv, WorkersRunOne, Worker, Tasks, SchedulerAssumption
      <3>3. promise' \in [Tasks -> Promise] /\ \A v \in Tasks \ {done} : promise'[v] = promise[v]
        BY <2>1, <3>1, <3>2, SettledDoes DEF Promise
      <3>4. /\ places \in [Tasks -> Stage] /\ \A v \in Tasks \ {done} : places[v] = stage[v]
        BY <2>1, <3>2 DEF Stage
      <3>5. places[t] = "queued" /\ places[u] = "queued" /\ promise'[u] = "pending"
        BY <3>2, <3>3, <3>4
      <3> HIDE DEF places
      <3>6. u # t => Before(t, u)
        BY <2>1, <3>1, <3>3, <3>4, <3>5, FetchDoes, SchedulerAssumption
      <3> QED
        BY <2>2, <3>6 DEF Before
    <2> QED
      BY <2>3, <2>4, <2>5
  <1> QED
    BY <1>1, <1>2, <1>3, PTL DEF SchedulerSpec, UrgentFirst

\* The crew: alive workers belong to it, close() gathers all of it, only close() dooms.
CrewInv ==
  /\ Alive \subseteq crew
  /\ ~started => crew = {} /\ \A c \in Closers : closer[c] = "idle"
  /\ \A c \in Closers : closer[c] = "gathering" => gathered[c] = crew
  /\ \A w \in Alive : worker[w].doomed => \E c \in Closers : closer[c] = "gathering"
  /\ FixedCrew

\* One caller at a time calls close(), as a context manager's exit does.
OneCloser == \A c, d \in Closers : c = d

\* A step of a worker or of a submission that leaves the alive workers, the crew and
\* gather() alone keeps the crew.
LEMMA CrewUndisturbed ==
  ASSUME CrewInv, Alive' = Alive, UNCHANGED <<crew, started, gathered, lost>>,
         \A w \in Alive : worker'[w].doomed = worker[w].doomed,
         \A c \in Closers : closer'[c] = closer[c]
                            \/ (closer[c] = "draining" /\ closer'[c] = "drained")
  PROVE  CrewInv'
  <1>1. \A c \in Closers : /\ closer'[c] = "gathering" <=> closer[c] = "gathering"
                           /\ closer'[c] = "idle" <=> closer[c] = "idle"
    OBVIOUS
  <1>2. FixedCrew'
    BY <1>1 DEF CrewInv, FixedCrew
  <1> QED
    BY <1>1, <1>2 DEF CrewInv

LEMMA CrewInductive ==
  ASSUME SchedulerAssumption, OneCloser, SchedulerInv, CrewInv, [SchedulerNext]_schedulerVars
  PROVE  CrewInv'
  <1> USE DEF SchedulerAssumption
  <1>0. SchedulerTypeOK /\ WorkersRunOne
    BY DEF SchedulerInv
  <1>a. /\ stage \in [Tasks -> Stage] /\ promise \in [Tasks -> Promise]
        /\ worker \in [Slots -> Worker \cup {Gone}] /\ closer \in [Closers -> ClosePlace]
        /\ lost \in Nat
    BY <1>0 DEF SchedulerTypeOK
  <1>b. IsFiniteSet(Alive) /\ Cardinality(Alive) \in Nat
    <2>1. IsFiniteSet(Alive)
      BY FS_Subset DEF Alive
    <2> QED
      BY <2>1, FS_CardinalityType
  <1>1. ASSUME NEW t \in Tasks, NEW p \in Priorities, Submit(t, p)
        PROVE  CrewInv'
    <2>1. CrewHired /\ UNCHANGED <<closer, gathered>>
      BY <1>1 DEF Submit, closing
    <2>2. CASE started
      <3>1. UNCHANGED <<worker, crew, started, lost>>
        BY <2>1, <2>2 DEF CrewHired
      <3>2. Alive' = Alive
        BY <3>1 DEF Alive
      <3> QED
        BY <2>1, <3>1, <3>2, CrewUndisturbed
    <2>3. CASE ~started
      <3>1. /\ Alive = {} /\ \A c \in Closers : closer[c] = "idle"
        BY <2>3 DEF CrewInv
      <3>2. PICK hired \in SUBSET {w \in Slots :
                                   worker[w] = Gone /\ \A c \in Closers : w \notin gathered[c]} :
              /\ Cardinality(hired) = NumWorkers /\ crew' = hired
              /\ worker' = [w \in Slots |-> IF w \in hired
                                            THEN [task |-> 0, doomed |-> FALSE]
                                            ELSE worker[w]]
        BY <2>1, <2>3 DEF CrewHired
      <3>3. lost' = 0 /\ started' = TRUE
        BY <2>1, <2>3 DEF CrewHired
      <3>4. [task |-> 0, doomed |-> FALSE] # Gone
        <4>1. [task |-> 0, doomed |-> FALSE] \in Worker
          BY DEF Worker
        <4> QED
          BY <4>1
      <3>5. Alive' = hired /\ \A w \in hired : ~worker'[w].doomed
        BY <3>1, <3>2, <3>4 DEF Alive
      <3>6. FixedCrew'
        BY <3>2, <3>3, <3>5 DEF FixedCrew
      <3> QED
        BY <2>1, <3>1, <3>2, <3>3, <3>5, <3>6 DEF CrewInv
    <2> QED
      BY <2>2, <2>3
  <1>2. ASSUME NEW t \in Tasks, Enter(t) \/ Withdraw(t)
        PROVE  CrewInv'
    <2>1. UNCHANGED <<worker, crew, started, closer, gathered, lost>>
      BY <1>2 DEF Enter, Withdraw, closing
    <2>2. Alive' = Alive
      BY <2>1 DEF Alive
    <2> QED
      BY <2>1, <2>2, CrewUndisturbed
  <1>3. ASSUME NEW w \in Slots, NEW places \in [Tasks -> Stage], NEW promises \in [Tasks -> Promise],
               worker[w] # Gone, ~worker[w].doomed, Fetch(w, places, promises), WakeDrains,
               UNCHANGED <<crew, started, gathered, lost>>
        PROVE  CrewInv'
    <2>1. /\ worker' \in [Slots -> Worker \cup {Gone}]
          /\ \A v \in Slots \ {w} : worker'[v] = worker[v]
          /\ worker'[w] # Gone /\ ~worker'[w].doomed /\ worker'[w] \in Worker
      BY <1>3, <1>a, FetchDoes
    <2>2. Alive' = Alive
      BY <1>3, <2>1 DEF Alive
    <2>3. \A v \in Alive : worker'[v].doomed = worker[v].doomed
      <3>1. worker'[w].doomed = worker[w].doomed
        BY <1>3, <1>a, <2>1 DEF Worker
      <3> QED
        BY <2>1, <3>1 DEF Alive
    <2>4. \A c \in Closers : closer'[c] = closer[c]
                             \/ (closer[c] = "draining" /\ closer'[c] = "drained")
      BY <1>3, <1>a, WakeDoes
    <2> QED
      BY <1>3, <2>2, <2>3, <2>4, CrewUndisturbed
  <1>4. ASSUME NEW w \in Slots, Take(w)
        PROVE  CrewInv'
    BY <1>3, <1>4, <1>a DEF Take, Waits
  <1>5. ASSUME NEW w \in Slots, NEW result \in {"value", "error"}, OperationEnds(w, result)
        PROVE  CrewInv'
    <2> DEFINE t == worker[w].task
    <2>1. /\ worker[w] # Gone /\ ~worker[w].doomed /\ t \in Tasks
          /\ promise' = Settled(t, result) /\ Fetch(w, [stage EXCEPT ![t] = "over"], promise')
          /\ WakeDrains /\ UNCHANGED <<crew, started, gathered, lost>>
      BY <1>5, <1>a DEF OperationEnds, Runs, Worker, Tasks
    <2>2. promise' \in [Tasks -> Promise] /\ [stage EXCEPT ![t] = "over"] \in [Tasks -> Stage]
      BY <1>a, <2>1, SettledDoes DEF Promise, Stage
    <2> QED
      BY <1>3, <2>1, <2>2
  <1>6. ASSUME NEW w \in Slots, NEW result, Die(w, result), worker[w] # Gone,
               \/ lost' = lost + 1 /\ ~worker[w].doomed
               \/ worker[w].doomed
        PROVE  CrewInv'
    <2>1. /\ Alive' = Alive \ {w} /\ w \in Alive
          /\ \A v \in Alive' : worker'[v] = worker[v]
      BY <1>6, <1>a DEF Die, Alive
    <2>2. UNCHANGED <<crew, started, gathered>>
      BY <1>6 DEF Die
    <2>3. \A c \in Closers : /\ closer'[c] = "gathering" <=> closer[c] = "gathering"
                             /\ closer'[c] = "idle" <=> closer[c] = "idle"
      <3>1. CASE worker[w].task = 0
        BY <1>6, <3>1 DEF Die
      <3>2. CASE worker[w].task # 0
        BY <1>6, <1>a, <3>2, WakeDoes DEF Die
      <3> QED
        BY <3>1, <3>2
    <2>4. FixedCrew'
      <3>1. CASE lost' = lost + 1
        <4>1. Cardinality(Alive') = Cardinality(Alive) - 1
          BY <1>b, <2>1, FS_RemoveElement
        <4> QED
          BY <1>a, <1>b, <2>2, <2>3, <3>1, <4>1 DEF FixedCrew, CrewInv
      <3>2. CASE worker[w].doomed
        <4>1. PICK c \in Closers : closer[c] = "gathering"
          BY <2>1, <3>2 DEF CrewInv
        <4> QED
          BY <2>3, <4>1 DEF FixedCrew
      <3> QED
        BY <1>6, <3>1, <3>2
    <2> QED
      BY <2>1, <2>2, <2>3, <2>4 DEF CrewInv
  <1>7. ASSUME NEW w \in Slots, OperationCancelled(w) \/ WorkerCancelled(w)
        PROVE  CrewInv'
    <2>1. CASE OperationCancelled(w)
      BY <1>6, <2>1 DEF OperationCancelled, Runs
    <2>2. CASE WorkerCancelled(w)
      BY <1>6, <2>2 DEF WorkerCancelled
    <2> QED
      BY <1>7, <2>1, <2>2
  <1>8. ASSUME NEW c \in Closers, CancelCrew(c), closer[c] # "idle" \/ started,
               UNCHANGED <<crew, started, lost>>
        PROVE  CrewInv'
    <2>1. started
      BY <1>8 DEF CrewInv
    <2>2. /\ worker' \in [Slots -> Worker \cup {Gone}]
          /\ closer' = [closer EXCEPT ![c] = "gathering"]
          /\ gathered' = [gathered EXCEPT ![c] = crew]
          /\ \A w \in Slots : worker'[w] = Gone <=> worker[w] = Gone
      BY <1>0, <1>8, CancelDoes DEF CancelCrew
    <2>3. Alive' = Alive
      BY <2>2 DEF Alive
    <2>4. closer'[c] = "gathering" /\ \A d \in Closers : d = c
      BY <1>a, <2>2 DEF OneCloser
    <2>5. gathered'[c] = crew
      BY <1>0, <2>2 DEF SchedulerTypeOK
    <2>6. FixedCrew'
      BY <2>4 DEF FixedCrew
    <2> QED
      BY <1>8, <2>1, <2>3, <2>4, <2>5, <2>6 DEF CrewInv
  <1>9. ASSUME NEW c \in Closers, Close(c) \/ CloseDrained(c)
        PROVE  CrewInv'
    <2>1. UNCHANGED <<crew, started, lost>>
      BY <1>9 DEF Close, CloseDrained
    <2>2. CASE CancelCrew(c)
      BY <1>8, <1>9, <2>1, <2>2 DEF Close, CloseDrained
    <2>3. CASE Close(c) /\ ~NothingToDrain
      <3>1. closer' = [closer EXCEPT ![c] = "draining"] /\ UNCHANGED <<worker, gathered>> /\ started
            /\ closer[c] = "idle"
        BY <2>3 DEF Close
      <3>2. Alive' = Alive
        BY <3>1 DEF Alive
      <3>3. \A d \in Closers : closer'[d] # "gathering" /\ closer[d] # "gathering"
        BY <1>a, <3>1 DEF OneCloser
      <3>4. FixedCrew'
        BY <2>1, <3>1, <3>2, <3>3 DEF FixedCrew, CrewInv
      <3> QED
        BY <2>1, <3>1, <3>2, <3>3, <3>4 DEF CrewInv
    <2> QED
      BY <1>9, <2>2, <2>3 DEF Close, CloseDrained
  <1>10. ASSUME NEW c \in Closers, CloseEnds(c)
         PROVE  CrewInv'
    <2>1. /\ closer[c] = "gathering" /\ \A w \in gathered[c] : worker[w] = Gone
          /\ closer' = [closer EXCEPT ![c] = "idle"] /\ crew' = {} /\ started' = FALSE
          /\ worker' = worker
      BY <1>10 DEF CloseEnds
    <2>2. Alive' = {}
      <3>1. Alive \subseteq gathered[c]
        BY <2>1 DEF CrewInv
      <3> QED
        BY <2>1, <3>1 DEF Alive
    <2>3. \A d \in Closers : closer'[d] = "idle"
      BY <1>a, <2>1 DEF OneCloser
    <2>4. FixedCrew'
      BY <2>1 DEF FixedCrew
    <2> QED
      BY <2>1, <2>2, <2>3, <2>4 DEF CrewInv
  <1>11. CASE UNCHANGED schedulerVars
    <2>1. UNCHANGED <<worker, crew, started, closer, gathered, lost>>
      BY <1>11 DEF schedulerVars, closing
    <2>2. Alive' = Alive
      BY <2>1 DEF Alive
    <2> QED
      BY <2>1, <2>2, CrewUndisturbed
  <1> QED
    BY <1>1, <1>2, <1>4, <1>5, <1>7, <1>9, <1>10, <1>11 DEF SchedulerNext

\* With one caller of close(), restarts neither add nor lose a worker: an open scheduler
\* has all of its workers but those that an operation ended (performance/scheduler.py,
\* start(), close()).
THEOREM FixedCrewAlways ==
  ASSUME OneCloser
  PROVE  SchedulerSpec => []FixedCrew
  <1>1. SchedulerInit => SchedulerInv /\ CrewInv
    <2>1. SchedulerInit => CrewInv
      BY DEF SchedulerInit, CrewInv, FixedCrew, Alive
    <2> QED
      BY <2>1, SchedulerStarts, SchedulerAssumption
  <1>2. SchedulerInv /\ CrewInv /\ [SchedulerNext]_schedulerVars => SchedulerInv' /\ CrewInv'
    BY OneCloser, SchedulerInductive, CrewInductive, SchedulerAssumption
  <1>3. CrewInv => FixedCrew
    BY DEF CrewInv
  <1> QED
    BY <1>1, <1>2, <1>3, PTL DEF SchedulerSpec

-----------------------------------------------------------------------------
\* The concurrency limiter

LimiterTypeOK ==
  /\ work \in [Works -> WorkStage]
  /\ attempts \in [Works -> Nat]
  /\ semaphore \in [free : Nat, waiters : Seq(Works)]

\* A line holds nobody twice.
OneByOne(line) == \A m, n \in 1 .. Len(line) : line[m] = line[n] => m = n

\* Those who wait are those in the line, each once.
LineFits ==
  /\ OneByOne(semaphore.waiters)
  /\ \A n \in 1 .. Len(semaphore.waiters) : work[semaphore.waiters[n]] = "waiting"
  /\ \A w \in Works : work[w] = "waiting" => \E n \in 1 .. Len(semaphore.waiters) : semaphore.waiters[n] = w

LimiterInv == LimiterTypeOK /\ LineFits /\ PermitsConserved

\* The calls at the head of a line are as many as they are.
LEMMA HeadsCounted ==
  ASSUME NEW line \in Seq(Works), OneByOne(line), NEW k \in 0 .. Len(line)
  PROVE  LET heads == {line[n] : n \in 1 .. k}
         IN IsFiniteSet(heads) /\ Cardinality(heads) = k /\ heads \subseteq Works
  <1> DEFINE heads == {line[n] : n \in 1 .. k}
             at == [n \in 1 .. k |-> line[n]]
  <1>1. k \in Nat /\ Len(line) \in Nat /\ \A n \in 1 .. k : n \in 1 .. Len(line) /\ line[n] \in Works
    OBVIOUS
  <1>2. at \in [1 .. k -> heads]
    OBVIOUS
  <1>3. at \in Bijection(1 .. k, heads)
    <2>1. \A m, n \in 1 .. k : at[m] = at[n] => m = n
      BY <1>1 DEF OneByOne
    <2>2. \A w \in heads : \E n \in 1 .. k : at[n] = w
      OBVIOUS
    <2> HIDE DEF at, heads
    <2>3. at \in Surjection(1 .. k, heads)
      BY <1>2, <2>2, Fun_IsSurj
    <2> QED
      BY <1>2, <2>1, <2>3, Fun_IsBij
  <1>4. ExistsBijection(1 .. k, heads)
    BY <1>3 DEF ExistsBijection
  <1>5. IsFiniteSet(1 .. k) /\ Cardinality(1 .. k) = k
    BY <1>1, FS_Interval
  <1>6. IsFiniteSet(heads) /\ Cardinality(heads) = k
    BY <1>1, <1>4, <1>5, FS_Bijection
  <1> QED
    BY <1>1, <1>6

\* A line that somebody has left is the rest of it.
LEMMA WithoutFits ==
  ASSUME NEW line \in Seq(Works), OneByOne(line), NEW w \in Works
  PROVE  /\ Without(line, w) \in Seq(Works) /\ OneByOne(Without(line, w))
         /\ \A n \in 1 .. Len(Without(line, w)) :
              Without(line, w)[n] # w /\ \E m \in 1 .. Len(line) : Without(line, w)[n] = line[m]
         /\ \A m \in 1 .. Len(line) :
              line[m] # w => \E n \in 1 .. Len(Without(line, w)) : Without(line, w)[n] = line[m]
  <1>1. CASE ~\E n \in 1 .. Len(line) : line[n] = w
    BY <1>1 DEF Without
  <1>2. CASE \E n \in 1 .. Len(line) : line[n] = w
    <2> DEFINE n == CHOOSE m \in 1 .. Len(line) : line[m] = w
               before == SubSeq(line, 1, n - 1)
               after == SubSeq(line, n + 1, Len(line))
               rest == before \o after
    <2>1. n \in 1 .. Len(line) /\ line[n] = w /\ Len(line) \in Nat
      BY <1>2
    <2>2. Without(line, w) = rest
      BY <1>2 DEF Without
    <2> HIDE DEF n
    <2>3. /\ before \in Seq(Works) /\ Len(before) = n - 1
          /\ \A i \in 1 .. n - 1 : before[i] = line[i]
      BY <2>1
    <2>4. /\ after \in Seq(Works) /\ Len(after) = Len(line) - n
          /\ \A i \in 1 .. Len(line) - n : after[i] = line[n + i]
      BY <2>1
    <2> HIDE DEF before, after
    <2>5. /\ rest \in Seq(Works) /\ Len(rest) = Len(line) - 1
          /\ \A i \in 1 .. Len(line) - 1 : rest[i] = IF i < n THEN line[i] ELSE line[i + 1]
      <3>1. /\ rest \in Seq(Works) /\ Len(rest) = Len(line) - 1
            /\ \A i \in 1 .. Len(line) - 1 :
                 rest[i] = IF i <= n - 1 THEN before[i] ELSE after[i - (n - 1)]
        <4>1. /\ rest \in Seq(Works) /\ Len(rest) = Len(before) + Len(after)
              /\ \A i \in 1 .. Len(before) + Len(after) :
                   rest[i] = IF i <= Len(before) THEN before[i] ELSE after[i - Len(before)]
          BY <2>3, <2>4, ConcatProperties
        <4> HIDE DEF rest
        <4>2. Len(before) + Len(after) = Len(line) - 1
          BY <2>1, <2>3, <2>4
        <4> QED
          BY <2>3, <4>1, <4>2
      <3>2. ASSUME NEW i \in 1 .. Len(line) - 1
            PROVE  rest[i] = IF i < n THEN line[i] ELSE line[i + 1]
        <4> HIDE DEF rest
        <4>1. CASE i < n
          BY <2>1, <2>3, <3>1, <4>1
        <4>2. CASE ~(i < n)
          <5>1. i - (n - 1) \in 1 .. Len(line) - n /\ n + (i - (n - 1)) = i + 1 /\ ~(i <= n - 1)
            BY <2>1, <4>2
          <5> QED
            BY <2>4, <3>1, <4>2, <5>1
        <4> QED
          BY <4>1, <4>2
      <3> QED
        BY <3>1, <3>2
    <2> HIDE DEF rest
    <2>6. \A m \in 1 .. Len(line) : line[m] = w => m = n
      BY <2>1 DEF OneByOne
    <2>7. ASSUME NEW i \in 1 .. Len(rest)
          PROVE  /\ rest[i] # w
                 /\ \E m \in 1 .. Len(line) : rest[i] = line[m] /\ (m = IF i < n THEN i ELSE i + 1)
      BY <2>1, <2>5, <2>6
    <2>8. OneByOne(rest)
      <3> SUFFICES ASSUME NEW i \in 1 .. Len(rest), NEW j \in 1 .. Len(rest), rest[i] = rest[j]
                   PROVE  i = j
        BY DEF OneByOne
      <3> DEFINE at(k) == IF k < n THEN k ELSE k + 1
      <3>1. at(i) = at(j)
        BY <2>1, <2>5 DEF OneByOne
      <3> QED
        BY <2>1, <2>5, <3>1
    <2>9. ASSUME NEW m \in 1 .. Len(line), line[m] # w
          PROVE  \E i \in 1 .. Len(rest) : rest[i] = line[m]
      <3>1. CASE m < n
        BY <2>1, <2>5, <3>1
      <3>2. CASE m > n
        <4>1. m - 1 \in 1 .. Len(line) - 1 /\ ~(m - 1 < n) /\ (m - 1) + 1 = m
          BY <2>1, <3>2
        <4> QED
          BY <2>5, <4>1
      <3> QED
        BY <2>1, <2>9, <3>1, <3>2
    <2> QED
      BY <2>2, <2>5, <2>7, <2>8, <2>9
  <1> QED
    BY <1>1, <1>2

\* Holders are finitely many.
LEMMA HoldersCounted ==
  ASSUME LimiterAssumption, NEW S \in SUBSET Works
  PROVE  IsFiniteSet(S) /\ Cardinality(S) \in Nat
  BY FS_Subset, FS_CardinalityType DEF LimiterAssumption

\* The permit of a holder goes back, and to the first in the line if there is one.
LEMMA ReleaseKeeps ==
  ASSUME LimiterAssumption, LimiterInv, NEW w \in Works, work[w] = "running",
         NEW goal \in {"done", "raised", "backing_off", "cancelled"}, Release(w, goal),
         attempts' = attempts
  PROVE  LimiterInv'
  <1> DEFINE line == semaphore.waiters
             next == Head(line)
  <1>1. /\ semaphore \in [free : Nat, waiters : Seq(Works)] /\ work \in [Works -> WorkStage]
        /\ attempts \in [Works -> Nat] /\ line \in Seq(Works) /\ semaphore.free \in Nat
    BY DEF LimiterInv, LimiterTypeOK
  <1>2. IsFiniteSet(Holding) /\ Cardinality(Holding) \in Nat /\ Holding \subseteq Works /\ w \in Holding
    BY HoldersCounted DEF Holding
  <1>3. /\ IsFiniteSet(Holding \ {w}) /\ Cardinality(Holding \ {w}) = Cardinality(Holding) - 1
    BY <1>2, FS_RemoveElement
  <1>4. goal \in WorkStage
    BY DEF WorkStage
  <1>5. CASE line = <<>>
    <2>1. semaphore' = [semaphore EXCEPT !.free = @ + 1] /\ work' = [work EXCEPT ![w] = goal]
      BY <1>5 DEF Release
    <2>2. semaphore'.free = semaphore.free + 1 /\ semaphore'.waiters = <<>> /\ Len(<<>>) = 0
      BY <1>1, <1>5, <2>1
    <2>3. Holding' = Holding \ {w}
      BY <1>1, <2>1 DEF Holding
    <2>4. LimiterTypeOK'
      BY <1>1, <1>4, <2>1 DEF LimiterTypeOK
    <2>5. LineFits'
      BY <1>1, <1>5, <2>1, <2>2 DEF LineFits, LimiterInv, OneByOne
    <2>6. PermitsConserved'
      BY <1>1, <1>2, <1>3, <2>2, <2>3 DEF PermitsConserved, LimiterInv
    <2> QED
      BY <2>4, <2>5, <2>6 DEF LimiterInv
  <1>6. CASE line # <<>>
    <2>1. /\ semaphore' = [semaphore EXCEPT !.waiters = Tail(@)]
          /\ work' = [work EXCEPT ![w] = goal, ![next] = "handed"]
      BY <1>6 DEF Release
    <2>2. /\ next = line[1] /\ next \in Works /\ work[next] = "waiting" /\ next # w
          /\ Len(line) \in Nat \ {0}
      BY <1>1, <1>6 DEF LineFits, LimiterInv
    <2>3. /\ Tail(line) \in Seq(Works) /\ Len(Tail(line)) = Len(line) - 1
          /\ \A n \in 1 .. Len(Tail(line)) : Tail(line)[n] = line[n + 1]
      BY <1>1, <1>6, HeadTailProperties
    <2>4. semaphore'.free = semaphore.free /\ semaphore'.waiters = Tail(line)
      BY <1>1, <2>1
    <2>5. \A x \in Works : work'[x] = IF x = next THEN "handed" ELSE IF x = w THEN goal ELSE work[x]
      BY <1>1, <2>1, <2>2
    <2>6. Holding' = (Holding \ {w}) \cup {next} /\ next \notin Holding
      BY <2>2, <2>5 DEF Holding
    <2>7. Cardinality(Holding') = Cardinality(Holding)
      <3>1. next \notin Holding \ {w}
        BY <2>6
      <3>2. Cardinality((Holding \ {w}) \cup {next}) = Cardinality(Holding \ {w}) + 1
        BY <1>3, <3>1, FS_AddElement
      <3> QED
        BY <1>2, <1>3, <2>6, <3>2
    <2>8. LimiterTypeOK'
      BY <1>1, <1>4, <2>1, <2>2, <2>3 DEF LimiterTypeOK, WorkStage
    <2> HIDE DEF next, line
    <2>9. LineFits'
      <3>0. OneByOne(line) /\ (\A n \in 1 .. Len(line) : work[line[n]] = "waiting" /\ line[n] \in Works)
        BY <1>1 DEF LineFits, LimiterInv, line
      <3>1. OneByOne(Tail(line))
        BY <2>2, <2>3, <3>0 DEF OneByOne
      <3>2. ASSUME NEW n \in 1 .. Len(Tail(line)) PROVE work'[Tail(line)[n]] = "waiting"
        <4>1. Tail(line)[n] = line[n + 1] /\ n + 1 \in 1 .. Len(line) /\ 1 \in 1 .. Len(line) /\ n + 1 # 1
          BY <2>2, <2>3
        <4>2. line[n + 1] # next /\ line[n + 1] # w /\ line[n + 1] \in Works
          BY <2>2, <3>0, <4>1 DEF OneByOne
        <4> QED
          BY <2>5, <3>0, <4>1, <4>2
      <3>3. ASSUME NEW x \in Works, work'[x] = "waiting"
            PROVE  \E n \in 1 .. Len(Tail(line)) : Tail(line)[n] = x
        <4>1. work[x] = "waiting" /\ x # next
          BY <2>5, <3>3
        <4>2. PICK m \in 1 .. Len(line) : line[m] = x
          BY <4>1 DEF LineFits, LimiterInv, line
        <4>3. m - 1 \in 1 .. Len(Tail(line)) /\ Tail(line)[m - 1] = x
          BY <2>2, <2>3, <4>1, <4>2
        <4> QED
          BY <4>3
      <3> QED
        BY <2>4, <3>1, <3>2, <3>3 DEF LineFits
    <2>10. PermitsConserved'
      BY <2>2, <2>4, <2>5, <2>7 DEF PermitsConserved, LimiterInv
    <2> QED
      BY <2>8, <2>9, <2>10 DEF LimiterInv
  <1> QED
    BY <1>5, <1>6

\* A waiter leaves the line it stood in, and those who get a permit stand at its head.
LEMMA LeaveKeeps ==
  ASSUME LimiterAssumption, LimiterInv, NEW w \in Works,
         NEW goal \in {"running", "cancelled"}, NEW free \in Nat,
         NEW line \in Seq(Works), OneByOne(line),
         \A n \in 1 .. Len(line) : work[line[n]] = "waiting" /\ line[n] # w,
         \A x \in Works : work[x] = "waiting" /\ x # w => \E n \in 1 .. Len(line) : line[n] = x,
         goal = "running" => Cardinality(Holding \ {w}) + 1 + free = Permits,
         goal = "cancelled" => Cardinality(Holding \ {w}) + free = Permits,
         Leave(w, goal, free, line), attempts' = attempts
  PROVE  LimiterInv'
  <1> DEFINE woken == IF free < Len(line) THEN free ELSE Len(line)
             heads == {line[n] : n \in 1 .. woken}
             rest == SubSeq(line, woken + 1, Len(line))
             own == IF goal = "running" THEN {w} ELSE {}
  <1>1. /\ semaphore \in [free : Nat, waiters : Seq(Works)] /\ work \in [Works -> WorkStage]
        /\ attempts \in [Works -> Nat]
    BY DEF LimiterInv, LimiterTypeOK
  <1>2. Len(line) \in Nat /\ woken \in 0 .. Len(line) /\ woken <= free /\ goal \in WorkStage
    BY DEF WorkStage
  <1>3. /\ semaphore' = [free |-> free - woken, waiters |-> rest]
        /\ work' = [x \in Works |-> IF x = w THEN goal
                                    ELSE IF \E n \in 1 .. woken : line[n] = x THEN "handed"
                                    ELSE work[x]]
    BY DEF Leave
  <1> HIDE DEF woken
  <1>4. /\ rest \in Seq(Works) /\ Len(rest) = Len(line) - woken
        /\ \A n \in 1 .. Len(line) - woken : rest[n] = line[woken + n]
    BY <1>2
  <1>5. IsFiniteSet(heads) /\ Cardinality(heads) = woken /\ heads \subseteq Works
    BY <1>2, HeadsCounted
  <1>6. \A x \in heads : x # w /\ x \notin Holding
    BY <1>2 DEF Holding
  <1>7. \A x \in Works : work'[x] = IF x = w THEN goal ELSE IF x \in heads THEN "handed" ELSE work[x]
    BY <1>3
  <1> HIDE DEF heads, rest
  <1>8. Holding' = ((Holding \ {w}) \cup heads) \cup own
    BY <1>5, <1>6, <1>7 DEF Holding
  <1>9. Cardinality(Holding') = Cardinality(Holding \ {w}) + woken + (IF goal = "running" THEN 1 ELSE 0)
        /\ Cardinality(Holding \ {w}) \in Nat
    <2>1. IsFiniteSet(Holding \ {w}) /\ Cardinality(Holding \ {w}) \in Nat
      BY HoldersCounted DEF Holding
    <2>2. (Holding \ {w}) \cap heads = {}
      BY <1>6
    <2>3. /\ IsFiniteSet((Holding \ {w}) \cup heads)
          /\ Cardinality((Holding \ {w}) \cup heads) = Cardinality(Holding \ {w}) + woken
      <3>1. /\ IsFiniteSet((Holding \ {w}) \cup heads)
            /\ Cardinality((Holding \ {w}) \cup heads)
                 = Cardinality(Holding \ {w}) + Cardinality(heads)
                   - Cardinality((Holding \ {w}) \cap heads)
        BY <1>5, <2>1, FS_Union
      <3>2. Cardinality((Holding \ {w}) \cap heads) = 0
        BY <2>2, FS_EmptySet
      <3> QED
        BY <1>2, <1>5, <2>1, <3>1, <3>2
    <2>4. w \notin (Holding \ {w}) \cup heads
      BY <1>6
    <2>5. CASE goal = "running"
      <3>1. Holding' = ((Holding \ {w}) \cup heads) \cup {w}
        BY <1>8, <2>5
      <3>2. Cardinality(Holding') = Cardinality((Holding \ {w}) \cup heads) + 1
        BY <2>3, <2>4, <3>1, FS_AddElement
      <3> QED
        BY <1>2, <2>1, <2>3, <2>5, <3>2
    <2>6. CASE goal # "running"
      BY <1>2, <1>8, <2>1, <2>3, <2>6
    <2> QED
      BY <2>1, <2>5, <2>6
  <1>10. semaphore'.free = free - woken /\ semaphore'.waiters = rest
    BY <1>3
  <1>11. LimiterTypeOK'
    <2>1. work' \in [Works -> WorkStage]
      BY <1>1, <1>2, <1>3 DEF WorkStage
    <2>2. semaphore' \in [free : Nat, waiters : Seq(Works)]
      BY <1>2, <1>3, <1>4
    <2> QED
      BY <1>1, <2>1, <2>2 DEF LimiterTypeOK
  <1>12. LineFits'
    <2>1. OneByOne(rest)
      <3> SUFFICES ASSUME NEW m \in 1 .. Len(rest), NEW n \in 1 .. Len(rest), rest[m] = rest[n]
                   PROVE  m = n
        BY DEF OneByOne
      <3>1. woken + m \in 1 .. Len(line) /\ woken + n \in 1 .. Len(line)
        BY <1>2, <1>4
      <3>2. woken + m = woken + n
        BY <1>4, <3>1 DEF OneByOne
      <3> QED
        BY <1>2, <3>2
    <2>2. ASSUME NEW n \in 1 .. Len(rest) PROVE work'[rest[n]] = "waiting"
      <3>1. woken + n \in 1 .. Len(line) /\ rest[n] = line[woken + n] /\ ~(woken + n <= woken)
        BY <1>2, <1>4
      <3>2. rest[n] \notin heads
        <4>1. \A m \in 1 .. woken : m \in 1 .. Len(line) /\ m # woken + n
          BY <1>2
        <4> QED
          BY <3>1, <4>1 DEF heads, OneByOne
      <3>3. rest[n] \in Works /\ rest[n] # w /\ work[rest[n]] = "waiting"
        BY <3>1
      <3> QED
        BY <1>7, <3>2, <3>3
    <2>3. ASSUME NEW x \in Works, work'[x] = "waiting" PROVE \E n \in 1 .. Len(rest) : rest[n] = x
      <3>1. x # w /\ x \notin heads /\ work[x] = "waiting"
        BY <1>7, <2>3
      <3>2. PICK m \in 1 .. Len(line) : line[m] = x
        BY <3>1
      <3>3. ~(m <= woken)
        BY <1>2, <3>1, <3>2 DEF heads
      <3>4. m - woken \in 1 .. Len(rest) /\ woken + (m - woken) = m
        BY <1>2, <1>4, <3>3
      <3> QED
        BY <1>4, <3>2, <3>4
    <2> QED
      BY <1>10, <2>1, <2>2, <2>3 DEF LineFits
  <1>13. PermitsConserved'
    <2>1. Cardinality(Holding') + (free - woken) = Permits
      BY <1>2, <1>9
    <2>2. free - woken > 0 => rest = <<>>
      BY <1>2, <1>4 DEF woken
    <2> QED
      BY <1>10, <2>1, <2>2 DEF PermitsConserved
  <1> QED
    BY <1>11, <1>12, <1>13 DEF LimiterInv

LEMMA LimiterInductive == LimiterSpec => []LimiterInv
  <1>1. LimiterInit => LimiterInv
    <2> SUFFICES ASSUME LimiterInit PROVE LimiterInv
      OBVIOUS
    <2>1. LimiterTypeOK
      BY LimiterAssumption DEF LimiterInit, LimiterTypeOK, LimiterAssumption, WorkStage
    <2>2. Holding = {} /\ Cardinality({}) = 0
      BY FS_EmptySet DEF Holding, LimiterInit
    <2>3. semaphore.free = Permits /\ semaphore.waiters = <<>>
      BY DEF LimiterInit
    <2>4. LineFits
      BY <2>3 DEF LineFits, LimiterInit, OneByOne
    <2>5. PermitsConserved
      BY <2>2, <2>3, LimiterAssumption DEF PermitsConserved, LimiterAssumption
    <2> QED
      BY <2>1, <2>4, <2>5 DEF LimiterInv
  <1>2. LimiterInv /\ [LimiterNext]_limiterVars => LimiterInv'
    <2> SUFFICES ASSUME LimiterInv, [LimiterNext]_limiterVars PROVE LimiterInv'
      OBVIOUS
    <2>0. /\ semaphore \in [free : Nat, waiters : Seq(Works)] /\ work \in [Works -> WorkStage]
          /\ attempts \in [Works -> Nat]
          /\ semaphore.free \in Nat /\ semaphore.waiters \in Seq(Works)
      BY DEF LimiterInv, LimiterTypeOK
    <2>a. /\ IsFiniteSet(Holding) /\ Cardinality(Holding) \in Nat
          /\ Cardinality(Holding) + semaphore.free = Permits /\ Permits \in Nat
      BY LimiterAssumption, HoldersCounted DEF Holding, LimiterInv, PermitsConserved, LimiterAssumption
    <2>b. LineFits
      BY DEF LimiterInv
    <2>1. ASSUME NEW w \in Works, Attempting(w) PROVE LimiterInv'
      <3>1. work[w] \in {"new", "backing_off"} /\ attempts' \in [Works -> Nat] /\ w \notin Holding
        BY <2>0, <2>1 DEF Attempting, Holding
      <3>2. CASE semaphore.free > 0 /\ \A x \in Works : work[x] \notin {"waiting", "handed"}
        <4>1. /\ semaphore' = [semaphore EXCEPT !.free = @ - 1]
              /\ work' = [work EXCEPT ![w] = "running"]
          BY <2>1, <3>2 DEF Attempting, Acquire
        <4>2. /\ semaphore'.free = semaphore.free - 1 /\ semaphore'.waiters = semaphore.waiters
          BY <2>0, <4>1
        <4>3. Len(semaphore.waiters) = 0 /\ semaphore.waiters = <<>>
          <5>1. ~(1 \in 1 .. Len(semaphore.waiters))
            BY <2>0, <2>b, <3>2 DEF LineFits
          <5> QED
            BY <2>0, <5>1
        <4>4. Holding' = Holding \cup {w}
          BY <2>0, <4>1 DEF Holding
        <4>5. Cardinality(Holding') = Cardinality(Holding) + 1
          BY <2>a, <3>1, <4>4, FS_AddElement
        <4>6. LimiterTypeOK'
          <5>1. semaphore' = [free |-> semaphore.free - 1, waiters |-> semaphore.waiters]
            BY <2>0, <4>1
          <5>2. semaphore.free - 1 \in Nat
            BY <2>0, <3>2
          <5>3. work' \in [Works -> WorkStage]
            BY <2>0, <4>1 DEF WorkStage
          <5> QED
            BY <2>0, <3>1, <5>1, <5>2, <5>3 DEF LimiterTypeOK
        <4>7. LineFits'
          BY <2>0, <2>b, <3>2, <4>1, <4>2, <4>3 DEF LineFits, OneByOne
        <4>8. PermitsConserved'
          BY <2>0, <2>a, <4>2, <4>3, <4>5 DEF PermitsConserved
        <4> QED
          BY <4>6, <4>7, <4>8 DEF LimiterInv
      <3>3. CASE ~(semaphore.free > 0 /\ \A x \in Works : work[x] \notin {"waiting", "handed"})
        <4> DEFINE line == semaphore.waiters
                   more == Append(line, w)
        <4>1. /\ semaphore' = [semaphore EXCEPT !.waiters = more]
              /\ work' = [work EXCEPT ![w] = "waiting"]
          BY <2>1, <3>3 DEF Attempting, Acquire
        <4>2. semaphore'.free = semaphore.free /\ semaphore'.waiters = more
          BY <2>0, <4>1
        <4>3. /\ more \in Seq(Works) /\ Len(more) = Len(line) + 1 /\ Len(line) \in Nat
              /\ more[Len(line) + 1] = w /\ \A n \in 1 .. Len(line) : more[n] = line[n]
          BY <2>0
        <4>4. /\ OneByOne(line) /\ \A n \in 1 .. Len(line) : work[line[n]] = "waiting" /\ line[n] \in Works
              /\ \A x \in Works : work[x] = "waiting" => \E n \in 1 .. Len(line) : line[n] = x
          BY <2>0, <2>b DEF LineFits
        <4>5. \A n \in 1 .. Len(line) : line[n] # w
          BY <3>1, <4>4
        <4>6. Holding' = Holding
          BY <2>0, <3>1, <4>1 DEF Holding
        <4>7. LimiterTypeOK'
          BY <2>0, <3>1, <4>1, <4>3 DEF LimiterTypeOK, WorkStage
        <4>p. semaphore.free > 0 => \E x \in Works : work[x] = "handed"
          <5> SUFFICES ASSUME semaphore.free > 0 PROVE \E x \in Works : work[x] = "handed"
            OBVIOUS
          <5>1. PICK x \in Works : work[x] \in {"waiting", "handed"}
            BY <3>3
          <5>2. work[x] = "waiting" => semaphore.waiters # <<>>
            BY <4>4
          <5> QED
            BY <5>1, <5>2 DEF LimiterInv, PermitsConserved
        <4> HIDE DEF line, more
        <4>8. OneByOne(more)
          <5> SUFFICES ASSUME NEW m \in 1 .. Len(more), NEW n \in 1 .. Len(more), more[m] = more[n]
                       PROVE  m = n
            BY DEF OneByOne
          <5>1. /\ m \in 1 .. Len(line) \/ m = Len(line) + 1
                /\ n \in 1 .. Len(line) \/ n = Len(line) + 1
            BY <4>3
          <5> QED
            BY <4>3, <4>4, <4>5, <5>1 DEF OneByOne
        <4>9. \A x \in Works : work'[x] = IF x = w THEN "waiting" ELSE work[x]
          BY <2>0, <4>1
        <4>10. LineFits'
          <5>1. ASSUME NEW n \in 1 .. Len(more) PROVE work'[more[n]] = "waiting"
            <6>1. n \in 1 .. Len(line) \/ n = Len(line) + 1
              BY <4>3
            <6> QED
              BY <4>3, <4>4, <4>9, <6>1
          <5>2. ASSUME NEW x \in Works, work'[x] = "waiting" PROVE \E n \in 1 .. Len(more) : more[n] = x
            <6>1. CASE x = w
              BY <4>3, <6>1
            <6>2. CASE x # w
              BY <4>3, <4>4, <4>9, <5>2, <6>2
            <6> QED
              BY <6>1, <6>2
          <5> QED
            BY <4>2, <4>8, <5>1, <5>2 DEF LineFits
        <4>11. PermitsConserved'
          BY <2>a, <3>1, <4>2, <4>6, <4>p, <4>9 DEF PermitsConserved
        <4> QED
          BY <4>7, <4>10, <4>11 DEF LimiterInv
      <3> QED
        BY <3>2, <3>3
    <2>2. ASSUME NEW w \in Works, RunsOn(w) PROVE LimiterInv'
      <3>1. work[w] = "handed" /\ w \in Holding /\ attempts' = attempts
        BY <2>2 DEF RunsOn, Holding
      <3>2. Cardinality(Holding \ {w}) = Cardinality(Holding) - 1
        BY <2>a, <3>1, FS_RemoveElement
      <3>3. Cardinality(Holding \ {w}) + 1 + semaphore.free = Permits
        BY <2>0, <2>a, <3>2
      <3>4. Leave(w, "running", semaphore.free, semaphore.waiters)
        BY <2>2 DEF RunsOn
      <3> QED
        BY <2>0, <2>b, <3>1, <3>3, <3>4, LimiterAssumption, LeaveKeeps DEF LineFits
    <2>3. ASSUME NEW w \in Works, Returns(w) \/ Raises(w) PROVE LimiterInv'
      BY <2>3, LimiterAssumption, ReleaseKeeps DEF Returns, Raises
    <2>4. ASSUME NEW w \in Works, WorkCancelled(w) PROVE LimiterInv'
      <3> DEFINE line == semaphore.waiters
                 left == Without(line, w)
      <3>0. /\ left \in Seq(Works) /\ OneByOne(left)
            /\ \A n \in 1 .. Len(left) : work[left[n]] = "waiting" /\ left[n] # w
            /\ \A x \in Works : work[x] = "waiting" /\ x # w => \E n \in 1 .. Len(left) : left[n] = x
        <4>1. line \in Seq(Works) /\ OneByOne(line)
          BY <2>0, <2>b DEF LineFits
        <4>2. /\ left \in Seq(Works) /\ OneByOne(left)
              /\ \A n \in 1 .. Len(left) :
                   left[n] # w /\ \E m \in 1 .. Len(line) : left[n] = line[m]
              /\ \A m \in 1 .. Len(line) :
                   line[m] # w => \E n \in 1 .. Len(left) : left[n] = line[m]
          BY <4>1, WithoutFits
        <4> HIDE DEF left
        <4>3. ASSUME NEW n \in 1 .. Len(left) PROVE work[left[n]] = "waiting"
          <5>1. PICK m \in 1 .. Len(line) : left[n] = line[m]
            BY <4>2
          <5> QED
            BY <2>b, <5>1 DEF LineFits
        <4>4. ASSUME NEW x \in Works, work[x] = "waiting", x # w
              PROVE  \E n \in 1 .. Len(left) : left[n] = x
          <5>1. PICK m \in 1 .. Len(line) : line[m] = x
            BY <2>b, <4>4 DEF LineFits
          <5> QED
            BY <4>2, <4>4, <5>1
        <4> QED
          BY <4>2, <4>3, <4>4
      <3>1. CASE work[w] = "handed"
        <4> DEFINE free == semaphore.free + 1
        <4>1. Leave(w, "cancelled", free, left) /\ attempts' = attempts
          BY <2>4, <3>1 DEF WorkCancelled, InHand
        <4>2. Cardinality(Holding \ {w}) = Cardinality(Holding) - 1
          BY <2>a, <3>1, FS_RemoveElement DEF Holding
        <4>3. Cardinality(Holding \ {w}) + free = Permits /\ free \in Nat
          BY <2>0, <2>a, <4>2
        <4>4. /\ left \in Seq(Works) /\ OneByOne(left)
              /\ \A n \in 1 .. Len(left) : work[left[n]] = "waiting" /\ left[n] # w
              /\ \A x \in Works : work[x] = "waiting" /\ x # w => \E n \in 1 .. Len(left) : left[n] = x
          BY <3>0
        <4> HIDE DEF left, free
        <4> QED
          BY <4>1, <4>3, <4>4, LimiterAssumption, LeaveKeeps
      <3>2. CASE work[w] = "waiting"
        <4>1. Leave(w, "cancelled", semaphore.free + 0, Without(semaphore.waiters, w)) /\ attempts' = attempts
          BY <2>4, <3>2 DEF WorkCancelled, InHand
        <4>2. Cardinality(Holding \ {w}) = Cardinality(Holding) /\ semaphore.free + 0 = semaphore.free
          <5>1. Holding \ {w} = Holding
            BY <3>2 DEF Holding
          <5>2. semaphore.free + 0 = semaphore.free
            BY <2>0
          <5> QED
            BY <5>1, <5>2
        <4>3. Cardinality(Holding \ {w}) + semaphore.free = Permits
          BY <2>0, <2>a, <4>2
        <4>4. /\ left \in Seq(Works) /\ OneByOne(left)
              /\ \A n \in 1 .. Len(left) : work[left[n]] = "waiting" /\ left[n] # w
              /\ \A x \in Works : work[x] = "waiting" /\ x # w => \E n \in 1 .. Len(left) : left[n] = x
          BY <3>0
        <4>5. Leave(w, "cancelled", semaphore.free, left)
          BY <4>1, <4>2
        <4> HIDE DEF left
        <4> QED
          BY <2>0, <4>1, <4>3, <4>4, <4>5, LimiterAssumption, LeaveKeeps
      <3>3. CASE work[w] = "backing_off"
        <4>1. work' = [work EXCEPT ![w] = "cancelled"] /\ UNCHANGED <<semaphore, attempts>>
          BY <2>4, <3>3 DEF WorkCancelled
        <4>2. Holding' = Holding
          BY <2>0, <3>3, <4>1 DEF Holding
        <4>3. \A x \in Works : work'[x] = IF x = w THEN "cancelled" ELSE work[x]
          BY <2>0, <4>1
        <4>4. LimiterTypeOK'
          BY <2>0, <4>1 DEF LimiterTypeOK, WorkStage
        <4>5. LineFits'
          BY <2>0, <2>b, <3>3, <4>1, <4>3 DEF LineFits
        <4>6. PermitsConserved'
          BY <3>3, <4>1, <4>2, <4>3 DEF LimiterInv, PermitsConserved
        <4> QED
          BY <4>4, <4>5, <4>6 DEF LimiterInv
      <3>4. CASE work[w] = "running"
        BY <2>4, <3>4, LimiterAssumption, ReleaseKeeps DEF WorkCancelled
      <3> QED
        BY <2>4, <3>1, <3>2, <3>3, <3>4 DEF WorkCancelled
    <2>5. CASE UNCHANGED limiterVars
      BY <2>5 DEF limiterVars, LimiterInv, LimiterTypeOK, LineFits, PermitsConserved, Holding
    <2> QED
      BY <2>1, <2>2, <2>3, <2>4, <2>5 DEF LimiterNext
  <1> QED
    BY <1>1, <1>2, PTL DEF LimiterSpec

\* For any number of calls and permits, wherever calls are cancelled: every permit is
\* free or held by one operation, and none stays free behind a line of waiters unless
\* one of them has been woken.
THEOREM PermitsAreConserved == LimiterSpec => []PermitsConserved
  BY LimiterInductive, PTL DEF LimiterInv
=============================================================================
