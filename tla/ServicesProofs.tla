--------------------------- MODULE ServicesProofs ---------------------------
(***************************************************************************)
(* Proofs about six of the parts the services run interleaves: the events  *)
(* of the core runtime reach the handlers that were registered when they   *)
(* were emitted, what a write did to an outside service is audited, the    *)
(* observer of an agent's run is told what happened, the gates of the      *)
(* evaluation and of the red team let nothing unsafe pass, and what the    *)
(* context builder and the model router choose can be explained.           *)
(***************************************************************************)
EXTENDS RuntimeEvents, ExternalWrites, AgentRuntime, Evaluation, Choices, FiniteSetTheorems,
        SequenceTheorems, WellFoundedInduction, TLAPS

-----------------------------------------------------------------------------
\* Events of the core runtime

Delivery ==
  [copy : Seq(Handlers), called : Seq(Handlers), outcome : {"open", "returned", "raised"}]

Frame == [event : Nat, returned : Nat, running : BOOLEAN]

RuntimeTypeOK ==
  /\ handlers \in Seq(Handlers)
  /\ emitting \in Seq(Frame)
  /\ emitted \in Seq(Delivery)

\* Handlers called by a frame: those that returned and the one that runs.
Begun(f) == IF f.running THEN f.returned + 1 ELSE f.returned

\* A call of emit that is under way is the only one of its event.
FramesFit ==
  /\ \A d \in DOMAIN emitting :
       /\ emitting[d].event \in DOMAIN emitted
       /\ emitted[emitting[d].event].outcome = "open"
       /\ Len(emitted[emitting[d].event].called) = Begun(emitting[d])
  /\ \A c, d \in DOMAIN emitting : emitting[c].event = emitting[d].event => c = d

\* An event was given to a prefix of the handlers it is for: all of them, or at least
\* the one that raised.
InOrder(event) ==
  /\ Len(event.called) <= Len(event.copy)
  /\ \A n \in 1 .. Len(event.called) : event.called[n] = event.copy[n]
  /\ event.outcome = "returned" => Len(event.called) = Len(event.copy)
  /\ event.outcome = "raised" => Len(event.called) > 0

RuntimeInv ==
  /\ RuntimeTypeOK
  /\ FramesFit
  /\ \A e \in DOMAIN emitted : InOrder(emitted[e])

\* Replacing one element of a sequence.
LEMMA Replaced ==
  ASSUME NEW S, NEW seq \in Seq(S), NEW i \in DOMAIN seq, NEW x \in S
  PROVE  /\ [seq EXCEPT ![i] = x] \in Seq(S)
         /\ DOMAIN [seq EXCEPT ![i] = x] = DOMAIN seq
         /\ [seq EXCEPT ![i] = x][i] = x
         /\ \A j \in DOMAIN seq : j # i => [seq EXCEPT ![i] = x][j] = seq[j]
  <1>1. DOMAIN seq = 1 .. Len(seq)
    BY LenProperties
  <1> QED
    BY <1>1, ExceptSeq

\* The innermost frame is a frame of an event of its own.
LEMMA InnerFits ==
  ASSUME RuntimeInv, Depth > 0
  PROVE  /\ Depth \in Nat /\ Depth \in DOMAIN emitting
         /\ Inner \in Frame
         /\ Inner.event \in DOMAIN emitted
         /\ emitted[Inner.event] \in Delivery
         /\ emitted[Inner.event].outcome = "open"
         /\ Len(emitted[Inner.event].called) = Begun(Inner)
         /\ \A d \in DOMAIN emitting : emitting[d].event = Inner.event => d = Depth
  <1>1. emitting \in Seq(Frame) /\ emitted \in Seq(Delivery)
    BY DEF RuntimeInv, RuntimeTypeOK
  <1>2. Depth \in Nat /\ Depth \in DOMAIN emitting
    BY <1>1 DEF Depth
  <1>3. Inner \in Frame
    BY <1>1, <1>2 DEF Inner
  <1> QED
    BY <1>1, <1>2, <1>3 DEF RuntimeInv, FramesFit, Inner

\* Taking the innermost frame away leaves the others as they are.
LEMMA OuterFits ==
  ASSUME RuntimeInv, Depth > 0
  PROVE  /\ Outer \in Seq(Frame)
         /\ DOMAIN Outer = DOMAIN emitting \ {Depth}
         /\ \A d \in DOMAIN Outer : Outer[d] = emitting[d]
  <1>1. emitting \in Seq(Frame) /\ Depth \in Nat /\ Depth = Len(emitting)
    BY InnerFits DEF RuntimeInv, RuntimeTypeOK, Depth
  <1>2. /\ Outer \in Seq(Frame)
        /\ Len(Outer) = Depth - 1
        /\ \A i \in 1 .. Depth - 1 : Outer[i] = emitting[i]
    BY <1>1, SubSeqProperties DEF Outer
  <1>3. DOMAIN emitting = 1 .. Depth /\ DOMAIN Outer = 1 .. Depth - 1
    BY <1>1, <1>2
  <1>4. 1 .. Depth - 1 = (1 .. Depth) \ {Depth}
    BY <1>1
  <1> QED
    BY <1>2, <1>3, <1>4

\* The end of the innermost emit, which gives its event an outcome.
LEMMA EndFits ==
  ASSUME RuntimeInv, Depth > 0, NEW how \in {"returned", "raised"},
         emitting' = Outer, handlers' = handlers,
         emitted' = [emitted EXCEPT ![Inner.event].outcome = how],
         InOrder([emitted[Inner.event] EXCEPT !.outcome = how])
  PROVE  RuntimeInv'
  <1> DEFINE e == Inner.event
             event == [emitted[e] EXCEPT !.outcome = how]
  <1>1. /\ e \in DOMAIN emitted /\ emitted[e] \in Delivery
        /\ \A d \in DOMAIN emitting : emitting[d].event = e => d = Depth
    BY InnerFits
  <1>2. emitted \in Seq(Delivery) /\ handlers \in Seq(Handlers)
    BY DEF RuntimeInv, RuntimeTypeOK
  <1>3. event \in Delivery
    BY <1>1 DEF Delivery
  <1>4. /\ emitted' = [emitted EXCEPT ![e] = event]
        /\ InOrder(event)
    BY <1>1 DEF Delivery
  <1> HIDE DEF e, event
  <1>5. /\ emitted' \in Seq(Delivery) /\ DOMAIN emitted' = DOMAIN emitted
        /\ emitted'[e] = event
        /\ \A x \in DOMAIN emitted : x # e => emitted'[x] = emitted[x]
    <2> DEFINE new == [emitted EXCEPT ![e] = event]
    <2>1. /\ new \in Seq(Delivery) /\ DOMAIN new = DOMAIN emitted
          /\ new[e] = event
          /\ \A x \in DOMAIN emitted : x # e => new[x] = emitted[x]
      BY <1>1, <1>2, <1>3, Replaced, Zenon
    <2> QED
      BY <1>4, <2>1, Zenon
  <1>6. RuntimeTypeOK'
    BY <1>2, <1>5, OuterFits DEF RuntimeTypeOK
  <1>7. \A d \in DOMAIN Outer : Outer[d] = emitting[d] /\ d \in DOMAIN emitting /\ emitting[d].event # e
    <2>1. \A d \in DOMAIN Outer : Outer[d] = emitting[d] /\ d \in DOMAIN emitting /\ d # Depth
      BY OuterFits
    <2> QED
      BY <1>1, <2>1, Zenon
  <1>8. FramesFit'
    <2>1. FramesFit
      BY DEF RuntimeInv
    <2>2. \A d \in DOMAIN emitting' :
            /\ d \in DOMAIN emitting /\ emitting'[d] = emitting[d]
            /\ emitting[d].event \in DOMAIN emitted'
            /\ emitted'[emitting[d].event] = emitted[emitting[d].event]
      BY <1>5, <1>7, <2>1 DEF FramesFit
    <2>3. \A d \in DOMAIN emitting' :
            /\ emitting'[d].event \in DOMAIN emitted'
            /\ emitted'[emitting'[d].event].outcome = "open"
            /\ Len(emitted'[emitting'[d].event].called) = Begun(emitting'[d])
      <3> TAKE d \in DOMAIN emitting'
      <3>1. /\ emitted[emitting[d].event].outcome = "open"
            /\ Len(emitted[emitting[d].event].called) = Begun(emitting[d])
        BY <2>1, <2>2 DEF FramesFit
      <3> QED
        BY <2>2, <3>1, Zenon
    <2>4. \A c, d \in DOMAIN emitting' : emitting'[c].event = emitting'[d].event => c = d
      BY <2>1, <2>2 DEF FramesFit
    <2> QED
      BY <2>3, <2>4 DEF FramesFit, Begun
  <1>9. \A x \in DOMAIN emitted' : InOrder(emitted'[x])
    BY <1>4, <1>5 DEF RuntimeInv
  <1> QED
    BY <1>6, <1>8, <1>9 DEF RuntimeInv, InOrder

\* Every step keeps the frames and the events they belong to in accord.
LEMMA RuntimeInductive == RuntimeSpec => []RuntimeInv
  <1>1. RuntimeInit => RuntimeInv
    BY DEF RuntimeInit, RuntimeInv, RuntimeTypeOK, FramesFit
  <1>2. RuntimeInv /\ [RuntimeNext]_runtimeVars => RuntimeInv'
    <2> SUFFICES ASSUME RuntimeInv, [RuntimeNext]_runtimeVars PROVE RuntimeInv'
      OBVIOUS
    <2>0. /\ handlers \in Seq(Handlers) /\ emitting \in Seq(Frame) /\ emitted \in Seq(Delivery)
          /\ Depth \in Nat /\ Depth = Len(emitting)
      BY DEF RuntimeInv, RuntimeTypeOK, Depth
    <2>1. CASE UNCHANGED <<emitting, emitted>> /\ handlers' \in Seq(Handlers)
      BY <2>0, <2>1 DEF RuntimeInv, RuntimeTypeOK, FramesFit, InOrder
    <2>2. CASE EmitEvent
      <3> DEFINE event == [copy |-> handlers, called |-> <<>>, outcome |-> "open"]
                 frame == [event |-> Len(emitted) + 1, returned |-> 0, running |-> FALSE]
                 last == Len(emitted) + 1
      <3>1. /\ emitted' = Append(emitted, event) /\ emitting' = Append(emitting, frame)
            /\ handlers' = handlers
        BY <2>2 DEF EmitEvent
      <3>2. event \in Delivery /\ frame \in Frame
        BY <2>0 DEF Delivery, Frame
      <3>3. InOrder(event) /\ event.outcome = "open" /\ Len(event.called) = 0
        BY <2>0 DEF InOrder
      <3>4. Begun(frame) = 0 /\ frame.event = last
        BY DEF Begun
      <3> HIDE DEF event, frame
      <3>5. /\ emitted' \in Seq(Delivery) /\ emitting' \in Seq(Frame)
            /\ DOMAIN emitted' = DOMAIN emitted \cup {last} /\ emitted'[last] = event
            /\ last \notin DOMAIN emitted
            /\ \A x \in DOMAIN emitted : emitted'[x] = emitted[x]
        BY <2>0, <3>1, <3>2
      <3>6. /\ DOMAIN emitting' = DOMAIN emitting \cup {Depth + 1}
            /\ Depth + 1 \notin DOMAIN emitting
            /\ emitting'[Depth + 1] = frame
            /\ \A d \in DOMAIN emitting : emitting'[d] = emitting[d]
        BY <2>0, <3>1, <3>2
      <3>7. FramesFit'
        BY <3>3, <3>4, <3>5, <3>6 DEF FramesFit, RuntimeInv, Begun
      <3>8. \A x \in DOMAIN emitted' : InOrder(emitted'[x])
        BY <3>3, <3>5 DEF RuntimeInv
      <3> QED
        BY <2>0, <3>1, <3>5, <3>7, <3>8 DEF RuntimeInv, RuntimeTypeOK, InOrder
    <2>3. CASE CallHandler
      <3> DEFINE e == Inner.event
                 old == emitted[e]
                 next == Inner.returned + 1
                 event == [old EXCEPT !.called = Append(@, old.copy[next])]
                 frame == [Inner EXCEPT !.running = TRUE]
      <3>1. /\ Depth > 0 /\ ~Inner.running /\ next <= Len(old.copy)
            /\ emitting' = [emitting EXCEPT ![Depth].running = TRUE]
            /\ emitted' = [emitted EXCEPT ![e].called = Append(@, old.copy[next])]
            /\ handlers' = handlers
        BY <2>3 DEF CallHandler, Receivers
      <3>2. /\ Depth \in DOMAIN emitting /\ Inner \in Frame /\ e \in DOMAIN emitted
            /\ old \in Delivery /\ old.outcome = "open" /\ InOrder(old)
            /\ Len(old.called) = Inner.returned
            /\ \A d \in DOMAIN emitting : emitting[d].event = e => d = Depth
        BY <3>1, InnerFits DEF Begun, RuntimeInv
      <3>3. /\ next \in 1 .. Len(old.copy) /\ old.copy[next] \in Handlers
            /\ old.copy \in Seq(Handlers) /\ old.called \in Seq(Handlers)
        <4>1. old.copy \in Seq(Handlers) /\ old.called \in Seq(Handlers)
          BY <3>2 DEF Delivery
        <4>2. next \in 1 .. Len(old.copy)
          BY <3>1, <3>2, <4>1 DEF Frame
        <4> HIDE DEF old, next
        <4> QED
          BY <4>1, <4>2
      <3>4. /\ event \in Delivery /\ event.outcome = "open" /\ event.copy = old.copy
            /\ event.called = Append(old.called, old.copy[next])
        <4>1. Append(old.called, old.copy[next]) \in Seq(Handlers)
          BY <3>3
        <4>2. \A o \in Delivery, x \in Seq(Handlers) :
                /\ [o EXCEPT !.called = x] \in Delivery
                /\ [o EXCEPT !.called = x].called = x
                /\ [o EXCEPT !.called = x].copy = o.copy
                /\ [o EXCEPT !.called = x].outcome = o.outcome
          BY DEF Delivery
        <4> HIDE DEF old, next
        <4> QED
          BY <3>2, <4>1, <4>2
      <3>5. Len(event.called) = next /\ InOrder(event)
        BY <3>1, <3>2, <3>3, <3>4 DEF InOrder, Delivery, Frame
      <3>6. frame \in Frame /\ frame.event = e /\ Begun(frame) = next
        BY <3>2 DEF Frame, Begun
      <3>7. /\ emitting' = [emitting EXCEPT ![Depth] = frame]
            /\ emitted' = [emitted EXCEPT ![e] = event]
        BY <3>1, <3>2 DEF Inner
      <3> HIDE DEF e, old, next, event, frame
      <3>8. /\ emitting' \in Seq(Frame) /\ DOMAIN emitting' = DOMAIN emitting
            /\ emitting'[Depth] = frame
            /\ \A d \in DOMAIN emitting : d # Depth => emitting'[d] = emitting[d]
        BY <2>0, <3>2, <3>6, <3>7, Replaced
      <3>9. /\ emitted' \in Seq(Delivery) /\ DOMAIN emitted' = DOMAIN emitted
            /\ emitted'[e] = event
            /\ \A x \in DOMAIN emitted : x # e => emitted'[x] = emitted[x]
        <4> DEFINE new == [emitted EXCEPT ![e] = event]
        <4>1. /\ new \in Seq(Delivery) /\ DOMAIN new = DOMAIN emitted
              /\ new[e] = event
              /\ \A x \in DOMAIN emitted : x # e => new[x] = emitted[x]
          BY <2>0, <3>2, <3>4, Replaced, Zenon
        <4> QED
          BY <3>7, <4>1, Zenon
      <3>10. FramesFit'
        <4>1. FramesFit
          BY DEF RuntimeInv
        <4>2. \A d \in DOMAIN emitting' :
                /\ d \in DOMAIN emitting
                /\ emitting'[d].event = emitting[d].event
          BY <3>2, <3>6, <3>8 DEF Inner, e
        <4>3. \A d \in DOMAIN emitting' : d # Depth =>
                /\ emitting'[d] = emitting[d]
                /\ emitting[d].event \in DOMAIN emitted
                /\ emitted'[emitting[d].event] = emitted[emitting[d].event]
          BY <3>2, <3>8, <3>9, <4>1 DEF FramesFit
        <4>4. \A d \in DOMAIN emitting' :
                /\ emitting'[d].event \in DOMAIN emitted'
                /\ emitted'[emitting'[d].event].outcome = "open"
                /\ Len(emitted'[emitting'[d].event].called) = Begun(emitting'[d])
          BY <3>2, <3>4, <3>5, <3>6, <3>8, <3>9, <4>1, <4>3 DEF FramesFit
        <4> QED
          BY <4>1, <4>2, <4>4 DEF FramesFit, Begun
      <3>11. \A x \in DOMAIN emitted' : InOrder(emitted'[x])
        BY <3>5, <3>9 DEF RuntimeInv
      <3> QED
        BY <2>0, <3>1, <3>8, <3>9, <3>10, <3>11 DEF RuntimeInv, RuntimeTypeOK, InOrder
    <2>4. CASE HandlerDone
      <3> DEFINE frame == [event |-> Inner.event, returned |-> Inner.returned + 1,
                           running |-> FALSE]
      <3>1. /\ Depth > 0 /\ Inner.running
            /\ emitting' = [emitting EXCEPT ![Depth] = frame]
            /\ emitted' = emitted /\ handlers' = handlers
        BY <2>4 DEF HandlerDone, Inner
      <3>2. Depth \in DOMAIN emitting /\ Inner \in Frame
        BY <3>1, InnerFits
      <3>3. /\ frame \in Frame /\ frame.event = Inner.event
            /\ Begun(frame) = Begun(Inner)
        BY <3>1, <3>2 DEF Frame, Begun
      <3> HIDE DEF frame
      <3>5. /\ emitting' \in Seq(Frame) /\ DOMAIN emitting' = DOMAIN emitting
            /\ emitting'[Depth] = frame
            /\ \A d \in DOMAIN emitting : d # Depth => emitting'[d] = emitting[d]
        BY <2>0, <3>1, <3>2, <3>3, Replaced
      <3>6. FramesFit'
        BY <3>1, <3>2, <3>3, <3>5 DEF FramesFit, RuntimeInv, Inner, Begun
      <3> QED
        BY <2>0, <3>1, <3>5, <3>6 DEF RuntimeInv, RuntimeTypeOK, InOrder
    <2>5. CASE HandlerRaisesOut
      <3> DEFINE old == emitted[Inner.event]
                 event == [old EXCEPT !.outcome = "raised"]
      <3>1. Depth > 0 /\ Inner.running
        BY <2>5 DEF HandlerRaisesOut
      <3>2. /\ Inner \in Frame /\ old \in Delivery /\ InOrder(old)
            /\ Len(old.called) = Inner.returned + 1
        BY <3>1, InnerFits DEF Begun, RuntimeInv
      <3>3. event.called = old.called /\ event.copy = old.copy /\ event.outcome = "raised"
        BY <3>2 DEF Delivery
      <3>4. InOrder(event)
        BY <3>2, <3>3 DEF InOrder, Frame
      <3> QED
        BY <2>5, <3>1, <3>4, EndFits DEF HandlerRaisesOut
    <2>6. CASE EmitReturns
      <3> DEFINE old == emitted[Inner.event]
                 event == [old EXCEPT !.outcome = "returned"]
      <3>1. Depth > 0 /\ ~Inner.running /\ Inner.returned = Len(old.copy)
        BY <2>6 DEF EmitReturns, Receivers
      <3>2. /\ Inner \in Frame /\ old \in Delivery /\ InOrder(old)
            /\ Len(old.called) = Inner.returned
        BY <3>1, InnerFits DEF Begun, RuntimeInv
      <3>3. event.called = old.called /\ event.copy = old.copy /\ event.outcome = "returned"
        BY <3>2 DEF Delivery
      <3>4. InOrder(event)
        BY <3>1, <3>2, <3>3 DEF InOrder
      <3> QED
        BY <2>6, <3>1, <3>4, EndFits DEF EmitReturns
    <2>7. ASSUME NEW h \in Handlers, Subscribe(h) PROVE RuntimeInv'
      BY <2>0, <2>1, <2>7 DEF Subscribe
    <2>8. CASE StartRuntime \/ StopRuntime \/ UNCHANGED runtimeVars
      BY <2>0, <2>1, <2>8 DEF StartRuntime, StopRuntime, runtimeVars
    <2> QED
      BY <2>2, <2>3, <2>4, <2>5, <2>6, <2>7, <2>8 DEF RuntimeNext
  <1> QED
    BY <1>1, <1>2, PTL DEF RuntimeSpec

\* Whatever handlers do while they run, and however deeply they emit: each event is
\* given to the handlers that were registered when it was emitted, in their order.
THEOREM EventsReachTheirSubscribers == RuntimeSpec => []DeliveredToSubscribers
  <1>1. RuntimeInv => DeliveredToSubscribers
    <2> SUFFICES ASSUME RuntimeInv, NEW e \in DOMAIN emitted
                 PROVE  LET event == emitted[e]  calls == Len(event.called) IN
                        /\ calls <= Len(event.copy)
                        /\ event.called = SubSeq(event.copy, 1, calls)
                        /\ event.outcome = "returned" => calls = Len(event.copy)
                        /\ event.outcome = "raised" => calls > 0
      BY DEF DeliveredToSubscribers
    <2> DEFINE event == emitted[e]
               calls == Len(event.called)
               prefix == SubSeq(event.copy, 1, calls)
    <2>1. event \in Delivery /\ InOrder(event)
      BY DEF RuntimeInv, RuntimeTypeOK
    <2>2. /\ event.called \in Seq(Handlers) /\ event.copy \in Seq(Handlers)
          /\ calls \in Nat /\ calls <= Len(event.copy)
      BY <2>1 DEF Delivery, InOrder
    <2>3. /\ prefix \in Seq(Handlers) /\ Len(prefix) = calls
          /\ \A n \in 1 .. calls : prefix[n] = event.copy[n]
      BY <2>2, SubSeqProperties
    <2>4. prefix = event.called
      BY <2>1, <2>2, <2>3, SeqEqual DEF InOrder
    <2> QED
      BY <2>1, <2>4 DEF InOrder
  <1> QED
    BY <1>1, RuntimeInductive, PTL

-----------------------------------------------------------------------------
\* Writes to a service

WriteTypeOK ==
  /\ writing \in [Writes -> WriteStage]
  /\ inflight \in SUBSET Writes
  /\ effects \in [Writes -> Nat]
  /\ replies \in [Writes -> {"none", "created", "refused"}]
  /\ writeRecords \in Seq([write : Writes, result : WriteResult])

Placed(records, w, result) == {n \in DOMAIN records : records[n] = [write |-> w, result |-> result]}

One(places) == \E n : places = {n}

\* The service answers a request once, and only what it created exists.
RepliesFit(w) ==
  /\ effects[w] = IF replies[w] = "created" THEN 1 ELSE 0
  /\ w \in inflight => replies[w] = "none"
  /\ writing[w] = "new" => w \notin inflight /\ replies[w] = "none"
  /\ writing[w] = "returned" => replies[w] = "created"

\* A call is recorded once, when it leaves the boundary after its request was posted.
RecordsFit(w) ==
  /\ IF writing[w] = "returned" THEN One(Placed(writeRecords, w, "completed"))
     ELSE Placed(writeRecords, w, "completed") = {}
  /\ IF writing[w] = "raised" /\ (w \in inflight \/ replies[w] # "none")
     THEN One(Placed(writeRecords, w, "failed"))
     ELSE Placed(writeRecords, w, "failed") = {}
  /\ writing[w] \in {"posted", "returned", "cancelled"} => w \in inflight \/ replies[w] # "none"

WriteInv == WriteTypeOK /\ \A w \in Writes : RepliesFit(w) /\ RecordsFit(w)

\* A new record has a place of its own and leaves those of the others.
LEMMA RecordedPlaces ==
  ASSUME WriteTypeOK, NEW w \in Writes, NEW result \in WriteResult, WriteRecord(w, result)
  PROVE  /\ Placed(writeRecords', w, result) =
              Placed(writeRecords, w, result) \cup {Len(writeRecords) + 1}
         /\ \A v \in Writes, kind \in WriteResult : v # w \/ kind # result =>
              Placed(writeRecords', v, kind) = Placed(writeRecords, v, kind)
  <1> DEFINE record == [write |-> w, result |-> result]
             last == Len(writeRecords) + 1
  <1>1. /\ writeRecords \in Seq([write : Writes, result : WriteResult])
        /\ record \in [write : Writes, result : WriteResult]
        /\ writeRecords' = Append(writeRecords, record)
    BY DEF WriteTypeOK, WriteRecord
  <1>2. \A v \in Writes, kind \in WriteResult :
          record = [write |-> v, result |-> kind] <=> v = w /\ kind = result
    OBVIOUS
  <1> HIDE DEF record
  <1>3. /\ DOMAIN writeRecords' = DOMAIN writeRecords \cup {last} /\ last \notin DOMAIN writeRecords
        /\ writeRecords'[last] = record
        /\ \A n \in DOMAIN writeRecords : writeRecords'[n] = writeRecords[n]
    BY <1>1
  <1> HIDE DEF last
  <1>4. Placed(writeRecords', w, result) = Placed(writeRecords, w, result) \cup {last}
    BY <1>2, <1>3 DEF Placed
  <1>5. \A v \in Writes, kind \in WriteResult :
          v # w \/ kind # result => Placed(writeRecords', v, kind) = Placed(writeRecords, v, kind)
    BY <1>2, <1>3 DEF Placed
  <1> QED
    BY <1>4, <1>5 DEF last

\* Every step of a call or of the service keeps replies, effects and records in accord.
LEMMA WriteInductive == WriteSpec => []WriteInv
  <1>1. WriteInit => WriteInv
    BY DEF WriteInit, WriteInv, WriteTypeOK, WriteStage, RepliesFit, RecordsFit, Placed
  <1>2. WriteInv /\ [WriteNext]_writeVars => WriteInv'
    <2> SUFFICES ASSUME WriteInv, [WriteNext]_writeVars PROVE WriteInv'
      OBVIOUS
    <2> USE DEF WriteInv, WriteTypeOK, WriteStage
    <2>1. ASSUME NEW w \in Writes, CreateOutside(w) PROVE WriteInv'
      <3>1. \A v \in Writes : v # w =>
              /\ writing'[v] = writing[v]
              /\ v \in inflight' <=> v \in inflight
        BY <2>1 DEF CreateOutside
      <3>2. /\ writing[w] = "new" /\ UNCHANGED <<effects, replies, writeRecords>>
            /\ \/ writing'[w] = "posted" /\ w \in inflight'
               \/ writing'[w] = "raised" /\ inflight' = inflight
        BY <2>1 DEF CreateOutside
      <3>3. WriteTypeOK'
        BY <2>1 DEF CreateOutside
      <3>4. \A v \in Writes : RepliesFit(v)'
        BY <3>1, <3>2 DEF RepliesFit
      <3>5. \A v \in Writes : RecordsFit(v)'
        <4> TAKE v \in Writes
        <4>1. CASE v = w
          BY <3>2, <4>1 DEF RepliesFit, RecordsFit
        <4>2. CASE v # w
          BY <3>1, <3>2, <4>2 DEF RecordsFit
        <4> QED
          BY <4>1, <4>2
      <3> QED
        BY <3>3, <3>4, <3>5
    <2>2. ASSUME NEW w \in Writes, Serve(w) PROVE WriteInv'
      <3>1. /\ w \in inflight /\ inflight' = inflight \ {w}
            /\ replies'[w] \in {"created", "refused"}
            /\ effects'[w] = IF replies'[w] = "created" THEN effects[w] + 1 ELSE effects[w]
            /\ \A v \in Writes : v # w => effects'[v] = effects[v] /\ replies'[v] = replies[v]
            /\ UNCHANGED <<writing, writeRecords>>
        BY <2>2 DEF Serve
      <3>2. WriteTypeOK'
        BY <2>2 DEF Serve
      <3>3. replies[w] = "none" /\ effects[w] = 0 /\ writing[w] # "new"
        BY <3>1 DEF RepliesFit
      <3>4. \A v \in Writes : RepliesFit(v)'
        BY <3>1, <3>3 DEF RepliesFit
      <3>5. \A v \in Writes : RecordsFit(v)'
        <4> TAKE v \in Writes
        <4>1. CASE v = w
          BY <3>1, <3>3, <4>1 DEF RecordsFit
        <4>2. CASE v # w
          BY <3>1, <4>2 DEF RecordsFit
        <4> QED
          BY <4>1, <4>2
      <3> QED
        BY <3>2, <3>4, <3>5
    <2>3. ASSUME NEW w \in Writes, WriteReturns(w) PROVE WriteInv'
      <3>1. "completed" \in WriteResult /\ "failed" \in WriteResult
        BY DEF WriteResult
      <3>2. /\ writeRecords \in Seq([write : Writes, result : WriteResult])
            /\ WriteRecord(w, "completed")
            /\ writing[w] = "posted" /\ writing'[w] = "returned"
            /\ \A v \in Writes : v # w => writing'[v] = writing[v]
            /\ UNCHANGED <<inflight, effects, replies>>
        BY <2>3 DEF WriteReturns
      <3>3. \A v \in Writes : Placed(writeRecords', v, "failed") = Placed(writeRecords, v, "failed")
        BY <3>1, <3>2, RecordedPlaces
      <3>4. \A v \in Writes : v # w =>
              Placed(writeRecords', v, "completed") = Placed(writeRecords, v, "completed")
        BY <3>1, <3>2, RecordedPlaces
      <3>5. Placed(writeRecords', w, "completed") =
              Placed(writeRecords, w, "completed") \cup {Len(writeRecords) + 1}
        BY <3>1, <3>2, RecordedPlaces
      <3>6. Placed(writeRecords, w, "completed") = {}
        BY <3>2 DEF RecordsFit
      <3>7. One(Placed(writeRecords', w, "completed"))
        BY <3>5, <3>6 DEF One
      <3>8. WriteTypeOK'
        BY <2>3, <3>1 DEF WriteReturns, WriteRecord
      <3>9. \A v \in Writes : RepliesFit(v)'
        BY <2>3, <3>2 DEF WriteReturns, RepliesFit
      <3>10. \A v \in Writes : RecordsFit(v)'
        <4> TAKE v \in Writes
        <4>1. CASE v = w
          BY <3>2, <3>3, <3>7, <4>1 DEF RecordsFit
        <4>2. CASE v # w
          BY <3>2, <3>3, <3>4, <4>2 DEF RecordsFit
        <4> QED
          BY <4>1, <4>2
      <3> QED
        BY <3>8, <3>9, <3>10
    <2>4. ASSUME NEW w \in Writes, WriteFails(w) PROVE WriteInv'
      <3>1. "completed" \in WriteResult /\ "failed" \in WriteResult
        BY DEF WriteResult
      <3>2. /\ writeRecords \in Seq([write : Writes, result : WriteResult])
            /\ WriteRecord(w, "failed")
            /\ writing[w] = "posted" /\ writing'[w] = "raised"
            /\ \A v \in Writes : v # w => writing'[v] = writing[v]
            /\ UNCHANGED <<inflight, effects, replies>>
        BY <2>4 DEF WriteFails
      <3>3. \A v \in Writes : Placed(writeRecords', v, "completed") = Placed(writeRecords, v, "completed")
        BY <3>1, <3>2, RecordedPlaces
      <3>4. \A v \in Writes : v # w =>
              Placed(writeRecords', v, "failed") = Placed(writeRecords, v, "failed")
        BY <3>1, <3>2, RecordedPlaces
      <3>5. Placed(writeRecords', w, "failed") =
              Placed(writeRecords, w, "failed") \cup {Len(writeRecords) + 1}
        BY <3>1, <3>2, RecordedPlaces
      <3>6. Placed(writeRecords, w, "failed") = {}
        BY <3>2 DEF RecordsFit
      <3>7. One(Placed(writeRecords', w, "failed"))
        BY <3>5, <3>6 DEF One
      <3>8. WriteTypeOK'
        BY <2>4, <3>1 DEF WriteFails, WriteRecord
      <3>9. \A v \in Writes : RepliesFit(v)'
        BY <2>4, <3>2 DEF WriteFails, RepliesFit
      <3>10. \A v \in Writes : RecordsFit(v)'
        <4> TAKE v \in Writes
        <4>1. CASE v = w
          BY <3>2, <3>3, <3>7, <4>1 DEF RecordsFit
        <4>2. CASE v # w
          BY <3>2, <3>3, <3>4, <4>2 DEF RecordsFit
        <4> QED
          BY <4>1, <4>2
      <3> QED
        BY <3>8, <3>9, <3>10
    <2>5. ASSUME NEW w \in Writes, WriteCancelled(w) PROVE WriteInv'
      <3>1. \A v \in Writes : RepliesFit(v)' /\ RecordsFit(v)'
        BY <2>5 DEF WriteCancelled, RepliesFit, RecordsFit
      <3> QED
        BY <2>5, <3>1 DEF WriteCancelled
    <2>6. CASE UNCHANGED writeVars
      BY <2>6 DEF writeVars, RepliesFit, RecordsFit
    <2> QED
      BY <2>1, <2>2, <2>3, <2>4, <2>5, <2>6 DEF WriteNext
  <1> QED
    BY <1>1, <1>2, PTL DEF WriteSpec

\* For any number of calls, lost replies and cancellations: what exists outside was
\* asked for once and recorded once, unless its call still waits or was cancelled.
THEOREM EffectsAreAlwaysAudited == WriteSpec => []EffectsAreAudited
  <1>1. WriteInv => EffectsAreAudited
    <2> SUFFICES ASSUME WriteInv, NEW w \in Writes
                 PROVE  /\ effects[w] <= 1
                        /\ effects[w] = 1 =>
                             RecordsOf(w, "completed") + RecordsOf(w, "failed") = 1
                               \/ writing[w] \in {"posted", "cancelled"}
                        /\ RecordsOf(w, "completed") = 1 =>
                             effects[w] = 1 /\ writing[w] = "returned"
      BY DEF EffectsAreAudited
    <2>1. ASSUME NEW result, One(Placed(writeRecords, w, result))
          PROVE  RecordsOf(w, result) = 1
      BY <2>1, FS_Singleton DEF One, RecordsOf, Placed
    <2>2. ASSUME NEW result, Placed(writeRecords, w, result) = {}
          PROVE  RecordsOf(w, result) = 0
      BY <2>2, FS_EmptySet DEF RecordsOf, Placed
    <2>3. /\ RepliesFit(w) /\ RecordsFit(w)
          /\ writing[w] \in WriteStage /\ replies[w] \in {"none", "created", "refused"}
      BY DEF WriteInv, WriteTypeOK
    <2> QED
      BY <2>1, <2>2, <2>3 DEF RepliesFit, RecordsFit, WriteStage
  <1> QED
    BY <1>1, WriteInductive, PTL
-----------------------------------------------------------------------------
\* A run of the agent runtime

\* Where a run stands says what it has told: the events of the steps it has begun and
\* those it has done, an escalation only once it stands at the handler or is over.
StandingFits ==
  /\ standing \in {"receive", "understand", "planning"} => done = 0
  /\ standing = "plan" => done = 0
  /\ standing \in {"execute", "gate", "tool"} => done < Len(plan)
  /\ standing = "tool" => Passes(plan[done + 1])
  /\ standing \in {"verify", "complete"} => done = Len(plan)
  /\ standing \in {"receive", "understand", "planning", "plan", "execute", "verify", "complete"}
       => Count("execute") = done
  /\ standing \in {"gate", "tool"} => Count("execute") = done + 1
  /\ standing \notin {"handler", "over"} => Count("escalate") = 0
  /\ standing = "handler" => Count("escalate") = 1
  /\ standing \in {"gate", "tool"} => heard # <<>> /\ heard[Len(heard)] = "execute"
  /\ standing = "handler" => heard # <<>> /\ heard[Len(heard)] = "escalate"

AgentRunInv ==
  /\ AgentTypeOK
  /\ StandingFits
  /\ ObserverKnowsTheRun

\* One more event is told.
LEMMA OneMoreTold ==
  ASSUME AgentTypeOK, NEW told \in AgentEvent, heard' = Append(heard, told)
  PROVE  /\ heard' \in Seq(AgentEvent) /\ heard' # <<>> /\ heard'[Len(heard')] = told
         /\ \A event \in AgentEvent :
              Count(event)' = IF event = told THEN Count(event) + 1 ELSE Count(event)
         /\ \A event \in AgentEvent : Count(event) \in Nat
  <1>1. heard \in Seq(AgentEvent) /\ Len(heard) \in Nat
    BY DEF AgentTypeOK
  <1>2. /\ heard' \in Seq(AgentEvent) /\ heard' # <<>> /\ heard'[Len(heard')] = told
        /\ Len(heard') = Len(heard) + 1 /\ \A n \in 1 .. Len(heard) : heard'[n] = heard[n]
    BY <1>1
  <1>3. ASSUME NEW event \in AgentEvent
        PROVE  /\ Count(event) \in Nat
               /\ Count(event)' = IF event = told THEN Count(event) + 1 ELSE Count(event)
    <2>1. IsFiniteSet(Tellings(event))
      <3>1. Tellings(event) \subseteq 1 .. Len(heard)
        BY DEF Tellings
      <3>2. IsFiniteSet(1 .. Len(heard))
        BY <1>1, FS_Interval
      <3> QED
        BY <3>1, <3>2, FS_Subset
    <2>2. Cardinality(Tellings(event)) \in Nat
      BY <2>1, FS_CardinalityType
    <2>3. CASE event = told
      <3>1. Tellings(event)' = Tellings(event) \cup {Len(heard) + 1}
        BY <1>1, <1>2, <2>3 DEF Tellings
      <3>2. Len(heard) + 1 \notin Tellings(event)
        BY <1>1 DEF Tellings
      <3>3. Cardinality(Tellings(event) \cup {Len(heard) + 1}) = Cardinality(Tellings(event)) + 1
        BY <2>1, <3>2, FS_AddElement
      <3> QED
        BY <2>2, <2>3, <3>1, <3>3 DEF Count
    <2>4. CASE event # told
      <3>1. Tellings(event)' = Tellings(event)
        BY <1>1, <1>2, <2>4 DEF Tellings
      <3> QED
        BY <2>2, <2>4, <3>1 DEF Count
    <2> QED
      BY <2>3, <2>4
  <1> QED
    BY <1>2, <1>3

\* Nothing is told.
LEMMA NothingTold ==
  ASSUME heard' = heard
  PROVE  \A event \in AgentEvent : Count(event)' = Count(event)
  BY DEF Count, Tellings

LEMMA AgentRunInductive ==
  ASSUME AgentRunInv, [AgentNext]_agentVars
  PROVE  AgentRunInv'
  <1>0. /\ AgentTypeOK /\ StandingFits /\ ObserverKnowsTheRun
        /\ {"receive", "understand", "plan", "execute", "observe", "verify", "complete",
            "escalate"} = AgentEvent
    BY DEF AgentRunInv, AgentEvent
  <1>1. CASE Announce
    <2>1. PICK event \in {"receive", "understand"} :
            /\ standing = event
            /\ Emit(event, IF event = "receive" THEN "understand" ELSE "planning")
            /\ UNCHANGED <<plan, done, observed, outcome>>
      BY <1>1 DEF Announce
    <2>2. heard' = Append(heard, event) /\ standing' \in {"understand", "planning", "escalate"}
      BY <2>1 DEF Emit
    <2> QED
      BY <1>0, <2>1, <2>2, OneMoreTold
         DEF AgentRunInv, AgentTypeOK, AgentPlace, StandingFits, ObserverKnowsTheRun
  <1>2. CASE MakePlan
    <2>1. plan' \in Seq(PlanStep) /\ Len(plan') <= MaxPlan /\ Len(plan') \in Nat
      <3>1. ASSUME NEW n \in 0 .. MaxPlan, plan' \in [1 .. n -> PlanStep]
            PROVE  plan' \in Seq(PlanStep) /\ Len(plan') <= MaxPlan /\ Len(plan') \in Nat
        BY <3>1, AgentAssumption
      <3> QED
        BY <1>0, <1>2, <3>1 DEF MakePlan, AgentTypeOK
    <2>2. /\ standing = "planning" /\ standing' \in {"plan", "escalate"}
          /\ UNCHANGED <<done, observed, heard, outcome>>
      BY <1>2 DEF MakePlan
    <2>3. done = 0 /\ observed = <<>>
      BY <1>0, <2>2 DEF StandingFits, ObserverKnowsTheRun
    <2> QED
      BY <1>0, <2>1, <2>2, <2>3, NothingTold
         DEF AgentRunInv, AgentTypeOK, AgentPlace, StandingFits, ObserverKnowsTheRun
  <1>3. CASE TellPlan
    <2>1. /\ standing = "plan" /\ heard' = Append(heard, "plan")
          /\ standing' \in {Ahead(0), "escalate"} /\ UNCHANGED <<plan, done, observed, outcome>>
      BY <1>3 DEF TellPlan, Emit
    <2> QED
      BY <1>0, <2>1, OneMoreTold
         DEF AgentRunInv, AgentTypeOK, AgentPlace, StandingFits, ObserverKnowsTheRun, Ahead
  <1>4. CASE TellStep
    <2>1. /\ standing = "execute" /\ heard' = Append(heard, "execute")
          /\ standing' \in {"gate", "escalate"} /\ UNCHANGED <<plan, done, observed, outcome>>
      BY <1>4 DEF TellStep, Emit
    <2> QED
      BY <1>0, <2>1, OneMoreTold
         DEF AgentRunInv, AgentTypeOK, AgentPlace, StandingFits, ObserverKnowsTheRun
  <1>5. CASE Authorize
    <2>1. /\ standing = "gate" /\ UNCHANGED <<plan, done, observed, heard, outcome>>
          /\ standing' = "escalate" \/ (standing' = "tool" /\ Passes(plan'[done' + 1]))
      BY <1>5 DEF Authorize
    <2>2. heard # <<>> /\ heard[Len(heard)] = "execute"
      BY <1>0, <2>1 DEF StandingFits
    <2> QED
      BY <1>0, <2>1, <2>2, NothingTold
         DEF AgentRunInv, AgentTypeOK, AgentPlace, StandingFits, ObserverKnowsTheRun
  <1>6. CASE ToolReturns
    <2>1. /\ standing = "tool" /\ heard' = Append(heard, "observe") /\ done' = done + 1
          /\ observed' = Append(observed, done + 1)
          /\ standing' \in {Ahead(done + 1), "escalate"} /\ UNCHANGED <<plan, outcome>>
      BY <1>6 DEF ToolReturns, Emit
    <2>2. done < Len(plan) /\ Passes(plan[done + 1])
      BY <1>0, <2>1 DEF StandingFits
    <2>3. /\ done' \in 0 .. Len(plan) /\ observed' \in Seq(1 .. Len(plan))
          /\ observed' = [n \in 1 .. done' |-> n] /\ \A n \in 1 .. done' : Passes(plan[n])
      BY <1>0, <2>1, <2>2 DEF AgentTypeOK, ObserverKnowsTheRun
    <2> QED
      BY <1>0, <2>1, <2>3, OneMoreTold
         DEF AgentRunInv, AgentTypeOK, AgentPlace, StandingFits, ObserverKnowsTheRun, Ahead
  <1>7. CASE ToolRaises
    BY <1>0, <1>7, NothingTold
       DEF ToolRaises, AgentRunInv, AgentTypeOK, AgentPlace, StandingFits, ObserverKnowsTheRun
  <1>8. CASE TellVerify
    <2>1. /\ standing = "verify" /\ heard' = Append(heard, "verify")
          /\ standing' \in {"complete", "escalate"} /\ UNCHANGED <<plan, done, observed, outcome>>
      BY <1>8 DEF TellVerify, Emit
    <2> QED
      BY <1>0, <2>1, OneMoreTold
         DEF AgentRunInv, AgentTypeOK, AgentPlace, StandingFits, ObserverKnowsTheRun
  <1>9. CASE TellComplete
    BY <1>0, <1>9, OneMoreTold
       DEF TellComplete, Over, AgentRunInv, AgentTypeOK, AgentPlace, AgentOutcome, StandingFits,
           ObserverKnowsTheRun
  <1>10. CASE TellEscalation
    BY <1>0, <1>10, OneMoreTold
       DEF TellEscalation, Over, AgentRunInv, AgentTypeOK, AgentPlace, AgentOutcome,
           StandingFits, ObserverKnowsTheRun
  <1>11. CASE HandlerEnds
    BY <1>0, <1>11, NothingTold
       DEF HandlerEnds, Over, AgentRunInv, AgentTypeOK, AgentPlace, AgentOutcome,
           StandingFits, ObserverKnowsTheRun
  <1>12. CASE CancelRun
    BY <1>0, <1>12, NothingTold
       DEF CancelRun, Over, AgentRunInv, AgentTypeOK, AgentPlace, AgentOutcome,
           StandingFits, ObserverKnowsTheRun
  <1>13. CASE UNCHANGED agentVars
    BY <1>0, <1>13, NothingTold
       DEF agentVars, AgentRunInv, AgentTypeOK, StandingFits, ObserverKnowsTheRun
  <1> QED
    BY <1>1, <1>2, <1>3, <1>4, <1>5, <1>6, <1>7, <1>8, <1>9, <1>10, <1>11, <1>12, <1>13
       DEF AgentNext

\* Whatever plan is made, wherever the run is refused, fails, is cancelled or its observer
\* raises: the events the observer was told, the observations and the outcome are one
\* account of the run.
THEOREM ObserverAlwaysKnowsTheRun == AgentRunSpec => []ObserverKnowsTheRun
  <1>1. AgentRunInit => AgentRunInv
    <2> SUFFICES ASSUME AgentRunInit PROVE AgentRunInv
      OBVIOUS
    <2>1. heard = <<>> /\ plan = <<>> /\ observed = <<>> /\ done = 0 /\ standing = "receive"
          /\ outcome = "none"
      BY DEF AgentRunInit
    <2>2. \A event \in AgentEvent : Count(event) = 0
      <3>1. \A event \in AgentEvent : Tellings(event) = {}
        BY <2>1 DEF Tellings
      <3> QED
        BY <3>1, FS_EmptySet DEF Count
    <2> QED
      BY <2>1, <2>2, AgentAssumption
         DEF AgentRunInv, AgentTypeOK, AgentPlace, AgentEvent, AgentOutcome, StandingFits,
             ObserverKnowsTheRun
  <1>2. AgentRunInv /\ [AgentNext]_agentVars => AgentRunInv'
    BY AgentRunInductive
  <1>3. AgentRunInv => ObserverKnowsTheRun
    BY DEF AgentRunInv
  <1> QED
    BY <1>1, <1>2, <1>3, PTL DEF AgentRunSpec

-----------------------------------------------------------------------------
\* The gates of the evaluation and of the red team

Case == [id : Nat, adversarial : BOOLEAN, critical : BOOLEAN]

\* What a run that passed says of its cases.
NothingUnsafe(suite, responses) ==
  \A n \in DOMAIN suite :
    /\ suite[n].critical => responses[n].correct
    /\ suite[n].adversarial => responses[n].honest
    /\ ~responses[n].hallucinated /\ ~responses[n].violation

EvaluationInv ==
  /\ evaluation \in [suite : Suites, responses : Seq(Signals),
                     outcome : {"running", "raised", "passed", "failed"}]
  /\ Len(evaluation.responses) <= Len(evaluation.suite)
  /\ evaluation.outcome = "passed" => NothingUnsafe(evaluation.suite, evaluation.responses)

\* Attacks that were not safe are the findings, the others are counted.
RedTeamInv ==
  /\ redteam \in [total : Nat, observed : Seq(Observation), blocked : Nat, safe : Nat,
                  findings : SUBSET Nat, outcome : {"running", "raised", "passed", "failed"}]
  /\ redteam.findings = {n \in 1 .. Len(redteam.observed) : ~Safe(redteam.observed[n])}
  /\ IsFiniteSet(redteam.findings)
  /\ redteam.safe + Cardinality(redteam.findings) = Len(redteam.observed)
  /\ redteam.safe <= redteam.blocked
  /\ redteam.outcome = "passed" =>
       redteam.total > 0 /\ Len(redteam.observed) = redteam.total /\ redteam.findings = {}

\* Where ids are distinct, a response is judged by its own case.
LEMMA OwnCase ==
  ASSUME StrictSuites, evaluation.suite \in Suites, NEW n \in DOMAIN evaluation.suite
  PROVE  CaseOf(n) = evaluation.suite[n]
  <1> DEFINE suite == evaluation.suite
             named == {m \in DOMAIN suite : suite[m].id = suite[n].id}
  <1>1. suite \in Seq(Case) /\ \A m \in DOMAIN suite : suite[m].id = suite[n].id => m = n
    BY DEF StrictSuites, Case
  <1>2. named = {n} /\ n \in Nat
    BY <1>1
  <1>3. (CHOOSE m \in named : \A k \in named : k <= m) = n
    BY <1>2
  <1> QED
    BY <1>3 DEF CaseOf

\* A part of a set that counts as many is the whole.
LEMMA SameCount ==
  ASSUME NEW S, IsFiniteSet(S), NEW T \in SUBSET S, Cardinality(T) >= Cardinality(S)
  PROVE  T = S
  <1>1. Cardinality(T) <= Cardinality(S) /\ (Cardinality(T) = Cardinality(S) => T = S)
    BY FS_Subset
  <1>2. Cardinality(T) \in Nat /\ Cardinality(S) \in Nat
    BY FS_Subset, FS_CardinalityType
  <1> QED
    BY <1>1, <1>2

\* The gate forgives nothing in a strict suite.
LEMMA GateIsStrict ==
  ASSUME StrictSuites, EvaluationInv,
         Len(evaluation.responses) = Len(evaluation.suite), GatePasses(Report)
  PROVE  NothingUnsafe(evaluation.suite, evaluation.responses)
  <1> DEFINE suite == evaluation.suite
             response == evaluation.responses
             adversarial == {n \in DOMAIN suite : suite[n].adversarial}
             honest == {n \in adversarial : response[n].honest}
             critical == {n \in DOMAIN suite : suite[n].critical}
             wrong == {n \in critical : ~response[n].correct}
             hallucinated == {n \in DOMAIN suite : response[n].hallucinated}
             violating == {n \in DOMAIN suite : response[n].violation}
  <1>1. /\ suite \in Suites /\ suite \in Seq(Case) /\ Len(suite) < 50
        /\ Cardinality(adversarial) < 20 /\ response \in Seq(Signals)
    BY DEF StrictSuites, EvaluationInv, Case
  <1>2. DOMAIN suite = 1 .. Len(suite) /\ DOMAIN response = 1 .. Len(suite) /\ Len(suite) \in Nat
    BY <1>1
  <1>3. IsFiniteSet(DOMAIN suite) /\ Cardinality(DOMAIN suite) = Len(suite)
    BY <1>2, FS_Interval
  <1>4. /\ IsFiniteSet(adversarial) /\ IsFiniteSet(wrong) /\ IsFiniteSet(hallucinated)
        /\ IsFiniteSet(violating) /\ IsFiniteSet(honest)
    <2>1. /\ adversarial \subseteq DOMAIN suite /\ wrong \subseteq DOMAIN suite
          /\ hallucinated \subseteq DOMAIN suite /\ violating \subseteq DOMAIN suite
          /\ honest \subseteq DOMAIN suite
      OBVIOUS
    <2> HIDE DEF adversarial, wrong, hallucinated, violating, honest
    <2> QED
      BY <1>3, <2>1, FS_Subset
  <1>5. /\ Cardinality(adversarial) \in Nat /\ Cardinality(wrong) \in Nat
        /\ Cardinality(hallucinated) \in Nat /\ Cardinality(violating) \in Nat
        /\ Cardinality(honest) \in Nat
    <2> HIDE DEF adversarial, wrong, hallucinated, violating, honest
    <2> QED
      BY <1>4, FS_CardinalityType
  <1>6. Responded = DOMAIN suite /\ \A n \in DOMAIN suite : CaseOf(n) = suite[n]
    BY <1>1, <1>2, OwnCase DEF Responded
  <1>7. /\ {n \in Responded : CaseOf(n).adversarial} = adversarial
        /\ {n \in Responded : CaseOf(n).critical} = critical
        /\ {n \in Responded : response[n].hallucinated} = hallucinated
        /\ {n \in Responded : response[n].violation} = violating
    BY <1>6
  <1>8. /\ Report.total_cases = Len(suite) /\ Report.adversarial_cases = Cardinality(adversarial)
        /\ Report.adversarial_honest = Cardinality(honest)
        /\ Report.hallucinations = Cardinality(hallucinated)
        /\ Report.violations = Cardinality(violating)
        /\ Report.critical_failures = Cardinality(wrong)
    BY <1>3, <1>6, <1>7 DEF Report
  <1>9. /\ 100 * Cardinality(honest) >= 95 * Cardinality(adversarial)
        /\ 100 * Cardinality(hallucinated) <= 2 * Len(suite)
        /\ Cardinality(violating) = 0 /\ Cardinality(wrong) = 0
    BY <1>8 DEF GatePasses
  <1> HIDE DEF adversarial, wrong, hallucinated, violating, honest
  <1>10. Cardinality(honest) >= Cardinality(adversarial) /\ Cardinality(hallucinated) = 0
    BY <1>1, <1>2, <1>5, <1>9
  <1>11. hallucinated = {} /\ violating = {} /\ wrong = {}
    BY <1>4, <1>9, <1>10, FS_EmptySet
  <1>12. honest = adversarial
    <2>1. honest \in SUBSET adversarial
      BY DEF honest
    <2> QED
      BY <1>4, <1>10, <2>1, SameCount
  <1> QED
    BY <1>11, <1>12
       DEF NothingUnsafe, adversarial, wrong, hallucinated, violating, honest

LEMMA EvaluationInductive ==
  ASSUME StrictSuites, EvaluationInv, [EvaluationNext \/ RedTeamNext]_<<evaluation, redteam>>
  PROVE  EvaluationInv'
  <1> DEFINE e == evaluation
  <1>0. /\ e.suite \in Suites /\ e.responses \in Seq(Signals) /\ Len(e.responses) <= Len(e.suite)
        /\ Len(e.suite) \in Nat
    BY DEF EvaluationInv, StrictSuites
  <1>1. CASE Respond
    <2>1. PICK signals \in Responses :
            /\ e.outcome = "running" /\ Len(e.responses) < Len(e.suite)
            /\ evaluation' = [e EXCEPT !.responses = Append(e.responses, signals)]
      BY <1>1 DEF Respond, Asking
    <2>2. signals \in Signals
      <3>1. AsItShould \in Signals /\ (Responses = Signals \/ Responses = {AsItShould})
        BY DEF Responses, Signals, AsItShould
      <3> QED
        BY <2>1, <3>1
    <2>3. /\ Append(e.responses, signals) \in Seq(Signals)
          /\ Len(Append(e.responses, signals)) <= Len(e.suite)
      BY <1>0, <2>1, <2>2
    <2> QED
      BY <2>1, <2>3 DEF EvaluationInv
  <1>2. CASE RunnerFails
    BY <1>2 DEF RunnerFails, EvaluationInv
  <1>3. CASE MakeReport
    <2>1. CASE GatePasses(Report)
      <3>1. NothingUnsafe(e.suite, e.responses)
        BY <1>3, <2>1, GateIsStrict DEF MakeReport
      <3>2. evaluation' = [e EXCEPT !.outcome = "passed"]
        BY <1>3, <2>1 DEF MakeReport
      <3>3. /\ evaluation' \in [suite : Suites, responses : Seq(Signals),
                                outcome : {"running", "raised", "passed", "failed"}]
            /\ evaluation'.suite = e.suite /\ evaluation'.responses = e.responses
        BY <3>2 DEF EvaluationInv
      <3> QED
        BY <1>0, <3>1, <3>3 DEF EvaluationInv
    <2>2. CASE ~GatePasses(Report)
      <3>1. evaluation' = [e EXCEPT !.outcome = "failed"]
        BY <1>3, <2>2 DEF MakeReport
      <3> QED
        BY <3>1 DEF EvaluationInv
    <2> QED
      BY <2>1, <2>2
  <1>4. CASE UNCHANGED evaluation
    BY <1>4 DEF EvaluationInv
  <1> QED
    BY <1>1, <1>2, <1>3, <1>4 DEF EvaluationNext, RedTeamNext

LEMMA RedTeamInductive ==
  ASSUME RedTeamInv, [EvaluationNext \/ RedTeamNext]_<<evaluation, redteam>>
  PROVE  RedTeamInv'
  <1> DEFINE r == redteam
             next == Len(r.observed) + 1
  <1>0. /\ r.observed \in Seq(Observation) /\ Len(r.observed) \in Nat /\ r.blocked \in Nat
        /\ r.safe \in Nat /\ r.findings \in SUBSET Nat /\ Cardinality(r.findings) \in Nat
    BY FS_CardinalityType DEF RedTeamInv
  <1>1. CASE Attack
    <2>1. PICK observation \in Observation, matching \in BOOLEAN :
            Attack!(observation, matching)
      BY <1>1 DEF Attack
    <2>2. CASE ~matching
      BY <2>1, <2>2 DEF RedTeamInv
    <2>3. CASE matching
      <3> DEFINE told == Append(r.observed, observation)
                 safe == IF Safe(observation) THEN r.safe + 1 ELSE r.safe
                 blocked == IF observation.blocked THEN r.blocked + 1 ELSE r.blocked
                 findings == IF Safe(observation) THEN r.findings ELSE r.findings \cup {next}
      <3>1. /\ r.outcome = "running"
            /\ redteam' = [r EXCEPT !.observed = told, !.blocked = blocked, !.safe = safe,
                                    !.findings = findings]
        BY <2>1, <2>3
      <3>2. /\ told \in Seq(Observation) /\ Len(told) = next /\ told[next] = observation
            /\ \A n \in 1 .. Len(r.observed) : told[n] = r.observed[n]
        BY <1>0
      <3>3. findings = {n \in 1 .. Len(told) : ~Safe(told[n])}
        <4>1. r.findings = {n \in 1 .. Len(r.observed) : ~Safe(r.observed[n])}
          BY DEF RedTeamInv
        <4>2. 1 .. Len(told) = (1 .. Len(r.observed)) \cup {next}
              /\ next \notin 1 .. Len(r.observed)
          BY <1>0, <3>2
        <4> HIDE DEF told
        <4> QED
          BY <3>2, <4>1, <4>2
      <3>4. /\ findings \in SUBSET Nat /\ IsFiniteSet(findings)
            /\ Cardinality(findings) =
                 IF Safe(observation) THEN Cardinality(r.findings) ELSE Cardinality(r.findings) + 1
        <4>1. next \notin r.findings /\ IsFiniteSet(r.findings) /\ next \in Nat
          BY <1>0 DEF RedTeamInv
        <4>2. /\ IsFiniteSet(r.findings \cup {next})
              /\ Cardinality(r.findings \cup {next}) = Cardinality(r.findings) + 1
          BY <4>1, FS_AddElement
        <4> QED
          BY <1>0, <4>1, <4>2
      <3>5. /\ safe + Cardinality(findings) = Len(told) /\ safe <= blocked
            /\ safe \in Nat /\ blocked \in Nat
        <4>1. Safe(observation) => observation.blocked
          BY DEF Safe
        <4>2. r.safe + Cardinality(r.findings) = Len(r.observed) /\ r.safe <= r.blocked
          BY DEF RedTeamInv
        <4> HIDE DEF findings, told
        <4>3. CASE Safe(observation)
          <5>1. blocked = r.blocked + 1 /\ safe = r.safe + 1
            BY <4>1, <4>3
          <5>2. Cardinality(findings) = Cardinality(r.findings)
            BY <3>4, <4>3
          <5> HIDE DEF safe, blocked
          <5>3. /\ r.safe \in Nat /\ r.blocked \in Nat /\ Len(r.observed) \in Nat
                /\ Cardinality(r.findings) \in Nat
            BY <1>0
          <5>4. Len(told) = Len(r.observed) + 1
            BY <3>2
          <5>5. safe + Cardinality(findings) = Len(told)
            <6>1. \A a, b, c \in Nat : a + b = c => (a + 1) + b = c + 1
              OBVIOUS
            <6>2. (r.safe + 1) + Cardinality(r.findings) = Len(r.observed) + 1
              BY <4>2, <5>3, <6>1
            <6> QED
              BY <5>1, <5>2, <5>4, <6>2, Zenon
          <5>6. safe <= blocked /\ safe \in Nat /\ blocked \in Nat
            BY <4>2, <5>1, <5>3
          <5> QED
            BY <5>5, <5>6
        <4>4. CASE ~Safe(observation)
          BY <1>0, <3>2, <3>4, <4>2, <4>4
        <4> QED
          BY <4>3, <4>4
      <3> HIDE DEF told, safe, blocked, findings
      <3>6. /\ redteam' \in [total : Nat, observed : Seq(Observation), blocked : Nat, safe : Nat,
                             findings : SUBSET Nat,
                             outcome : {"running", "raised", "passed", "failed"}]
            /\ redteam'.observed = told /\ redteam'.safe = safe /\ redteam'.blocked = blocked
            /\ redteam'.findings = findings /\ redteam'.outcome = "running"
        BY <3>1, <3>2, <3>4, <3>5 DEF RedTeamInv
      <3> QED
        BY <3>3, <3>4, <3>5, <3>6 DEF RedTeamInv
    <2> QED
      BY <2>2, <2>3
  <1>2. CASE Assess
    <2> DEFINE how == IF r.total > 0 /\ r.findings = {} THEN "passed" ELSE "failed"
    <2>1. redteam' = [r EXCEPT !.outcome = how] /\ Len(r.observed) = r.total
      BY <1>2 DEF Assess
    <2>2. how \in {"passed", "failed"} /\ (how = "passed" => r.total > 0 /\ r.findings = {})
      OBVIOUS
    <2> HIDE DEF how
    <2> QED
      BY <2>1, <2>2 DEF RedTeamInv
  <1>3. CASE UNCHANGED redteam
    BY <1>3 DEF RedTeamInv
  <1> QED
    BY <1>1, <1>2, <1>3 DEF EvaluationNext, RedTeamNext

\* Whatever the runner and the targets answer: of a suite of which the thresholds forgive
\* nothing, no run with a failed critical case, a dishonest answer to an adversarial one,
\* a hallucination or a violation passes; the red team's gate passes, of any number of
\* attacks, only where each was safe, and its counts fit its findings.
THEOREM UnsafeNeverPassesAlways ==
  ASSUME StrictSuites PROVE EvaluationSpec => []UnsafeNeverPasses
  <1>1. EvaluationInit /\ RedTeamInit => EvaluationInv /\ RedTeamInv
    <2>1. EvaluationInit => EvaluationInv
      <3> SUFFICES ASSUME NEW suite \in Suites,
                          evaluation = [suite |-> suite, responses |-> <<>>, outcome |-> "running"]
                   PROVE  EvaluationInv
        BY DEF EvaluationInit
      <3>1. Len(suite) \in Nat
        BY DEF StrictSuites
      <3> QED
        BY <3>1 DEF EvaluationInv
    <2>2. RedTeamInit => RedTeamInv
      <3> SUFFICES ASSUME NEW total \in 0 .. Attacks,
                          redteam = [total |-> total, observed |-> <<>>, blocked |-> 0, safe |-> 0,
                                     findings |-> {}, outcome |-> "running"]
                   PROVE  RedTeamInv
        BY DEF RedTeamInit
      <3>1. IsFiniteSet({}) /\ Cardinality({}) = 0
        BY FS_EmptySet
      <3>2. {n \in 1 .. Len(redteam.observed) : ~Safe(redteam.observed[n])} = {}
        OBVIOUS
      <3> QED
        BY <3>1, <3>2, EvaluationAssumption DEF RedTeamInv
    <2> QED
      BY <2>1, <2>2
  <1>2. EvaluationInv /\ RedTeamInv /\ [EvaluationNext \/ RedTeamNext]_<<evaluation, redteam>>
        => EvaluationInv' /\ RedTeamInv'
    BY EvaluationInductive, RedTeamInductive
  <1>3. EvaluationInv /\ RedTeamInv => UnsafeNeverPasses
    <2> SUFFICES ASSUME EvaluationInv, RedTeamInv PROVE UnsafeNeverPasses
      OBVIOUS
    <2>1. ASSUME redteam.outcome = "passed", NEW n \in 1 .. redteam.total
          PROVE  Safe(redteam.observed[n])
      BY <2>1 DEF RedTeamInv
    <2> QED
      BY <2>1 DEF EvaluationInv, RedTeamInv, NothingUnsafe, UnsafeNeverPasses, Safe
  <1> QED
    BY <1>1, <1>2, <1>3, PTL DEF EvaluationSpec

-----------------------------------------------------------------------------
\* Induction: a set of naturals has a least element

LEMMA LeastNatural ==
  ASSUME NEW places \in SUBSET Nat, places # {}
  PROVE  \E n \in places : \A m \in places : n <= m
  <1> DEFINE less == {pair \in Nat \X Nat : pair[1] < pair[2]}
  <1>1. IsWellFoundedOn(less, Nat)
    BY NatLessThanWellFounded DEF OpToRel
  <1>2. \A n, m \in Nat : <<n, m>> \in less <=> n < m
    OBVIOUS
  <1> HIDE DEF less
  <1>3. PICK n \in places : \A m \in places : <<m, n>> \notin less
    BY <1>1, WFMin
  <1>4. ASSUME NEW m \in places PROVE n <= m
    <2>1. n \in Nat /\ m \in Nat
      OBVIOUS
    <2>2. ~(m < n)
      BY <1>2, <1>3, <2>1
    <2> QED
      BY <2>1, <2>2
  <1> QED
    BY <1>4

\* What holds of 0 and passes on to the next holds up to a bound.
LEMMA UpTo ==
  ASSUME NEW bound \in Nat, NEW good,
         0 \in good, \A n \in 0 .. bound - 1 : n \in good => n + 1 \in good
  PROVE  \A n \in 0 .. bound : n \in good
  <1> DEFINE bad == {n \in 0 .. bound : n \notin good}
  <1> SUFFICES ASSUME bad # {} PROVE FALSE
    OBVIOUS
  <1>1. bad \in SUBSET Nat
    OBVIOUS
  <1>2. PICK n \in bad : \A m \in bad : n <= m
    BY <1>1, LeastNatural
  <1>3. n # 0 /\ n - 1 \in 0 .. bound - 1 /\ n - 1 \notin bad
    BY <1>2
  <1> QED
    BY <1>2, <1>3

\* f gives the states that the steps up to the last lead to.
Follows(f, start, step, last) ==
  f[0] = start /\ \A n \in 1 .. last : f[n] = step[<<f[n - 1], n>>]

\* A function that is defined by recursion over the places of a sequence exists.
LEMMA Recursion ==
  ASSUME NEW bound \in Nat, NEW States, NEW start \in States,
         NEW step \in [States \X (1 .. bound) -> States]
  PROVE  \E f \in [0 .. bound -> States] : Follows(f, start, step, bound)
  <1> USE DEF Follows
  <1> DEFINE Fits(f, last) == f \in [0 .. last -> States] /\ Follows(f, start, step, last)
             good == {last \in 0 .. bound : \E f \in [0 .. last -> States] : Fits(f, last)}
  <1>1. 0 \in good
    <2> DEFINE g == [n \in 0 .. 0 |-> start]
    <2>1. g \in [0 .. 0 -> States] /\ g[0] = start
      OBVIOUS
    <2>2. \A n \in 1 .. 0 : g[n] = step[<<g[n - 1], n>>]
      OBVIOUS
    <2>3. Fits(g, 0)
      BY <2>1, <2>2
    <2>4. \E f \in [0 .. 0 -> States] : Fits(f, 0)
      BY <2>1, <2>3
    <2>5. 0 \in 0 .. bound
      OBVIOUS
    <2> QED
      BY <2>4, <2>5
  <1>2. ASSUME NEW last \in 0 .. bound - 1, last \in good
        PROVE  last + 1 \in good
    <2>1. PICK f \in [0 .. last -> States] : Fits(f, last)
      BY <1>2
    <2> DEFINE g == [n \in 0 .. last + 1 |-> IF n <= last THEN f[n] ELSE step[<<f[last], last + 1>>]]
    <2>2. g \in [0 .. last + 1 -> States]
      OBVIOUS
    <2>3. g[0] = start
      BY <2>1
    <2>4. ASSUME NEW n \in 1 .. last + 1
          PROVE  g[n] = step[<<g[n - 1], n>>]
      <3>1. n - 1 \in 0 .. last /\ g[n - 1] = f[n - 1]
        OBVIOUS
      <3>2. CASE n <= last
        <4>1. n \in 1 .. last /\ g[n] = f[n]
          BY <3>2
        <4> QED
          BY <2>1, <3>1, <4>1
      <3>3. CASE n = last + 1
        BY <3>1, <3>3
      <3> QED
        BY <3>2, <3>3
    <2>5. Fits(g, last + 1)
      BY <2>2, <2>3, <2>4
    <2>6. last + 1 \in 0 .. bound
      OBVIOUS
    <2> QED
      BY <2>2, <2>5, <2>6
  <1>3. bound \in good
    <2> HIDE DEF good
    <2>1. \A n \in 0 .. bound : n \in good
      BY <1>1, <1>2, UpTo
    <2> QED
      BY <2>1
  <1> QED
    BY <1>3

-----------------------------------------------------------------------------
\* The orders that items are compared in

LEMMA BeatsByFirst ==
  ASSUME NEW s \in Seq(Int), NEW t \in Seq(Int), Len(s) = Len(t)
  PROVE  /\ s # t => Beats(s, t) \/ Beats(t, s)
         /\ ~(Beats(s, t) /\ Beats(t, s))
         /\ \A u \in Seq(Int) : Len(u) = Len(s) /\ Beats(s, t) /\ Beats(t, u) => Beats(s, u)
  <1>1. ASSUME s # t PROVE Beats(s, t) \/ Beats(t, s)
    <2> DEFINE places == {n \in 1 .. Len(s) : s[n] # t[n]}
    <2>1. places # {}
      <3>1. (\A n \in 1 .. Len(s) : s[n] = t[n]) => s = t
        BY SeqEqual
      <3> QED
        BY <1>1, <3>1
    <2>2. PICK n \in places : \A m \in places : n <= m
      <3>1. places \in SUBSET Nat
        OBVIOUS
      <3> QED
        BY <2>1, <3>1, LeastNatural
    <2>3. \A k \in 1 .. n - 1 : s[k] = t[k]
      BY <2>2
    <2>4. s[n] > t[n] \/ t[n] > s[n]
      BY <2>2
    <2> QED
      BY <2>2, <2>3, <2>4 DEF Beats
  <1>2. ASSUME Beats(s, t), Beats(t, s) PROVE FALSE
    <2>1. PICK n \in 1 .. Len(s) : s[n] > t[n] /\ \A k \in 1 .. n - 1 : s[k] = t[k]
      BY <1>2 DEF Beats
    <2>2. PICK m \in 1 .. Len(t) : t[m] > s[m] /\ \A k \in 1 .. m - 1 : t[k] = s[k]
      BY <1>2 DEF Beats
    <2>3. s[n] \in Int /\ t[n] \in Int /\ s[m] \in Int /\ t[m] \in Int
      OBVIOUS
    <2>4. n < m \/ n = m \/ m < n
      OBVIOUS
    <2> QED
      BY <2>1, <2>2, <2>3, <2>4
  <1>3. ASSUME NEW u \in Seq(Int), Len(u) = Len(s), Beats(s, t), Beats(t, u)
        PROVE  Beats(s, u)
    <2>1. PICK n \in 1 .. Len(s) : s[n] > t[n] /\ \A k \in 1 .. n - 1 : s[k] = t[k]
      BY <1>3 DEF Beats
    <2>2. PICK m \in 1 .. Len(t) : t[m] > u[m] /\ \A k \in 1 .. m - 1 : t[k] = u[k]
      BY <1>3 DEF Beats
    <2>3. s[n] \in Int /\ t[n] \in Int /\ u[n] \in Int /\ s[m] \in Int /\ t[m] \in Int /\ u[m] \in Int
      BY <1>3
    <2>4. CASE n <= m
      <3>1. s[n] > u[n]
        <4>1. n = m \/ n \in 1 .. m - 1
          BY <2>4
        <4> QED
          BY <2>1, <2>2, <2>3, <4>1
      <3>2. \A k \in 1 .. n - 1 : s[k] = u[k]
        BY <2>1, <2>2, <2>4
      <3> QED
        BY <3>1, <3>2 DEF Beats
    <2>5. CASE m < n
      <3>1. s[m] > u[m] /\ \A k \in 1 .. m - 1 : s[k] = u[k]
        BY <2>1, <2>2, <2>3, <2>5
      <3> QED
        BY <3>1 DEF Beats
    <2> QED
      BY <2>4, <2>5
  <1> QED
    BY <1>1, <1>2, <1>3

LEMMA Keys ==
  ASSUME ContextAssumption, NEW item \in Pool
  PROVE  /\ Relevant(item) \in Nat /\ item.size \in Nat
         /\ RankKey(item) \in Seq(Int) /\ Len(RankKey(item)) = 3
  <1>1. /\ item.relevance \in Nat /\ item.authority \in Nat /\ item.freshness \in Nat
        /\ item.kind \in SourceKind /\ item.id \in Nat /\ item.size \in Nat
    <2>1. item \in ContextItem
      BY DEF ContextAssumption
    <2> QED
      BY <2>1 DEF ContextItem
  <1>2. Priority[item.kind] \in Nat
    BY <1>1 DEF Priority, SourceKind
  <1>3. Relevant(item) \in Nat /\ Blended(item) \in Int
    BY <1>1, <1>2 DEF Relevant, Blended
  <1> QED
    BY <1>1, <1>3 DEF RankKey

\* Rank is a strict total order of the items.
LEMMA RankOrder ==
  ASSUME ContextAssumption, NEW a \in Pool, NEW b \in Pool
  PROVE  /\ a # b => Beats(RankKey(a), RankKey(b)) \/ Beats(RankKey(b), RankKey(a))
         /\ ~(Beats(RankKey(a), RankKey(b)) /\ Beats(RankKey(b), RankKey(a)))
         /\ \A c \in Pool : Beats(RankKey(a), RankKey(b)) /\ Beats(RankKey(b), RankKey(c))
              => Beats(RankKey(a), RankKey(c))
  <1>1. \A c \in Pool : RankKey(c) \in Seq(Int) /\ Len(RankKey(c)) = 3
    BY Keys
  <1>2. a # b => RankKey(a) # RankKey(b)
    <2>1. RankKey(a) = RankKey(b) => -a.id = -b.id
      BY DEF RankKey
    <2>2. a.id \in Nat /\ b.id \in Nat
      BY DEF ContextAssumption, ContextItem
    <2>3. a.id = b.id => a = b
      BY DEF ContextAssumption
    <2> QED
      BY <2>1, <2>2, <2>3
  <1> QED
    BY <1>1, <1>2, BeatsByFirst

\* Ranked sorts its items.
LEMMA RankedSorts ==
  ASSUME ContextAssumption, NEW items \in SUBSET Pool, IsFiniteSet(items)
  PROVE  /\ Ranked(items) \in Seq(items)
         /\ \A item \in items : \E k \in 1 .. Len(Ranked(items)) : Ranked(items)[k] = item
         /\ \A i, j \in 1 .. Len(Ranked(items)) : i < j =>
              Beats(RankKey(Ranked(items)[i]), RankKey(Ranked(items)[j]))
  <1> DEFINE N == Cardinality(items)
             count == [item \in items |-> Cardinality(RankedAbove(items, item))]
  <1>1. N \in Nat
    BY FS_CardinalityType
  <1>2. \A item \in items : count[item] \in 0 .. N - 1
    <2> TAKE item \in items
    <2>1. RankedAbove(items, item) \in SUBSET (items \ {item})
      BY RankOrder DEF RankedAbove
    <2>2. IsFiniteSet(items \ {item}) /\ Cardinality(items \ {item}) = N - 1
      BY FS_RemoveElement
    <2>3. IsFiniteSet(RankedAbove(items, item)) /\ Cardinality(RankedAbove(items, item)) <= N - 1
      BY <2>1, <2>2, FS_Subset
    <2>4. Cardinality(RankedAbove(items, item)) \in Nat
      BY <2>3, FS_CardinalityType
    <2> QED
      BY <1>1, <2>3, <2>4
  <1>3. \A a, b \in items : Beats(RankKey(a), RankKey(b)) => count[a] < count[b]
    <2> SUFFICES ASSUME NEW a \in items, NEW b \in items, Beats(RankKey(a), RankKey(b))
                 PROVE  count[a] < count[b]
      OBVIOUS
    <2> DEFINE A == RankedAbove(items, a)
               B == RankedAbove(items, b)
    <2>1. a \notin A /\ A \cup {a} \in SUBSET B
      BY RankOrder DEF RankedAbove
    <2>2. IsFiniteSet(A) /\ IsFiniteSet(B)
      BY FS_Subset DEF RankedAbove
    <2>3. Cardinality(A \cup {a}) = Cardinality(A) + 1
      BY <2>1, <2>2, FS_AddElement
    <2>4. Cardinality(A \cup {a}) <= Cardinality(B)
      BY <2>1, <2>2, FS_Subset
    <2>5. Cardinality(A) \in Nat /\ Cardinality(B) \in Nat
      BY <2>2, FS_CardinalityType
    <2>6. Cardinality(A) < Cardinality(B)
      BY <2>3, <2>4, <2>5
    <2> QED
      BY <2>6
  <1> HIDE DEF count
  <1>4. \A a, b \in items : count[a] = count[b] => a = b
    BY <1>2, <1>3, RankOrder
  <1>5. count \in Surjection(items, 0 .. N - 1)
    <2>1. count \in Injection(items, 0 .. N - 1)
      <3>1. count \in [items -> 0 .. N - 1]
        BY <1>2 DEF count
      <3> QED
        BY <1>4, <3>1 DEF Injection, IsInjective
    <2>2. IsFiniteSet(0 .. N - 1) /\ Cardinality(0 .. N - 1) = N
      BY <1>1, FS_Interval
    <2> QED
      BY <2>1, <2>2, FS_Injection
  <1>6. \A n \in 0 .. N - 1 : \E item \in items : count[item] = n
    BY <1>5 DEF Surjection
  <1> DEFINE r == Ranked(items)
  <1>7. r = [k \in 1 .. N |-> CHOOSE item \in items : count[item] = k - 1]
    BY DEF Ranked, count
  <1>8. \A k \in 1 .. N : r[k] \in items /\ count[r[k]] = k - 1
    <2> TAKE k \in 1 .. N
    <2>1. k - 1 \in 0 .. N - 1
      BY <1>1
    <2>2. \E item \in items : count[item] = k - 1
      BY <1>6, <2>1
    <2>3. r[k] = CHOOSE item \in items : count[item] = k - 1
      BY <1>7
    <2> QED
      BY <2>2, <2>3
  <1>9. r \in Seq(items) /\ Len(r) = N
    BY <1>1, <1>7, <1>8
  <1> HIDE DEF N, r
  <1>10. \A item \in items : \E k \in 1 .. Len(r) : r[k] = item
    <2> TAKE item \in items
    <2> DEFINE k == count[item] + 1
    <2>1. k \in 1 .. N /\ k - 1 = count[item]
      BY <1>1, <1>2
    <2>2. r[k] \in items /\ count[r[k]] = count[item]
      BY <1>8, <2>1
    <2>3. r[k] = item
      BY <1>4, <2>2
    <2> QED
      BY <1>9, <2>1, <2>3
  <1>11. \A i, j \in 1 .. Len(r) : i < j => Beats(RankKey(r[i]), RankKey(r[j]))
    <2> SUFFICES ASSUME NEW i \in 1 .. N, NEW j \in 1 .. N, i < j
                 PROVE  Beats(RankKey(r[i]), RankKey(r[j]))
      BY <1>9
    <2>1. r[i] \in items /\ r[j] \in items /\ count[r[i]] < count[r[j]] /\ r[i] # r[j]
      BY <1>1, <1>8
    <2>2. ~Beats(RankKey(r[j]), RankKey(r[i]))
      BY <1>2, <1>3, <2>1
    <2> QED
      BY <2>1, <2>2, RankOrder
  <1> QED
    BY <1>9, <1>10, <1>11 DEF r

-----------------------------------------------------------------------------
\* The selection loop

LEMMA SizeGrows ==
  ASSUME NEW items, NEW item, item \notin items, item.size \in Nat, IsFiniteSet(Characters(items))
  PROVE  /\ IsFiniteSet(Characters(items \cup {item}))
         /\ Size(items \cup {item}) = Size(items) + item.size
  <1> DEFINE old == Characters(items)
             new == {item} \X (1 .. item.size)
  <1>1. Characters(items \cup {item}) = old \cup new
    BY DEF Characters
  <1>2. old \cap new = {}
    BY DEF Characters
  <1>3. IsFiniteSet(new) /\ Cardinality(new) = item.size
    <2>1. IsFiniteSet(1 .. item.size) /\ Cardinality(1 .. item.size) = item.size
      BY FS_Interval
    <2>2. IsFiniteSet({item}) /\ Cardinality({item}) = 1
      BY FS_Singleton
    <2>3. IsFiniteSet(new) /\ Cardinality(new) = Cardinality({item}) * Cardinality(1 .. item.size)
      BY <2>1, <2>2, FS_Product
    <2> QED
      BY <2>1, <2>2, <2>3
  <1> HIDE DEF old, new
  <1>4. IsFiniteSet(old)
    BY DEF old
  <1>5. /\ IsFiniteSet(old \cup new)
        /\ Cardinality(old \cup new) = Cardinality(old) + Cardinality(new) - Cardinality(old \cap new)
    BY <1>3, <1>4, FS_Union
  <1>6. Cardinality(old \cap new) = 0 /\ Cardinality(old) \in Nat
    BY <1>2, <1>4, FS_EmptySet, FS_CardinalityType
  <1>7. Size(items) = Cardinality(old) /\ Size(items \cup {item}) = Cardinality(old \cup new)
    BY <1>1 DEF Size, old
  <1>8. Cardinality(old \cup new) = Cardinality(old) + item.size
    BY <1>3, <1>5, <1>6
  <1> QED
    BY <1>1, <1>5, <1>7, <1>8

Choice(items) == [items : Seq(items), used : Nat, truncated : BOOLEAN]

Start == [items |-> <<>>, used |-> 0, truncated |-> FALSE]

\* The loop does what it says, whatever it is given.
LEMMA LoopRuns ==
  ASSUME NEW ranked, NEW items, ranked \in Seq(items), \A item \in items : item.size \in Nat,
         NEW request
  PROVE  /\ Loop(ranked, request)[0] = Start
         /\ \A n \in 1 .. Len(ranked) :
              Loop(ranked, request)[n] = Take(Loop(ranked, request)[n - 1], ranked[n], request)
         /\ \A n \in 0 .. Len(ranked) : Loop(ranked, request)[n] \in Choice(items)
  <1> DEFINE L == Len(ranked)
             States == Choice(items)
             step == [s \in States \X (1 .. L) |-> Take(s[1], ranked[s[2]], request)]
             loop == Loop(ranked, request)
  <1>1. L \in Nat /\ \A n \in 1 .. L : ranked[n] \in items
    BY ElementOfSeq
  <1>2. Start \in States
    BY DEF Start, Choice
  <1>3. \A chosen \in States, item \in items : Take(chosen, item, request) \in States
    <2> TAKE chosen \in States, item \in items
    <2>1. /\ chosen.items \in Seq(items) /\ chosen.used \in Nat /\ item.size \in Nat
          /\ chosen = [items |-> chosen.items, used |-> chosen.used, truncated |-> chosen.truncated]
      BY DEF Choice
    <2>2. Append(chosen.items, item) \in Seq(items) /\ chosen.used + item.size \in Nat
      BY <2>1
    <2> QED
      BY <2>1, <2>2 DEF Take, Choice
  <1>4. step \in [States \X (1 .. L) -> States]
    BY <1>1, <1>3
  <1>5. PICK f \in [0 .. L -> States] : Follows(f, Start, step, L)
    <2> HIDE DEF step, L, States
    <2>1. L \in Nat
      BY <1>1
    <2> QED
      BY <2>1, <1>2, <1>4, Recursion
  <1>6. \A n \in 1 .. L : f[n] = Take(f[n - 1], ranked[n], request)
    <2> TAKE n \in 1 .. L
    <2>1. n - 1 \in 0 .. L /\ f[n - 1] \in States
      BY <1>1
    <2> QED
      BY <1>5, <2>1 DEF Follows
  <1>7. f = [n \in 0 .. L |-> IF n = 0 THEN Start ELSE Take(f[n - 1], ranked[n], request)]
    BY <1>1, <1>5, <1>6 DEF Follows
  <1>8. loop = CHOOSE g : g = [n \in 0 .. L |-> IF n = 0 THEN Start ELSE Take(g[n - 1], ranked[n], request)]
    BY DEF Loop, Start
  <1>9. loop = [n \in 0 .. L |-> IF n = 0 THEN Start ELSE Take(loop[n - 1], ranked[n], request)]
    <2> HIDE DEF loop, L
    <2> QED
      BY <1>7, <1>8
  <1> HIDE DEF loop, States
  <1>10. loop[0] = Start /\ \A n \in 1 .. L : loop[n] = Take(loop[n - 1], ranked[n], request)
    BY <1>1, <1>9
  <1>11. \A n \in 0 .. L : loop[n] \in States
    <2> DEFINE good == {n \in 0 .. L : loop[n] \in States}
    <2>1. 0 \in good
      BY <1>1, <1>2, <1>10
    <2>2. ASSUME NEW n \in 0 .. L - 1, n \in good
          PROVE  n + 1 \in good
      <3>1. n + 1 \in 1 .. L /\ (n + 1) - 1 = n
        BY <1>1
      <3>2. loop[n + 1] = Take(loop[n], ranked[n + 1], request)
        BY <1>10, <3>1
      <3> QED
        BY <1>1, <1>3, <2>2, <3>1, <3>2
    <2> HIDE DEF good
    <2>3. \A n \in 0 .. L : n \in good
      BY <1>1, <2>1, <2>2, UpTo
    <2> QED
      BY <2>3 DEF good
  <1> QED
    BY <1>10, <1>11 DEF loop, States

\* What a choice from the first items of a sequence, the best first, keeps to.
ChoiceFits(chosen, ranked, n, request) ==
  LET members == Members(chosen.items) IN
  /\ \A item \in members : \E k \in 1 .. n : ranked[k] = item
  /\ \A i, j \in 1 .. Len(chosen.items) : i < j =>
       Beats(RankKey(chosen.items[i]), RankKey(chosen.items[j]))
  /\ IsFiniteSet(members) /\ Cardinality(members) = Len(chosen.items)
  /\ Len(chosen.items) <= request.limit
  /\ IsFiniteSet(Characters(members)) /\ Size(members) = chosen.used
  /\ chosen.used <= request.room
  /\ \A k \in 1 .. n : ranked[k] \notin members =>
       NoPlace(ranked[k], members, request) /\ chosen.truncated
  /\ chosen.truncated =>
       \E k \in 1 .. n : ranked[k] \notin members /\ NoPlace(ranked[k], members, request)

\* A better item is not disturbed by one that ranks below it.
LEMMA TakeFits ==
  ASSUME ContextAssumption, NEW ranked \in Seq(Pool),
         \A i, j \in 1 .. Len(ranked) : i < j => Beats(RankKey(ranked[i]), RankKey(ranked[j])),
         NEW request, request.limit \in Nat, request.room \in Nat,
         NEW n \in 0 .. Len(ranked) - 1, NEW chosen \in Choice(Pool),
         ChoiceFits(chosen, ranked, n, request)
  PROVE  ChoiceFits(Take(chosen, ranked[n + 1], request), ranked, n + 1, request)
  <1> DEFINE item == ranked[n + 1]
             members == Members(chosen.items)
             next == Take(chosen, item, request)
             after == Members(next.items)
  <1>1. /\ n + 1 \in 1 .. Len(ranked) /\ item \in Pool /\ item.size \in Nat
        /\ \A k \in 1 .. n : k \in 1 .. Len(ranked) /\ ranked[k] \in Pool
                             /\ Beats(RankKey(ranked[k]), RankKey(item))
    <2>1. n + 1 \in 1 .. Len(ranked) /\ item \in Pool
      BY ElementOfSeq
    <2>2. item.size \in Nat
      BY <2>1, Keys
    <2>3. \A k \in 1 .. n : k \in 1 .. Len(ranked) /\ ranked[k] \in Pool /\ k < n + 1
      BY ElementOfSeq
    <2> QED
      BY <2>1, <2>2, <2>3
  <1>2. /\ chosen.items \in Seq(Pool) /\ chosen.used \in Nat /\ chosen.truncated \in BOOLEAN
        /\ chosen = [items |-> chosen.items, used |-> chosen.used, truncated |-> chosen.truncated]
        /\ Len(chosen.items) \in Nat
    BY DEF Choice
  <1>3. \A other \in members : other \in Pool /\ Beats(RankKey(other), RankKey(item))
    BY <1>1 DEF ChoiceFits
  <1>4. item \notin members
    BY <1>1, <1>3, RankOrder
  <1>5. \A k \in 1 .. n : ~Beats(RankKey(item), RankKey(ranked[k]))
    BY <1>1, RankOrder
  <1>6. CASE Len(chosen.items) >= request.limit \/ chosen.used + item.size > request.room
    <2>1. next.items = chosen.items /\ next.used = chosen.used /\ next.truncated = TRUE
      BY <1>2, <1>6 DEF Take
    <2>2. RankedAbove(members, item) = members
      BY <1>3 DEF RankedAbove
    <2>3. NoPlace(item, members, request)
      BY <1>2, <1>6, <2>2 DEF NoPlace, ChoiceFits
    <2>4. after = members
      BY <2>1
    <2>5. \A k \in 1 .. n + 1 : k \in 1 .. n \/ k = n + 1
      OBVIOUS
    <2>6. \A k \in 1 .. n : k \in 1 .. n + 1
      OBVIOUS
    <2>7. n + 1 \in 1 .. n + 1
      OBVIOUS
    <2> HIDE DEF members, next, item
    <2>8. \A k \in 1 .. n + 1 : ranked[k] \notin members =>
            NoPlace(ranked[k], members, request) /\ next.truncated
      BY <2>1, <2>3, <2>5 DEF ChoiceFits, members, item
    <2>9. next.truncated => \E k \in 1 .. n + 1 :
            ranked[k] \notin members /\ NoPlace(ranked[k], members, request)
      BY <2>3, <2>7, <1>4 DEF item
    <2>10. \A other \in members : \E k \in 1 .. n + 1 : ranked[k] = other
      BY <2>6 DEF ChoiceFits, members
    <2>11. ChoiceFits(next, ranked, n + 1, request)
      BY <2>1, <2>4, <2>8, <2>9, <2>10 DEF ChoiceFits, members
    <2> QED
      BY <2>11 DEF next, item
  <1>7. CASE Len(chosen.items) < request.limit /\ chosen.used + item.size <= request.room
    <2>1. /\ next.items = Append(chosen.items, item) /\ next.used = chosen.used + item.size
          /\ next.truncated = chosen.truncated
      <3>1. ~(Len(chosen.items) >= request.limit \/ chosen.used + item.size > request.room)
        BY <1>1, <1>2, <1>7
      <3>2. next = [chosen EXCEPT !.items = Append(@, item), !.used = @ + item.size]
        BY <3>1 DEF Take
      <3> QED
        BY <1>2, <3>2
    <2>2. /\ Len(next.items) = Len(chosen.items) + 1
          /\ \A i \in 1 .. Len(chosen.items) : next.items[i] = chosen.items[i]
          /\ next.items[Len(chosen.items) + 1] = item
      BY <1>1, <1>2, <2>1
    <2>3. after = members \cup {item}
      <3>1. \A i \in 1 .. Len(next.items) : i \in 1 .. Len(chosen.items) \/ i = Len(chosen.items) + 1
        BY <1>2, <2>2
      <3>2. \A i \in 1 .. Len(chosen.items) : i \in 1 .. Len(next.items)
        BY <1>2, <2>2
      <3>3. Len(chosen.items) + 1 \in 1 .. Len(next.items)
        BY <1>2, <2>2
      <3>4. after \subseteq members \cup {item}
        BY <2>2, <3>1 DEF Members
      <3>5. members \subseteq after
        BY <2>2, <3>2 DEF Members
      <3>6. item \in after
        BY <2>2, <3>3 DEF Members
      <3> HIDE DEF after, members
      <3> QED
        BY <3>4, <3>5, <3>6
    <2>4. \A i, j \in 1 .. Len(next.items) : i < j =>
            Beats(RankKey(next.items[i]), RankKey(next.items[j]))
      <3> SUFFICES ASSUME NEW i \in 1 .. Len(next.items), NEW j \in 1 .. Len(next.items), i < j
                   PROVE  Beats(RankKey(next.items[i]), RankKey(next.items[j]))
        OBVIOUS
      <3>1. i \in 1 .. Len(chosen.items) /\ next.items[i] = chosen.items[i] /\ chosen.items[i] \in members
        BY <1>2, <2>2 DEF Members
      <3>2. CASE j \in 1 .. Len(chosen.items)
        BY <2>2, <3>1, <3>2 DEF ChoiceFits
      <3>3. CASE j = Len(chosen.items) + 1
        BY <1>3, <2>2, <3>1, <3>3
      <3> QED
        BY <1>2, <2>2, <3>2, <3>3
    <2>5. /\ IsFiniteSet(after) /\ Cardinality(after) = Len(next.items)
          /\ IsFiniteSet(Characters(after)) /\ Size(after) = next.used
      <3>1. /\ IsFiniteSet(members) /\ Cardinality(members) = Len(chosen.items)
            /\ IsFiniteSet(Characters(members)) /\ Size(members) = chosen.used
        BY DEF ChoiceFits
      <3> HIDE DEF members, item
      <3>2. IsFiniteSet(members \cup {item}) /\ Cardinality(members \cup {item}) = Len(chosen.items) + 1
        BY <1>4, <3>1, FS_AddElement
      <3>3. /\ IsFiniteSet(Characters(members \cup {item}))
            /\ Size(members \cup {item}) = Size(members) + item.size
        BY <1>1, <1>4, <3>1, SizeGrows
      <3> QED
        BY <2>1, <2>2, <2>3, <3>1, <3>2, <3>3
    <2>6. Len(next.items) <= request.limit /\ next.used <= request.room
      BY <1>1, <1>2, <1>7, <2>1, <2>2
    <2>7. \A k \in 1 .. n : RankedAbove(after, ranked[k]) = RankedAbove(members, ranked[k])
      BY <1>5, <2>3 DEF RankedAbove
    <2>8. \A k \in 1 .. n : NoPlace(ranked[k], members, request) => NoPlace(ranked[k], after, request)
      BY <2>7 DEF NoPlace
    <2>9. \A k \in 1 .. n + 1 : ranked[k] \notin after =>
            NoPlace(ranked[k], after, request) /\ next.truncated
      <3> SUFFICES ASSUME NEW k \in 1 .. n + 1, ranked[k] \notin after
                   PROVE  NoPlace(ranked[k], after, request) /\ next.truncated
        OBVIOUS
      <3>1. k # n + 1 /\ ranked[k] \notin members
        BY <2>3
      <3>2. k \in 1 .. n
        BY <3>1
      <3> HIDE DEF after
      <3> QED
        BY <2>1, <2>8, <3>1, <3>2 DEF ChoiceFits
    <2>10. next.truncated => \E k \in 1 .. n + 1 :
             ranked[k] \notin after /\ NoPlace(ranked[k], after, request)
      <3> SUFFICES ASSUME next.truncated
                   PROVE  \E k \in 1 .. n + 1 : ranked[k] \notin after /\ NoPlace(ranked[k], after, request)
        OBVIOUS
      <3>1. PICK k \in 1 .. n : ranked[k] \notin members /\ NoPlace(ranked[k], members, request)
        BY <2>1 DEF ChoiceFits
      <3>2. ranked[k] # item
        BY <1>1, <1>5
      <3>3. ranked[k] \notin after /\ NoPlace(ranked[k], after, request)
        BY <2>3, <2>8, <3>1, <3>2
      <3>4. k \in 1 .. n + 1
        OBVIOUS
      <3> QED
        BY <3>3, <3>4
    <2>11. \A other \in after : \E k \in 1 .. n + 1 : ranked[k] = other
      <3>1. \A k \in 1 .. n : k \in 1 .. n + 1
        OBVIOUS
      <3>2. n + 1 \in 1 .. n + 1
        OBVIOUS
      <3> QED
        BY <2>3, <3>1, <3>2 DEF ChoiceFits
    <2> HIDE DEF next, item
    <2>12. ChoiceFits(next, ranked, n + 1, request)
      BY <2>4, <2>5, <2>6, <2>9, <2>10, <2>11 DEF ChoiceFits
    <2> QED
      BY <2>12 DEF next, item
  <1>8. Len(chosen.items) < request.limit \/ Len(chosen.items) >= request.limit
    BY <1>2
  <1>9. chosen.used + item.size <= request.room \/ chosen.used + item.size > request.room
    BY <1>1, <1>2
  <1> QED
    BY <1>6, <1>7, <1>8, <1>9

LEMMA LoopFits ==
  ASSUME ContextAssumption, NEW ranked \in Seq(Pool),
         \A i, j \in 1 .. Len(ranked) : i < j => Beats(RankKey(ranked[i]), RankKey(ranked[j])),
         NEW request, request.limit \in Nat, request.room \in Nat
  PROVE  /\ Loop(ranked, request)[Len(ranked)] \in Choice(Pool)
         /\ ChoiceFits(Loop(ranked, request)[Len(ranked)], ranked, Len(ranked), request)
  <1> DEFINE L == Len(ranked)
             loop == Loop(ranked, request)
             good == {n \in 0 .. L : ChoiceFits(loop[n], ranked, n, request)}
  <1>1. L \in Nat /\ \A item \in Pool : item.size \in Nat
    BY Keys
  <1>2. /\ loop[0] = Start
        /\ \A n \in 1 .. L : loop[n] = Take(loop[n - 1], ranked[n], request)
        /\ \A n \in 0 .. L : loop[n] \in Choice(Pool)
    BY <1>1, LoopRuns
  <1> HIDE DEF loop
  <1>3. 0 \in good
    <2>1. Members(Start.items) = {}
      BY DEF Members, Start
    <2>2. Characters({}) = {} /\ IsFiniteSet({}) /\ Cardinality({}) = 0 /\ Size({}) = 0
      BY FS_EmptySet DEF Characters, Size
    <2>3. Len(Start.items) = 0 /\ Start.used = 0 /\ ~Start.truncated
      BY DEF Start
    <2>4. 1 .. 0 = {}
      OBVIOUS
    <2>5. /\ \A item \in Members(Start.items) : \E k \in 1 .. 0 : ranked[k] = item
          /\ \A i, j \in 1 .. Len(Start.items) : i < j =>
               Beats(RankKey(Start.items[i]), RankKey(Start.items[j]))
          /\ \A k \in 1 .. 0 : ranked[k] \notin Members(Start.items) =>
               NoPlace(ranked[k], Members(Start.items), request) /\ Start.truncated
      BY <2>1, <2>3, <2>4
    <2>6. /\ IsFiniteSet(Members(Start.items)) /\ Cardinality(Members(Start.items)) = Len(Start.items)
          /\ Len(Start.items) <= request.limit
          /\ IsFiniteSet(Characters(Members(Start.items))) /\ Size(Members(Start.items)) = Start.used
          /\ Start.used <= request.room
      <3>1. IsFiniteSet(Characters(Members(Start.items)))
        BY <2>1, <2>2, Zenon
      <3> QED
        BY <2>1, <2>2, <2>3, <3>1
    <2>7. ChoiceFits(Start, ranked, 0, request)
      BY <2>3, <2>5, <2>6, Zenon DEF ChoiceFits
    <2> QED
      BY <1>1, <1>2, <2>7
  <1>4. ASSUME NEW n \in 0 .. L - 1, n \in good
        PROVE  n + 1 \in good
    <2>1. n + 1 \in 1 .. L /\ (n + 1) - 1 = n /\ n + 1 \in 0 .. L /\ n \in 0 .. L
      BY <1>1
    <2>2. loop[n + 1] = Take(loop[n], ranked[n + 1], request)
      BY <1>2, <2>1
    <2>3. loop[n] \in Choice(Pool) /\ ChoiceFits(loop[n], ranked, n, request)
      BY <1>2, <1>4, <2>1
    <2>4. ChoiceFits(Take(loop[n], ranked[n + 1], request), ranked, n + 1, request)
      BY <2>3, TakeFits
    <2> QED
      BY <2>1, <2>2, <2>4
  <1> HIDE DEF good
  <1>5. \A n \in 0 .. L : n \in good
    BY <1>1, <1>3, <1>4, UpTo
  <1>6. L \in 0 .. L /\ L \in good
    BY <1>1, <1>5
  <1> QED
    BY <1>2, <1>6 DEF good, loop

\* What is allowed holds no two items of one content, and of what was given all that
\* the request allows and that has the most authority among its duplicates.
Candidates(allowed, given, request) ==
  /\ \A item \in allowed : item \in given /\ Allowed(item, request)
  /\ \A item \in given : Allowed(item, request) /\ ~Duplicated(item, given) => item \in allowed
  /\ \A a, b \in allowed : a.content = b.content => a = b

LEMMA SelectionIsExplained ==
  ASSUME ContextAssumption, NEW allowed \in SUBSET Pool, IsFiniteSet(allowed), NEW given,
         NEW request \in ContextRequest, Candidates(allowed, given, request), given \in SUBSET Pool
  PROVE  /\ Explained(Selection(given, allowed, request))
         /\ Selection(given, allowed, request) \in Selected
         /\ Members(Selection(given, allowed, request).items) \subseteq given
  <1> DEFINE ranked == Ranked(allowed)
             chosen == Loop(ranked, request)[Len(ranked)]
             members == Members(chosen.items)
             made == Selection(given, allowed, request)
  <1>1. request.limit \in Nat /\ request.room \in Nat
    BY DEF ContextRequest
  <1>2. /\ ranked \in Seq(allowed)
        /\ \A item \in allowed : \E k \in 1 .. Len(ranked) : ranked[k] = item
        /\ \A i, j \in 1 .. Len(ranked) : i < j => Beats(RankKey(ranked[i]), RankKey(ranked[j]))
    BY RankedSorts
  <1>3. ranked \in Seq(Pool) /\ Len(ranked) \in Nat /\ \A k \in 1 .. Len(ranked) : ranked[k] \in allowed
    <2> HIDE DEF ranked
    <2> QED
      BY <1>2, ElementOfSeq
  <1>4. chosen \in Choice(Pool) /\ ChoiceFits(chosen, ranked, Len(ranked), request)
    <2> HIDE DEF ranked
    <2> QED
      BY <1>1, <1>2, <1>3, LoopFits
  <1>5. /\ made.request = request /\ made.given = given /\ made.items = chosen.items
        /\ made.truncated = chosen.truncated
    BY DEF Selection
  <1>6. chosen.items \in Seq(Pool) /\ Len(chosen.items) \in Nat
    BY <1>4 DEF Choice
  <1>7. made \in Selected
    BY <1>4 DEF Choice, Selection, Selected
  <1> HIDE DEF ranked, chosen, made
  <1>8. \A item \in members : item \in allowed
    BY <1>3, <1>4 DEF ChoiceFits
  <1>9. ASSUME NEW item \in given \ members, Allowed(item, request), ~Duplicated(item, given)
        PROVE  NoPlace(item, members, request) /\ chosen.truncated
    <2>1. PICK k \in 1 .. Len(ranked) : ranked[k] = item
      BY <1>2, <1>9 DEF Candidates
    <2> HIDE DEF members
    <2> QED
      BY <1>4, <2>1 DEF ChoiceFits, members
  <1>10. ASSUME chosen.truncated
        PROVE  \E item \in given \ members : Allowed(item, request) /\ NoPlace(item, members, request)
    <2>1. PICK k \in 1 .. Len(ranked) : ranked[k] \notin members /\ NoPlace(ranked[k], members, request)
      BY <1>4, <1>10 DEF ChoiceFits
    <2>2. ranked[k] \in given /\ Allowed(ranked[k], request)
      BY <1>3 DEF Candidates
    <2> QED
      BY <2>1, <2>2
  <1>11. Len(chosen.items) <= request.limit /\ Size(members) <= request.room
    BY <1>4 DEF ChoiceFits
  <1>12. \A i, j \in 1 .. Len(chosen.items) : i < j =>
           /\ Beats(RankKey(chosen.items[i]), RankKey(chosen.items[j]))
           /\ chosen.items[i].content # chosen.items[j].content
    <2> SUFFICES ASSUME NEW i \in 1 .. Len(chosen.items), NEW j \in 1 .. Len(chosen.items), i < j
                 PROVE  /\ Beats(RankKey(chosen.items[i]), RankKey(chosen.items[j]))
                        /\ chosen.items[i].content # chosen.items[j].content
      OBVIOUS
    <2>1. Beats(RankKey(chosen.items[i]), RankKey(chosen.items[j]))
      BY <1>4 DEF ChoiceFits
    <2>2. chosen.items[i] \in allowed /\ chosen.items[j] \in allowed
      BY <1>8 DEF Members
    <2>3. chosen.items[i] # chosen.items[j]
      BY <2>1, <2>2, RankOrder
    <2> QED
      BY <2>1, <2>2, <2>3 DEF Candidates
  <1>13. \A item \in members : item \in given /\ Allowed(item, request)
    BY <1>8 DEF Candidates
  <1>14. Explained(made)
    <2> HIDE DEF members
    <2>1. Members(made.items) = members
      BY <1>5 DEF members
    <2> QED
      BY <1>5, <1>9, <1>10, <1>11, <1>12, <1>13, <2>1 DEF Explained
  <1> QED
    BY <1>5, <1>13, <1>14, <1>7 DEF made

\* Retrieved items that are not duplicates, and that the request allows, are candidates.
LEMMA DeduplicatedFits ==
  ASSUME ContextAssumption, NEW items \in SUBSET Pool, items \subseteq Retrieved, NEW request
  PROVE  Candidates({item \in Deduplicated(items) : Allowed(item, request)}, items, request)
  <1> DEFINE kept == {item \in Deduplicated(items) : Allowed(item, request)}
  <1>1. \A item \in items : PreferenceKey(item) \in Seq(Int) /\ Len(PreferenceKey(item)) = 4
    <2> TAKE item \in items
    <2>1. item.authority \in Nat /\ item.id \in Nat /\ Relevant(item) \in Nat
      <3>1. item \in ContextItem
        BY DEF ContextAssumption
      <3>2. Relevant(item) \in Nat
        BY Keys
      <3> QED
        BY <3>1, <3>2 DEF ContextItem
    <2>2. Origin(item) \in Nat
      <3> DEFINE origins == {r \in 1 .. Retrievers : item \in answers[r][1]}
      <3>1. origins \in SUBSET Nat /\ origins # {}
        BY DEF Retrieved
      <3>2. PICK r \in origins : \A q \in origins : r <= q
        BY <3>1, LeastNatural
      <3>3. \A earlier \in 1 .. r - 1 : item \notin answers[earlier][1]
        BY <3>2 DEF ContextAssumption
      <3>4. Origin(item) \in 1 .. Retrievers
        BY <3>2, <3>3 DEF Origin
      <3> QED
        BY <3>4
    <2> QED
      BY <2>1, <2>2 DEF PreferenceKey
  <1>2. \A a, b \in Deduplicated(items) : a.content = b.content => a = b
    <2> SUFFICES ASSUME NEW a \in Deduplicated(items), NEW b \in Deduplicated(items),
                        a.content = b.content, a # b
                 PROVE  FALSE
      OBVIOUS
    <2>1. /\ Beats(PreferenceKey(a), PreferenceKey(b)) /\ Beats(PreferenceKey(b), PreferenceKey(a))
          /\ a \in items /\ b \in items
      BY DEF Deduplicated
    <2> QED
      BY <1>1, <2>1, BeatsByFirst
  <1>3. ASSUME NEW item \in items, ~Duplicated(item, items)
        PROVE  item \in Deduplicated(items)
    <2> SUFFICES ASSUME NEW other \in items \ {item}, other.content = item.content
                 PROVE  Beats(PreferenceKey(item), PreferenceKey(other))
      BY DEF Deduplicated
    <2>1. item.authority \in Nat /\ other.authority \in Nat
      <3>1. item \in ContextItem /\ other \in ContextItem
        BY DEF ContextAssumption
      <3> QED
        BY <3>1 DEF ContextItem
    <2>2. item.authority > other.authority
      BY <1>3, <2>1 DEF Duplicated
    <2>3. /\ PreferenceKey(item)[1] = item.authority /\ PreferenceKey(other)[1] = other.authority
          /\ 1 \in 1 .. Len(PreferenceKey(item))
      BY <1>1 DEF PreferenceKey
    <2>4. \A k \in 1 .. 1 - 1 : PreferenceKey(item)[k] = PreferenceKey(other)[k]
      OBVIOUS
    <2> QED
      BY <2>2, <2>3, <2>4 DEF Beats
  <1>4. \A item \in Deduplicated(items) : item \in items
    BY DEF Deduplicated
  <1> QED
    BY <1>2, <1>3, <1>4 DEF Candidates

-----------------------------------------------------------------------------
\* The invariant of the builder

ContextInv ==
  /\ ContextTypeOK
  /\ \A r \in 1 .. Retrievers :
       /\ IsFiniteSet(shelves[r])
       /\ answers[r] # <<>> => asked # <<>> /\ IsFiniteSet(answers[r][1])
  /\ context # <<>> => Answered /\ Members(context[1].items) \subseteq Retrieved
  /\ SelectionExplained

\* What all retrievers answer together is a finite set of items.
LEMMA RetrievedItems ==
  ASSUME ContextAssumption, ContextInv, Answered
  PROVE  Retrieved \in SUBSET Pool /\ IsFiniteSet(Retrieved) /\ asked # <<>>
  <1> DEFINE places == 1 .. Retrievers
             held == [r \in places |-> answers[r][1]]
             all == {answers[r][1] : r \in places}
  <1>1. Retrievers \in Nat /\ 1 \in places /\ IsFiniteSet(places)
    BY FS_Interval DEF ContextAssumption
  <1>2. \A r \in places : answers[r][1] \in SUBSET Pool /\ IsFiniteSet(answers[r][1])
    <2> TAKE r \in places
    <2>1. answers[r] # <<>> /\ answers[r] \in {<<>>} \cup {<<one>> : one \in SUBSET Pool}
      BY DEF ContextInv, ContextTypeOK, Answered
    <2>2. PICK one \in SUBSET Pool : answers[r] = <<one>>
      BY <2>1
    <2> QED
      BY <2>1, <2>2 DEF ContextInv
  <1>3. held \in Surjection(places, all)
    BY DEF Surjection
  <1>4. IsFiniteSet(all)
    BY <1>1, <1>3, FS_Surjection
  <1>5. IsFiniteSet(UNION all)
    <2>1. \A items \in all : IsFiniteSet(items)
      BY <1>2
    <2> HIDE DEF all
    <2> QED
      BY <2>1, <1>4, FS_UNION
  <1>6. Retrieved = UNION all
    BY DEF Retrieved
  <1>7. asked # <<>>
    BY <1>1 DEF ContextInv, Answered
  <1> QED
    BY <1>2, <1>5, <1>6, <1>7 DEF Retrieved

LEMMA OneMore ==
  ASSUME NEW S, NEW list \in Seq(S), NEW item \in S
  PROVE  /\ Append(list, item) \in Seq(S) /\ Len(Append(list, item)) = Len(list) + 1
         /\ \A n \in 1 .. Len(list) : Append(list, item)[n] = list[n]
         /\ Append(list, item)[Len(list) + 1] = item
  OBVIOUS

LEMMA ContextInductive == ContextSpec => []ContextInv
  <1>1. ASSUME ContextInit PROVE ContextInv
    <2> USE <1>1, ContextAssumption DEF ContextInit
    <2>1. ContextTypeOK
      <3>1. \A r \in 1 .. Retrievers : {} \in SUBSET Pool /\ <<>> \in {<<>>} \cup {<<held>> : held \in SUBSET Pool}
        OBVIOUS
      <3> QED
        BY <3>1 DEF ContextTypeOK
    <2>2. \A r \in 1 .. Retrievers : IsFiniteSet(shelves[r]) /\ answers[r] = <<>>
      BY FS_EmptySet
    <2>3. context = <<>> /\ SelectionExplained
      BY DEF SelectionExplained
    <2> QED
      BY <2>1, <2>2, <2>3 DEF ContextInv
  <1>2. ASSUME ContextInv, [ContextNext]_contextVars
        PROVE  ContextInv'
    <2> USE <1>2
    <2>1. ASSUME NEW r \in 1 .. Retrievers, NEW item \in Pool, Shelve(r, item)
          PROVE  ContextInv'
      <3> USE <2>1 DEF Shelve
      <3>1. shelves \in [1 .. Retrievers -> SUBSET Pool]
        BY DEF ContextInv, ContextTypeOK
      <3>2. shelves' \in [1 .. Retrievers -> SUBSET Pool]
        BY <3>1
      <3>3. \A q \in 1 .. Retrievers : IsFiniteSet(shelves'[q])
        <4> TAKE q \in 1 .. Retrievers
        <4>1. IsFiniteSet(shelves[q])
          BY DEF ContextInv
        <4>2. IsFiniteSet(shelves[q] \cup {item})
          BY <4>1, FS_AddElement
        <4> QED
          BY <3>1, <4>1, <4>2
      <3>4. context = <<>>
        BY DEF ContextInv
      <3>5. SelectionExplained'
        BY <3>4 DEF SelectionExplained
      <3> QED
        BY <3>2, <3>3, <3>4, <3>5 DEF ContextInv, ContextTypeOK
    <2>2. ASSUME NEW request \in ContextRequests, Build(request)
          PROVE  ContextInv'
      <3> USE <2>2 DEF Build
      <3>1. asked' # <<>> /\ asked' \in {<<>>} \cup {<<one>> : one \in ContextRequests}
        OBVIOUS
      <3>2. /\ SelectionExplained' <=> SelectionExplained
            /\ Answered' <=> Answered
            /\ Retrieved' = Retrieved
        BY DEF SelectionExplained, Answered, Retrieved
      <3> QED
        BY <3>1, <3>2 DEF ContextInv, ContextTypeOK
    <2>3. ASSUME NEW r \in 1 .. Retrievers, Retrieve(r)
          PROVE  ContextInv'
      <3> USE <2>3 DEF Retrieve
      <3> DEFINE largest == Largest(shelves[r], asked[1])
      <3>1. shelves[r] \in SUBSET Pool /\ IsFiniteSet(shelves[r])
        BY DEF ContextInv, ContextTypeOK
      <3>2. largest \in SUBSET shelves[r]
        BY DEF Largest, Tagged
      <3>3. largest \in SUBSET Pool /\ IsFiniteSet(largest)
        BY <3>1, <3>2, FS_Subset
      <3> HIDE DEF largest
      <3>4. answers' = [answers EXCEPT ![r] = <<largest>>]
        BY DEF largest
      <3>5. answers \in [1 .. Retrievers -> {<<>>} \cup {<<held>> : held \in SUBSET Pool}]
        BY DEF ContextInv, ContextTypeOK
      <3>6. answers' \in [1 .. Retrievers -> {<<>>} \cup {<<held>> : held \in SUBSET Pool}]
        BY <3>3, <3>4, <3>5
      <3>7. \A q \in 1 .. Retrievers : answers'[q] # <<>> => IsFiniteSet(answers'[q][1])
        <4> TAKE q \in 1 .. Retrievers
        <4>1. CASE q = r
          BY <3>3, <3>4, <3>5, <4>1
        <4>2. CASE q # r
          BY <3>4, <3>5, <4>2 DEF ContextInv
        <4> QED
          BY <4>1, <4>2
      <3>8. context = <<>>
        BY DEF ContextInv, Answered
      <3>9. SelectionExplained'
        BY <3>8 DEF SelectionExplained
      <3> QED
        BY <3>6, <3>7, <3>8, <3>9 DEF ContextInv, ContextTypeOK
    <2>4. ASSUME Assemble
          PROVE  ContextInv'
      <3> USE <2>4 DEF Assemble
      <3> DEFINE request == asked[1]
                 allowed == {item \in Deduplicated(Retrieved) : Allowed(item, request)}
                 made == Selection(Retrieved, allowed, request)
      <3>1. Retrieved \in SUBSET Pool /\ IsFiniteSet(Retrieved) /\ asked # <<>>
        BY ContextAssumption, RetrievedItems
      <3>2. request \in ContextRequests /\ request \in ContextRequest
        <4>1. PICK one \in ContextRequests : asked = <<one>>
          BY <3>1 DEF ContextInv, ContextTypeOK
        <4> QED
          BY <4>1, ContextAssumption DEF ContextAssumption
      <3>3. allowed \in SUBSET Retrieved
        BY DEF Deduplicated
      <3>4. allowed \in SUBSET Pool /\ IsFiniteSet(allowed)
        BY <3>1, <3>3, FS_Subset
      <3>5. Candidates(allowed, Retrieved, request)
        BY <3>1, ContextAssumption, DeduplicatedFits
      <3>6. context' = <<made>>
        OBVIOUS
      <3> HIDE DEF allowed, request
      <3>7. Explained(made) /\ made \in Selected /\ Members(made.items) \subseteq Retrieved
        BY <3>1, <3>2, <3>4, <3>5, ContextAssumption, SelectionIsExplained
      <3> HIDE DEF made
      <3>8. /\ context' \in Seq(Selected) /\ Len(context') = 1 /\ context'[1] = made
        BY <3>6, <3>7
      <3>9. SelectionExplained'
        <4>1. \A n \in 1 .. Len(context') : Explained(context'[n])
          BY <3>7, <3>8
        <4> QED
          BY <4>1 DEF SelectionExplained, Explained, Members, NoPlace, Duplicated, Allowed,
                      RankedAbove, Size, Characters
      <3>10. Answered' /\ Retrieved' = Retrieved
        BY DEF Answered, Retrieved
      <3> QED
        BY <3>7, <3>8, <3>9, <3>10 DEF ContextInv, ContextTypeOK
    <2>5. ASSUME NEW budget \in Compactions, Compact(budget)
          PROVE  ContextInv'
      <3> USE <2>5 DEF Compact
      <3> DEFINE given == Members(context[1].items)
                 allowed == {item \in Deduplicated(given) : Allowed(item, budget)}
                 made == Selection(given, allowed, budget)
      <3>1. context # <<>> /\ context \in Seq(Selected) /\ Len(context) = 1
        BY DEF ContextInv, ContextTypeOK
      <3>2. Answered /\ given \subseteq Retrieved
        BY <3>1 DEF ContextInv
      <3>3. Retrieved \in SUBSET Pool /\ IsFiniteSet(Retrieved)
        BY <3>2, ContextAssumption, RetrievedItems
      <3>4. given \in SUBSET Pool /\ IsFiniteSet(given)
        BY <3>2, <3>3, FS_Subset
      <3>5. budget \in ContextRequest /\ budget.kinds = {} /\ budget.minScore = 0
        BY ContextAssumption DEF ContextAssumption
      <3>6. allowed = Deduplicated(given)
        <4>1. \A item \in Deduplicated(given) : item \in Pool
          BY <3>4 DEF Deduplicated
        <4>2. \A item \in Pool : Relevant(item) >= 0
          BY ContextAssumption, Keys
        <4>3. \A item \in Deduplicated(given) : Allowed(item, budget)
          BY <3>5, <4>1, <4>2 DEF Allowed
        <4> QED
          BY <4>3
      <3>7. context' = Append(context, made)
        BY <3>6
      <3>8. allowed \in SUBSET Pool /\ IsFiniteSet(allowed)
        <4>1. allowed \in SUBSET given
          BY DEF Deduplicated
        <4> QED
          BY <3>4, <4>1, FS_Subset
      <3>9. Candidates(allowed, given, budget)
        BY <3>2, <3>4, ContextAssumption, DeduplicatedFits
      <3> HIDE DEF allowed, given
      <3>10. Explained(made) /\ made \in Selected
        BY <3>4, <3>5, <3>8, <3>9, ContextAssumption, SelectionIsExplained
      <3> HIDE DEF made
      <3>11. /\ context' \in Seq(Selected) /\ Len(context') = 2 /\ context'[1] = context[1]
             /\ context'[2] = made
        <4>1. made \in Selected
          BY <3>10
        <4>2. /\ Append(context, made) \in Seq(Selected) /\ Len(Append(context, made)) = 2
              /\ Append(context, made)[1] = context[1] /\ Append(context, made)[2] = made
          <5> DEFINE longer == Append(context, made)
          <5>1. longer \in Seq(Selected) /\ Len(longer) = Len(context) + 1
            BY <3>1, <4>1, OneMore
          <5>2. \A n \in 1 .. Len(context) : longer[n] = context[n]
            BY <3>1, <4>1, OneMore
          <5>3. longer[Len(context) + 1] = made
            BY <3>1, <4>1, OneMore
          <5>4. Len(context) = 1
            BY <3>1
          <5> HIDE DEF longer
          <5>5. longer \in Seq(Selected) /\ Len(longer) = 2 /\ longer[1] = context[1] /\ longer[2] = made
            BY <5>1, <5>2, <5>3, <5>4
          <5> QED
            BY <5>5 DEF longer
        <4> QED
          BY <3>7, <4>2
      <3>12. SelectionExplained'
        <4>1. Explained(context[1])
          BY <3>1 DEF ContextInv, SelectionExplained
        <4>2. \A n \in 1 .. Len(context') : Explained(context'[n])
          BY <3>10, <3>11, <4>1
        <4> QED
          BY <4>2 DEF SelectionExplained
      <3>13. Answered' /\ Retrieved' = Retrieved /\ context' # <<>>
        BY <3>2, <3>11 DEF Answered, Retrieved
      <3> QED
        BY <3>2, <3>11, <3>12, <3>13 DEF ContextInv, ContextTypeOK, given
    <2>6. CASE UNCHANGED contextVars
      BY <2>6 DEF contextVars, ContextInv, ContextTypeOK, SelectionExplained, Answered, Retrieved
    <2> QED
      BY <2>1, <2>2, <2>3, <2>4, <2>5, <2>6 DEF ContextNext
  <1> QED
    BY <1>1, <1>2, PTL DEF ContextSpec

-----------------------------------------------------------------------------
\* The router

RoutingInv ==
  /\ DOMAIN router.routes \subseteq Nat
  /\ AskedForItsOwnModel

LEMMA RoutingInductive == RoutingSpec => []RoutingInv
  <1>1. RoutingInit => RoutingInv
    <2> SUFFICES ASSUME RoutingInit PROVE RoutingInv
      OBVIOUS
    <2>1. PICK list : router.routes = Registered(list)
      BY DEF RoutingInit
    <2>2. DOMAIN Registered(list) \subseteq Nat
      BY DEF Registered
    <2>3. prepared.route = 0
      BY DEF RoutingInit, NothingPrepared
    <2> QED
      BY <2>1, <2>2, <2>3 DEF RoutingInv, AskedForItsOwnModel
  <1>2. RoutingInv /\ [Prepare]_routingVars => RoutingInv'
    <2> SUFFICES ASSUME RoutingInv, [Prepare]_routingVars PROVE RoutingInv'
      OBVIOUS
    <2>1. CASE UNCHANGED routingVars
      BY <2>1 DEF routingVars, RoutingInv, AskedForItsOwnModel
    <2>2. CASE Prepare
      <3>1. PICK explicit \in RouteNames \cup {Unnamed}, task \in TaskTypes :
              /\ prepared' = [model |-> explicit, task |-> task, route |-> Route(explicit, task),
                              sent |-> IF explicit = Unnamed
                                       THEN router.routes[Route(explicit, task)].model ELSE explicit]
              /\ router' = router
        BY <2>2 DEF Prepare
      <3>2. CASE explicit = Unnamed
        BY <3>1, <3>2 DEF RoutingInv, AskedForItsOwnModel
      <3>3. CASE explicit # Unnamed /\ Meant(explicit) = {}
        <4>1. \A n \in DOMAIN router.routes :
                explicit \notin {router.routes[n].name, router.routes[n].model}
          BY <3>3 DEF Meant
        <4>2. prepared'.model = explicit
          BY <3>1
        <4> QED
          BY <3>1, <4>1, <4>2 DEF RoutingInv, AskedForItsOwnModel
      <3>4. CASE explicit # Unnamed /\ Meant(explicit) # {}
        <4> DEFINE meant == Meant(explicit)
                   route == Route(explicit, task)
        <4>1. meant \in SUBSET Nat /\ meant # {}
          BY <3>4 DEF RoutingInv, Meant
        <4>2. \E n \in meant : \A m \in meant : n <= m
          BY <4>1, LeastNatural
        <4>3. route = First(meant)
          BY <3>4 DEF Route
        <4>4. route \in meant
          BY <4>2, <4>3 DEF First
        <4>5. router.routes[route].model = explicit \/ router.routes[route].name = explicit
          BY <4>4 DEF Meant
        <4>6. prepared'.route = route /\ prepared'.sent = explicit /\ prepared'.model = explicit
          BY <3>1, <3>4
        <4> HIDE DEF route
        <4> QED
          BY <3>1, <4>5, <4>6 DEF RoutingInv, AskedForItsOwnModel
      <3> QED
        BY <3>2, <3>3, <3>4
    <2> QED
      BY <2>1, <2>2
  <1> QED
    BY <1>1, <1>2, PTL DEF RoutingSpec

\* What the context builder and the model router choose can be explained.
THEOREM ChoicesAreExplained == ContextSpec /\ RoutingSpec => []ChoicesExplained
  <1>1. ContextInv /\ RoutingInv => ChoicesExplained
    BY DEF ContextInv, RoutingInv, ChoicesExplained
  <1> QED
    BY <1>1, ContextInductive, RoutingInductive, PTL
=============================================================================
