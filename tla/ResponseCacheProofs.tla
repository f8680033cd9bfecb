------------------------- MODULE ResponseCacheProofs -------------------------
(***************************************************************************)
(* Proofs about ResponseCache for every number of keys, callers, futures,  *)
(* entries and ticks.                                                      *)
(***************************************************************************)
EXTENDS ResponseCache, FiniteSetTheorems, SequenceTheorems, TLAPS

-----------------------------------------------------------------------------
\* Typing

\* Where a held key is found.
LEMMA PositionType ==
  ASSUME TypeOK, NEW k \in Keys, Has(k)
  PROVE  /\ Position(k) \in 1 .. Len(entries)
         /\ entries[Position(k)] \in Entry
         /\ entries[Position(k)].key = k
  <1>1. DOMAIN entries = 1 .. Len(entries)
    BY LenProperties DEF TypeOK
  <1>2. \E i \in DOMAIN entries : entries[i].key = k
    BY DEF Has, Held
  <1>3. Position(k) \in DOMAIN entries /\ entries[Position(k)].key = k
    BY <1>2 DEF Position
  <1> QED
    BY <1>1, <1>3, ElementOfSeq DEF TypeOK

LEMMA WithoutType ==
  ASSUME TypeOK, NEW k \in Keys
  PROVE  Without(k) \in Seq(Entry)
  <1>1. CASE Has(k)
    <2> DEFINE p == Position(k)
    <2>1. p \in 1 .. Len(entries) /\ Len(entries) \in Nat
      BY <1>1, PositionType, LenProperties DEF TypeOK
    <2> HIDE DEF p
    <2>2. \A i \in 1 .. Len(entries) : entries[i] \in Entry
      BY ElementOfSeq DEF TypeOK
    <2>3. SubSeq(entries, 1, p - 1) \in Seq(Entry)
      BY <2>1, <2>2, SubSeqProperties
    <2>4. SubSeq(entries, p + 1, Len(entries)) \in Seq(Entry)
      BY <2>1, <2>2, SubSeqProperties
    <2> QED
      BY <1>1, <2>3, <2>4, ConcatProperties DEF Without, p
  <1>2. CASE ~Has(k)
    BY <1>2 DEF Without, TypeOK
  <1> QED
    BY <1>1, <1>2

LEMMA LookupType ==
  ASSUME TypeOK, NEW k \in Keys, Lookup(k)
  PROVE  /\ entries' \in Seq(Entry)
         /\ live' \in SUBSET Keys
         /\ touched' \in [Keys -> SUBSET Keys]
  <1>1. Got(k) \in Seq(Entry)
    <2>1. CASE Fresh(k)
      <3>1. entries[Position(k)] \in Entry
        BY <2>1, PositionType DEF Fresh
      <3> QED
        BY <2>1, <3>1, WithoutType, AppendProperties DEF Got
    <2>2. CASE ~Fresh(k)
      BY <2>2, WithoutType DEF Got
    <2> QED
      BY <2>1, <2>2
  <1> QED
    BY <1>1 DEF Lookup, Touch, TypeOK

LEMMA StoreType ==
  ASSUME CacheAssumption, TypeOK, NEW k \in Keys, NEW none \in BOOLEAN,
         NEW ttl \in 0 .. TTL, Store(k, none, ttl)
  PROVE  /\ entries' \in Seq(Entry)
         /\ live' \in SUBSET Keys
         /\ touched' \in [Keys -> SUBSET Keys]
  <1> DEFINE e == [key |-> k, none |-> none, left |-> ttl]
             s == Append(Without(k), e)
  <1>1. e \in Entry
    BY DEF Entry
  <1>2. s \in Seq(Entry)
    BY <1>1, WithoutType, AppendProperties
  <1>3. e.key = k
    OBVIOUS
  <1> HIDE DEF e, s
  <1>4. Evicted(s) \in Seq(Entry)
    <2>1. CASE Len(s) > MaxEntries
      <3>1. Len(s) \in Nat /\ \A i \in 1 .. Len(s) : s[i] \in Entry
        BY <1>2, LenProperties, ElementOfSeq
      <3>2. SubSeq(s, Len(s) - MaxEntries + 1, Len(s)) \in Seq(Entry)
        BY <2>1, <3>1, SubSeqProperties DEF CacheAssumption
      <3> QED
        BY <2>1, <3>2 DEF Evicted
    <2>2. CASE ~(Len(s) > MaxEntries)
      BY <1>2, <2>2 DEF Evicted
    <2> QED
      BY <2>1, <2>2
  <1>5. entries' = Evicted(s)
    BY <1>3 DEF Store, Stored, s, e
  <1> QED
    BY <1>4, <1>5 DEF Store, Touch, TypeOK

\* A suspended caller's frame.
LEMMA FrameType ==
  ASSUME TypeOK, NEW c \in Callers, Owner(c) \/ Joiner(c)
  PROVE  call[c] \in Call /\ call[c].key \in Keys /\ call[c].flight \in Flights
  BY DEF TypeOK, Owner, Joiner, At, Call

\* Entries, flights, futures and frames keep their types, whoever is cancelled.
THEOREM TypeCorrect == Spec => []TypeOK
  <1> USE CacheAssumption
  <1>1. Init => TypeOK
    <2>1. <<>> \in Seq(Entry)
      BY EmptySeq
    <2> QED
      BY <2>1 DEF Init, TypeOK, Result
  <1>2. TypeOK /\ [Next]_vars => TypeOK'
    <2> SUFFICES ASSUME TypeOK, [Next]_vars PROVE TypeOK'
      OBVIOUS
    <2>1. ASSUME NEW k \in Keys, Get(k) PROVE TypeOK'
      BY <2>1, LookupType DEF Get, TypeOK
    <2>2. ASSUME NEW k \in Keys, NEW none \in BOOLEAN, NEW ttl \in 1 .. TTL, Put(k, none, ttl)
          PROVE  TypeOK'
      <3>1. ttl \in 0 .. TTL
        BY DEF CacheAssumption
      <3>2. Store(k, none, ttl)
        BY <2>2 DEF Put
      <3> QED
        BY <2>2, <3>1, <3>2, StoreType DEF Put, TypeOK
    <2>3. CASE Clear
      <3>1. <<>> \in Seq(Entry)
        BY EmptySeq
      <3> QED
        BY <2>3, <3>1 DEF Clear, TypeOK
    <2>4. ASSUME NEW c \in Callers, NEW k \in Keys, FindValue(c, k) PROVE TypeOK'
      BY <2>4, LookupType DEF FindValue, TypeOK
    <2>5. ASSUME NEW c \in Callers, NEW k \in Keys, Own(c, k) PROVE TypeOK'
      <3>1. PICK f \in Free :
              /\ inflight' = [inflight EXCEPT ![k] = f]
              /\ future' = [future EXCEPT ![f] = "pending"]
              /\ call' = [call EXCEPT ![c] = [at |-> "owning", key |-> k, flight |-> f]]
        BY <2>5 DEF Own
      <3>2. f \in Flights /\ [at |-> "owning", key |-> k, flight |-> f] \in Call
        BY DEF Free, Call
      <3> QED
        BY <2>5, <3>1, <3>2, LookupType DEF Own, TypeOK, Result
    <2>6. ASSUME NEW c \in Callers, NEW k \in Keys, Join(c, k) PROVE TypeOK'
      <3>1. inflight[k] \in Flights
        BY <2>6 DEF Join, Claimable, TypeOK
      <3>2. [at |-> "joining", key |-> k, flight |-> inflight[k]] \in Call
        BY <3>1 DEF Call
      <3> QED
        BY <2>6, <3>2, LookupType DEF Join, TypeOK
    <2>7. ASSUME NEW c \in Callers, NEW none \in BOOLEAN, FactoryReturns(c, none)
          PROVE  TypeOK'
      <3>1. call[c].key \in Keys /\ Store(call[c].key, none, TTL)
        BY <2>7, FrameType DEF FactoryReturns
      <3>2. TTL \in 0 .. TTL
        BY DEF CacheAssumption
      <3>3. /\ entries' \in Seq(Entry)
            /\ live' \in SUBSET Keys
            /\ touched' \in [Keys -> SUBSET Keys]
        BY <3>1, <3>2, StoreType
      <3>4. /\ inflight' \in [Keys -> Flights \cup {NoFlight}]
            /\ future' \in [Flights -> Result]
            /\ call' \in [Callers -> Call \cup {Idle}]
        BY <2>7 DEF FactoryReturns, Landed, TypeOK, Result
      <3> QED
        BY <3>3, <3>4 DEF TypeOK
    <2>8. ASSUME NEW c \in Callers,
                 FactoryRaises(c) \/ CancelOwner(c) \/ CancelJoiner(c) \/ JoinerEnds(c)
          PROVE  TypeOK'
      BY <2>8 DEF FactoryRaises, CancelOwner, CancelJoiner, JoinerEnds, Landed, TypeOK, Result
    <2>9. CASE Tick
      <3> DEFINE aged(i) == [entries[i] EXCEPT !.left = IF @ > 0 THEN @ - 1 ELSE 0]
      <3>1. DOMAIN entries = 1 .. Len(entries) /\ Len(entries) \in Nat
        BY LenProperties DEF TypeOK
      <3>2. \A i \in 1 .. Len(entries) : entries[i] \in Entry
        BY ElementOfSeq DEF TypeOK
      <3>3. \A i \in 1 .. Len(entries) : aged(i) \in Entry
        BY <3>2 DEF Entry, CacheAssumption
      <3>4. entries' = [i \in 1 .. Len(entries) |-> aged(i)]
        BY <2>9, <3>1 DEF Tick
      <3> HIDE DEF aged
      <3>5. entries' \in [1 .. Len(entries) -> Entry]
        BY <3>3, <3>4
      <3>6. entries' \in Seq(Entry)
        BY <3>1, <3>5, SeqDef
      <3> QED
        BY <2>9, <3>6 DEF Tick, TypeOK
    <2>10. CASE UNCHANGED vars
      BY <2>10 DEF vars, TypeOK
    <2> QED
      BY <2>1, <2>2, <2>3, <2>4, <2>5, <2>6, <2>7, <2>8, <2>9, <2>10 DEF Next, GetOrSet
  <1> QED
    BY <1>1, <1>2, PTL DEF Spec

-----------------------------------------------------------------------------
\* Single flight

\* The owner of a key is the one whose flight is registered: two owners of a
\* key would have to have found _inflight empty.
OwnersRegistered ==
  \A c \in Callers : Owner(c) => inflight[call[c].key] = call[c].flight

FlightInv == SingleFlight /\ OwnersRegistered

\* A flight that ends is taken out by its only owner.
LEMMA EndKeepsFlights ==
  ASSUME TypeOK, FlightInv, NEW c \in Callers, Owner(c),
         inflight' = [inflight EXCEPT ![call[c].key] = NoFlight],
         call' = [call EXCEPT ![c] = Idle]
  PROVE  FlightInv'
  <1>1. call'[c] = Idle /\ \A d \in Callers \ {c} : call'[d] = call[d]
    BY DEF TypeOK
  <1>2. \A d \in Callers : Owner(d)' => d # c /\ Owner(d)
    BY <1>1 DEF Owner, At
  <1>3. \A d \in Callers \ {c} : Owner(d) => call[d].key # call[c].key
    BY DEF FlightInv, SingleFlight
  <1>4. \A d \in Callers \ {c} : Owner(d) => inflight'[call[d].key] = inflight[call[d].key]
    BY <1>3, FrameType DEF TypeOK
  <1> QED
    BY <1>1, <1>2, <1>4 DEF FlightInv, SingleFlight, OwnersRegistered

\* Steps that neither create an owner nor touch _inflight.
LEMMA OthersKeepFlights ==
  ASSUME TypeOK, FlightInv, inflight' = inflight,
         \A d \in Callers : Owner(d)' => Owner(d) /\ call'[d] = call[d]
  PROVE  FlightInv'
  BY DEF FlightInv, SingleFlight, OwnersRegistered

LEMMA FlightInductive == Spec => []FlightInv
  <1> USE CacheAssumption
  <1>1. Init => FlightInv
    BY DEF Init, FlightInv, SingleFlight, OwnersRegistered, Owner, At
  <1>2. TypeOK /\ FlightInv /\ [Next]_vars => FlightInv'
    <2> SUFFICES ASSUME TypeOK, FlightInv, [Next]_vars PROVE FlightInv'
      OBVIOUS
    <2>1. ASSUME UNCHANGED <<inflight, call>> PROVE FlightInv'
      BY <2>1 DEF FlightInv, SingleFlight, OwnersRegistered, Owner, At
    <2>2. ASSUME NEW c \in Callers, NEW k \in Keys, Own(c, k) PROVE FlightInv'
      <3>1. PICK f \in Free :
              /\ inflight' = [inflight EXCEPT ![k] = f]
              /\ call' = [call EXCEPT ![c] = [at |-> "owning", key |-> k, flight |-> f]]
        BY <2>2 DEF Own
      <3>2. call'[c].key = k /\ call'[c].flight = f /\ inflight'[k] = f
        BY <3>1 DEF TypeOK
      <3>3. \A d \in Callers \ {c} : call'[d] = call[d]
        BY <3>1 DEF TypeOK
      <3>4. \A d \in Callers \ {c} : Owner(d)' => Owner(d)
        BY <3>3 DEF Owner, At
      <3>5. \A d \in Callers : Owner(d) => call[d].key # k
        <4> SUFFICES ASSUME NEW d \in Callers, Owner(d), call[d].key = k PROVE FALSE
          OBVIOUS
        <4>1. inflight[k] \in Flights
          BY FrameType DEF FlightInv, OwnersRegistered
        <4> QED
          BY <2>2, <4>1 DEF Own, Claimable, CacheAssumption
      <3>6. \A d \in Callers \ {c} :
              Owner(d) => inflight'[call[d].key] = inflight[call[d].key]
        BY <3>1, <3>5, FrameType DEF TypeOK
      <3> QED
        BY <3>2, <3>3, <3>4, <3>5, <3>6 DEF FlightInv, SingleFlight, OwnersRegistered
    <2>3. ASSUME NEW c \in Callers,
                 \/ \E none \in BOOLEAN : FactoryReturns(c, none)
                 \/ FactoryRaises(c)
                 \/ CancelOwner(c)
          PROVE  FlightInv'
      BY <2>3, EndKeepsFlights DEF FactoryReturns, FactoryRaises, CancelOwner, Landed
    <2>4. ASSUME NEW c \in Callers, NEW k \in Keys, Join(c, k) PROVE FlightInv'
      <3>1. \A d \in Callers : Owner(d)' => Owner(d) /\ call'[d] = call[d]
        BY <2>4 DEF Join, Owner, At, TypeOK
      <3> QED
        BY <2>4, <3>1, OthersKeepFlights DEF Join
    <2>5. ASSUME NEW c \in Callers, CancelJoiner(c) \/ JoinerEnds(c) PROVE FlightInv'
      <3>1. \A d \in Callers : Owner(d)' => Owner(d) /\ call'[d] = call[d]
        BY <2>5 DEF CancelJoiner, JoinerEnds, Owner, At, TypeOK
      <3> QED
        BY <2>5, <3>1, OthersKeepFlights DEF CancelJoiner, JoinerEnds
    <2> QED
      BY <2>1, <2>2, <2>3, <2>4, <2>5
         DEF Next, GetOrSet, Get, Put, Clear, FindValue, Tick, vars
  <1> QED
    BY <1>1, <1>2, TypeCorrect, PTL DEF Spec

\* However callers come, fail and are cancelled, two of them never run the
\* factory of one key at the same time.
THEOREM FlightsAreSingle == Spec => []SingleFlight
  <1>1. FlightInv => SingleFlight
    BY DEF FlightInv
  <1> QED
    BY <1>1, FlightInductive, PTL

-----------------------------------------------------------------------------
\* Joiners are served

\* Whatever is registered in _inflight is run by an owner: a call that joins
\* finds the flight there.
RegisteredOwned ==
  \A k \in Keys : inflight[k] # NoFlight =>
    \E d \in Callers : Owner(d) /\ call[d].key = k /\ call[d].flight = inflight[k]

ServedInv == RegisteredOwned /\ JoinersAreServed

\* The flight of a finished factory is over for all its joiners.
LEMMA LandingServes ==
  ASSUME TypeOK, ServedInv, NEW c \in Callers, Owner(c), NEW result \in Result \ {"pending"},
         Landed(c, result), call' = [call EXCEPT ![c] = Idle]
  PROVE  ServedInv'
  <1>1. call'[c] = Idle /\ \A d \in Callers \ {c} : call'[d] = call[d]
    BY DEF TypeOK
  <1>2. /\ \A d \in Callers \ {c} : Owner(d) => Owner(d)'
        /\ \A d \in Callers : Joiner(d)' => d # c /\ Joiner(d)
    BY <1>1 DEF Owner, Joiner, At
  <1>3. call[c].key \in Keys /\ call[c].flight \in Flights
    BY FrameType
  <1>4. future'[call[c].flight] # "pending"
    BY <1>3 DEF Landed, TypeOK
  <1>5. \A f \in Flights : f # call[c].flight => future'[f] = future[f]
    BY <1>3 DEF Landed, TypeOK
  <1>6. RegisteredOwned'
    <2> SUFFICES ASSUME NEW k \in Keys, inflight'[k] # NoFlight
                 PROVE  \E d \in Callers : /\ Owner(d)' /\ call'[d].key = k
                                           /\ call'[d].flight = inflight'[k]
      BY DEF RegisteredOwned
    <2>1. k # call[c].key /\ inflight'[k] = inflight[k]
      BY <1>3 DEF Landed, TypeOK
    <2>2. PICK d \in Callers : Owner(d) /\ call[d].key = k /\ call[d].flight = inflight[k]
      BY <2>1 DEF ServedInv, RegisteredOwned
    <2> QED
      BY <1>1, <1>2, <2>1, <2>2
  <1>7. JoinersAreServed'
    <2> SUFFICES ASSUME NEW j \in Callers, Joiner(j)', future'[call'[j].flight] = "pending"
                 PROVE  \E d \in Callers : /\ Owner(d)' /\ call'[d].key = call'[j].key
                                           /\ call'[d].flight = call'[j].flight
      BY DEF JoinersAreServed
    <2>1. j # c /\ Joiner(j) /\ call'[j] = call[j] /\ call[j].flight \in Flights
      BY <1>1, <1>2, FrameType
    <2>2. call[j].flight # call[c].flight
      BY <1>4, <2>1
    <2>3. future[call[j].flight] = "pending"
      BY <1>5, <2>1, <2>2
    <2>4. PICK d \in Callers : /\ Owner(d) /\ call[d].key = call[j].key
                              /\ call[d].flight = call[j].flight
      BY <2>1, <2>3 DEF ServedInv, JoinersAreServed
    <2> QED
      BY <1>1, <1>2, <2>1, <2>2, <2>4
  <1> QED
    BY <1>6, <1>7 DEF ServedInv

LEMMA ServedInductive == Spec => []ServedInv
  <1> USE CacheAssumption
  <1>1. Init => ServedInv
    BY DEF Init, ServedInv, RegisteredOwned, JoinersAreServed, Joiner, At
  <1>2. TypeOK /\ ServedInv /\ [Next]_vars => ServedInv'
    <2> SUFFICES ASSUME TypeOK, ServedInv, [Next]_vars PROVE ServedInv'
      OBVIOUS
    <2>1. ASSUME UNCHANGED <<inflight, future, call>> PROVE ServedInv'
      BY <2>1 DEF ServedInv, RegisteredOwned, JoinersAreServed, Owner, Joiner, At
    <2>2. ASSUME NEW c \in Callers, NEW k \in Keys, Own(c, k) PROVE ServedInv'
      <3>1. PICK f \in Free :
              /\ inflight' = [inflight EXCEPT ![k] = f]
              /\ future' = [future EXCEPT ![f] = "pending"]
              /\ call' = [call EXCEPT ![c] = [at |-> "owning", key |-> k, flight |-> f]]
        BY <2>2 DEF Own
      <3>2. /\ Owner(c)' /\ ~Joiner(c)' /\ call'[c].key = k /\ call'[c].flight = f
            /\ \A d \in Callers \ {c} : call'[d] = call[d]
        <4> DEFINE frame == [at |-> "owning", key |-> k, flight |-> f]
        <4>1. frame \in Call /\ frame # Idle
          BY DEF Free, Call, CacheAssumption
        <4>2. call'[c] = frame /\ \A d \in Callers \ {c} : call'[d] = call[d]
          BY <3>1 DEF TypeOK
        <4>3. frame.at = "owning" /\ frame.key = k /\ frame.flight = f
          OBVIOUS
        <4> HIDE DEF frame
        <4> QED
          BY <4>1, <4>2, <4>3 DEF Owner, Joiner, At
      <3>3. /\ \A d \in Callers : Owner(d) => d # c /\ Owner(d)'
            /\ \A d \in Callers : Joiner(d)' => d # c /\ Joiner(d)
        BY <2>2, <3>2 DEF Own, Owner, Joiner, At
      <3>4. RegisteredOwned'
        <4> SUFFICES ASSUME NEW j \in Keys, inflight'[j] # NoFlight
                     PROVE  \E d \in Callers : /\ Owner(d)' /\ call'[d].key = j
                                               /\ call'[d].flight = inflight'[j]
          BY DEF RegisteredOwned
        <4>1. CASE j = k
          BY <3>1, <3>2, <4>1 DEF TypeOK
        <4>2. CASE j # k
          <5>1. inflight'[j] = inflight[j]
            BY <3>1, <4>2 DEF TypeOK
          <5>2. PICK d \in Callers : Owner(d) /\ call[d].key = j /\ call[d].flight = inflight[j]
            BY <5>1 DEF ServedInv, RegisteredOwned
          <5> QED
            BY <3>2, <3>3, <5>1, <5>2
        <4> QED
          BY <4>1, <4>2
      <3>5. JoinersAreServed'
        <4> SUFFICES ASSUME NEW j \in Callers, Joiner(j)', future'[call'[j].flight] = "pending"
                     PROVE  \E d \in Callers : /\ Owner(d)' /\ call'[d].key = call'[j].key
                                               /\ call'[d].flight = call'[j].flight
          BY DEF JoinersAreServed
        <4>1. j # c /\ Joiner(j) /\ call'[j] = call[j] /\ call[j].flight \in Flights
          BY <3>2, <3>3, FrameType
        <4>2. call[j].flight # f
          BY <4>1 DEF Free, Joiner, At
        <4>3. future[call[j].flight] = "pending"
          BY <3>1, <4>1, <4>2 DEF TypeOK
        <4>4. PICK d \in Callers : /\ Owner(d) /\ call[d].key = call[j].key
                                  /\ call[d].flight = call[j].flight
          BY <4>1, <4>3 DEF ServedInv, JoinersAreServed
        <4> QED
          BY <3>2, <3>3, <4>1, <4>4
      <3> QED
        BY <3>4, <3>5 DEF ServedInv
    <2>3. ASSUME NEW c \in Callers, NEW k \in Keys, Join(c, k) PROVE ServedInv'
      <3>1. CASE future[inflight[k]] = "cancelled"
        BY <2>1, <2>3, <3>1 DEF Join
      <3>2. CASE future[inflight[k]] # "cancelled"
        <4>1. /\ call' = [call EXCEPT ![c] = [at |-> "joining", key |-> k, flight |-> inflight[k]]]
              /\ inflight' = inflight /\ future' = future /\ inflight[k] # NoFlight
          BY <2>3, <3>2 DEF Join, Claimable
        <4>2. /\ call'[c].key = k /\ call'[c].flight = inflight[k]
              /\ \A d \in Callers \ {c} : call'[d] = call[d]
          BY <4>1 DEF TypeOK
        <4>3. /\ \A d \in Callers : Owner(d) => d # c /\ Owner(d)'
              /\ \A d \in Callers \ {c} : Joiner(d)' => Joiner(d)
          BY <2>3, <4>2 DEF Join, Owner, Joiner, At
        <4>4. RegisteredOwned'
          BY <4>1, <4>2, <4>3 DEF ServedInv, RegisteredOwned
        <4>5. PICK o \in Callers : Owner(o) /\ call[o].key = k /\ call[o].flight = inflight[k]
          BY <4>1 DEF ServedInv, RegisteredOwned
        <4>6. JoinersAreServed'
          BY <4>1, <4>2, <4>3, <4>5 DEF ServedInv, JoinersAreServed
        <4> QED
          BY <4>4, <4>6 DEF ServedInv
      <3> QED
        BY <3>1, <3>2
    <2>4. ASSUME NEW c \in Callers,
                 \/ \E none \in BOOLEAN : FactoryReturns(c, none)
                 \/ FactoryRaises(c)
                 \/ CancelOwner(c)
          PROVE  ServedInv'
      BY <2>4, LandingServes DEF FactoryReturns, FactoryRaises, CancelOwner, Result
    <2>5. ASSUME NEW c \in Callers, CancelJoiner(c) \/ JoinerEnds(c) PROVE ServedInv'
      <3>1. /\ Joiner(c) /\ inflight' = inflight /\ call' = [call EXCEPT ![c] = Idle]
            /\ \A f \in Flights : future'[f] = "pending" => future[f] = "pending"
        BY <2>5 DEF CancelJoiner, JoinerEnds, TypeOK
      <3>2. call'[c] = Idle /\ \A d \in Callers \ {c} : call'[d] = call[d]
        BY <3>1 DEF TypeOK
      <3>3. /\ \A d \in Callers : Owner(d) => d # c /\ Owner(d)'
            /\ \A d \in Callers : Joiner(d)' => d # c /\ Joiner(d)
        BY <3>1, <3>2 DEF Owner, Joiner, At
      <3>4. RegisteredOwned'
        BY <3>1, <3>2, <3>3 DEF ServedInv, RegisteredOwned
      <3>5. JoinersAreServed'
        <4>1. \A j \in Callers : Joiner(j) => call[j].flight \in Flights
          BY FrameType
        <4> QED
          BY <3>1, <3>2, <3>3, <4>1 DEF ServedInv, JoinersAreServed
      <3> QED
        BY <3>4, <3>5 DEF ServedInv
    <2> QED
      BY <2>1, <2>2, <2>3, <2>4, <2>5
         DEF Next, GetOrSet, Get, Put, Clear, FindValue, Tick, vars
  <1> QED
    BY <1>1, <1>2, TypeCorrect, PTL DEF Spec

\* Every pending future that somebody awaits has an owner that will resolve it,
\* unless its owner was cancelled: no other call waits for nobody.
THEOREM NoJoinerIsOrphaned == Spec => []JoinersAreServed
  <1>1. ServedInv => JoinersAreServed
    BY DEF ServedInv
  <1> QED
    BY <1>1, ServedInductive, PTL

-----------------------------------------------------------------------------
\* The least recently used

\* The entries are in the order of their last use, one for each key.
Ordered(s, uses) ==
  \A i, j \in 1 .. Len(s) :
    i < j => s[i].key # s[j].key /\ s[j].key \in uses[s[i].key]

KeyIn(s, k) == \E i \in 1 .. Len(s) : s[i].key = k

\* A live key has its entry, or as many other keys have been used as the cache holds.
LiveKept(s, uses, alive) ==
  \A k \in alive : \/ \E i \in 1 .. Len(s) : s[i].key = k /\ s[i].left > 0
                   \/ Cardinality(uses[k]) >= MaxEntries

LruInv ==
  /\ Ordered(entries, touched)
  /\ LiveKept(entries, touched, live)
  /\ Len(entries) <= MaxEntries
  /\ \A k \in Keys : IsFiniteSet(touched[k])

\* Distinct positions hold distinct keys: there are as many keys as positions.
LEMMA KeysOfPositions ==
  ASSUME NEW s \in Seq(Entry), NEW m \in 1 .. Len(s) + 1,
         \A i, j \in 1 .. Len(s) : i < j => s[i].key # s[j].key
  PROVE  /\ IsFiniteSet({s[i].key : i \in m .. Len(s)})
         /\ Cardinality({s[i].key : i \in m .. Len(s)}) = Len(s) - m + 1
  <1> DEFINE places == m .. Len(s)
             named == {s[i].key : i \in places}
             f == [i \in places |-> s[i].key]
  <1>1. Len(s) \in Nat /\ m \in Nat
    BY LenProperties
  <1>2. IsFiniteSet(places) /\ Cardinality(places) = Len(s) - m + 1
    <2>1. /\ IsFiniteSet(m .. Len(s))
          /\ Cardinality(m .. Len(s)) = IF m > Len(s) THEN 0 ELSE Len(s) - m + 1
      <3>1. m \in Int /\ Len(s) \in Int
        BY <1>1
      <3> QED
        BY <3>1, FS_Interval
    <2>2. m <= Len(s) + 1
      BY <1>1
    <2> QED
      BY <1>1, <2>1, <2>2
  <1>3. f \in Surjection(places, named)
    BY DEF Surjection
  <1>4. \A i, j \in places : f[i] = f[j] => i = j
    <2> SUFFICES ASSUME NEW i \in places, NEW j \in places, i # j PROVE s[i].key # s[j].key
      OBVIOUS
    <2>1. i \in 1 .. Len(s) /\ j \in 1 .. Len(s) /\ (i < j \/ j < i)
      BY <1>1
    <2> QED
      BY <2>1
  <1>5. f \in Injection(places, named)
    <2>1. f \in [places -> named]
      BY <1>3 DEF Surjection
    <2> HIDE DEF places, named, f
    <2> QED
      BY <1>4, <2>1 DEF Injection, IsInjective
  <1> HIDE DEF places, named, f
  <1>6. IsFiniteSet(named) /\ Cardinality(named) = Cardinality(places)
    BY <1>2, <1>3, <1>5, FS_Surjection
  <1> QED
    BY <1>2, <1>6 DEF places, named

\* A larger finite set counts at least as much.
LEMMA CountGrows ==
  ASSUME NEW S, NEW T, IsFiniteSet(T), S \subseteq T
  PROVE  Cardinality(S) <= Cardinality(T) /\ Cardinality(S) \in Nat /\ Cardinality(T) \in Nat
  BY FS_Subset, FS_CardinalityType

\* Taking an entry out, by its place.
LEMMA WithoutIs ==
  ASSUME TypeOK, NEW k \in Keys, Has(k)
  PROVE  /\ Len(Without(k)) = Len(entries) - 1
         /\ \A i \in 1 .. Len(Without(k)) :
              Without(k)[i] = entries[IF i < Position(k) THEN i ELSE i + 1]
  <1> DEFINE p == Position(k)
             n == Len(entries)
             front == SubSeq(entries, 1, p - 1)
             back == SubSeq(entries, p + 1, n)
  <1>1. p \in 1 .. n /\ n \in Nat
    BY PositionType, LenProperties DEF TypeOK
  <1>2. \A i \in 1 .. n : entries[i] \in Entry
    BY ElementOfSeq DEF TypeOK
  <1>3. Without(k) = front \o back
    BY DEF Without
  <1> HIDE DEF p, n
  <1>4. /\ front \in Seq(Entry) /\ Len(front) = p - 1
        /\ \A i \in 1 .. p - 1 : front[i] = entries[i]
    <2>1. \A i \in 1 .. p - 1 : entries[i] \in Entry
      BY <1>1, <1>2
    <2>2. /\ front \in Seq(Entry)
          /\ Len(front) = IF 1 <= p - 1 THEN (p - 1) - 1 + 1 ELSE 0
          /\ \A i \in 1 .. (p - 1) - 1 + 1 : front[i] = entries[1 + i - 1]
      BY <1>1, <2>1, SubSeqProperties
    <2> HIDE DEF front
    <2> QED
      BY <1>1, <2>2
  <1>5. /\ back \in Seq(Entry) /\ Len(back) = n - p
        /\ \A i \in 1 .. n - p : back[i] = entries[p + i]
    <2>1. \A i \in p + 1 .. n : entries[i] \in Entry
      BY <1>1, <1>2
    <2>2. /\ back \in Seq(Entry)
          /\ Len(back) = IF p + 1 <= n THEN n - (p + 1) + 1 ELSE 0
          /\ \A i \in 1 .. n - (p + 1) + 1 : back[i] = entries[(p + 1) + i - 1]
      BY <1>1, <2>1, SubSeqProperties
    <2> HIDE DEF back
    <2> QED
      BY <1>1, <2>2
  <1> HIDE DEF front, back
  <1>6. /\ Len(front \o back) = n - 1
        /\ \A i \in 1 .. n - 1 :
             (front \o back)[i] = IF i <= p - 1 THEN front[i] ELSE back[i - (p - 1)]
    <2>1. /\ Len(front \o back) = Len(front) + Len(back)
          /\ \A i \in 1 .. Len(front) + Len(back) :
               (front \o back)[i] = IF i <= Len(front) THEN front[i] ELSE back[i - Len(front)]
      BY <1>4, <1>5, ConcatProperties
    <2> QED
      BY <1>1, <1>4, <1>5, <2>1
  <1>7. ASSUME NEW i \in 1 .. n - 1
        PROVE  (front \o back)[i] = entries[IF i < p THEN i ELSE i + 1]
    <2>1. CASE i < p
      BY <1>1, <1>4, <1>6, <2>1
    <2>2. CASE ~(i < p)
      <3>1. i - (p - 1) \in 1 .. n - p /\ p + (i - (p - 1)) = i + 1 /\ ~(i <= p - 1)
        BY <1>1, <2>2
      <3>2. (front \o back)[i] = back[i - (p - 1)]
        BY <1>6, <3>1
      <3>3. back[i - (p - 1)] = entries[p + (i - (p - 1))]
        BY <1>5, <3>1
      <3> QED
        BY <2>2, <3>1, <3>2, <3>3
    <2> QED
      BY <2>1, <2>2
  <1> QED
    BY <1>3, <1>6, <1>7 DEF p, n

\* Without a key the others keep their order and their entries.
LEMMA WithoutKeeps ==
  ASSUME TypeOK, LruInv, NEW k \in Keys
  PROVE  /\ Without(k) \in Seq(Entry) /\ Len(Without(k)) <= Len(entries)
         /\ Ordered(Without(k), touched) /\ ~KeyIn(Without(k), k)
         /\ \A i \in 1 .. Len(entries) : entries[i].key # k =>
              \E j \in 1 .. Len(Without(k)) : Without(k)[j] = entries[i]
         /\ Has(k) => Len(Without(k)) = Len(entries) - 1
  <1> DEFINE w == Without(k)
             p == Position(k)
             place(i) == IF i < p THEN i ELSE i + 1
  <1>1. Len(entries) \in Nat /\ w \in Seq(Entry) /\ Len(w) \in Nat /\ DOMAIN entries = 1 .. Len(entries)
    BY WithoutType, LenProperties DEF TypeOK
  <1>2. CASE ~Has(k)
    <2>1. w = entries
      BY <1>2 DEF Without
    <2>2. ~KeyIn(entries, k)
      BY <1>1, <1>2 DEF KeyIn, Has, Held
    <2> HIDE DEF w
    <2>3. \A i \in 1 .. Len(entries) : entries[i].key # k =>
            \E j \in 1 .. Len(w) : w[j] = entries[i]
      BY <2>1
    <2>4. Ordered(w, touched) /\ Len(w) <= Len(entries)
      BY <1>1, <2>1 DEF LruInv
    <2> QED
      BY <1>1, <1>2, <2>1, <2>2, <2>3, <2>4 DEF w
  <1>3. CASE Has(k)
    <2>1. /\ p \in 1 .. Len(entries) /\ entries[p].key = k /\ Len(w) = Len(entries) - 1
          /\ \A i \in 1 .. Len(w) : w[i] = entries[place(i)]
      BY <1>3, PositionType, WithoutIs
    <2> HIDE DEF w, p
    <2>2. /\ \A i \in 1 .. Len(w) : place(i) \in 1 .. Len(entries) /\ place(i) # p
          /\ \A i, j \in 1 .. Len(w) : i < j => place(i) < place(j)
      BY <1>1, <2>1
    <2>3. ASSUME NEW i \in 1 .. Len(entries), entries[i].key # k
          PROVE  \E j \in 1 .. Len(w) : w[j] = entries[i]
      <3>1. CASE i < p
        <4>1. i \in 1 .. Len(w) /\ place(i) = i
          BY <1>1, <2>1, <3>1
        <4> QED
          BY <2>1, <4>1
      <3>2. CASE i > p
        <4>1. i - 1 \in 1 .. Len(w) /\ place(i - 1) = i
          BY <1>1, <2>1, <3>2
        <4> QED
          BY <2>1, <4>1
      <3>3. i # p
        BY <2>1, <2>3
      <3> QED
        BY <1>1, <2>1, <3>1, <3>2, <3>3
    <2> HIDE DEF place
    <2>4. Ordered(w, touched)
      BY <2>1, <2>2 DEF Ordered, LruInv
    <2>5. \A i \in 1 .. Len(entries) : i # p => entries[i].key # entries[p].key
      BY <1>1, <2>1 DEF Ordered, LruInv
    <2>6. ~KeyIn(w, k)
      BY <2>1, <2>2, <2>5 DEF KeyIn
    <2> QED
      BY <1>1, <2>1, <2>3, <2>4, <2>6 DEF w
  <1> QED
    BY <1>2, <1>3

\* A key that is used last: its entry goes to the end.
LEMMA UsedLast ==
  ASSUME TypeOK, LruInv, NEW w \in Seq(Entry), NEW e \in Entry,
         Ordered(w, touched), ~KeyIn(w, e.key)
  PROVE  Ordered(Append(w, e), Touch(e.key))
  <1> DEFINE s == Append(w, e)
             k == e.key
  <1>1. /\ Len(w) \in Nat /\ Len(s) = Len(w) + 1 /\ s[Len(s)] = e /\ k \in Keys
        /\ \A i \in 1 .. Len(w) : s[i] = w[i] /\ w[i].key \in Keys /\ w[i].key # k
    <2>1. Len(w) \in Nat /\ Len(s) = Len(w) + 1 /\ s[Len(s)] = e /\ \A i \in 1 .. Len(w) : s[i] = w[i]
      OBVIOUS
    <2>2. \A i \in 1 .. Len(w) : w[i] \in Entry
      BY ElementOfSeq
    <2> HIDE DEF s
    <2> QED
      BY <2>1, <2>2 DEF KeyIn, Entry
  <1> HIDE DEF s, k
  <1>2. ASSUME NEW i \in 1 .. Len(s), NEW j \in 1 .. Len(s), i < j
        PROVE  s[i].key # s[j].key /\ s[j].key \in Touch(k)[s[i].key]
    <2>1. i \in 1 .. Len(w) /\ s[i] = w[i] /\ w[i].key \in Keys /\ w[i].key # k
      BY <1>1, <1>2
    <2>2. Touch(k)[w[i].key] = touched[w[i].key] \cup {k}
      BY <2>1 DEF Touch
    <2>3. CASE j = Len(s)
      BY <1>1, <2>1, <2>2, <2>3 DEF k
    <2>4. CASE j # Len(s)
      <3>1. j \in 1 .. Len(w) /\ s[j] = w[j]
        BY <1>1, <2>4
      <3>2. w[i].key # w[j].key /\ w[j].key \in touched[w[i].key]
        BY <1>2, <2>1, <3>1 DEF Ordered
      <3> QED
        BY <2>1, <2>2, <3>1, <3>2
    <2> QED
      BY <2>3, <2>4
  <1> QED
    BY <1>2 DEF Ordered, s, k

\* The uses that a use adds to.
LEMMA TouchGrows ==
  ASSUME TypeOK, LruInv, NEW k \in Keys
  PROVE  /\ \A j \in Keys : IsFiniteSet(Touch(k)[j])
         /\ \A j \in Keys \ {k} : Cardinality(touched[j]) >= MaxEntries
                                    => Cardinality(Touch(k)[j]) >= MaxEntries
  <1>1. ASSUME NEW j \in Keys
        PROVE  /\ IsFiniteSet(Touch(k)[j])
               /\ j # k /\ Cardinality(touched[j]) >= MaxEntries
                    => Cardinality(Touch(k)[j]) >= MaxEntries
    <2>1. CASE j = k
      BY <2>1, FS_EmptySet DEF Touch
    <2>2. CASE j # k
      <3>1. Touch(k)[j] = touched[j] \cup {k} /\ IsFiniteSet(touched[j])
        BY <2>2 DEF Touch, LruInv
      <3>2. IsFiniteSet(touched[j] \cup {k})
        BY <3>1, FS_AddElement
      <3>3. /\ Cardinality(touched[j]) <= Cardinality(touched[j] \cup {k})
            /\ Cardinality(touched[j]) \in Nat /\ Cardinality(touched[j] \cup {k}) \in Nat
        BY <3>2, CountGrows
      <3> QED
        BY <3>1, <3>2, <3>3, CacheAssumption DEF CacheAssumption
    <2> QED
      BY <2>1, <2>2
  <1> QED
    BY <1>1

LEMMA LookupKeepsLru ==
  ASSUME TypeOK, LruInv, NEW k \in Keys, Lookup(k)
  PROVE  LruInv'
  <1> DEFINE w == Without(k)
             found == entries[Position(k)]
  <1>0. /\ w \in Seq(Entry) /\ Len(w) <= Len(entries) /\ Ordered(w, touched) /\ ~KeyIn(w, k)
        /\ \A i \in 1 .. Len(entries) : entries[i].key # k =>
             \E j \in 1 .. Len(w) : w[j] = entries[i]
        /\ Has(k) => Len(w) = Len(entries) - 1
        /\ Len(w) \in Nat /\ Len(entries) \in Nat /\ MaxEntries \in Nat
        /\ live \subseteq Keys /\ live' = live
    BY WithoutKeeps, LenProperties, CacheAssumption DEF Lookup, TypeOK, CacheAssumption
  <1>1. CASE Fresh(k)
    <2>1. /\ entries' = Append(w, found) /\ touched' = Touch(k)
          /\ found \in Entry /\ found.key = k /\ found.left > 0 /\ Has(k)
      BY <1>1, PositionType DEF Lookup, Got, Fresh
    <2> HIDE DEF w, found
    <2>2. Ordered(Append(w, found), Touch(k))
      BY <1>0, <2>1, UsedLast
    <2>3. /\ Len(Append(w, found)) = Len(entries) /\ Append(w, found)[Len(entries)] = found
          /\ \A j \in 1 .. Len(w) : Append(w, found)[j] = w[j]
      BY <1>0, <2>1
    <2>4. LiveKept(Append(w, found), Touch(k), live)
      <3> SUFFICES ASSUME NEW j \in live,
                          ~(Cardinality(Touch(k)[j]) >= MaxEntries)
                   PROVE  \E i \in 1 .. Len(entries) :
                            Append(w, found)[i].key = j /\ Append(w, found)[i].left > 0
        BY <2>3 DEF LiveKept
      <3>1. CASE j = k
        <4>1. Len(entries) \in 1 .. Len(entries)
          BY <1>0, <2>1
        <4> QED
          BY <2>1, <2>3, <3>1, <4>1
      <3>2. CASE j # k
        <4>1. ~(Cardinality(touched[j]) >= MaxEntries)
          BY <1>0, <3>2, TouchGrows
        <4>2. PICK i \in 1 .. Len(entries) : entries[i].key = j /\ entries[i].left > 0
          BY <4>1 DEF LruInv, LiveKept
        <4>3. PICK m \in 1 .. Len(w) : w[m] = entries[i]
          BY <1>0, <3>2, <4>2
        <4>4. m \in 1 .. Len(entries)
          BY <1>0
        <4> QED
          BY <2>3, <4>2, <4>3, <4>4
      <3> QED
        BY <3>1, <3>2
    <2>5. \A j \in Keys : IsFiniteSet(Touch(k)[j])
      BY TouchGrows
    <2> QED
      BY <1>0, <2>1, <2>2, <2>3, <2>4, <2>5 DEF LruInv
  <1>2. CASE ~Fresh(k)
    <2>1. entries' = w /\ touched' = touched
      BY <1>2 DEF Lookup, Got
    <2>2. \A i \in 1 .. Len(entries) : entries[i].key = k => ~(entries[i].left > 0)
      <3> SUFFICES ASSUME NEW i \in 1 .. Len(entries), entries[i].key = k
                   PROVE  ~(entries[i].left > 0)
        OBVIOUS
      <3>1. DOMAIN entries = 1 .. Len(entries)
        BY LenProperties DEF TypeOK
      <3>2. Has(k)
        BY <3>1 DEF Has, Held
      <3>3. Position(k) \in 1 .. Len(entries) /\ entries[Position(k)].key = k
        BY <3>2, PositionType
      <3>4. Position(k) = i
        BY <1>0, <3>3 DEF LruInv, Ordered
      <3> QED
        BY <1>2, <3>2, <3>4 DEF Fresh
    <2> HIDE DEF w
    <2>3. LiveKept(w, touched, live)
      BY <1>0, <2>2 DEF LruInv, LiveKept
    <2> QED
      BY <1>0, <2>1, <2>3 DEF LruInv
  <1> QED
    BY <1>1, <1>2

\* The cache is full: the first key goes, after as many others as it holds were used.
LEMMA FirstIsEvicted ==
  ASSUME TypeOK, NEW s \in Seq(Entry), NEW uses \in [Keys -> SUBSET Keys], NEW alive \in SUBSET Keys,
         Len(s) <= MaxEntries + 1, Ordered(s, uses), LiveKept(s, uses, alive),
         \A k \in Keys : IsFiniteSet(uses[k])
  PROVE  /\ Len(Evicted(s)) <= MaxEntries /\ Ordered(Evicted(s), uses)
         /\ LiveKept(Evicted(s), uses, alive)
  <1> DEFINE t == SubSeq(s, 2, Len(s))
  <1>0. Len(s) \in Nat /\ MaxEntries \in Nat \ {0}
    BY LenProperties, CacheAssumption DEF CacheAssumption
  <1>1. CASE ~(Len(s) > MaxEntries)
    BY <1>0, <1>1 DEF Evicted
  <1>2. CASE Len(s) > MaxEntries
    <2>1. Len(s) = MaxEntries + 1 /\ Evicted(s) = t
      <3>1. Len(s) = MaxEntries + 1 /\ Len(s) - MaxEntries + 1 = 2
        BY <1>0, <1>2
      <3> QED
        BY <1>2, <3>1 DEF Evicted
    <2>2. Len(t) = MaxEntries /\ \A i \in 1 .. MaxEntries : t[i] = s[i + 1]
      <3>1. \A i \in 2 .. Len(s) : s[i] \in Entry
        <4>1. \A i \in 2 .. Len(s) : i \in 1 .. Len(s)
          BY <1>0
        <4> QED
          BY <4>1, ElementOfSeq
      <3>2. /\ Len(t) = IF 2 <= Len(s) THEN Len(s) - 2 + 1 ELSE 0
            /\ \A i \in 1 .. Len(s) - 2 + 1 : t[i] = s[2 + i - 1]
        BY <1>0, <3>1, SubSeqProperties
      <3> HIDE DEF t
      <3> QED
        BY <1>0, <2>1, <3>2
    <2> HIDE DEF t
    <2>3. Ordered(t, uses)
      <3> SUFFICES ASSUME NEW i \in 1 .. MaxEntries, NEW j \in 1 .. MaxEntries, i < j
                   PROVE  t[i].key # t[j].key /\ t[j].key \in uses[t[i].key]
        BY <2>2 DEF Ordered
      <3>1. i + 1 \in 1 .. Len(s) /\ j + 1 \in 1 .. Len(s) /\ i + 1 < j + 1
        BY <1>0, <2>1
      <3> QED
        BY <2>2, <3>1 DEF Ordered
    <2>4. Cardinality(uses[s[1].key]) >= MaxEntries
      <3> DEFINE others == {s[i].key : i \in 2 .. Len(s)}
      <3>1. s[1].key \in Keys /\ 1 \in 1 .. Len(s) /\ 2 \in 1 .. Len(s) + 1
        <4>1. 1 \in 1 .. Len(s) /\ 2 \in 1 .. Len(s) + 1
          BY <1>0, <2>1
        <4>2. s[1] \in Entry
          BY <4>1, ElementOfSeq
        <4> QED
          BY <4>1, <4>2 DEF Entry
      <3>2. Cardinality(others) = Len(s) - 2 + 1
        <4>1. \A i, j \in 1 .. Len(s) : i < j => s[i].key # s[j].key
          BY DEF Ordered
        <4> QED
          BY <3>1, <4>1, KeysOfPositions
      <3>3. others \subseteq uses[s[1].key]
        <4> SUFFICES ASSUME NEW i \in 2 .. Len(s) PROVE s[i].key \in uses[s[1].key]
          OBVIOUS
        <4>1. i \in 1 .. Len(s) /\ 1 < i
          BY <1>0
        <4> QED
          BY <3>1, <4>1 DEF Ordered
      <3> HIDE DEF others
      <3>4. /\ Cardinality(others) <= Cardinality(uses[s[1].key])
            /\ Cardinality(uses[s[1].key]) \in Nat
        BY <3>1, <3>3, CountGrows
      <3> QED
        BY <1>0, <2>1, <3>2, <3>4
    <2>5. LiveKept(t, uses, alive)
      <3> SUFFICES ASSUME NEW k \in alive, ~(Cardinality(uses[k]) >= MaxEntries)
                   PROVE  \E i \in 1 .. MaxEntries : t[i].key = k /\ t[i].left > 0
        BY <2>2 DEF LiveKept
      <3>1. PICK i \in 1 .. Len(s) : s[i].key = k /\ s[i].left > 0
        BY DEF LiveKept
      <3>2. i # 1
        BY <2>4, <3>1
      <3>3. i - 1 \in 1 .. MaxEntries /\ (i - 1) + 1 = i
        BY <1>0, <2>1, <3>2
      <3> QED
        BY <2>2, <3>1, <3>3
    <2> QED
      BY <1>0, <2>1, <2>2, <2>3, <2>5
  <1> QED
    BY <1>1, <1>2

LEMMA StoreKeepsLru ==
  ASSUME TypeOK, LruInv, NEW k \in Keys, NEW none \in BOOLEAN, NEW ttl \in 1 .. TTL,
         Store(k, none, ttl)
  PROVE  LruInv'
  <1> DEFINE e == [key |-> k, none |-> none, left |-> ttl]
             w == Without(k)
             s == Append(w, e)
  <1>0. /\ w \in Seq(Entry) /\ Len(w) <= Len(entries) /\ Ordered(w, touched) /\ ~KeyIn(w, k)
        /\ \A i \in 1 .. Len(entries) : entries[i].key # k =>
             \E j \in 1 .. Len(w) : w[j] = entries[i]
        /\ Len(w) \in Nat /\ Len(entries) \in Nat /\ MaxEntries \in Nat /\ TTL \in Nat
        /\ live \subseteq Keys /\ Len(entries) <= MaxEntries
    BY WithoutKeeps, LenProperties, CacheAssumption DEF TypeOK, CacheAssumption, LruInv
  <1>1. e \in Entry /\ e.key = k /\ e.left > 0
    BY <1>0 DEF Entry
  <1>2. entries' = Evicted(s) /\ touched' = Touch(k) /\ live' = live \cup {k}
    BY <1>1 DEF Store, Stored
  <1> HIDE DEF e, w
  <1>3. /\ s \in Seq(Entry) /\ Len(s) = Len(w) + 1 /\ s[Len(w) + 1] = e
        /\ \A i \in 1 .. Len(w) : s[i] = w[i]
    BY <1>0, <1>1
  <1>4. Ordered(s, Touch(k))
    BY <1>0, <1>1, UsedLast
  <1> HIDE DEF s
  <1>5. LiveKept(s, Touch(k), live \cup {k})
    <2> SUFFICES ASSUME NEW j \in live \cup {k}, ~(Cardinality(Touch(k)[j]) >= MaxEntries)
                 PROVE  \E i \in 1 .. Len(s) : s[i].key = j /\ s[i].left > 0
      BY DEF LiveKept
    <2>1. CASE j = k
      <3>1. Len(w) + 1 \in 1 .. Len(s)
        BY <1>0, <1>3
      <3> QED
        BY <1>1, <1>3, <2>1, <3>1
    <2>2. CASE j # k
      <3>1. ~(Cardinality(touched[j]) >= MaxEntries)
        BY <1>0, <2>2, TouchGrows
      <3>2. PICK i \in 1 .. Len(entries) : entries[i].key = j /\ entries[i].left > 0
        BY <2>2, <3>1 DEF LruInv, LiveKept
      <3>3. PICK m \in 1 .. Len(w) : w[m] = entries[i]
        BY <1>0, <2>2, <3>2
      <3>4. m \in 1 .. Len(s)
        BY <1>0, <1>3
      <3> QED
        BY <1>3, <3>2, <3>3, <3>4
    <2> QED
      BY <2>1, <2>2
  <1>6. Touch(k) \in [Keys -> SUBSET Keys] /\ \A j \in Keys : IsFiniteSet(Touch(k)[j])
    BY TouchGrows DEF Touch, TypeOK
  <1>7. live \cup {k} \in SUBSET Keys /\ Len(s) <= MaxEntries + 1
    BY <1>0, <1>3
  <1>8. /\ Len(Evicted(s)) <= MaxEntries /\ Ordered(Evicted(s), Touch(k))
        /\ LiveKept(Evicted(s), Touch(k), live \cup {k})
    BY <1>3, <1>4, <1>5, <1>6, <1>7, FirstIsEvicted
  <1> QED
    BY <1>2, <1>6, <1>8 DEF LruInv

LEMMA LruInductive ==
  ASSUME TypeOK, LruInv, [Next]_vars
  PROVE  LruInv'
  <1>1. ASSUME UNCHANGED <<entries, live, touched>> PROVE LruInv'
    BY <1>1 DEF LruInv, Ordered, LiveKept
  <1>2. ASSUME NEW k \in Keys, NEW none \in BOOLEAN, NEW ttl \in 1 .. TTL, Put(k, none, ttl)
        PROVE  LruInv'
    BY <1>2, StoreKeepsLru DEF Put
  <1>3. CASE Clear
    <2>1. entries' = <<>> /\ live' = {} /\ touched' = touched
      BY <1>3 DEF Clear
    <2> QED
      BY <2>1, CacheAssumption DEF LruInv, Ordered, LiveKept, CacheAssumption
  <1>4. ASSUME NEW c \in Callers, NEW none \in BOOLEAN, FactoryReturns(c, none) PROVE LruInv'
    <2>1. call[c].key \in Keys /\ Store(call[c].key, none, TTL)
      BY <1>4, FrameType DEF FactoryReturns
    <2>2. TTL \in 1 .. TTL
      BY CacheAssumption DEF CacheAssumption
    <2> QED
      BY <2>1, <2>2, StoreKeepsLru
  <1>5. CASE Tick
    <2>1. Len(entries) \in Nat /\ DOMAIN entries = 1 .. Len(entries)
      BY LenProperties DEF TypeOK
    <2>2. /\ Len(entries') = Len(entries) /\ touched' = touched
          /\ \A i \in 1 .. Len(entries) :
               /\ entries'[i].key = entries[i].key
               /\ entries[i].left > 1 => entries'[i].left > 0
      <3>1. entries' = [i \in 1 .. Len(entries) |->
                          [entries[i] EXCEPT !.left = IF @ > 0 THEN @ - 1 ELSE 0]]
        BY <1>5, <2>1 DEF Tick
      <3>2. \A i \in 1 .. Len(entries) :
              entries'[i] = [entries[i] EXCEPT !.left = IF @ > 0 THEN @ - 1 ELSE 0]
        BY <3>1
      <3>3. \A i \in 1 .. Len(entries) : entries[i] \in Entry
        BY ElementOfSeq DEF TypeOK
      <3>4. \A i \in 1 .. Len(entries) :
              /\ entries'[i].key = entries[i].key
              /\ entries'[i].left = IF entries[i].left > 0 THEN entries[i].left - 1 ELSE 0
              /\ entries[i].left \in Nat
        <4> SUFFICES ASSUME NEW i \in 1 .. Len(entries)
                     PROVE  /\ entries'[i].key = entries[i].key
                            /\ entries'[i].left =
                                 IF entries[i].left > 0 THEN entries[i].left - 1 ELSE 0
                            /\ entries[i].left \in Nat
          OBVIOUS
        <4> DEFINE old == entries[i]
        <4>1. old \in Entry /\ entries'[i] = [old EXCEPT !.left = IF @ > 0 THEN @ - 1 ELSE 0]
          BY <3>2, <3>3
        <4> HIDE DEF old
        <4>2. old.left \in Nat
          BY <4>1, CacheAssumption DEF Entry, CacheAssumption
        <4>3. /\ entries'[i].key = old.key
              /\ entries'[i].left = IF old.left > 0 THEN old.left - 1 ELSE 0
          BY <4>1 DEF Entry
        <4> QED
          BY <4>2, <4>3 DEF old
      <3>5. Len(entries') = Len(entries)
        BY <2>1, <3>1
      <3>6. touched' = touched
        BY <1>5 DEF Tick
      <3>7. ASSUME NEW i \in 1 .. Len(entries), entries[i].left > 1
            PROVE  entries'[i].left > 0
        BY <3>4, <3>7
      <3> QED
        BY <3>4, <3>5, <3>6, <3>7
    <2>3. live' = live \ {e.key : e \in {h \in Held : h.left <= 1}}
      BY <1>5 DEF Tick
    <2>4. Ordered(entries', touched)
      BY <2>2 DEF LruInv, Ordered
    <2>5. LiveKept(entries', touched, live')
      <3> SUFFICES ASSUME NEW k \in live', ~(Cardinality(touched[k]) >= MaxEntries)
                   PROVE  \E i \in 1 .. Len(entries) : entries'[i].key = k /\ entries'[i].left > 0
        BY <2>2 DEF LiveKept
      <3>1. PICK i \in 1 .. Len(entries) : entries[i].key = k /\ entries[i].left > 0
        BY <2>3 DEF LruInv, LiveKept
      <3>2. ~(entries[i].left <= 1)
        BY <2>1, <2>3, <3>1 DEF Held
      <3>3. entries[i].left \in Nat
        <4>1. entries[i] \in Entry
          BY ElementOfSeq DEF TypeOK
        <4> QED
          BY <4>1, CacheAssumption DEF Entry, CacheAssumption
      <3> QED
        BY <2>2, <3>1, <3>2, <3>3
    <2> QED
      BY <2>2, <2>4, <2>5 DEF LruInv
  <1>6. ASSUME NEW k \in Keys, Lookup(k) PROVE LruInv'
    BY <1>6, LookupKeepsLru
  <1> QED
    BY <1>1, <1>2, <1>3, <1>4, <1>5, <1>6
       DEF Next, GetOrSet, Get, FindValue, Own, Join, FactoryRaises, CancelOwner, CancelJoiner,
           JoinerEnds, vars

\* In whatever order keys are stored, read, cleared and expire: the cache never holds more
\* than max_entries, one entry for each key, and a key that was stored and has not expired
\* is there unless max_entries other keys have been used since.
THEOREM RecentlyUsedAreKept == Spec => []KeepsRecentlyUsed
  <1>1. Init => LruInv
    BY FS_EmptySet, CacheAssumption DEF Init, LruInv, Ordered, LiveKept, CacheAssumption
  <1>2. TypeOK /\ LruInv /\ [Next]_vars => LruInv'
    BY LruInductive
  <1>3. TypeOK /\ LruInv => KeepsRecentlyUsed
    <2> SUFFICES ASSUME TypeOK, LruInv PROVE KeepsRecentlyUsed
      OBVIOUS
    <2>1. Len(entries) \in Nat /\ DOMAIN entries = 1 .. Len(entries)
      BY LenProperties DEF TypeOK
    <2>2. \A i, j \in 1 .. Len(entries) : i < j => entries[i].key # entries[j].key
      BY DEF LruInv, Ordered
    <2>3. {e.key : e \in Held} = {entries[i].key : i \in 1 .. Len(entries)}
      BY <2>1 DEF Held
    <2>4. Cardinality({entries[i].key : i \in 1 .. Len(entries)}) = Len(entries) - 1 + 1
      <3>1. entries \in Seq(Entry) /\ 1 \in 1 .. Len(entries) + 1
        BY <2>1 DEF TypeOK
      <3> QED
        BY <2>2, <3>1, KeysOfPositions
    <2>5. ASSUME NEW k \in live, Cardinality(touched[k]) < MaxEntries PROVE Fresh(k)
      <3>1. k \in Keys /\ MaxEntries \in Nat /\ Cardinality(touched[k]) \in Nat
        BY CacheAssumption, FS_CardinalityType DEF TypeOK, LruInv, CacheAssumption
      <3>2. PICK i \in 1 .. Len(entries) : entries[i].key = k /\ entries[i].left > 0
        BY <2>5, <3>1 DEF LruInv, LiveKept
      <3>3. Has(k)
        BY <2>1, <3>2 DEF Has, Held
      <3>4. Position(k) \in 1 .. Len(entries) /\ entries[Position(k)].key = k
        BY <3>1, <3>3, PositionType
      <3>5. Position(k) = i
        BY <2>1, <2>2, <3>2, <3>4
      <3> QED
        BY <3>2, <3>3, <3>5 DEF Fresh
    <2>6. Cardinality({e.key : e \in Held}) = Len(entries)
      <3>1. Len(entries) - 1 + 1 = Len(entries)
        BY <2>1
      <3> QED
        BY <2>3, <2>4, <3>1, Zenon
    <2>7. Len(entries) <= MaxEntries
      BY DEF LruInv
    <2> QED
      BY <2>5, <2>6, <2>7 DEF KeepsRecentlyUsed
  <1> QED
    BY <1>1, <1>2, <1>3, TypeCorrect, PTL DEF Spec
=============================================================================
