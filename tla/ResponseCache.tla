---------------------------- MODULE ResponseCache ----------------------------
(***************************************************************************)
(* The response cache of performance/cache.py: a bounded LRU cache with a  *)
(* time to live and one flight per key.                                    *)
(*                                                                         *)
(* Its asyncio.Lock is never held across an await, so acquiring it never   *)
(* suspends: get_or_set runs from its start to the await of the factory or *)
(* of another call's future in one step, and from the end of the factory   *)
(* to its return in another.  Values are abstracted to whether they are    *)
(* None, which get() cannot tell from a miss.                              *)
(***************************************************************************)
EXTENDS Naturals, FiniteSets, Sequences

CONSTANTS
  Keys,
  Callers,        \* concurrent calls of get_or_set(cacheable=True)
  Flights,        \* futures; one is reused when no call refers to it
  MaxEntries,     \* max_entries
  TTL,            \* ttl_seconds, in ticks
  Idle,           \* a caller outside get_or_set
  NoFlight        \* no key in _inflight

\* An _Entry; left is the number of ticks until expires_at.
Entry == [key : Keys, none : BOOLEAN, left : 0 .. TTL]

\* The state of a future; an abandoned one is pending and its owner was cancelled.
Result == {"pending", "abandoned", "value", "error", "cancelled"}

\* A suspended get_or_set: it awaits its factory or the future of its flight.
Call == [at : {"owning", "joining"}, key : Keys, flight : Flights]

ASSUME CacheAssumption ==
  /\ MaxEntries \in Nat \ {0}
  /\ TTL \in Nat \ {0}
  /\ Idle \notin Call
  /\ NoFlight \notin Flights

VARIABLES
  entries,   \* _entries, least recently used first
  inflight,  \* _inflight
  future,    \* state of each future
  call,      \* each caller's frame
  live,      \* history: keys stored and neither expired nor cleared since
  touched    \* history: keys used since the last use of each key

vars == <<entries, inflight, future, call, live, touched>>

TypeOK ==
  /\ entries \in Seq(Entry)
  /\ inflight \in [Keys -> Flights \cup {NoFlight}]
  /\ future \in [Flights -> Result]
  /\ call \in [Callers -> Call \cup {Idle}]
  /\ live \in SUBSET Keys
  /\ touched \in [Keys -> SUBSET Keys]

Init ==
  /\ entries = <<>>
  /\ inflight = [k \in Keys |-> NoFlight]
  /\ future = [f \in Flights |-> "pending"]
  /\ call = [c \in Callers |-> Idle]
  /\ live = {}
  /\ touched = [k \in Keys |-> {}]

-----------------------------------------------------------------------------
\* The ordered dictionary

Held == {entries[i] : i \in DOMAIN entries}

Has(k) == \E e \in Held : e.key = k

Position(k) == CHOOSE i \in DOMAIN entries : entries[i].key = k

Fresh(k) == Has(k) /\ entries[Position(k)].left > 0

Hit(k) == Fresh(k) /\ ~entries[Position(k)].none

Without(k) ==
  IF Has(k) THEN SubSeq(entries, 1, Position(k) - 1)
                   \o SubSeq(entries, Position(k) + 1, Len(entries))
            ELSE entries

\* Variant: get() without move_to_end.
GotInPlace(k) == IF Fresh(k) THEN entries ELSE Without(k)

\* The entries after get(): a fresh one moves to the end, an expired one goes.
Got(k) == IF Fresh(k) THEN Append(Without(k), entries[Position(k)]) ELSE Without(k)

\* The loop at the end of set().
Evicted(s) == IF Len(s) > MaxEntries
              THEN SubSeq(s, Len(s) - MaxEntries + 1, Len(s))
              ELSE s

Stored(e) == Evicted(Append(Without(e.key), e))

\* History: key k is used.
Touch(k) == [j \in Keys |-> IF j = k THEN {} ELSE touched[j] \cup {k}]

\* get() as a step on the dictionary.
Lookup(k) ==
  /\ entries' = Got(k)
  /\ touched' = IF Fresh(k) THEN Touch(k) ELSE touched
  /\ UNCHANGED live

Store(k, none, ttl) ==
  /\ entries' = Stored([key |-> k, none |-> none, left |-> ttl])
  /\ live' = live \cup {k}
  /\ touched' = Touch(k)

-----------------------------------------------------------------------------
\* Calls

At(c, place) == call[c] # Idle /\ call[c].at = place

Owner(c) == At(c, "owning")

Joiner(c) == At(c, "joining")

Free == {f \in Flights : \A c \in Callers : call[c] # Idle => call[c].flight # f}

\* get() and set() called directly.  A ttl_seconds of 0 means the default, so
\* every stored entry lives for one tick at least.
Get(k) == Lookup(k) /\ UNCHANGED <<inflight, future, call>>

Put(k, none, ttl) ==
  /\ Store(k, none, ttl)
  /\ UNCHANGED <<inflight, future, call>>

Clear ==
  /\ entries' = <<>>
  /\ live' = {}
  /\ UNCHANGED <<inflight, future, call, touched>>

\* get_or_set finds a value and returns it.
FindValue(c, k) ==
  /\ call[c] = Idle
  /\ Hit(k)
  /\ Lookup(k)
  /\ UNCHANGED <<inflight, future, call>>

\* Variant: every miss runs its own factory.
Unclaimed(k) == TRUE

Claimable(k) == inflight[k] = NoFlight

\* get_or_set misses and no flight is under way: register one, run the factory.
Own(c, k) ==
  /\ call[c] = Idle
  /\ ~Hit(k)
  /\ Claimable(k)
  /\ Lookup(k)
  /\ \E f \in Free :
       /\ inflight' = [inflight EXCEPT ![k] = f]
       /\ future' = [future EXCEPT ![f] = "pending"]
       /\ call' = [call EXCEPT ![c] = [at |-> "owning", key |-> k, flight |-> f]]

\* get_or_set misses and awaits the flight of the key; the future may have
\* been cancelled already, and then the call ends at once.
Join(c, k) ==
  /\ call[c] = Idle
  /\ ~Hit(k)
  /\ ~Claimable(k)
  /\ Lookup(k)
  /\ call' = IF future[inflight[k]] = "cancelled" THEN call
             ELSE [call EXCEPT ![c] = [at |-> "joining", key |-> k, flight |-> inflight[k]]]
  /\ UNCHANGED <<inflight, future>>

\* Variant: an exception of the factory is not handed to the joiners.
LandedSilently(c, result) ==
  /\ future' = [future EXCEPT ![call[c].flight] =
                  IF @ = "pending" /\ result = "value" THEN result ELSE @]
  /\ inflight' = [inflight EXCEPT ![call[c].key] = NoFlight]

\* The end of the owner's try statement: the result goes to the joiners unless
\* one of them cancelled the future, and the flight is over.  On a cancelled
\* future set_result and set_exception raise InvalidStateError.
Landed(c, result) ==
  /\ future' = [future EXCEPT ![call[c].flight] = IF @ = "pending" THEN result ELSE @]
  /\ inflight' = [inflight EXCEPT ![call[c].key] = NoFlight]

FactoryReturns(c, none) ==
  /\ Owner(c)
  /\ Store(call[c].key, none, TTL)
  /\ Landed(c, "value")
  /\ call' = [call EXCEPT ![c] = Idle]

FactoryRaises(c) ==
  /\ Owner(c)
  /\ Landed(c, "error")
  /\ call' = [call EXCEPT ![c] = Idle]
  /\ UNCHANGED <<entries, live, touched>>

\* CancelledError is no Exception: only the finally clause runs, and nobody
\* will resolve the future.
CancelOwner(c) ==
  /\ Owner(c)
  /\ Landed(c, "abandoned")
  /\ call' = [call EXCEPT ![c] = Idle]
  /\ UNCHANGED <<entries, live, touched>>

\* Cancelling a task cancels the future it awaits.
CancelJoiner(c) ==
  /\ Joiner(c)
  /\ future' = [future EXCEPT ![call[c].flight] =
                  IF @ \in {"pending", "abandoned"} THEN "cancelled" ELSE @]
  /\ call' = [call EXCEPT ![c] = Idle]
  /\ UNCHANGED <<entries, inflight, live, touched>>

\* The future of the flight is done: its joiners return or raise.
JoinerEnds(c) ==
  /\ Joiner(c)
  /\ future[call[c].flight] \notin {"pending", "abandoned"}
  /\ call' = [call EXCEPT ![c] = Idle]
  /\ UNCHANGED <<entries, inflight, future, live, touched>>

Tick ==
  /\ \E e \in Held : e.left > 0
  /\ entries' = [i \in DOMAIN entries |->
                   [entries[i] EXCEPT !.left = IF @ > 0 THEN @ - 1 ELSE 0]]
  /\ live' = live \ {e.key : e \in {h \in Held : h.left <= 1}}
  /\ UNCHANGED <<inflight, future, call, touched>>

GetOrSet(c, k) == FindValue(c, k) \/ Own(c, k) \/ Join(c, k)

Next ==
  \/ \E k \in Keys : Get(k) \/ \E none \in BOOLEAN, ttl \in 1 .. TTL : Put(k, none, ttl)
  \/ Clear
  \/ \E c \in Callers, k \in Keys : GetOrSet(c, k)
  \/ \E c \in Callers : \/ \E none \in BOOLEAN : FactoryReturns(c, none)
                        \/ FactoryRaises(c)
                        \/ CancelOwner(c)
                        \/ CancelJoiner(c)
                        \/ JoinerEnds(c)
  \/ Tick

Spec == Init /\ [][Next]_vars

-----------------------------------------------------------------------------
\* Safety

\* However callers come, fail and are cancelled, at most one of them runs the
\* factory of a key (get_or_set's claim of _inflight and its finally clause).
SingleFlight ==
  \A c, d \in Callers : Owner(c) /\ Owner(d) /\ call[c].key = call[d].key => c = d

\* Whoever waits for a pending future that is not abandoned waits for a caller
\* that runs the factory of the same key.
JoinersAreServed ==
  \A c \in Callers : Joiner(c) /\ future[call[c].flight] = "pending" =>
    \E d \in Callers : /\ Owner(d)
                       /\ call[d].key = call[c].key
                       /\ call[d].flight = call[c].flight

\* The cache keeps at most max_entries entries, one per key, and keeps exactly
\* the recently used ones: a live key is gone only after max_entries other
\* keys have been used since its last use.
KeepsRecentlyUsed ==
  /\ Len(entries) <= MaxEntries
  /\ Cardinality({e.key : e \in Held}) = Len(entries)
  /\ \A k \in live : Cardinality(touched[k]) < MaxEntries => Fresh(k)

-----------------------------------------------------------------------------
\* Liveness: factories end and the event loop resumes every woken task.

Fairness ==
  \A c \in Callers :
    /\ WF_vars((\E none \in BOOLEAN : FactoryReturns(c, none)) \/ FactoryRaises(c))
    /\ WF_vars(JoinerEnds(c))

FairSpec == Spec /\ Fairness

Abandoned(c) == call[c] # Idle /\ future[call[c].flight] = "abandoned"

\* Every get_or_set ends, unless the owner of its flight was cancelled.
EveryCallEnds ==
  \A c \in Callers : call[c] # Idle ~> call[c] = Idle \/ Abandoned(c)

\* No get_or_set waits for a future that nobody will resolve.
NoneAbandoned == \A c \in Callers : ~Abandoned(c)
=============================================================================
