--------------------------- MODULE MCResponseCache ---------------------------
(***************************************************************************)
(* The response cache for TLC.  A third caller comes only to a key that is *)
(* alone: it makes a second joiner of one flight, so that a joiner that is *)
(* cancelled meets another one, and the keys that compete for the room of  *)
(* the cache have two callers.                                             *)
(***************************************************************************)
EXTENDS ResponseCache

CONSTANTS
  Third,    \* a caller
  Popular   \* the key it asks for

ASSUME MCAssumption == Third \in Callers /\ Popular \in Keys

\* No other key is in the cache or in flight.
Alone == \A k \in Keys \ {Popular} : ~Has(k) /\ inflight[k] = NoFlight

\* A bound on the callers, not on what they do.
MCNext == Next /\ (call'[Third] # Idle => Alone')

MCSpec == Init /\ [][MCNext]_vars /\ Fairness
=============================================================================
