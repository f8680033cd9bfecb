-------------------------- MODULE MCIntegrityEngine --------------------------
(***************************************************************************)
(* The integrity engine for TLC: the claims that are validated.            *)
(***************************************************************************)
EXTENDS IntegrityEngine

Stating(key, polarity, verified, risky) ==
  [key |-> key, polarity |-> polarity, verified |-> verified, risky |-> risky]

\* A claim of each key and polarity, a verified one and a risky one of each key.
Stated ==
  {Stating(key, polarity, FALSE, FALSE) : key \in Keys \cup {NoKey}, polarity \in {"true", "false"}}
    \cup {Stating(key, "true", verified, ~verified) :
           key \in Keys \cup {NoKey}, verified \in BOOLEAN}
=============================================================================
