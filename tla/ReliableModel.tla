---------------------------- MODULE ReliableModel ----------------------------
(***************************************************************************)
(* ReliableModel of models/runtime.py, shared by callers that await it at  *)
(* the same time: attempts, timeouts and backoff of a call, the ledger of  *)
(* usage and the traces.  A call is a generation (generate,                *)
(* generate_structured and embed are alike) or a stream, whose consumer    *)
(* takes one chunk at a time.  Callers use it through InstrumentedModel    *)
(* (observability/model.py), which counts what comes out of it in the      *)
(* metrics of observability/runtime.py.                                    *)
(***************************************************************************)
EXTENDS Naturals, Sequences, FiniteSets

CONSTANTS
  Prompts,      \* calls of the model
  MaxAttempts,  \* policy.max_attempts
  Chunks,       \* chunks of a whole output
  MaxTokens     \* most tokens of an answer

ASSUME ModelAssumption ==
  MaxAttempts \in Nat \ {0} /\ Chunks \in Nat \ {0} /\ MaxTokens \in Nat

\* calling: awaiting the provider; yielded: a stream waits for its consumer;
\* backing_off: in the sleep between two attempts; ended: with its answer.
Stage == {"new", "calling", "yielded", "backing_off", "ended", "raised", "cancelled"}

Kind == {"generation", "stream"}

\* timed: the request has a timeout; tokens: the usage its answer reported.
Ask == [stage : Stage, kind : Kind, timed : BOOLEAN, attempts : 0 .. MaxAttempts,
        next : 1 .. Chunks + 1, tokens : 0 .. MaxTokens]

VARIABLES
  ask,        \* each call
  delivered,  \* the chunks each stream's consumer has received, by position
  ledger,     \* _usage: requests and tokens
  traced,     \* _traces: attempts of each call that has one, 0 for the others
  metered     \* the counters of model requests, tokens and failures

modelVars == <<ask, delivered, ledger, traced, metered>>

ModelInit ==
  /\ ask = [p \in Prompts |-> [stage |-> "new", kind |-> "generation", timed |-> FALSE,
                               attempts |-> 0, next |-> 1, tokens |-> 0]]
  /\ delivered = [p \in Prompts |-> <<>>]
  /\ ledger = [requests |-> 0, tokens |-> 0]
  /\ traced = [p \in Prompts |-> 0]
  /\ metered = [requests |-> 0, tokens |-> 0, failures |-> 0]

-----------------------------------------------------------------------------
\* Helpers

Is(p, kind, stage) == ask[p].kind = kind /\ ask[p].stage = stage

To(p, stage) == ask' = [ask EXCEPT ![p].stage = stage]

\* What follows a failure that may be retried: the last attempt's is raised.
Later(p) == IF ask[p].attempts >= MaxAttempts THEN "raised" ELSE "backing_off"

\* The call goes to this stage; InstrumentedModel counts a generation that raises.
\* It hands streams on as they are, and does not see a cancellation.
Fall(p, stage) ==
  /\ To(p, stage)
  /\ metered' = IF stage = "raised" /\ ask[p].kind = "generation"
                THEN [metered EXCEPT !.failures = @ + 1] ELSE metered

\* InstrumentedModel._record
Measure(tokens) ==
  metered' = [metered EXCEPT !.requests = @ + 1, !.tokens = @ + tokens]

Trace(p) == traced' = [traced EXCEPT ![p] = ask[p].attempts]

-----------------------------------------------------------------------------
\* Calls

Generate(p) == \E kind \in Kind, timed \in BOOLEAN :
  /\ ask[p].stage = "new"
  /\ ask' = [ask EXCEPT ![p].stage = "calling", ![p].kind = kind, ![p].timed = timed,
                        ![p].attempts = 1]
  /\ UNCHANGED <<delivered, ledger, traced, metered>>

\* Variant: the ledger record() returns replaces what was recorded meanwhile.
AnswerAlone(p) == \E tokens \in 0 .. MaxTokens :
  /\ Is(p, "generation", "calling")
  /\ ask' = [ask EXCEPT ![p].stage = "ended", ![p].tokens = tokens]
  /\ ledger' = [requests |-> 1, tokens |-> tokens]
  /\ Trace(p) /\ Measure(tokens)
  /\ UNCHANGED delivered

\* The trace, the usage and the metrics of an answer, with no await between them.
Answer(p) == \E tokens \in 0 .. MaxTokens :
  /\ Is(p, "generation", "calling")
  /\ ask' = [ask EXCEPT ![p].stage = "ended", ![p].tokens = tokens]
  /\ ledger' = [requests |-> ledger.requests + 1, tokens |-> ledger.tokens + tokens]
  /\ Trace(p) /\ Measure(tokens)
  /\ UNCHANGED delivered

\* A ModelError that is retryable, of either kind.
FailTransiently(p) ==
  /\ ask[p].stage = "calling"
  /\ Fall(p, Later(p))
  /\ UNCHANGED <<delivered, ledger, traced>>

\* Any other exception of the provider.
GiveUp(p) ==
  /\ ask[p].stage = "calling"
  /\ Fall(p, "raised")
  /\ UNCHANGED <<delivered, ledger, traced>>

\* The caller is cancelled while the provider or the backoff is awaited, or closes
\* its stream.
CallCancelled(p) ==
  /\ ask[p].stage \in {"calling", "yielded", "backing_off"}
  /\ Fall(p, "cancelled")
  /\ UNCHANGED <<delivered, ledger, traced>>

\* Variant: a stream that times out is taken for one that has ended.
ExpireSilently(p) ==
  /\ ask[p].stage = "calling" /\ ask[p].timed
  /\ Fall(p, IF ask[p].kind = "stream" THEN "ended" ELSE Later(p))
  /\ IF ask[p].kind = "stream" THEN Trace(p) ELSE UNCHANGED traced
  /\ UNCHANGED <<delivered, ledger>>

\* wait_for times out.  A generation is tried again; a stream's TimeoutError is
\* not a ModelError and goes to the consumer.
TimeOut(p) ==
  /\ ask[p].stage = "calling" /\ ask[p].timed
  /\ Fall(p, IF ask[p].kind = "stream" THEN "raised" ELSE Later(p))
  /\ UNCHANGED <<delivered, ledger, traced>>

\* The delay is over.  A stream starts from the beginning, whatever its consumer
\* has received.
Retry(p) ==
  /\ ask[p].stage = "backing_off"
  /\ ask' = [ask EXCEPT ![p].stage = "calling", ![p].attempts = @ + 1, ![p].next = 1]
  /\ UNCHANGED <<delivered, ledger, traced, metered>>

-----------------------------------------------------------------------------
\* Streams

Yield(p) ==
  /\ Is(p, "stream", "calling") /\ ask[p].next <= Chunks
  /\ ask' = [ask EXCEPT ![p].stage = "yielded", ![p].next = @ + 1]
  /\ delivered' = [delivered EXCEPT ![p] = Append(@, ask[p].next)]
  /\ UNCHANGED <<ledger, traced, metered>>

\* The consumer asks for the next chunk.
Consume(p) ==
  /\ ask[p].stage = "yielded"
  /\ To(p, "calling")
  /\ UNCHANGED <<delivered, ledger, traced, metered>>

\* The provider's iterator is exhausted: a trace, and no usage.
EndStream(p) ==
  /\ Is(p, "stream", "calling") /\ ask[p].next > Chunks
  /\ To(p, "ended")
  /\ Trace(p)
  /\ UNCHANGED <<delivered, ledger, metered>>

-----------------------------------------------------------------------------
\* Properties

Generations(stage) == {p \in Prompts : Is(p, "generation", stage)}

\* The tokens of each call, one by one.
Counted(used) == UNION {{p} \X (1 .. used[p]) : p \in DOMAIN used}

\* However calls overlap, fail and are retried, the ledger holds exactly the
\* generations that have been answered, each once, as the traces and the metrics do:
\* none is lost to another, and none knows of a stream or of an attempt that was
\* retried.  Generations that raised are counted apart, each once, whatever its
\* attempts; those that were cancelled nowhere.
LedgerMatchesAnswers ==
  LET answered == Generations("ended")
      tokens == Cardinality(Counted([p \in answered |-> ask[p].tokens]))
  IN /\ ledger = [requests |-> Cardinality(answered), tokens |-> tokens]
     /\ \A p \in Generations("raised") \cup Generations("cancelled") : traced[p] = 0
     /\ metered = [requests |-> Cardinality(answered), tokens |-> tokens,
                   failures |-> Cardinality(Generations("raised"))]
=============================================================================
