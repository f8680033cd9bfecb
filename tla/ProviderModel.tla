---------------------------- MODULE ProviderModel ----------------------------
(***************************************************************************)
(* A ReliableModel on top of an HTTP provider: the adapters of             *)
(* adapters/models/openai_compatible.py and cloudflare.py, which differ in *)
(* their URLs, headers and messages only.  An adapter sends one request    *)
(* per attempt, turns the reply or the failure into an answer or an        *)
(* exception, and a streamed body, line by line, into chunks; the retries, *)
(* the ledger and the traces are ReliableModel's.  The provider and the    *)
(* connection are external: they may answer anything, keep sending what is *)
(* no answer, or fall silent.                                              *)
(***************************************************************************)
EXTENDS ReliableModel

\* no_reply: the request failed in transit; 429 with a retry-after that is a date.
ReplyStatus == {"ok", "rejected", "limited", "limited_date", "unavailable", "no_reply"}

\* The tokens a body reports, and the name of the field it reports them under.
Usage == [tokens : 0 .. MaxTokens, name : {"prompt_tokens", "input_tokens"}]

\* usable: a JSON object with the fields the operation reads, for a structured
\* generation also content that is a JSON object.
Reply == {reply \in [status : ReplyStatus, usable : BOOLEAN, usage : Usage] :
            reply.status # "ok" => ~reply.usable}

VARIABLES
  exchange,  \* the HTTP request of each call: none, sent, or open while its body streams
  quiet,     \* the calls whose current read has waited as long as httpx lets a read wait
  seen,      \* history: the status each attempt of a call came to
  reported   \* history: the tokens the provider reported for a call

providerVars == <<modelVars, exchange, quiet, seen, reported>>

ProviderInit ==
  /\ ModelInit
  /\ exchange = [p \in Prompts |-> "none"]
  /\ quiet = {}
  /\ seen = [p \in Prompts |-> <<>>]
  /\ reported = [p \in Prompts |-> 0]

-----------------------------------------------------------------------------
\* Helpers

\* Variant: a rejected request is retried like one the provider could not serve.
JudgementRetriesRejected(reply) ==
  CASE reply.status \in {"rejected", "limited", "unavailable", "no_reply"} -> "transient"
    [] reply.status = "ok" /\ reply.usable -> "answer"
    [] OTHER -> "fatal"

\* _raise_for_status and the parsing of the body: float() of a date, a KeyError and a
\* ModelValidationError alike are not retried.
Judgement(reply) ==
  CASE reply.status \in {"limited", "unavailable", "no_reply"} -> "transient"
    [] reply.status = "ok" /\ reply.usable -> "answer"
    [] OTHER -> "fatal"

Field(usage, name) == IF usage.name = name THEN usage.tokens ELSE 0

\* _usage
Tokens(usage) ==
  IF Field(usage, "prompt_tokens") # 0 THEN Field(usage, "prompt_tokens")
  ELSE Field(usage, "input_tokens")

Saw(p, status) ==
  /\ seen' = [seen EXCEPT ![p] = Append(@, status)]
  /\ exchange' = [exchange EXCEPT ![p] = "none"]
  /\ quiet' = quiet \ {p}

Sent(p) == ask[p].stage = "calling" /\ exchange[p] = "sent"

Open(p) == ask[p].stage = "calling" /\ exchange[p] = "open"

-----------------------------------------------------------------------------
\* Requests

BeginCall(p) ==
  /\ Generate(p)
  /\ exchange' = [exchange EXCEPT ![p] = "sent"]
  /\ UNCHANGED <<quiet, seen, reported>>

\* A generation is answered, with the usage its body reports.
AnsweredBy(p, reply) ==
  /\ Judgement(reply) = "answer"
  /\ Answer(p) /\ ask'[p].tokens = Tokens(reply.usage)
  /\ reported' = [reported EXCEPT ![p] = reply.usage.tokens]

\* The adapter raises.
Refused(p, reply) ==
  /\ \/ Judgement(reply) = "transient" /\ FailTransiently(p)
     \/ Judgement(reply) = "fatal" /\ GiveUp(p)
  /\ UNCHANGED reported

Respond(p) == \E reply \in Reply :
  /\ Sent(p) /\ ask[p].kind = "generation"
  /\ AnsweredBy(p, reply) \/ Refused(p, reply)
  /\ Saw(p, reply.status)

\* The status line of a streamed reply: its body is read from the consumer's demand on.
OpenStream(p) ==
  /\ Sent(p) /\ ask[p].kind = "stream"
  /\ exchange' = [exchange EXCEPT ![p] = "open"]
  /\ quiet' = quiet \ {p}
  /\ UNCHANGED <<modelVars, seen, reported>>

RefuseStream(p) == \E reply \in Reply :
  /\ Sent(p) /\ ask[p].kind = "stream" /\ reply.status # "ok"
  /\ Refused(p, reply)
  /\ Saw(p, reply.status)

\* Variant: the client has the timeout of the request only, none of its own.
TimerOfRequest(p) == ask[p].timed

\* httpx.AsyncClient(timeout=request.timeout or self._timeout)
HasTimer(p) == TRUE

\* Nothing has come for as long as a read may wait.
Silence(p) ==
  /\ Sent(p) \/ Open(p)
  /\ p \notin quiet /\ quiet' = quiet \cup {p}
  /\ UNCHANGED <<modelVars, exchange, seen, reported>>

\* Something came after all that is no answer and no chunk: a part of a body, a line
\* that is no data (a comment that keeps the connection alive), an event without
\* content.  The adapter waits for more, and httpx measures the next read anew.
Trickle(p) ==
  /\ Sent(p) \/ Open(p)
  /\ p \in quiet /\ quiet' = quiet \ {p}
  /\ UNCHANGED <<modelVars, exchange, seen, reported>>

\* httpx times out while it waits for the reply or for the next line.
HttpTimesOut(p) ==
  /\ Sent(p) \/ Open(p)
  /\ HasTimer(p) /\ p \in quiet
  /\ FailTransiently(p)
  /\ Saw(p, "no_reply")
  /\ UNCHANGED reported

\* ReliableModel's own timer, set to the same timeout, fires first.  It measures the
\* whole generation, or all that a stream waits for its next chunk.
CallTimesOut(p) ==
  /\ TimeOut(p)
  /\ Saw(p, "timed_out")
  /\ UNCHANGED reported

Cancelled(p) ==
  /\ CallCancelled(p)
  /\ exchange' = [exchange EXCEPT ![p] = "none"]
  /\ quiet' = quiet \ {p}
  /\ UNCHANGED <<seen, reported>>

SendAgain(p) ==
  /\ Retry(p)
  /\ exchange' = [exchange EXCEPT ![p] = "sent"]
  /\ UNCHANGED <<quiet, seen, reported>>

-----------------------------------------------------------------------------
\* Streamed bodies.  Lines that are not data, and events without content, an error
\* event among them, are skipped: Trickle.

ContentLine(p) ==
  /\ Open(p) /\ Yield(p)
  /\ quiet' = quiet \ {p}
  /\ UNCHANGED <<exchange, seen, reported>>

NextLine(p) == Consume(p) /\ UNCHANGED <<exchange, quiet, seen, reported>>

\* A line that is no JSON or has no choice: its exception is no ModelError.
UnusableLine(p) == Open(p) /\ GiveUp(p) /\ Saw(p, "unusable") /\ UNCHANGED reported

ConnectionBreaks(p) ==
  Open(p) /\ FailTransiently(p) /\ Saw(p, "no_reply") /\ UNCHANGED reported

DoneLine(p) == Open(p) /\ EndStream(p) /\ Saw(p, "ok") /\ UNCHANGED reported

\* The body ends, as when the connection is closed, without "[DONE]": the loop over
\* its lines ends and with it the stream, like a whole one.
BodyEnds(p) ==
  /\ Open(p) /\ ask[p].next <= Chunks
  /\ To(p, "ended") /\ Trace(p)
  /\ Saw(p, "cut")
  /\ UNCHANGED <<delivered, ledger, metered, reported>>

ProviderNext == \E p \in Prompts :
  \/ BeginCall(p) \/ Respond(p) \/ OpenStream(p) \/ RefuseStream(p) \/ Silence(p)
  \/ Trickle(p) \/ HttpTimesOut(p) \/ CallTimesOut(p) \/ Cancelled(p) \/ SendAgain(p) \/ ContentLine(p) \/ NextLine(p)
  \/ UnusableLine(p) \/ ConnectionBreaks(p) \/ DoneLine(p) \/ BodyEnds(p)

ProviderSpec == ProviderInit /\ [][ProviderNext]_providerVars

-----------------------------------------------------------------------------
\* Properties

\* What the adapter's exceptions and ReliableModel's retries come to: a request is
\* sent again only after the provider was unavailable, limited the rate or did not
\* answer in time, so that one it rejected or answered unusably is never repeated;
\* and a call gives up early for such a reply only, or a stream for its own timeout.
RepeatsOnlyTransient ==
  \A p \in Prompts :
    LET last == Len(seen[p])
        transient == {"limited", "unavailable", "no_reply"}
    IN /\ \A n \in 1 .. last : n < ask[p].attempts =>
            seen[p][n] \in transient \/ (seen[p][n] = "timed_out" /\ ask[p].kind = "generation")
       /\ ask[p].stage = "raised" /\ ask[p].attempts < MaxAttempts =>
            seen[p][last] \notin transient /\ (seen[p][last] = "timed_out" => ask[p].kind = "stream")

\* The ledger, the traces and the metrics agree with the answers, and with what was
\* sent and received for them: a call that ended had a reply with status 200 in its
\* last attempt, so that a stream that times out, whichever of two equal timers fires
\* first, is in no case a finished one; and the ledger holds the tokens that the
\* providers reported for those replies, under either name.
LedgerHoldsReports ==
  /\ LedgerMatchesAnswers
  /\ \A p \in Prompts : ask[p].stage = "ended" => seen[p][Len(seen[p])] \in {"ok", "cut"}
  /\ ledger.tokens = Cardinality(Counted(reported))

\* A stream with a trace has delivered, after at most one other piece per earlier
\* attempt, the output from its beginning as its last chunks: all of it, unless the
\* body ended before "[DONE]", which nobody notices.
TracedStreamIsWhole == \A p \in Prompts :
  LET chunks == delivered[p]
      got == ask[p].next - 1
  IN ask[p].kind = "stream" /\ traced[p] > 0 =>
       /\ got = Chunks \/ seen[p][Len(seen[p])] = "cut"
       /\ Len(chunks) >= got
       /\ \A n \in 1 .. got : chunks[Len(chunks) - got + n] = n
       /\ Cardinality({n \in 1 .. Len(chunks) : chunks[n] = 1}) <= traced[p]

\* A call with a timeout comes to an end whatever the provider does.  One without comes
\* to an end also when the provider hangs, since the client has a timeout of its own,
\* unless the provider keeps sending what is no answer: httpx's timeout is one of each
\* read, and no timer measures the whole.
ModelCallsEnd ==
  \A p \in Prompts :
    \/ ask[p].stage = "calling" ~> ask[p].stage \in {"ended", "raised", "cancelled"}
    \/ []<><<~ask[p].timed /\ Trickle(p)>>_providerVars
=============================================================================
