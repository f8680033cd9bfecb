--------------------------- MODULE IntegrityEngine ---------------------------
(***************************************************************************)
(* DefaultIntegrityEngine and the contradiction detector of                *)
(* integrity/engine.py over one evidence tracker.  Evidence arrives and    *)
(* expires; an assessment keeps the verdict it was given, whatever happens *)
(* to the evidence afterwards.                                             *)
(***************************************************************************)
EXTENDS Naturals, Sequences, FiniteSets

CONSTANTS
  Keys,           \* claim keys
  NoKey,          \* a claim, or evidence, without a key
  Sources,        \* sources of evidence
  Claims,         \* the claims that may be validated
  MaxEvidence,    \* bound of the evidence tracked
  MaxAssessments  \* bound of the assessments made

Item == [key : Keys \cup {NoKey}, polarity : {"true", "false", "none"}, source : Sources]

\* verified: the claim is presented as a VERIFIED_FACT; risky: its metadata says
\* technical_risk.  A claim without a polarity expects "true".
Claim == [key : Keys \cup {NoKey}, polarity : {"true", "false"},
          verified : BOOLEAN, risky : BOOLEAN]

ASSUME IntegrityAssumption ==
  /\ NoKey \notin Keys /\ Claims \subseteq Claim
  /\ MaxEvidence \in Nat /\ MaxAssessments \in Nat

Status == {"supported", "unsupported", "questionable", "insufficient_evidence",
           "technically_risky"}

VARIABLES
  evidence,  \* the tracked items, oldest first
  expired,   \* the positions of those past expires_at
  assessed   \* the assessments; seen is how much evidence each was given

integrityVars == <<evidence, expired, assessed>>

IntegrityTypeOK ==
  /\ evidence \in Seq(Item)
  /\ expired \in SUBSET (1 .. Len(evidence))
  /\ assessed \in Seq([claim : Claim, status : Status, seen : Nat])

IntegrityInit == evidence = <<>> /\ expired = {} /\ assessed = <<>>

-----------------------------------------------------------------------------
\* Helpers

\* A claim without a key is about all evidence.
Matches(claim, item) == claim.key = NoKey \/ item.key = claim.key

Supports(claim, item) == item.polarity \in {"none", claim.polarity}

Contradicts(claim, item) == item.polarity \notin {"none", claim.polarity}

\* Variant: a conflict counts only when nothing supports the claim.
VerdictSupportFirst(claim, fresh, stale) ==
  LET supporting == {i \in fresh : Supports(claim, evidence[i])}
      contradicting == {i \in fresh : Contradicts(claim, evidence[i])}
      backers == {evidence[i].source : i \in supporting}
  IN IF supporting = {} /\ contradicting # {} THEN "questionable"
     ELSE IF supporting = {}
          THEN IF fresh # {} /\ stale = {} THEN "unsupported" ELSE "insufficient_evidence"
     ELSE IF claim.verified /\ Cardinality(backers) < 2 THEN "questionable"
     ELSE IF claim.risky THEN "technically_risky" ELSE "supported"

\* validate_claim on the positions of matching evidence that it finds fresh and
\* on those it finds stale.
Verdict(claim, fresh, stale) ==
  LET supporting == {i \in fresh : Supports(claim, evidence[i])}
      contradicting == {i \in fresh : Contradicts(claim, evidence[i])}
      backers == {evidence[i].source : i \in supporting}
  IN IF contradicting # {} THEN "questionable"
     ELSE IF supporting = {}
          THEN IF fresh # {} /\ stale = {} THEN "unsupported" ELSE "insufficient_evidence"
     ELSE IF claim.verified /\ Cardinality(backers) < 2 THEN "questionable"
     ELSE IF claim.risky THEN "technically_risky" ELSE "supported"

Matching(claim) == {i \in 1 .. Len(evidence) : Matches(claim, evidence[i])}

\* DefaultContradictionDetector: both items are fresh, have the same key and
\* opposite polarities.
Conflict(i, j) ==
  /\ i \notin expired /\ j \notin expired
  /\ evidence[i].key = evidence[j].key /\ evidence[i].key # NoKey
  /\ {evidence[i].polarity, evidence[j].polarity} = {"true", "false"}

Settled == {"supported", "technically_risky"}

\* The claims that assess_response calls known, wherever it answers with them: every
\* other one is a belief.
Known == {n \in 1 .. Len(assessed) : assessed[n].status = "supported"}

\* evaluate_idea over some of the assessments.
IdeaStatus(criteria) ==
  LET statuses == {assessed[n].status : n \in criteria}
  IN IF "technically_risky" \in statuses THEN "technically_risky"
     ELSE IF "questionable" \in statuses THEN "questionable"
     ELSE IF "unsupported" \in statuses THEN "unsupported"
     ELSE IF "insufficient_evidence" \in statuses THEN "needs_investigation"
     ELSE "supported"

-----------------------------------------------------------------------------
\* Actions

Track(item) ==
  /\ Len(evidence) < MaxEvidence
  /\ evidence' = Append(evidence, item)
  /\ UNCHANGED <<expired, assessed>>

Expire(i) ==
  /\ i \notin expired
  /\ expired' = expired \cup {i}
  /\ UNCHANGED <<evidence, assessed>>

\* is_fresh reads the clock: an item that expires while the claim is validated is
\* fresh when the fresh items are collected and stale when the stale ones are.
Validate(claim) == \E expiring \in SUBSET (Matching(claim) \ expired) :
  /\ Len(assessed) < MaxAssessments
  /\ LET fresh == Matching(claim) \ expired
         stale == Matching(claim) \cap (expired \cup expiring)
     IN assessed' = Append(assessed, [claim |-> claim,
                                      status |-> Verdict(claim, fresh, stale),
                                      seen |-> Len(evidence)])
  /\ expired' = expired \cup expiring
  /\ UNCHANGED evidence

IntegrityNext ==
  \/ \E item \in Item : Track(item)
  \/ \E i \in 1 .. Len(evidence) : Expire(i)
  \/ \E claim \in Claims : Validate(claim)

IntegritySpec == IntegrityInit /\ [][IntegrityNext]_integrityVars

-----------------------------------------------------------------------------
\* Properties

\* The detector finds no conflict within the evidence that an assessment was given
\* and that concerns its claim.
AgreedOn(n) == LET given == assessed[n] IN
  \A i, j \in 1 .. given.seen :
    Matches(given.claim, evidence[i]) /\ Matches(given.claim, evidence[j]) => ~Conflict(i, j)

\* Two assessments of claims about one key that expect opposite polarities.
Opposite(n, m) ==
  assessed[n].claim.key = assessed[m].claim.key /\ assessed[n].claim.polarity # assessed[m].claim.polarity

\* The detector never finds a conflict within the evidence on which a claim was
\* settled, at the time or later, nor within that of any criterion of an idea that
\* evaluates as supported: the components agree on what a contradiction is, although
\* they compare different things.  A claim and its opposite may both be known, but
\* only over evidence without a polarity, which supports either.
SettledMeansAgreed ==
  /\ \A n \in 1 .. Len(assessed) : assessed[n].status \in Settled => AgreedOn(n)
  /\ \A criteria \in SUBSET (1 .. Len(assessed)) :
       IdeaStatus(criteria) = "supported" => \A n \in criteria : AgreedOn(n)
  /\ \A n, m \in Known : Opposite(n, m) =>
       \A i \in 1 .. Len(evidence) :
         i <= assessed[n].seen /\ i <= assessed[m].seen /\ i \notin expired
           /\ Matches(assessed[n].claim, evidence[i]) => evidence[i].polarity = "none"

\* What docs/architecture/integrity-engine.md says of the statuses, and the code does not
\* do: UNSUPPORTED is the status of a claim when relevant evidence exists but does not
\* support it.  (The evidence is all fresh, and free of conflicts: what does not support
\* the claim is all of the opposite polarity.)
UnsupportedIsTold ==
  \A n \in 1 .. Len(assessed) :
    LET given == assessed[n]
        relevant == {i \in 1 .. given.seen : Matches(given.claim, evidence[i])}
    IN relevant # {} /\ relevant \cap expired = {}
         /\ (\A i \in relevant : ~Supports(given.claim, evidence[i]))
         => given.status = "unsupported"

\* What it does instead: validate_claim never answers UNSUPPORTED, and so no idea
\* evaluates to it, because fresh matching evidence either supports a claim or
\* contradicts it.
NeverUnsupported ==
  /\ \A n \in 1 .. Len(assessed) : assessed[n].status # "unsupported"
  /\ \A criteria \in SUBSET (1 .. Len(assessed)) : IdeaStatus(criteria) # "unsupported"
=============================================================================
