--------------------------- MODULE ContextBuilder ----------------------------
(***************************************************************************)
(* ContextBuilder.build over in-memory retrievers (context/builder.py,     *)
(* context/retrieval.py) and optimize_context (performance/context.py).    *)
(* Items are added while a build gathers what its retrievers answer.  An   *)
(* item carries the relevance it has to the one query; relevance,          *)
(* authority and freshness are percentages and scores hundredths of one.   *)
(***************************************************************************)
EXTENDS Integers, Sequences, FiniteSets

CONSTANTS
  Retrievers,       \* the number of retrievers, asked in this order
  Pool,             \* the items that exist
  ContextRequests,  \* the requests that may be built
  Compactions,      \* the budgets that optimize_context may be given
  MaxShelved        \* bound of the items added to retrievers

SourceKind == {"knowledge", "decision", "documentation", "repository", "project", "task",
               "memory"}

\* content: the text without outer blanks and case, which is what is compared;
\* size: its length; tag: the metadata that requests may ask for.
ContextItem == [id : Nat, content : STRING, size : Nat, tag : STRING, kind : SourceKind,
                relevance : 0 .. 100, authority : 0 .. 100, freshness : 0 .. 100]

\* No kinds: all kinds; tag "any": no metadata asked for.
ContextRequest == [limit : Nat \ {0}, room : Nat \ {0}, tag : STRING, kinds : SUBSET SourceKind,
                   minScore : 0 .. 10000]

\* What was given, and what of it was chosen.
Selected == [request : ContextRequest, given : SUBSET Pool, items : Seq(Pool), used : Nat,
             truncated : BOOLEAN]

ASSUME ContextAssumption ==
  /\ Retrievers \in Nat \ {0} /\ MaxShelved \in Nat
  /\ \A item \in Pool : item \in ContextItem
  /\ \A a, b \in Pool : a.id = b.id => a = b
  /\ ContextRequests \cup Compactions \subseteq ContextRequest
  /\ \A budget \in Compactions : budget.kinds = {} /\ budget.minScore = 0

VARIABLES
  shelves,  \* the items each retriever holds
  asked,    \* the request being built, <<>> before
  answers,  \* what each retriever answered, "none" before
  context   \* the selections made: the build's, then the compaction's

contextVars == <<shelves, asked, answers, context>>

ContextTypeOK ==
  /\ shelves \in [1 .. Retrievers -> SUBSET Pool]
  /\ asked \in {<<>>} \cup {<<request>> : request \in ContextRequests}
  /\ answers \in [1 .. Retrievers -> {<<>>} \cup {<<held>> : held \in SUBSET Pool}]
  /\ context \in Seq(Selected)

ContextInit ==
  /\ shelves = [r \in 1 .. Retrievers |-> {}]
  /\ asked = <<>>
  /\ answers = [r \in 1 .. Retrievers |-> <<>>]
  /\ context = <<>>

-----------------------------------------------------------------------------
\* Helpers

Members(items) == {items[n] : n \in 1 .. Len(items)}

\* Keys are compared as Python compares tuples.
Beats(s, t) == \E n \in 1 .. Len(s) : s[n] > t[n] /\ \A k \in 1 .. n - 1 : s[k] = t[k]

\* KeywordRetriever._with_score
Relevant(item) == 55 * item.relevance + 30 * item.authority + 15 * item.freshness

Priority == [knowledge |-> 100, decision |-> 98, documentation |-> 92, repository |-> 88,
             project |-> 82, task |-> 68, memory |-> 55]

\* ContextScorer.score
Blended(item) ==
  55 * item.relevance + 25 * item.authority + 10 * item.freshness + 10 * Priority[item.kind]

RankKey(item) == <<Blended(item), item.authority, -item.id>>

RetrievalKey(item) == <<Relevant(item), item.authority, item.id>>

Tagged(held, request) == {item \in held : request.tag \in {"any", item.tag}}

\* heapq.nlargest over the items with the metadata asked for
Largest(held, request) ==
  LET fitting == Tagged(held, request)
  IN {item \in fitting :
        Cardinality({other \in fitting : Beats(RetrievalKey(other), RetrievalKey(item))})
          < request.limit}

Answered == \A r \in 1 .. Retrievers : answers[r] # <<>>

Retrieved == UNION {answers[r][1] : r \in 1 .. Retrievers}

\* The first retriever whose answer holds the item.
Origin(item) == CHOOSE r \in 1 .. Retrievers :
  item \in answers[r][1] /\ \A earlier \in 1 .. r - 1 : item \notin answers[earlier][1]

\* deduplicate keeps, of the items with one content, the greatest in authority and
\* score, and the first of those in the order of retrievers and answers.
PreferenceKey(item) ==
  <<item.authority, Relevant(item), -Origin(item), item.id>>

Deduplicated(items) ==
  {item \in items : \A other \in items \ {item} :
     other.content = item.content => Beats(PreferenceKey(item), PreferenceKey(other))}

Allowed(item, request) ==
  /\ Relevant(item) >= request.minScore
  /\ request.kinds = {} \/ item.kind \in request.kinds

RankedAbove(items, item) == {other \in items : Beats(RankKey(other), RankKey(item))}

\* Sorted by rank, the greatest first
Ranked(items) ==
  [k \in 1 .. Cardinality(items) |->
     CHOOSE item \in items : Cardinality(RankedAbove(items, item)) = k - 1]

\* Variant: the first item that does not fit ends the selection.
TakeUntilTooLarge(chosen, item, request) ==
  IF chosen.truncated \/ Len(chosen.items) >= request.limit
     \/ chosen.used + item.size > request.room
  THEN [chosen EXCEPT !.truncated = TRUE]
  ELSE [chosen EXCEPT !.items = Append(@, item), !.used = @ + item.size]

\* The body of the selection loop: an item too large is passed over.
Take(chosen, item, request) ==
  IF Len(chosen.items) >= request.limit \/ chosen.used + item.size > request.room
  THEN [chosen EXCEPT !.truncated = TRUE]
  ELSE [chosen EXCEPT !.items = Append(@, item), !.used = @ + item.size]

\* The loop: what is chosen after the first items of a sequence.
Loop(ranked, request) ==
  LET after[n \in 0 .. Len(ranked)] ==
        IF n = 0 THEN [items |-> <<>>, used |-> 0, truncated |-> FALSE]
        ELSE Take(after[n - 1], ranked[n], request)
  IN after

\* The selection from some of the items that were given.
Selection(given, allowed, request) ==
  LET ranked == Ranked(allowed)
      chosen == Loop(ranked, request)[Len(ranked)]
  IN [request |-> request, given |-> given, items |-> chosen.items, used |-> chosen.used,
      truncated |-> chosen.truncated]

-----------------------------------------------------------------------------
\* Actions

\* An item is added to a retriever at most once.
Shelve(r, item) ==
  /\ ~Answered /\ item \notin shelves[r]
  /\ Cardinality({held \in (1 .. Retrievers) \X Pool : held[2] \in shelves[held[1]]}) < MaxShelved
  /\ shelves' = [shelves EXCEPT ![r] = @ \cup {item}]
  /\ UNCHANGED <<asked, answers, context>>

Build(request) ==
  /\ asked = <<>>
  /\ asked' = <<request>>
  /\ UNCHANGED <<shelves, answers, context>>

\* A retriever answers when its turn comes, with what it holds by then.
Retrieve(r) ==
  /\ asked # <<>> /\ answers[r] = <<>>
  /\ answers' = [answers EXCEPT ![r] = <<Largest(shelves[r], asked[1])>>]
  /\ UNCHANGED <<shelves, asked, context>>

Assemble ==
  /\ Answered /\ context = <<>>
  /\ LET allowed == {item \in Deduplicated(Retrieved) : Allowed(item, asked[1])}
     IN context' = <<Selection(Retrieved, allowed, asked[1])>>
  /\ UNCHANGED <<shelves, asked, answers>>

\* optimize_context of what was built; it neither filters nor reports truncation.
Compact(budget) ==
  /\ Len(context) = 1
  /\ LET given == Members(context[1].items)
     IN context' = Append(context, Selection(given, Deduplicated(given), budget))
  /\ UNCHANGED <<shelves, asked, answers>>

ContextNext ==
  \/ \E r \in 1 .. Retrievers, item \in Pool : Shelve(r, item)
  \/ \E request \in ContextRequests : Build(request)
  \/ \E r \in 1 .. Retrievers : Retrieve(r)
  \/ Assemble
  \/ \E budget \in Compactions : Compact(budget)

ContextSpec == ContextInit /\ [][ContextNext]_contextVars

-----------------------------------------------------------------------------
\* Properties

Characters(items) == UNION {{item} \X (1 .. item.size) : item \in items}

Size(items) == Cardinality(Characters(items))

Duplicated(item, items) == \E other \in items \ {item} :
  other.content = item.content /\ other.authority >= item.authority

\* The items chosen that rank above this one leave no place for it.
NoPlace(item, chosen, request) ==
  \/ Cardinality(RankedAbove(chosen, item)) = request.limit
  \/ Size(RankedAbove(chosen, item)) + item.size > request.room

Explained(made) ==
  LET chosen == Members(made.items)
      refused == made.given \ chosen
  IN /\ \A item \in refused : Allowed(item, made.request) /\ ~Duplicated(item, made.given) =>
          NoPlace(item, chosen, made.request) /\ made.truncated
     /\ made.truncated => \E item \in refused :
          Allowed(item, made.request) /\ NoPlace(item, chosen, made.request)
     /\ Len(made.items) <= made.request.limit /\ Size(chosen) <= made.request.room
     /\ \A i, j \in 1 .. Len(made.items) : i < j =>
          /\ Beats(RankKey(made.items[i]), RankKey(made.items[j]))
          /\ made.items[i].content # made.items[j].content
     /\ \A item \in chosen : item \in made.given /\ Allowed(item, made.request)

\* What a selection leaves out has a reason that its reader can see: the request
\* does not allow it, an item with the same content has at least its authority, or
\* the items chosen that rank above it leave no place for it.  "truncated" is
\* reported exactly when the last reason was met.  What is chosen is within the
\* bounds, of distinct content and in the order of rank.
SelectionExplained == \A n \in 1 .. Len(context) : Explained(context[n])
=============================================================================
