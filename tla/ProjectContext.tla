--------------------------- MODULE ProjectContext ----------------------------
(***************************************************************************)
(* IntegrationRuntime.project_context over GitHubConnector                 *)
(* (integrations/runtime.py, integrations/github.py): a repository is read *)
(* by a series of requests while others commit to it.  Every request       *)
(* passes IntegrationSecurity.read, which may refuse it (SecurityGateway). *)
(***************************************************************************)
EXTENDS Naturals, Sequences

CONSTANTS
  Paths,        \* the number of paths, in the order the service lists them
  DocPaths,     \* those that are documentation by their names
  UnsafePaths,  \* those with a "." or ".." part
  LargePaths,   \* those whose content the service does not send in base64
  EmptyCommits, \* the commits that leave a file empty
  MaxCommits    \* bound of the commits

ASSUME ProjectAssumption ==
  /\ Paths \in Nat /\ MaxCommits \in Nat \ {0}
  /\ DocPaths \cup UnsafePaths \cup LargePaths \subseteq 1 .. Paths
  /\ EmptyCommits \subseteq 1 .. MaxCommits

\* The request that is made next; over: returned, or raised with nothing returned.
Reading == {"idle", "inspect", "list", "documents", "changes", "runs", "returned", "raised"}

VARIABLES
  commits,    \* the default branch: for each commit and path, the commit that wrote
              \* what the path then holds, 0 where it does not exist
  reading,    \* where the call is
  sources,    \* the connectors configured besides the repository's
  snapshot,   \* what the first request returned, and the commit it was taken at
  listed,     \* the same of the second inspection, which is the documentation's own
  documents,  \* the documents read so far
  next,       \* the listing is read up to the paths before this one
  changes     \* the number of commits there were when the changes were read

projectVars == <<commits, reading, sources, snapshot, listed, documents, next, changes>>

Tip == commits[Len(commits)]

Inspection == [at : Nat, files : SUBSET (1 .. Paths)]

ProjectTypeOK ==
  /\ commits \in Seq([1 .. Paths -> 0 .. MaxCommits])
  /\ reading \in Reading /\ sources \in SUBSET {"documentation", "ci"}
  /\ snapshot \in Inspection /\ listed \in Inspection
  /\ documents \in Seq([path : 1 .. Paths, content : 1 .. MaxCommits])
  /\ next \in 1 .. Paths + 1 /\ changes \in 0 .. MaxCommits

Unread == [at |-> 0, files |-> {}]

ProjectInit ==
  /\ commits = <<[p \in 1 .. Paths |-> 1]>>
  /\ reading = "idle" /\ sources = {}
  /\ snapshot = Unread /\ listed = Unread /\ documents = <<>> /\ next = 1 /\ changes = 0

-----------------------------------------------------------------------------
\* Helpers

\* inspect: the tree of the default branch.
Tree == [at |-> Len(commits), files |-> {p \in 1 .. Paths : Tip[p] # 0}]

\* The paths that ingest reads, and those of them that it has still to read.
Readable == (listed.files \cap DocPaths) \ UnsafePaths

StillToRead == {p \in Readable : next <= p}

\* The response has no base64 content, or an empty one.
Omitted(p, content) == p \in LargePaths \/ content \in EmptyCommits

-----------------------------------------------------------------------------
\* Actions

\* Somebody else writes or deletes a file.
Push(p) ==
  /\ Len(commits) < MaxCommits
  /\ \/ commits' = Append(commits, [Tip EXCEPT ![p] = Len(commits) + 1])
     \/ Tip[p] # 0 /\ commits' = Append(commits, [Tip EXCEPT ![p] = 0])
  /\ UNCHANGED <<reading, sources, snapshot, listed, documents, next, changes>>

BeginContext ==
  /\ reading = "idle"
  /\ reading' = "inspect"
  /\ sources' \in SUBSET {"documentation", "ci"}
  /\ UNCHANGED <<commits, snapshot, listed, documents, next, changes>>

Inspect ==
  /\ reading = "inspect"
  /\ snapshot' = Tree
  /\ reading' = IF "documentation" \in sources THEN "list" ELSE "changes"
  /\ UNCHANGED <<commits, sources, listed, documents, next, changes>>

\* ingest inspects the repository again.
ListDocuments ==
  /\ reading = "list"
  /\ listed' = Tree
  /\ reading' = "documents"
  /\ UNCHANGED <<commits, sources, snapshot, documents, next, changes>>

\* The next path of the listing.  One deleted since then is an error of the whole call;
\* one that comes without base64 content, or empty, is passed over.
ReadDocument ==
  /\ reading = "documents"
  /\ \E p \in StillToRead :
       /\ \A q \in StillToRead : p <= q
       /\ IF Tip[p] = 0
          THEN reading' = "raised" /\ UNCHANGED <<documents, next>>
          ELSE /\ documents' = IF Omitted(p, Tip[p]) THEN documents
                               ELSE Append(documents, [path |-> p, content |-> Tip[p]])
               /\ next' = p + 1
               /\ UNCHANGED reading
  /\ UNCHANGED <<commits, sources, snapshot, listed, changes>>

DocumentsRead ==
  /\ reading = "documents" /\ StillToRead = {}
  /\ reading' = "changes"
  /\ UNCHANGED <<commits, sources, snapshot, listed, documents, next, changes>>

\* Variant: the changes are taken to be those of the inspection.
ReadChangesInspected ==
  /\ reading = "changes"
  /\ changes' = snapshot.at
  /\ reading' = IF "ci" \in sources THEN "runs" ELSE "returned"
  /\ UNCHANGED <<commits, sources, snapshot, listed, documents, next>>

\* The newest commits, up to the newest there is (fewer of them than a page holds).
ReadChanges ==
  /\ reading = "changes"
  /\ changes' = Len(commits)
  /\ reading' = IF "ci" \in sources THEN "runs" ELSE "returned"
  /\ UNCHANGED <<commits, sources, snapshot, listed, documents, next>>

ReadRuns ==
  /\ reading = "runs"
  /\ reading' = "returned"
  /\ UNCHANGED <<commits, sources, snapshot, listed, documents, next, changes>>

\* A request is refused by the gateway, fails, or its caller is cancelled.
RequestFails ==
  /\ reading \in {"inspect", "list", "documents", "changes", "runs"}
  /\ reading = "documents" => StillToRead # {}
  /\ reading' = "raised"
  /\ UNCHANGED <<commits, sources, snapshot, listed, documents, next, changes>>

ProjectNext ==
  \/ \E p \in 1 .. Paths : Push(p)
  \/ BeginContext \/ Inspect \/ ListDocuments \/ ReadDocument \/ DocumentsRead
  \/ ReadChanges \/ ReadRuns \/ RequestFails

ProjectSpec == ProjectInit /\ [][ProjectNext]_projectVars

-----------------------------------------------------------------------------
\* Properties

\* How the parts of a returned context, which were read at different times, fit
\* together.  Every document is one that its path held after the snapshot was taken;
\* the commit that wrote it is among the changes; and a context between whose first
\* and last request nobody committed has exactly the snapshot's safe documentation
\* that comes in base64 and is not empty.
PartsFitTogether == reading = "returned" =>
  /\ \A n \in 1 .. Len(documents) :
       LET document == documents[n]
       IN /\ \E c \in snapshot.at .. changes : commits[c][document.path] = document.content
          /\ document.path \in DocPaths \ UnsafePaths
          /\ n > 1 => documents[n - 1].path < document.path
  /\ snapshot.at = changes /\ "documentation" \in sources =>
       {documents[n].path : n \in 1 .. Len(documents)}
         = {p \in (snapshot.files \cap DocPaths) \ UnsafePaths :
              ~Omitted(p, commits[snapshot.at][p])}
=============================================================================
