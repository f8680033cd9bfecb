--------------------------- MODULE LocalRepository ----------------------------
(***************************************************************************)
(* integrations/local.py: inspect walks a directory and ingest reads the   *)
(* documentation that inspect listed, each inside IntegrationSecurity.read *)
(* (integrations/security.py).  Other processes write and delete files     *)
(* between any two of its reads of the file system.                        *)
(***************************************************************************)
EXTENDS Naturals, Sequences, FiniteSets

CONSTANTS
  LocalFiles,    \* the number of files, numbered in the order of their paths
  LocalDocs,     \* those that are documentation by their names
  Generated,     \* those below a directory of a skipped name: all of them, when the
                 \* repository itself lies below one
  MaxEdits       \* bound: edits of files

ASSUME LocalAssumption ==
  /\ LocalFiles \in Nat /\ MaxEdits \in Nat
  /\ LocalDocs \cup Generated \subseteq 1 .. LocalFiles

VARIABLES
  tree,      \* the version of each file, 0 where there is none
  edits,     \* bounds the environment
  ingesting, \* idle, walking, reading, returned or raised
  walked,    \* the files that inspect has come by
  listing,   \* the documentation that inspect listed, in the order of the paths
  read,      \* the documents read so far
  ingestTrail, \* the results that the two reads recorded
  held       \* history: the versions each file has had since inspect

localVars == <<tree, edits, ingesting, walked, listing, read, ingestTrail, held>>

LocalInit ==
  /\ tree \in [1 .. LocalFiles -> 0 .. 1]
  /\ edits = 0
  /\ ingesting = "idle"
  /\ walked = 0 /\ listing = <<>> /\ read = <<>> /\ ingestTrail = <<>>
  /\ held = [f \in 1 .. LocalFiles |-> {}]

-----------------------------------------------------------------------------
\* Actions

\* Another process writes a file or deletes it.
Edit(f) == \E version \in {0, edits + 2} :
  /\ edits < MaxEdits
  /\ edits' = edits + 1
  /\ tree[f] # version
  /\ tree' = [tree EXCEPT ![f] = version]
  /\ held' = [held EXCEPT ![f] = @ \cup {version}]
  /\ UNCHANGED <<ingesting, walked, listing, read, ingestTrail>>

\* The parts of the absolute path are looked at, the repository's own among them.
Skipped(f) == f \in Generated

\* inspect, when the gateway admits the read and the directory exists.
InspectLocal ==
  /\ ingesting = "idle"
  /\ ingesting' = "walking"
  /\ UNCHANGED <<tree, edits, walked, listing, read, ingestTrail, held>>

\* The walk comes by a file.  (It has no order; the listing is sorted afterwards.)
WalkOn ==
  /\ ingesting = "walking" /\ walked < LocalFiles
  /\ LET f == walked + 1 IN
       /\ walked' = f
       /\ listing' = IF f \in LocalDocs /\ tree[f] # 0 /\ ~Skipped(f) THEN Append(listing, f)
                     ELSE listing
       /\ held' = [held EXCEPT ![f] = {tree[f]}]
  /\ UNCHANGED <<tree, edits, ingesting, read, ingestTrail>>

InspectReturns ==
  /\ ingesting = "walking" /\ walked = LocalFiles
  /\ ingesting' = "reading"
  /\ ingestTrail' = Append(ingestTrail, "completed")
  /\ UNCHANGED <<tree, edits, walked, listing, read, held>>

\* The gateway refuses one of the two reads: nothing is completed.
RefuseRead ==
  /\ ingesting = "idle" \/ (ingesting = "reading" /\ read = <<>>)
  /\ ingesting' = "raised"
  /\ UNCHANGED <<tree, edits, walked, listing, read, ingestTrail, held>>

\* There is no such directory, or a file cannot be read.
ReadFails ==
  /\ \/ ingesting = "walking" /\ walked = 0
     \/ ingesting = "reading" /\ Len(read) < Len(listing)
  /\ ingesting' = "raised"
  /\ ingestTrail' = Append(ingestTrail, "failed")
  /\ UNCHANGED <<tree, edits, walked, listing, read, held>>

\* The next document of the listing.  One that has disappeared fails the ingest.
ReadFile ==
  /\ ingesting = "reading" /\ Len(read) < Len(listing)
  /\ LET f == listing[Len(read) + 1] IN
       /\ tree[f] # 0
       /\ read' = Append(read, [file |-> f, version |-> tree[f]])
  /\ UNCHANGED <<tree, edits, ingesting, walked, listing, ingestTrail, held>>

IngestReturns ==
  /\ ingesting = "reading" /\ Len(read) = Len(listing)
  /\ ingesting' = "returned"
  /\ ingestTrail' = Append(ingestTrail, "completed")
  /\ UNCHANGED <<tree, edits, walked, listing, read, held>>

LocalNext ==
  \/ \E f \in 1 .. LocalFiles : Edit(f)
  \/ InspectLocal \/ WalkOn \/ InspectReturns
  \/ RefuseRead \/ ReadFails \/ ReadFile \/ IngestReturns

LocalSpec == LocalInit /\ [][LocalNext]_localVars

-----------------------------------------------------------------------------
\* Properties

\* Documents that are returned are those of the listing, each once and in order, with
\* a content that its file has had since the listing and never of a file that had been
\* deleted; an ingest that could not read one of them returns none, and its trail ends
\* with the failure.
DocumentsOfListing ==
  /\ ingesting = "returned" =>
       /\ [n \in DOMAIN read |-> read[n].file] = listing
       /\ \A n \in DOMAIN read : read[n].version \in held[read[n].file] \ {0}
       /\ ingestTrail = <<"completed", "completed">>
  /\ ingesting = "raised" /\ Len(ingestTrail) = 2 => ingestTrail = <<"completed", "failed">>
=============================================================================
