---------------------------- MODULE ExternalWrites ----------------------------
(***************************************************************************)
(* The writes of integrations/runtime.py and github.py: create_issue and   *)
(* create_pull_request post one request inside IntegrationSecurity.write   *)
(* (integrations/security.py), which prepares the action with the gateway  *)
(* before and completes it afterwards.  The service is external: it acts   *)
(* on a request or refuses it, and its reply may be lost or unreadable.    *)
(***************************************************************************)
EXTENDS Naturals, Sequences, FiniteSets

CONSTANTS Writes  \* calls of create_issue and create_pull_request

\* posted: awaiting the service; over: the call has left the boundary.
WriteStage == {"new", "posted", "returned", "raised", "cancelled"}

WriteResult == {"completed", "failed"}

VARIABLES
  writing,  \* the stage of each call
  inflight, \* requests that the service has neither acted on nor refused
  effects,  \* the issues and pull requests that exist, by the call that asked for them
  replies,  \* requests the service has answered, and whether it acted on them
  writeRecords  \* the audit records of complete(), in order

writeVars == <<writing, inflight, effects, replies, writeRecords>>

WriteInit ==
  /\ writing = [w \in Writes |-> "new"]
  /\ inflight = {}
  /\ effects = [w \in Writes |-> 0]
  /\ replies = [w \in Writes |-> "none"]
  /\ writeRecords = <<>>

-----------------------------------------------------------------------------
\* Actions

\* prepare() lets a HIGH risk action pass with its approval only, and an integration
\* that is not configured raises before anything is asked.
Prepared(approved, configured) == approved /\ configured

CreateOutside(w) == \E approved \in BOOLEAN, configured \in BOOLEAN :
  /\ writing[w] = "new"
  /\ IF Prepared(approved, configured)
     THEN /\ writing' = [writing EXCEPT ![w] = "posted"]
          /\ inflight' = inflight \cup {w}
     ELSE /\ writing' = [writing EXCEPT ![w] = "raised"]
          /\ UNCHANGED inflight
  /\ UNCHANGED <<effects, replies, writeRecords>>

\* The service acts on a request, or refuses it, also after its caller has gone.
Serve(w) == \E acts \in BOOLEAN :
  /\ w \in inflight
  /\ inflight' = inflight \ {w}
  /\ effects' = [effects EXCEPT ![w] = IF acts THEN @ + 1 ELSE @]
  /\ replies' = [replies EXCEPT ![w] = IF acts THEN "created" ELSE "refused"]
  /\ UNCHANGED <<writing, writeRecords>>

\* Variant: the record says what happened only when the call returns.
RecordReturned(w, result) ==
  writeRecords' = IF result = "completed"
                  THEN Append(writeRecords, [write |-> w, result |-> result])
                  ELSE writeRecords

\* complete()
WriteRecord(w, result) == writeRecords' = Append(writeRecords, [write |-> w, result |-> result])

\* The reply names what was created.
WriteReturns(w) ==
  /\ writing[w] = "posted" /\ replies[w] = "created"
  /\ writing' = [writing EXCEPT ![w] = "returned"]
  /\ WriteRecord(w, "completed")
  /\ UNCHANGED <<inflight, effects, replies>>

\* The service refused (raise_for_status), its reply cannot be read, or the connection
\* breaks or times out, before or after the service acted.
WriteFails(w) ==
  /\ writing[w] = "posted"
  /\ writing' = [writing EXCEPT ![w] = "raised"]
  /\ WriteRecord(w, "failed")
  /\ UNCHANGED <<inflight, effects, replies>>

\* CancelledError is no Exception: complete() is not called.
WriteCancelled(w) ==
  /\ writing[w] = "posted"
  /\ writing' = [writing EXCEPT ![w] = "cancelled"]
  /\ UNCHANGED <<inflight, effects, replies, writeRecords>>

WriteNext == \E w \in Writes :
  CreateOutside(w) \/ Serve(w) \/ WriteReturns(w) \/ WriteFails(w) \/ WriteCancelled(w)

WriteSpec == WriteInit /\ [][WriteNext]_writeVars

-----------------------------------------------------------------------------
\* Properties

RecordsOf(w, result) ==
  Cardinality({n \in DOMAIN writeRecords : writeRecords[n] = [write |-> w, result |-> result]})

\* However replies are lost, calls fail and callers disappear, whatever exists outside
\* was asked for by one call that passed the gateway, and the trail has one record of
\* that call, unless it still waits or was cancelled.  A record of success stands for
\* exactly one thing created; one of failure may stand for a reply that was lost.
EffectsAreAudited ==
  \A w \in Writes :
    /\ effects[w] <= 1
    /\ effects[w] = 1 => RecordsOf(w, "completed") + RecordsOf(w, "failed") = 1
                           \/ writing[w] \in {"posted", "cancelled"}
    /\ RecordsOf(w, "completed") = 1 => effects[w] = 1 /\ writing[w] = "returned"
=============================================================================
