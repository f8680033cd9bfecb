-------------------------- MODULE MemoryRepository --------------------------
(***************************************************************************)
(* The records of memory/models.py and their repository,                   *)
(* adapters/memory/local.py.  A record is a status and whether it carries  *)
(* invalidated_at and invalidation_reason; a client may keep a record it   *)
(* has read and store it again.                                            *)
(***************************************************************************)
EXTENDS Naturals

CONSTANTS
  Memories,  \* ids of records
  Keepers,   \* clients that keep records they have read
  Absent     \* no record

RecordStatus == {"active", "invalidated", "superseded"}

Record == [status : RecordStatus, reason : BOOLEAN]

VARIABLES
  records,  \* _records: the record under each id, or Absent
  kept,     \* the record each client keeps
  aged      \* history: <<client, id>> whose record was read before the last change

memoryVars == <<records, kept, aged>>

MemoryTypeOK ==
  /\ records \in [Memories -> Record \cup {Absent}]
  /\ kept \in [Keepers -> [Memories -> Record \cup {Absent}]]
  /\ aged \in SUBSET (Keepers \X Memories)

MemoryInit ==
  /\ records = [m \in Memories |-> Absent]
  /\ kept = [k \in Keepers |-> [m \in Memories |-> Absent]]
  /\ aged = {}

-----------------------------------------------------------------------------
\* MemoryRecord

NewRecord == [status |-> "active", reason |-> FALSE]

InvalidatedRecord(record) == [status |-> "invalidated", reason |-> TRUE]

\* A superseded record keeps the reason it may have been invalidated for.
SupersededRecord(record) == [record EXCEPT !.status = "superseded"]

-----------------------------------------------------------------------------
\* LocalMemoryRepository

Save(k, m, record) ==
  /\ records' = [records EXCEPT ![m] = record]
  /\ kept' = [kept EXCEPT ![k][m] = record]
  /\ aged' = (aged \cup {<<j, m>> : j \in Keepers}) \ {<<k, m>>}

\* store() takes a new record, or one that has been deleted.
Store(k, m) ==
  /\ records[m] = Absent
  /\ Save(k, m, IF kept[k][m] = Absent THEN NewRecord ELSE kept[k][m])

\* get() and recall() leave out inactive records unless they are asked for them.
Recall(k, m) == \E include_inactive \in BOOLEAN :
  /\ records[m] # Absent
  /\ include_inactive \/ records[m].status = "active"
  /\ kept' = [kept EXCEPT ![k][m] = records[m]]
  /\ aged' = aged \ {<<k, m>>}
  /\ UNCHANGED records

\* update() stores the client's record, or one derived from it.
UpdateRecord(k, m) ==
  /\ records[m] # Absent /\ kept[k][m] # Absent
  /\ \E record \in {kept[k][m], InvalidatedRecord(kept[k][m]), SupersededRecord(kept[k][m])} :
       Save(k, m, record)

InvalidateRecord(k, m) ==
  /\ records[m] # Absent
  /\ Save(k, m, InvalidatedRecord(records[m]))

Supersede(k, m) ==
  /\ records[m] # Absent
  /\ Save(k, m, SupersededRecord(records[m]))

DeleteRecord(m) ==
  /\ records[m] # Absent
  /\ records' = [records EXCEPT ![m] = Absent]
  /\ aged' = aged \cup {<<j, m>> : j \in Keepers}
  /\ UNCHANGED kept

MemoryNext == \E m \in Memories :
  \/ DeleteRecord(m)
  \/ \E k \in Keepers :
       \/ Store(k, m) \/ Recall(k, m) \/ UpdateRecord(k, m)
       \/ InvalidateRecord(k, m) \/ Supersede(k, m)

MemorySpec == MemoryInit /\ [][MemoryNext]_memoryVars

-----------------------------------------------------------------------------
\* Properties

AgedUpdate(m) == \E k \in Keepers : <<k, m>> \in aged /\ UpdateRecord(k, m)

\* A memory that was invalidated or superseded does not become active again, and
\* one that was invalidated keeps its reason when it is superseded later, unless a
\* client stores a record that it read before the last change.
RetirementKept == [][\A m \in Memories :
  (records[m] # Absent /\ records'[m] # Absent /\ ~AgedUpdate(m))
    => /\ records'[m].status = "active" => records[m].status = "active"
       /\ records[m].reason => records'[m].reason]_memoryVars
=============================================================================
