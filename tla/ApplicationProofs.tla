-------------------------- MODULE ApplicationProofs --------------------------
(***************************************************************************)
(* Proofs about what an application of EIS works with: the stores of       *)
(* knowledge and of memory, what the engineering project and a local       *)
(* repository make of documents, the deliberation of several agents, and   *)
(* the facade of the SDK with its results and its audit history.           *)
(***************************************************************************)
EXTENDS Stores, Integrations, AgentOrchestrator, SdkFacade, SequenceTheorems, TLAPS

-----------------------------------------------------------------------------
\* The stores of knowledge and memories

\* An entity's current version is its last.
Whole(entity) == entity \in Entity /\ Len(entity.versions) = entity.current

\* A client that has read an entity since its last change has it, or one derived from it.
KnowledgeInv ==
  /\ KnowledgeTypeOK
  /\ \A e \in Entities : stored[e] # None => Whole(stored[e])
  /\ \A c \in Clients, e \in Entities :
       copy[c][e] # None =>
         /\ Whole(copy[c][e])
         /\ stored[e] # None /\ <<c, e>> \notin outdated => Keeps(stored[e], copy[c][e])

\* What is derived from an entity keeps its history.
LEMMA DerivedKeeps ==
  ASSUME KnowledgeAssumption, NEW entity, Whole(entity)
  PROVE  /\ \A client \in Clients : entity.current < MaxVersions =>
              Whole(WithVersion(entity, client)) /\ Keeps(entity, WithVersion(entity, client))
         /\ Whole(Invalidated(entity)) /\ Keeps(entity, Invalidated(entity))
         /\ entity.relations < MaxRelations =>
              Whole(Related(entity)) /\ Keeps(entity, Related(entity))
         /\ Keeps(entity, entity)
  <1> DEFINE n == entity.current
             versions == entity.versions
  <1>1. /\ entity \in Entity /\ versions \in Seq(Version) /\ Len(versions) = n /\ n \in 1 .. MaxVersions
        /\ entity.relations \in 0 .. MaxRelations /\ MaxVersions \in Nat /\ MaxRelations \in Nat
    BY DEF Whole, Entity, KnowledgeAssumption
  <1>2. ASSUME NEW client \in Clients, n < MaxVersions
        PROVE  Whole(WithVersion(entity, client)) /\ Keeps(entity, WithVersion(entity, client))
    <2> DEFINE new == [number |-> n + 1, writer |-> client, active |-> TRUE]
               longer == Append(versions, new)
    <2>1. new \in Version
      BY <1>1, <1>2 DEF Version
    <2>2. /\ longer \in Seq(Version) /\ Len(longer) = n + 1
          /\ \A i \in 1 .. n : longer[i] = versions[i]
      BY <1>1, <2>1
    <2>3. WithVersion(entity, client) = [entity EXCEPT !.current = n + 1, !.versions = longer]
      BY DEF WithVersion
    <2> HIDE DEF longer, new
    <2>4. /\ WithVersion(entity, client) \in Entity
          /\ WithVersion(entity, client).current = n + 1
          /\ WithVersion(entity, client).versions = longer
          /\ WithVersion(entity, client).relations = entity.relations
      <3> DEFINE c == n + 1
      <3>1. c \in 1 .. MaxVersions
        BY <1>1, <1>2
      <3>2. WithVersion(entity, client) = [entity EXCEPT !.current = c, !.versions = longer]
        BY <2>3
      <3> HIDE DEF c
      <3>3. /\ WithVersion(entity, client) \in Entity
            /\ WithVersion(entity, client).current = c
            /\ WithVersion(entity, client).versions = longer
            /\ WithVersion(entity, client).relations = entity.relations
        BY <1>1, <2>2, <3>1, <3>2 DEF Entity
      <3> QED
        BY <3>3 DEF c
    <2>5. Whole(WithVersion(entity, client))
      BY <2>2, <2>4 DEF Whole
    <2> QED
      BY <1>1, <2>2, <2>4, <2>5 DEF Keeps
  <1>3. Whole(Invalidated(entity)) /\ Keeps(entity, Invalidated(entity))
    <2> DEFINE last == [versions[n] EXCEPT !.active = FALSE]
               less == [versions EXCEPT ![n] = last]
    <2>1. versions[n] \in Version
      BY <1>1, ElementOfSeq
    <2>2. /\ last \in Version /\ last.writer = versions[n].writer /\ ~last.active
      BY <2>1 DEF Version
    <2> HIDE DEF last
    <2>3. /\ less \in Seq(Version) /\ Len(less) = n
          /\ \A i \in 1 .. n : less[i] = IF i = n THEN last ELSE versions[i]
      BY <1>1, <2>2, ExceptSeq
    <2>4. Invalidated(entity) = [entity EXCEPT !.versions = less]
      BY <1>1 DEF Invalidated, last, Entity
    <2> HIDE DEF less
    <2>5. /\ Invalidated(entity) \in Entity /\ Invalidated(entity).current = n
          /\ Invalidated(entity).versions = less
          /\ Invalidated(entity).relations = entity.relations
      BY <1>1, <2>3, <2>4 DEF Entity
    <2>6. Whole(Invalidated(entity))
      BY <2>3, <2>5 DEF Whole
    <2> QED
      BY <1>1, <2>2, <2>3, <2>5, <2>6 DEF Keeps
  <1>4. ASSUME entity.relations < MaxRelations
        PROVE  Whole(Related(entity)) /\ Keeps(entity, Related(entity))
    <2>1. /\ Related(entity) \in Entity /\ Related(entity).current = n
          /\ Related(entity).versions = versions
          /\ Related(entity).relations = entity.relations + 1
      BY <1>1, <1>4 DEF Related, Entity
    <2> QED
      BY <1>1, <2>1 DEF Whole, Keeps
  <1>5. Keeps(entity, entity)
    BY <1>1 DEF Keeps
  <1> QED
    BY <1>2, <1>3, <1>4, <1>5

\* Keeping is passed on.
LEMMA KeepsPassedOn ==
  ASSUME NEW a, NEW b, NEW c, Whole(a), Whole(b), Whole(c), Keeps(a, b), Keeps(b, c),
         KnowledgeAssumption
  PROVE  Keeps(a, c)
  <1>1. /\ Len(a.versions) \in Nat /\ Len(b.versions) \in Nat /\ Len(c.versions) \in Nat
        /\ a.relations \in Nat /\ b.relations \in Nat /\ c.relations \in Nat
    BY DEF Whole, Entity, KnowledgeAssumption
  <1> QED
    BY <1>1 DEF Keeps

\* What is put is what its client knows, and everybody else's copy is outdated.
LEMMA PutKeeps ==
  ASSUME KnowledgeInv, KnowledgeAssumption, NEW c \in Clients, NEW e \in Entities, NEW entity,
         Whole(entity), Put(c, e, entity)
  PROVE  KnowledgeInv'
  <1>0. /\ entity \in Entity /\ stored \in [Entities -> Entity \cup {None}]
        /\ copy \in [Clients -> [Entities -> Entity \cup {None}]]
        /\ outdated \in SUBSET (Clients \X Entities)
    BY DEF Whole, KnowledgeInv, KnowledgeTypeOK
  <1>1. /\ stored' \in [Entities -> Entity \cup {None}] /\ stored'[e] = entity
        /\ \A f \in Entities \ {e} : stored'[f] = stored[f]
    BY <1>0 DEF Put
  <1>2. /\ copy' \in [Clients -> [Entities -> Entity \cup {None}]] /\ copy'[c][e] = entity
        /\ \A d \in Clients, f \in Entities : d # c \/ f # e => copy'[d][f] = copy[d][f]
    BY <1>0 DEF Put
  <1>3. /\ outdated' \in SUBSET (Clients \X Entities)
        /\ \A d \in Clients, f \in Entities :
             <<d, f>> \in outdated' <=> (IF f = e THEN d # c ELSE <<d, f>> \in outdated)
    BY <1>0 DEF Put
  <1>4. Keeps(entity, entity)
    BY DerivedKeeps
  <1>5. \A f \in Entities : stored'[f] # None => Whole(stored'[f])
    BY <1>1 DEF KnowledgeInv
  <1>6. ASSUME NEW d \in Clients, NEW f \in Entities, copy'[d][f] # None
        PROVE  /\ Whole(copy'[d][f])
               /\ stored'[f] # None /\ <<d, f>> \notin outdated' => Keeps(stored'[f], copy'[d][f])
    BY <1>1, <1>2, <1>3, <1>4, <1>6 DEF KnowledgeInv
  <1> QED
    BY <1>1, <1>2, <1>3, <1>5, <1>6 DEF KnowledgeInv, KnowledgeTypeOK

LEMMA KnowledgeInductive ==
  ASSUME KnowledgeInv, KnowledgeAssumption, [KnowledgeNext]_knowledgeVars
  PROVE  KnowledgeInv'
  <1>0. /\ stored \in [Entities -> Entity \cup {None}]
        /\ copy \in [Clients -> [Entities -> Entity \cup {None}]]
        /\ outdated \in SUBSET (Clients \X Entities)
    BY DEF KnowledgeInv, KnowledgeTypeOK
  <1>1. ASSUME NEW e \in Entities, Delete(e) PROVE KnowledgeInv'
    <2>1. /\ stored' \in [Entities -> Entity \cup {None}] /\ stored'[e] = None /\ copy' = copy
          /\ \A f \in Entities \ {e} : stored'[f] = stored[f]
      BY <1>0, <1>1 DEF Delete
    <2>2. /\ outdated' \in SUBSET (Clients \X Entities) /\ outdated \subseteq outdated'
      BY <1>0, <1>1 DEF Delete
    <2>3. KnowledgeTypeOK'
      BY <1>0, <2>1, <2>2 DEF KnowledgeTypeOK
    <2> QED
      BY <2>1, <2>2, <2>3 DEF KnowledgeInv
  <1>2. ASSUME NEW e \in Entities, NEW c \in Clients, Create(c, e) PROVE KnowledgeInv'
    <2>1. Whole(NewEntity(c))
      <3>1. [number |-> 1, writer |-> c, active |-> TRUE] \in Version
        BY DEF Version, KnowledgeAssumption
      <3>2. /\ NewEntity(c).current = 1 /\ NewEntity(c).relations = 0
            /\ NewEntity(c).versions = <<[number |-> 1, writer |-> c, active |-> TRUE]>>
        BY DEF NewEntity
      <3>3. NewEntity(c).versions \in Seq(Version) /\ Len(NewEntity(c).versions) = 1
        BY <3>1, <3>2
      <3>4. NewEntity(c) \in Entity
        BY <3>1, <3>3 DEF NewEntity, Entity, KnowledgeAssumption
      <3> QED
        BY <3>2, <3>3, <3>4 DEF Whole
    <2>2. CASE copy[c][e] = None
      BY <1>2, <2>1, <2>2, PutKeeps DEF Create
    <2>3. CASE copy[c][e] # None
      <3>1. Whole(copy[c][e])
        BY <2>3 DEF KnowledgeInv
      <3> QED
        BY <1>2, <2>3, <3>1, PutKeeps DEF Create
    <2> QED
      BY <2>2, <2>3
  <1>3. ASSUME NEW e \in Entities, NEW c \in Clients, Get(c, e) PROVE KnowledgeInv'
    <2>1. /\ stored[e] # None /\ copy' = [copy EXCEPT ![c][e] = stored[e]]
          /\ outdated' = outdated \ {<<c, e>>} /\ stored' = stored
      BY <1>3 DEF Get
    <2>2. /\ copy' \in [Clients -> [Entities -> Entity \cup {None}]] /\ copy'[c][e] = stored[e]
          /\ \A d \in Clients, f \in Entities : d # c \/ f # e => copy'[d][f] = copy[d][f]
      BY <1>0, <2>1
    <2>3. KnowledgeTypeOK'
      BY <1>0, <2>1, <2>2 DEF KnowledgeTypeOK
    <2>4. Whole(stored[e]) /\ Keeps(stored[e], stored[e])
      <3>1. Whole(stored[e])
        BY <2>1 DEF KnowledgeInv
      <3> QED
        BY <3>1, DerivedKeeps
    <2>5. ASSUME NEW d \in Clients, NEW f \in Entities, copy'[d][f] # None
          PROVE  /\ Whole(copy'[d][f])
                 /\ stored[f] # None /\ <<d, f>> \notin outdated' => Keeps(stored[f], copy'[d][f])
      <3>1. CASE d = c /\ f = e
        BY <2>2, <2>4, <3>1
      <3>2. CASE d # c \/ f # e
        <4>1. <<d, f>> \notin outdated' => <<d, f>> \notin outdated
          BY <2>1, <3>2
        <4> QED
          BY <2>2, <2>5, <3>2, <4>1 DEF KnowledgeInv
      <3> QED
        BY <3>1, <3>2
    <2> QED
      BY <2>1, <2>3, <2>5 DEF KnowledgeInv
  <1>4. ASSUME NEW e \in Entities, NEW c \in Clients, Derive(c, e) PROVE KnowledgeInv'
    <2> DEFINE old == copy[c][e]
    <2>1. old # None /\ Whole(old) /\ UNCHANGED <<stored, outdated>>
      BY <1>4 DEF Derive, KnowledgeInv
    <2>2. PICK new : /\ copy' = [copy EXCEPT ![c][e] = new]
                     /\ Whole(new) /\ Keeps(old, new)
      <3>1. CASE old.current < MaxVersions /\ copy' = [copy EXCEPT ![c][e] = WithVersion(@, c)]
        <4>1. copy' = [copy EXCEPT ![c][e] = WithVersion(old, c)]
          BY <1>0, <3>1
        <4> QED
          BY <2>1, <3>1, <4>1, DerivedKeeps
      <3>2. CASE copy' = [copy EXCEPT ![c][e] = Invalidated(@)]
        <4>1. copy' = [copy EXCEPT ![c][e] = Invalidated(old)]
          BY <1>0, <3>2
        <4> QED
          BY <2>1, <4>1, DerivedKeeps
      <3>3. CASE old.relations < MaxRelations /\ copy' = [copy EXCEPT ![c][e] = Related(@)]
        <4>1. copy' = [copy EXCEPT ![c][e] = Related(old)]
          BY <1>0, <3>3
        <4> QED
          BY <2>1, <3>3, <4>1, DerivedKeeps
      <3> QED
        BY <1>4, <3>1, <3>2, <3>3 DEF Derive
    <2>3. new \in Entity
      BY <2>2 DEF Whole
    <2>4. /\ copy' \in [Clients -> [Entities -> Entity \cup {None}]] /\ copy'[c][e] = new
          /\ \A d \in Clients, f \in Entities : d # c \/ f # e => copy'[d][f] = copy[d][f]
      BY <1>0, <2>2, <2>3
    <2>5. KnowledgeTypeOK'
      BY <1>0, <2>1, <2>4 DEF KnowledgeTypeOK
    <2>6. stored[e] # None /\ <<c, e>> \notin outdated => Keeps(stored[e], new)
      <3> SUFFICES ASSUME stored[e] # None, <<c, e>> \notin outdated PROVE Keeps(stored[e], new)
        OBVIOUS
      <3>1. Whole(stored[e]) /\ Keeps(stored[e], old)
        BY <2>1 DEF KnowledgeInv
      <3> QED
        BY <2>1, <2>2, <3>1, KeepsPassedOn
    <2>7. ASSUME NEW d \in Clients, NEW f \in Entities, copy'[d][f] # None
          PROVE  /\ Whole(copy'[d][f])
                 /\ stored[f] # None /\ <<d, f>> \notin outdated => Keeps(stored[f], copy'[d][f])
      BY <2>2, <2>4, <2>6, <2>7 DEF KnowledgeInv
    <2> QED
      BY <2>1, <2>5, <2>7 DEF KnowledgeInv
  <1>5. ASSUME NEW e \in Entities, NEW c \in Clients, Update(c, e) PROVE KnowledgeInv'
    <2>1. Whole(copy[c][e])
      BY <1>5 DEF Update, KnowledgeInv
    <2> QED
      BY <1>5, <2>1, PutKeeps DEF Update
  <1>6. ASSUME NEW e \in Entities, NEW c \in Clients, Invalidate(c, e) PROVE KnowledgeInv'
    <2>1. Whole(Invalidated(stored[e]))
      <3>1. Whole(stored[e])
        BY <1>6 DEF Invalidate, KnowledgeInv
      <3> QED
        BY <3>1, DerivedKeeps
    <2> QED
      BY <1>6, <2>1, PutKeeps DEF Invalidate
  <1>7. ASSUME NEW e \in Entities, NEW c \in Clients, AddRelationship(c, e) PROVE KnowledgeInv'
    <2>1. Whole(Related(stored[e]))
      <3>1. Whole(stored[e]) /\ stored[e].relations < MaxRelations
        BY <1>7 DEF AddRelationship, KnowledgeInv
      <3> QED
        BY <3>1, DerivedKeeps
    <2> QED
      BY <1>7, <2>1, PutKeeps DEF AddRelationship
  <1>8. CASE UNCHANGED knowledgeVars
    BY <1>8 DEF knowledgeVars, KnowledgeInv, KnowledgeTypeOK
  <1> QED
    BY <1>1, <1>2, <1>3, <1>4, <1>5, <1>6, <1>7, <1>8 DEF KnowledgeNext

\* A step of the repository keeps the history of every entity that it leaves stored.
LEMMA HistoryStep ==
  ASSUME KnowledgeInv, KnowledgeAssumption, KnowledgeNext, NEW e \in Entities,
         stored[e] # None, stored'[e] # None, ~OutdatedUpdate(e)
  PROVE  Keeps(stored[e], stored'[e])
  <1>0. /\ stored \in [Entities -> Entity \cup {None}] /\ Whole(stored[e])
        /\ Keeps(stored[e], stored[e])
    <2>1. Whole(stored[e])
      BY DEF KnowledgeInv
    <2> QED
      BY <2>1, DerivedKeeps DEF KnowledgeInv, KnowledgeTypeOK
  <1>1. CASE stored'[e] = stored[e]
    BY <1>0, <1>1
  <1>2. CASE stored'[e] # stored[e]
    <2>1. PICK f \in Entities :
            \/ Delete(f)
            \/ \E c \in Clients : \/ Create(c, f) \/ Get(c, f) \/ Derive(c, f) \/ Update(c, f)
                                  \/ Invalidate(c, f) \/ AddRelationship(c, f)
      BY DEF KnowledgeNext
    <2>2. ASSUME NEW c \in Clients, NEW g \in Entities, NEW entity, Put(c, g, entity)
          PROVE  g = e /\ stored'[e] = entity
      BY <1>0, <1>2, <2>2 DEF Put
    <2>3. ~Delete(f)
      BY <1>0, <1>2 DEF Delete
    <2>4. PICK c \in Clients : \/ Create(c, f) \/ Update(c, f)
                               \/ Invalidate(c, f) \/ AddRelationship(c, f)
      BY <1>2, <2>1, <2>3 DEF Get, Derive
    <2>5. CASE Create(c, f)
      BY <2>2, <2>5 DEF Create
    <2>6. CASE Update(c, f)
      <3>1. f = e /\ stored'[e] = copy[c][e] /\ copy[c][e] # None
        BY <2>2, <2>6 DEF Update
      <3>2. <<c, e>> \notin outdated
        BY <2>6, <3>1 DEF OutdatedUpdate
      <3> QED
        BY <3>1, <3>2 DEF KnowledgeInv
    <2>7. CASE Invalidate(c, f)
      <3>1. f = e /\ stored'[e] = Invalidated(stored[e])
        BY <2>2, <2>7 DEF Invalidate
      <3> QED
        BY <1>0, <3>1, DerivedKeeps
    <2>8. CASE AddRelationship(c, f)
      <3>1. f = e /\ stored'[e] = Related(stored[e]) /\ stored[e].relations < MaxRelations
        BY <2>2, <2>8 DEF AddRelationship
      <3> QED
        BY <1>0, <3>1, DerivedKeeps
    <2> QED
      BY <2>4, <2>5, <2>6, <2>7, <2>8
  <1> QED
    BY <1>1, <1>2


\* What a keeper keeps and has read since the last change is what the repository holds.
MemoryInv ==
  /\ MemoryTypeOK
  /\ \A k \in Keepers, m \in Memories :
       kept[k][m] # Absent /\ records[m] # Absent /\ <<k, m>> \notin aged
         => kept[k][m] = records[m]

\* The new record is as retired as the old one was, and keeps its reason.
AsRetired(old, new) ==
  /\ new.status = "active" => old.status = "active"
  /\ old.reason => new.reason

\* What is derived from a record is a record, and as retired.
LEMMA DerivedRecords ==
  ASSUME NEW record \in Record
  PROVE  /\ NewRecord \in Record
         /\ InvalidatedRecord(record) \in Record /\ AsRetired(record, InvalidatedRecord(record))
         /\ SupersededRecord(record) \in Record /\ AsRetired(record, SupersededRecord(record))
         /\ AsRetired(record, record)
  <1>1. /\ InvalidatedRecord(record) \in Record /\ InvalidatedRecord(record).status = "invalidated"
        /\ InvalidatedRecord(record).reason
    BY DEF InvalidatedRecord, Record, RecordStatus
  <1>2. /\ SupersededRecord(record) \in Record /\ SupersededRecord(record).status = "superseded"
        /\ SupersededRecord(record).reason = record.reason
    BY DEF SupersededRecord, Record, RecordStatus
  <1>3. NewRecord \in Record
    BY DEF NewRecord, Record, RecordStatus
  <1> QED
    BY <1>1, <1>2, <1>3 DEF AsRetired

\* Whoever saves a record knows it, and everybody else's is aged.
LEMMA SaveKeeps ==
  ASSUME MemoryInv, NEW k \in Keepers, NEW m \in Memories, NEW record \in Record,
         Save(k, m, record)
  PROVE  MemoryInv'
  <1>0. /\ records \in [Memories -> Record \cup {Absent}]
        /\ kept \in [Keepers -> [Memories -> Record \cup {Absent}]]
        /\ aged \in SUBSET (Keepers \X Memories)
    BY DEF MemoryInv, MemoryTypeOK
  <1>1. /\ records' \in [Memories -> Record \cup {Absent}] /\ records'[m] = record
        /\ \A l \in Memories \ {m} : records'[l] = records[l]
    BY <1>0 DEF Save
  <1>2. /\ kept' \in [Keepers -> [Memories -> Record \cup {Absent}]] /\ kept'[k][m] = record
        /\ \A j \in Keepers, l \in Memories : j # k \/ l # m => kept'[j][l] = kept[j][l]
    BY <1>0 DEF Save
  <1>3. /\ aged' \in SUBSET (Keepers \X Memories)
        /\ \A j \in Keepers, l \in Memories :
             <<j, l>> \in aged' <=> (IF l = m THEN j # k ELSE <<j, l>> \in aged)
    BY <1>0 DEF Save
  <1> QED
    BY <1>1, <1>2, <1>3 DEF MemoryInv, MemoryTypeOK

LEMMA MemoryInductive ==
  ASSUME MemoryInv, [MemoryNext]_memoryVars
  PROVE  MemoryInv'
  <1>0. /\ records \in [Memories -> Record \cup {Absent}]
        /\ kept \in [Keepers -> [Memories -> Record \cup {Absent}]]
        /\ aged \in SUBSET (Keepers \X Memories)
    BY DEF MemoryInv, MemoryTypeOK
  <1>1. ASSUME NEW m \in Memories, DeleteRecord(m) PROVE MemoryInv'
    BY <1>0, <1>1 DEF DeleteRecord, MemoryInv, MemoryTypeOK
  <1>2. ASSUME NEW m \in Memories, NEW k \in Keepers, Store(k, m) PROVE MemoryInv'
    <2> DEFINE record == IF kept[k][m] = Absent THEN NewRecord ELSE kept[k][m]
    <2>1. record \in Record
      BY <1>0 DEF NewRecord, Record, RecordStatus
    <2>2. Save(k, m, record)
      BY <1>2 DEF Store
    <2> HIDE DEF record
    <2> QED
      BY <2>1, <2>2, SaveKeeps
  <1>3. ASSUME NEW m \in Memories, NEW k \in Keepers, Recall(k, m) PROVE MemoryInv'
    <2>1. /\ records[m] \in Record /\ kept' = [kept EXCEPT ![k][m] = records[m]]
          /\ aged' = aged \ {<<k, m>>} /\ records' = records
      BY <1>0, <1>3 DEF Recall
    <2>2. /\ kept' \in [Keepers -> [Memories -> Record \cup {Absent}]] /\ kept'[k][m] = records[m]
          /\ \A j \in Keepers, l \in Memories : j # k \/ l # m => kept'[j][l] = kept[j][l]
      BY <1>0, <2>1
    <2>3. \A j \in Keepers, l \in Memories : j # k \/ l # m => (<<j, l>> \in aged' <=> <<j, l>> \in aged)
      BY <2>1
    <2>4. MemoryTypeOK'
      BY <1>0, <2>1, <2>2 DEF MemoryTypeOK
    <2> QED
      BY <2>1, <2>2, <2>3, <2>4 DEF MemoryInv
  <1>4. ASSUME NEW m \in Memories, NEW k \in Keepers, UpdateRecord(k, m) PROVE MemoryInv'
    <2>1. kept[k][m] \in Record
      BY <1>0, <1>4 DEF UpdateRecord
    <2>2. PICK record \in {kept[k][m], InvalidatedRecord(kept[k][m]), SupersededRecord(kept[k][m])} :
            Save(k, m, record)
      BY <1>4 DEF UpdateRecord
    <2>3. record \in Record
      BY <2>1, <2>2, DerivedRecords
    <2> QED
      BY <2>2, <2>3, SaveKeeps
  <1>5. ASSUME NEW m \in Memories, NEW k \in Keepers, InvalidateRecord(k, m) PROVE MemoryInv'
    <2>1. records[m] \in Record /\ Save(k, m, InvalidatedRecord(records[m]))
      BY <1>0, <1>5 DEF InvalidateRecord
    <2> QED
      BY <2>1, DerivedRecords, SaveKeeps
  <1>6. ASSUME NEW m \in Memories, NEW k \in Keepers, Supersede(k, m) PROVE MemoryInv'
    <2>1. records[m] \in Record /\ Save(k, m, SupersededRecord(records[m]))
      BY <1>0, <1>6 DEF Supersede
    <2> QED
      BY <2>1, DerivedRecords, SaveKeeps
  <1>7. CASE UNCHANGED memoryVars
    BY <1>7 DEF memoryVars, MemoryInv, MemoryTypeOK
  <1> QED
    BY <1>1, <1>2, <1>3, <1>4, <1>5, <1>6, <1>7 DEF MemoryNext

\* A step of the repository leaves no record less retired that it leaves stored.
LEMMA RetirementStep ==
  ASSUME MemoryInv, MemoryNext, NEW m \in Memories,
         records[m] # Absent, records'[m] # Absent, ~AgedUpdate(m)
  PROVE  AsRetired(records[m], records'[m])
  <1>0. /\ records \in [Memories -> Record \cup {Absent}] /\ records[m] \in Record
    BY DEF MemoryInv, MemoryTypeOK
  <1>1. CASE records'[m] = records[m]
    BY <1>0, <1>1 DEF AsRetired
  <1>2. CASE records'[m] # records[m]
    <2>1. ASSUME NEW k \in Keepers, NEW l \in Memories, NEW record, Save(k, l, record)
          PROVE  l = m /\ records'[m] = record
      BY <1>0, <1>2, <2>1 DEF Save
    <2>2. PICK l \in Memories, k \in Keepers :
            Store(k, l) \/ UpdateRecord(k, l) \/ InvalidateRecord(k, l) \/ Supersede(k, l)
      BY <1>0, <1>2 DEF MemoryNext, DeleteRecord, Recall
    <2>3. CASE Store(k, l)
      BY <2>1, <2>3 DEF Store
    <2>4. CASE UpdateRecord(k, l)
      <3>1. PICK record \in {kept[k][l], InvalidatedRecord(kept[k][l]), SupersededRecord(kept[k][l])} :
              Save(k, l, record)
        BY <2>4 DEF UpdateRecord
      <3>2. l = m /\ records'[m] = record
        BY <2>1, <3>1
      <3>3. kept[k][m] = records[m]
        BY <2>4, <3>2 DEF AgedUpdate, UpdateRecord, MemoryInv
      <3> QED
        BY <1>0, <3>1, <3>2, <3>3, DerivedRecords
    <2>5. CASE InvalidateRecord(k, l)
      <3>1. l = m /\ records'[m] = InvalidatedRecord(records[m])
        BY <2>1, <2>5 DEF InvalidateRecord
      <3> QED
        BY <1>0, <3>1, DerivedRecords
    <2>6. CASE Supersede(k, l)
      <3>1. l = m /\ records'[m] = SupersededRecord(records[m])
        BY <2>1, <2>6 DEF Supersede
      <3> QED
        BY <1>0, <3>1, DerivedRecords
    <2> QED
      BY <2>2, <2>3, <2>4, <2>5, <2>6
  <1> QED
    BY <1>1, <1>2

\* An entity keeps its versions, their writers and its relationships through every step
\* of knowledge/local.py, and a memory its retirement and its reason through every step of
\* memory/local.py: for any number of clients and ids, unless an outdated copy is stored.
THEOREM StoresAlwaysKeepThePast ==
  KnowledgeSpec /\ MemorySpec => StoresKeepThePast
  <1>0. KnowledgeAssumption
    BY KnowledgeAssumption
  <1>1. KnowledgeInit => KnowledgeInv
    BY DEF KnowledgeInit, KnowledgeInv, KnowledgeTypeOK
  <1>2. KnowledgeInv /\ [KnowledgeNext]_knowledgeVars => KnowledgeInv'
    BY <1>0, KnowledgeInductive
  <1>3. MemoryInit => MemoryInv
    BY DEF MemoryInit, MemoryInv, MemoryTypeOK
  <1>4. MemoryInv /\ [MemoryNext]_memoryVars => MemoryInv'
    BY MemoryInductive
  <1>5. KnowledgeInv /\ [KnowledgeNext]_knowledgeVars =>
          [\A e \in Entities :
             (stored[e] # None /\ stored'[e] # None /\ ~OutdatedUpdate(e))
               => Keeps(stored[e], stored'[e])]_knowledgeVars
    BY <1>0, HistoryStep
  <1>6. MemoryInv /\ [MemoryNext]_memoryVars =>
          [\A m \in Memories :
             (records[m] # Absent /\ records'[m] # Absent /\ ~AgedUpdate(m))
               => /\ records'[m].status = "active" => records[m].status = "active"
                  /\ records[m].reason => records'[m].reason]_memoryVars
    BY RetirementStep DEF AsRetired
  <1>7. KnowledgeSpec => HistoryKept
    BY <1>1, <1>2, <1>5, PTL DEF KnowledgeSpec, HistoryKept
  <1>8. MemorySpec => RetirementKept
    BY <1>3, <1>4, <1>6, PTL DEF MemorySpec, RetirementKept
  <1> QED
    BY <1>7, <1>8 DEF StoresKeepThePast

-----------------------------------------------------------------------------
\* Documentation that is ingested

\* The files there were at a commit.
FilesAt(c) == {p \in 1 .. Paths : commits[c][p] # 0}

\* The last commit there was when the changes were read, or that there is.
Newest == IF reading \in {"runs", "returned"} THEN changes ELSE Len(commits)

\* What the paths of the listing, up to where it is read, have held since it was made.
HeldSince ==
  {document \in [path : 1 .. Paths, content : 1 .. MaxCommits] :
     /\ document.path \in Readable /\ document.path < next
     /\ ~Omitted(document.path, document.content)
     /\ \E c \in 1 .. Newest : listed.at <= c /\ commits[c][document.path] = document.content}

\* Paths whose content has been left out at some time since the listing was made.
PassedOver == {p \in 1 .. Paths : \E c \in 1 .. Newest : listed.at <= c /\ Omitted(p, commits[c][p])}

\* The documents are those of the listing up to where it is read, in its order, but for
\* those that are passed over.
DocumentsInv ==
  /\ \A n \in 1 .. Len(documents) : documents[n] \in HeldSince
  /\ \A m, n \in 1 .. Len(documents) : m < n => documents[m].path < documents[n].path
  /\ \A p \in Readable :
       p < next => p \in PassedOver \/ \E n \in 1 .. Len(documents) : documents[n].path = p

\* The parts of a context are read one after the other.
ReadingInv ==
  /\ Len(commits) \in 1 .. MaxCommits /\ Newest \in 1 .. Len(commits)
  /\ reading \in {"idle", "inspect", "list"} => documents = <<>> /\ next = 1
  /\ reading \in {"list", "documents"} => "documentation" \in sources
  /\ "documentation" \notin sources => documents = <<>>
  /\ reading \in {"list", "documents", "changes", "runs", "returned"} =>
       snapshot.at \in 1 .. Newest /\ snapshot.files = FilesAt(snapshot.at)
  /\ reading \in {"documents", "changes", "runs", "returned"} /\ "documentation" \in sources =>
       listed.at \in snapshot.at .. Newest /\ listed.files = FilesAt(listed.at)
  /\ reading \in {"changes", "runs", "returned"} /\ "documentation" \in sources => StillToRead = {}

ProjectInv == ProjectTypeOK /\ ReadingInv /\ DocumentsInv

\* Commits that are added change nothing of what has been read.
LEMMA ReadingOutlastsCommits ==
  ASSUME ProjectInv, ProjectTypeOK', Newest <= Newest', Newest' \in Nat,
         \A c \in 1 .. Len(commits) : commits'[c] = commits[c],
         UNCHANGED <<documents, next, listed>>
  PROVE  DocumentsInv'
  <1>1. Newest \in 1 .. Len(commits) /\ Len(commits) \in Nat
    BY DEF ProjectInv, ReadingInv, ProjectTypeOK
  <1>2. Readable' = Readable /\ documents' = documents /\ next' = next
    BY DEF Readable
  <1>3. ASSUME NEW document \in HeldSince
        PROVE  document \in HeldSince'
    <2>1. PICK c \in 1 .. Newest : listed.at <= c /\ commits[c][document.path] = document.content
      BY <1>3 DEF HeldSince
    <2>2. c \in 1 .. Newest' /\ commits'[c] = commits[c]
      BY <1>1, <2>1
    <2> QED
      BY <1>2, <1>3, <2>1, <2>2 DEF HeldSince, Omitted
  <1>4. PassedOver \subseteq PassedOver'
    <2> SUFFICES ASSUME NEW p \in PassedOver PROVE p \in PassedOver'
      OBVIOUS
    <2>1. PICK c \in 1 .. Newest : listed.at <= c /\ Omitted(p, commits[c][p])
      BY DEF PassedOver
    <2>2. c \in 1 .. Newest' /\ commits'[c] = commits[c]
      BY <1>1, <2>1
    <2> QED
      BY <2>1, <2>2 DEF PassedOver, Omitted
  <1> QED
    BY <1>2, <1>3, <1>4 DEF DocumentsInv, ProjectInv

LEMMA ProjectInductive ==
  ASSUME ProjectInv, ProjectAssumption, [ProjectNext]_projectVars
  PROVE  ProjectInv'
  <1>0. /\ commits \in Seq([1 .. Paths -> 0 .. MaxCommits]) /\ Len(commits) \in 1 .. MaxCommits
        /\ snapshot \in Inspection /\ listed \in Inspection
        /\ documents \in Seq([path : 1 .. Paths, content : 1 .. MaxCommits])
        /\ Newest \in 1 .. Len(commits) /\ Newest \in Nat
    BY DEF ProjectInv, ReadingInv, ProjectTypeOK, ProjectAssumption
  <1>n. next \in 1 .. Paths + 1 /\ Paths \in Nat /\ MaxCommits \in Nat /\ MaxCommits >= 1
    BY DEF ProjectInv, ProjectTypeOK, ProjectAssumption
  <1>T. Tip \in [1 .. Paths -> 0 .. MaxCommits]
    BY <1>0, <1>n, ElementOfSeq DEF Tip
  <1>t. Tree \in Inspection /\ Tree.at = Len(commits) /\ Tree.files = FilesAt(Len(commits))
    BY <1>0 DEF Tree, Inspection, FilesAt, Tip
  <1>1. ASSUME NEW p \in 1 .. Paths, Push(p) PROVE ProjectInv'
    <2>1. PICK version \in 0 .. MaxCommits : commits' = Append(commits, [Tip EXCEPT ![p] = version])
      <3>1. Len(commits) + 1 \in 0 .. MaxCommits /\ 0 \in 0 .. MaxCommits
        BY <1>0, <1>n, <1>1 DEF Push
      <3>2. \/ commits' = Append(commits, [Tip EXCEPT ![p] = Len(commits) + 1])
            \/ commits' = Append(commits, [Tip EXCEPT ![p] = 0])
        BY <1>1 DEF Push
      <3> QED
        BY <3>1, <3>2
    <2>2. [Tip EXCEPT ![p] = version] \in [1 .. Paths -> 0 .. MaxCommits]
      BY <1>T
    <2>3. /\ commits' \in Seq([1 .. Paths -> 0 .. MaxCommits]) /\ Len(commits') = Len(commits) + 1
          /\ \A c \in 1 .. Len(commits) : commits'[c] = commits[c]
      BY <1>0, <2>1, <2>2
    <2>4. UNCHANGED <<reading, sources, snapshot, listed, documents, next, changes>>
          /\ Len(commits) < MaxCommits
      BY <1>1 DEF Push
    <2>5. Newest' \in 1 .. Len(commits') /\ Newest <= Newest'
      <3>1. reading' = reading /\ changes' = changes
        BY <2>4
      <3>2. Len(commits) \in Nat /\ Len(commits') \in Nat /\ Len(commits') = Len(commits) + 1
        BY <1>0, <2>3
      <3>3. CASE reading \in {"runs", "returned"}
        <4>1. Newest' = Newest
          BY <3>1, <3>3 DEF Newest
        <4> QED
          BY <1>0, <3>2, <4>1
      <3>4. CASE reading \notin {"runs", "returned"}
        <4>1. Newest = Len(commits) /\ Newest' = Len(commits')
          BY <3>1, <3>4 DEF Newest
        <4> QED
          BY <3>2, <4>1
      <3> QED
        BY <3>3, <3>4
    <2>6. /\ \A c \in 1 .. Newest : c \in 1 .. Newest' /\ c \in 1 .. Len(commits)
          /\ \A c \in 1 .. Newest : \A d \in c .. Newest :
               d \in c .. Newest' /\ d \in 1 .. Len(commits)
      BY <1>0, <2>3, <2>5
    <2>7. ProjectTypeOK'
      BY <2>3, <2>4 DEF ProjectInv, ProjectTypeOK
    <2>8. ReadingInv'
      <3>1. Len(commits') \in 1 .. MaxCommits
        <4>1. Len(commits) \in 1 .. MaxCommits /\ MaxCommits \in Nat /\ Len(commits) < MaxCommits
          BY <1>0, <1>n, <2>4
        <4>2. Len(commits') = Len(commits) + 1
          BY <2>3
        <4> QED
          BY <4>1, <4>2
      <3>2. StillToRead' = StillToRead
        BY <2>4 DEF StillToRead, Readable
      <3>3. reading \in {"list", "documents", "changes", "runs", "returned"} =>
              snapshot.at \in 1 .. Newest' /\ snapshot.files = FilesAt(snapshot.at)'
        <4> SUFFICES ASSUME reading \in {"list", "documents", "changes", "runs", "returned"}
                     PROVE  snapshot.at \in 1 .. Newest' /\ snapshot.files = FilesAt(snapshot.at)'
          OBVIOUS
        <4>1. snapshot.at \in 1 .. Newest /\ snapshot.files = FilesAt(snapshot.at)
          BY DEF ProjectInv, ReadingInv
        <4>2. snapshot.at \in 1 .. Newest' /\ snapshot.at \in 1 .. Len(commits)
          BY <2>6, <4>1
        <4>3. commits'[snapshot.at] = commits[snapshot.at]
          BY <2>3, <4>2
        <4> QED
          BY <2>4, <4>1, <4>2, <4>3 DEF FilesAt
      <3>4. reading \in {"documents", "changes", "runs", "returned"} /\ "documentation" \in sources =>
              listed.at \in snapshot.at .. Newest' /\ listed.files = FilesAt(listed.at)'
        <4> SUFFICES ASSUME reading \in {"documents", "changes", "runs", "returned"},
                            "documentation" \in sources
                     PROVE  listed.at \in snapshot.at .. Newest' /\ listed.files = FilesAt(listed.at)'
          OBVIOUS
        <4>1. /\ snapshot.at \in 1 .. Newest
              /\ listed.at \in snapshot.at .. Newest /\ listed.files = FilesAt(listed.at)
          BY DEF ProjectInv, ReadingInv
        <4>2. listed.at \in snapshot.at .. Newest' /\ listed.at \in 1 .. Len(commits)
          BY <2>6, <4>1
        <4>3. commits'[listed.at] = commits[listed.at]
          BY <2>3, <4>2
        <4> QED
          BY <2>4, <4>1, <4>2, <4>3 DEF FilesAt
      <3> QED
        BY <2>4, <2>5, <3>1, <3>2, <3>3, <3>4 DEF ProjectInv, ReadingInv
    <2> QED
      BY <2>3, <2>4, <2>5, <2>7, <2>8, ReadingOutlastsCommits DEF ProjectInv
  <1>2. CASE BeginContext
    <2>1. ProjectTypeOK' /\ Newest' = Newest
      BY <1>2 DEF BeginContext, ProjectInv, ProjectTypeOK, Reading, Newest
    <2>2. DocumentsInv'
      BY <1>0, <1>2, <2>1, ReadingOutlastsCommits DEF BeginContext
    <2> QED
      BY <1>2, <2>1, <2>2 DEF BeginContext, ProjectInv, ReadingInv
  <1>3. CASE Inspect
    <2>1. ProjectTypeOK' /\ Newest' = Len(commits) /\ Newest = Len(commits)
      BY <1>3, <1>t DEF Inspect, ProjectInv, ProjectTypeOK, Reading, Newest
    <2>2. DocumentsInv'
      BY <1>0, <1>3, <2>1, ReadingOutlastsCommits DEF Inspect
    <2>3. FilesAt(Len(commits))' = FilesAt(Len(commits))
      BY <1>3 DEF Inspect, FilesAt
    <2>4. ReadingInv'
      BY <1>0, <1>3, <1>t, <2>1, <2>3 DEF Inspect, ProjectInv, ReadingInv
    <2> QED
      BY <2>1, <2>2, <2>4 DEF ProjectInv
  <1>4. CASE ListDocuments
    <2>1. ProjectTypeOK' /\ Newest' = Len(commits) /\ Newest = Len(commits)
      BY <1>4, <1>t DEF ListDocuments, ProjectInv, ProjectTypeOK, Reading, Newest
    <2>2. documents = <<>> /\ next = 1 /\ UNCHANGED <<documents, next>>
      BY <1>4 DEF ListDocuments, ProjectInv, ReadingInv
    <2>3. DocumentsInv'
      <3>1. \A p \in Readable' : ~(p < 1)
        <4>1. listed' \in Inspection
          BY <2>1 DEF ProjectTypeOK
        <4> QED
          BY <1>0, <4>1 DEF Inspection, Readable
      <3> QED
        BY <2>2, <3>1 DEF DocumentsInv
    <2>4. \A c : FilesAt(c)' = FilesAt(c)
      BY <1>4 DEF ListDocuments, FilesAt
    <2>5. ReadingInv'
      BY <1>0, <1>4, <1>t, <2>1, <2>2, <2>4 DEF ListDocuments, ProjectInv, ReadingInv
    <2> QED
      BY <2>1, <2>3, <2>5 DEF ProjectInv
  <1>5. CASE ReadDocument
    <2>0. /\ reading = "documents" /\ UNCHANGED <<commits, sources, snapshot, listed, changes>>
          /\ \A c : FilesAt(c)' = FilesAt(c)
      BY <1>5 DEF ReadDocument, FilesAt
    <2>1. PICK p \in StillToRead :
            /\ \A q \in StillToRead : p <= q
            /\ IF Tip[p] = 0
               THEN reading' = "raised" /\ UNCHANGED <<documents, next>>
               ELSE /\ documents' = IF Omitted(p, Tip[p]) THEN documents
                                    ELSE Append(documents, [path |-> p, content |-> Tip[p]])
                    /\ next' = p + 1
                    /\ UNCHANGED reading
      BY <1>5 DEF ReadDocument
    <2>2. /\ p \in Readable /\ p \in 1 .. Paths /\ next <= p
          /\ \A q \in Readable : q \in 1 .. Paths /\ (next <= q => p <= q)
      BY <1>0, <2>1 DEF StillToRead, Readable, Inspection
    <2>b. \A q \in Readable : (q < next => q < p) /\ (q < p + 1 <=> q < next \/ q = p)
      BY <1>n, <2>2
    <2>3. CASE Tip[p] = 0
      <3>1. reading' = "raised" /\ UNCHANGED <<documents, next>>
        BY <2>1, <2>3
      <3>2. ProjectTypeOK' /\ Newest' = Newest
        BY <2>0, <3>1 DEF ProjectInv, ProjectTypeOK, Reading, Newest
      <3>3. DocumentsInv'
        BY <1>0, <2>0, <3>1, <3>2, ReadingOutlastsCommits
      <3> QED
        BY <2>0, <3>1, <3>2, <3>3 DEF ProjectInv, ReadingInv
    <2>4. CASE Tip[p] # 0
      <3>1. /\ UNCHANGED reading /\ next' = p + 1 /\ Newest' = Newest /\ Newest = Len(commits)
            /\ documents' = IF Omitted(p, Tip[p]) THEN documents
                            ELSE Append(documents, [path |-> p, content |-> Tip[p]])
        BY <2>0, <2>1, <2>4 DEF Newest
      <3>0. Len(commits) \in 1 .. Newest' /\ listed.at <= Len(commits) /\ commits'[Len(commits)][p] = Tip[p]
        <4>1. Len(commits) \in 1 .. Newest' /\ listed.at <= Len(commits)
          BY <1>0, <2>0, <3>1 DEF ProjectInv, ReadingInv
        <4> QED
          BY <2>0, <4>1 DEF Tip
      <3>2. [path |-> p, content |-> Tip[p]] \in [path : 1 .. Paths, content : 1 .. MaxCommits]
        <4>1. Tip[p] \in 1 .. MaxCommits
          BY <1>n, <1>T, <2>2, <2>4
        <4> QED
          BY <2>2, <4>1
      <3>3. documents' \in Seq([path : 1 .. Paths, content : 1 .. MaxCommits])
        <4>1. CASE Omitted(p, Tip[p])
          BY <1>0, <3>1, <4>1
        <4>2. CASE ~Omitted(p, Tip[p])
          <5>1. documents' = Append(documents, [path |-> p, content |-> Tip[p]])
            BY <3>1, <4>2
          <5> QED
            BY <1>0, <3>2, <5>1
        <4> QED
          BY <4>1, <4>2
      <3>4. ProjectTypeOK'
        <4>1. next' \in 1 .. Paths + 1
          BY <1>n, <2>2, <3>1
        <4> QED
          BY <2>0, <3>1, <3>3, <4>1 DEF ProjectInv, ProjectTypeOK
      <3>5. ReadingInv'
        BY <2>0, <3>1 DEF ProjectInv, ReadingInv
      <3>6. Readable' = Readable
        BY <2>0 DEF Readable
      <3>7. ASSUME NEW document \in HeldSince PROVE document \in HeldSince'
        <4>1. document.path \in Readable /\ document.path < next
          BY DEF HeldSince
        <4>2. document.path < p + 1
          BY <2>b, <4>1
        <4> QED
          BY <2>0, <3>1, <3>6, <4>2 DEF HeldSince, Omitted
      <3>9. PassedOver \subseteq PassedOver'
        BY <2>0, <3>1 DEF PassedOver, Omitted
      <3>8. DocumentsInv'
        <4>1. CASE Omitted(p, Tip[p])
          <5>1. documents' = documents
            BY <3>1, <4>1
          <5>2. p \in PassedOver'
            BY <2>0, <2>2, <3>0, <4>1 DEF PassedOver, Omitted
          <5>3. \A q \in Readable : q < p + 1 => q < next \/ q = p
            BY <2>b
          <5> QED
            BY <3>1, <3>6, <3>7, <3>9, <5>1, <5>2, <5>3 DEF ProjectInv, DocumentsInv
        <4>2. CASE ~Omitted(p, Tip[p])
          <5> DEFINE new == [path |-> p, content |-> Tip[p]]
                     m == Len(documents)
          <5>1. /\ Len(documents') = m + 1 /\ documents'[m + 1] = new /\ m \in Nat
                /\ \A n \in 1 .. m : documents'[n] = documents[n]
            BY <1>0, <3>1, <3>2, <4>2
          <5>2. new \in HeldSince'
            <6>1. p \in Readable /\ p < p + 1
              BY <2>2
            <6>2. \E c \in 1 .. Newest' : listed.at <= c /\ commits'[c][p] = Tip[p]
              BY <3>0
            <6> QED
              BY <2>0, <3>1, <3>2, <3>6, <4>2, <6>1, <6>2 DEF HeldSince, Omitted
          <5>3. \A n \in 1 .. m : documents[n].path < p
            <6>1. \A n \in 1 .. m : documents[n].path \in Readable /\ documents[n].path < next
              BY DEF ProjectInv, DocumentsInv, HeldSince
            <6> QED
              BY <2>b, <6>1
          <5>4. \A q \in Readable : q < p + 1 => q < next \/ q = p
            BY <2>b
          <5>5. new.path = p
            OBVIOUS
          <5> HIDE DEF new
          <5>6. \A n \in 1 .. Len(documents') : documents'[n] \in HeldSince'
            BY <3>7, <5>1, <5>2 DEF ProjectInv, DocumentsInv
          <5>7. \A k, n \in 1 .. Len(documents') : k < n => documents'[k].path < documents'[n].path
            BY <5>1, <5>3, <5>5 DEF ProjectInv, DocumentsInv
          <5>8. \A q \in Readable :
                  q < p + 1 => q \in PassedOver \/ \E n \in 1 .. Len(documents') : documents'[n].path = q
            BY <5>1, <5>4, <5>5 DEF ProjectInv, DocumentsInv
          <5> QED
            BY <3>1, <3>6, <3>9, <5>6, <5>7, <5>8 DEF DocumentsInv
        <4> QED
          BY <4>1, <4>2
      <3> QED
        BY <3>4, <3>5, <3>8 DEF ProjectInv
    <2> QED
      BY <2>3, <2>4
  <1>6. CASE DocumentsRead
    <2>1. /\ ProjectTypeOK' /\ Newest' = Newest /\ StillToRead' = StillToRead /\ StillToRead = {}
          /\ \A c : FilesAt(c)' = FilesAt(c)
      BY <1>6 DEF DocumentsRead, ProjectInv, ProjectTypeOK, Reading, Newest, FilesAt, StillToRead, Readable
    <2>2. DocumentsInv'
      BY <1>0, <1>6, <2>1, ReadingOutlastsCommits DEF DocumentsRead
    <2> QED
      BY <1>6, <2>1, <2>2 DEF DocumentsRead, ProjectInv, ReadingInv
  <1>7. CASE ReadChanges
    <2>1. reading' \in {"runs", "returned"}
      BY <1>7 DEF ReadChanges
    <2>2. /\ ProjectTypeOK' /\ Newest' = Newest /\ StillToRead' = StillToRead
          /\ \A c : FilesAt(c)' = FilesAt(c)
      BY <1>0, <1>7, <2>1
        DEF ReadChanges, ProjectInv, ProjectTypeOK, Reading, Newest, FilesAt, StillToRead, Readable
    <2>3. DocumentsInv'
      BY <1>0, <1>7, <2>2, ReadingOutlastsCommits DEF ReadChanges
    <2> QED
      BY <1>7, <2>1, <2>2, <2>3 DEF ReadChanges, ProjectInv, ReadingInv
  <1>8. CASE ReadRuns
    <2>1. /\ ProjectTypeOK' /\ Newest' = Newest /\ StillToRead' = StillToRead
          /\ \A c : FilesAt(c)' = FilesAt(c)
      BY <1>8 DEF ReadRuns, ProjectInv, ProjectTypeOK, Reading, Newest, FilesAt, StillToRead, Readable
    <2>2. DocumentsInv'
      BY <1>0, <1>8, <2>1, ReadingOutlastsCommits DEF ReadRuns
    <2> QED
      BY <1>8, <2>1, <2>2 DEF ReadRuns, ProjectInv, ReadingInv
  <1>9. CASE RequestFails
    <2>1. ProjectTypeOK' /\ Newest' = Len(commits) /\ UNCHANGED <<commits, sources, documents, next, listed>>
      BY <1>9 DEF RequestFails, ProjectInv, ProjectTypeOK, Reading, Newest
    <2>2. DocumentsInv'
      BY <1>0, <2>1, ReadingOutlastsCommits
    <2> QED
      BY <1>0, <1>9, <2>1, <2>2 DEF RequestFails, ProjectInv, ReadingInv
  <1>10. CASE UNCHANGED projectVars
    <2>1. /\ ProjectTypeOK' /\ Newest' = Newest /\ StillToRead' = StillToRead
          /\ \A c : FilesAt(c)' = FilesAt(c)
      BY <1>10 DEF projectVars, ProjectInv, ProjectTypeOK, Newest, FilesAt, StillToRead, Readable
    <2>2. DocumentsInv'
      BY <1>0, <1>10, <2>1, ReadingOutlastsCommits DEF projectVars
    <2> QED
      BY <1>10, <2>1, <2>2 DEF projectVars, ProjectInv, ReadingInv
  <1> QED
    BY <1>1, <1>2, <1>3, <1>4, <1>5, <1>6, <1>7, <1>8, <1>9, <1>10 DEF ProjectNext

LEMMA PartsFit ==
  ASSUME ProjectInv, ProjectAssumption
  PROVE  PartsFitTogether
  <1> SUFFICES ASSUME reading = "returned" PROVE PartsFitTogether
    BY DEF PartsFitTogether
  <1>1. Newest = changes /\ changes \in Nat /\ Len(commits) \in Nat
    BY DEF Newest, ProjectInv, ProjectTypeOK
  <1>2. /\ snapshot.at \in 1 .. changes /\ snapshot.files = FilesAt(snapshot.at)
        /\ "documentation" \in sources =>
             /\ listed.at \in snapshot.at .. changes /\ listed.files = FilesAt(listed.at)
             /\ StillToRead = {}
    BY <1>1 DEF ProjectInv, ReadingInv
  <1>3. ASSUME NEW n \in 1 .. Len(documents)
        PROVE  /\ \E c \in snapshot.at .. changes :
                    commits[c][documents[n].path] = documents[n].content
               /\ documents[n].path \in DocPaths \ UnsafePaths
               /\ n > 1 => documents[n - 1].path < documents[n].path
    <2>1. "documentation" \in sources
      BY <1>3 DEF ProjectInv, ReadingInv
    <2>2. documents[n] \in HeldSince
      BY DEF ProjectInv, DocumentsInv
    <2>3. PICK c \in 1 .. changes :
            listed.at <= c /\ commits[c][documents[n].path] = documents[n].content
      BY <1>1, <2>2 DEF HeldSince
    <2>4. c \in snapshot.at .. changes
      BY <1>1, <1>2, <2>1, <2>3
    <2>5. n > 1 => n - 1 \in 1 .. Len(documents) /\ n - 1 < n
      OBVIOUS
    <2> QED
      BY <2>2, <2>3, <2>4, <2>5 DEF HeldSince, Readable, ProjectInv, DocumentsInv
  <1>4. ASSUME snapshot.at = changes, "documentation" \in sources
        PROVE  {documents[n].path : n \in 1 .. Len(documents)}
                 = {p \in (snapshot.files \cap DocPaths) \ UnsafePaths :
                      ~Omitted(p, commits[snapshot.at][p])}
    <2>0. listed.at = snapshot.at
      BY <1>1, <1>2, <1>4
    <2>1. Readable = (snapshot.files \cap DocPaths) \ UnsafePaths
      BY <1>2, <1>4, <2>0 DEF Readable
    <2>2. \A c \in 1 .. Newest : listed.at <= c => c = snapshot.at
      BY <1>1, <1>2, <1>4, <2>0
    <2>3. ASSUME NEW n \in 1 .. Len(documents)
          PROVE  documents[n].path \in Readable
                   /\ ~Omitted(documents[n].path, commits[snapshot.at][documents[n].path])
      <3>1. documents[n] \in HeldSince
        BY DEF ProjectInv, DocumentsInv
      <3> QED
        BY <2>2, <3>1 DEF HeldSince
    <2>4. ASSUME NEW p \in Readable, ~Omitted(p, commits[snapshot.at][p])
          PROVE  \E n \in 1 .. Len(documents) : documents[n].path = p
      <3>1. p < next
        BY <1>2, <1>4 DEF StillToRead, Readable, ProjectInv, ProjectTypeOK, Inspection
      <3>2. p \notin PassedOver
        BY <2>2, <2>4 DEF PassedOver
      <3> QED
        BY <3>1, <3>2 DEF ProjectInv, DocumentsInv
    <2> QED
      BY <2>1, <2>3, <2>4
  <1> QED
    BY <1>3, <1>4 DEF PartsFitTogether

\* The documents read are those of the listing up to some place, each with a version that
\* its file has had since the walk came by it; the trail tells how far the ingest is.
LocalInv ==
  /\ tree \in [1 .. LocalFiles -> Nat] /\ held \in [1 .. LocalFiles -> SUBSET Nat]
  /\ walked \in 0 .. LocalFiles /\ edits \in Nat
  /\ listing \in Seq(1 .. LocalFiles)
  /\ read \in Seq([file : 1 .. LocalFiles, version : Nat])
  /\ \A f \in 1 .. walked : tree[f] \in held[f]
  /\ \A n \in 1 .. Len(listing) : listing[n] <= walked
  /\ Len(read) <= Len(listing)
  /\ \A n \in 1 .. Len(read) :
       read[n].file = listing[n] /\ read[n].version \in held[listing[n]] \ {0}
  /\ \/ ingesting = "idle" /\ read = <<>> /\ ingestTrail = <<>>
     \/ ingesting = "walking" /\ read = <<>> /\ ingestTrail = <<>>
     \/ ingesting = "reading" /\ ingestTrail = <<"completed">>
     \/ ingesting = "returned" /\ Len(read) = Len(listing)
          /\ ingestTrail = <<"completed", "completed">>
     \/ ingesting = "raised" /\ (Len(ingestTrail) = 2 => ingestTrail = <<"completed", "failed">>)

\* A second result follows the first.
LEMMA SecondResult ==
  ASSUME NEW a, NEW b
  PROVE  Append(<<a>>, b) = <<a, b>>
  <1>1. <<a>> \in Seq({a, b}) /\ <<a, b>> \in Seq({a, b}) /\ Len(<<a, b>>) = 2
    OBVIOUS
  <1>2. /\ Append(<<a>>, b) \in Seq({a, b}) /\ Len(Append(<<a>>, b)) = 2
        /\ Append(<<a>>, b)[1] = a /\ Append(<<a>>, b)[2] = b
    BY <1>1
  <1>3. <<a, b>>[1] = a /\ <<a, b>>[2] = b /\ \A i \in 1 .. 2 : i = 1 \/ i = 2
    OBVIOUS
  <1> QED
    BY <1>1, <1>2, <1>3, SeqEqual

LEMMA LocalInductive ==
  ASSUME LocalInv, LocalAssumption, [LocalNext]_localVars
  PROVE  LocalInv'
  <1>0. /\ tree \in [1 .. LocalFiles -> Nat] /\ held \in [1 .. LocalFiles -> SUBSET Nat]
        /\ walked \in 0 .. LocalFiles /\ edits \in Nat /\ LocalFiles \in Nat
        /\ listing \in Seq(1 .. LocalFiles)
        /\ read \in Seq([file : 1 .. LocalFiles, version : Nat])
    BY DEF LocalInv, LocalAssumption
  <1>e. \A n \in 1 .. Len(listing) : listing[n] \in 1 .. LocalFiles
    BY <1>0, ElementOfSeq
  <1>1. ASSUME NEW f \in 1 .. LocalFiles, Edit(f) PROVE LocalInv'
    <2>1. PICK version \in Nat :
            tree' = [tree EXCEPT ![f] = version] /\ held' = [held EXCEPT ![f] = @ \cup {version}]
      <3>1. \A version \in {0, edits + 2} : version \in Nat
        BY <1>0
      <3>2. PICK version \in {0, edits + 2} :
              tree' = [tree EXCEPT ![f] = version] /\ held' = [held EXCEPT ![f] = @ \cup {version}]
        BY <1>1 DEF Edit
      <3> QED
        BY <3>1, <3>2
    <2>2. /\ edits' \in Nat /\ UNCHANGED <<ingesting, walked, listing, read, ingestTrail>>
      BY <1>0, <1>1 DEF Edit
    <2>3. /\ tree' \in [1 .. LocalFiles -> Nat] /\ held' \in [1 .. LocalFiles -> SUBSET Nat]
          /\ \A g \in 1 .. LocalFiles : held[g] \subseteq held'[g]
      BY <1>0, <2>1
    <2>4. \A g \in 1 .. walked : tree'[g] \in held'[g]
      <3>1. \A g \in 1 .. walked : g \in 1 .. LocalFiles /\ tree[g] \in held[g]
        BY <1>0 DEF LocalInv
      <3> QED
        BY <1>0, <2>1, <3>1
    <2>5. \A n \in 1 .. Len(read) :
            read[n].file = listing[n] /\ read[n].version \in held'[listing[n]] \ {0}
      <3>1. \A n \in 1 .. Len(read) : listing[n] \in 1 .. LocalFiles
        <4>1. Len(read) \in Nat /\ Len(listing) \in Nat /\ Len(read) <= Len(listing)
          BY <1>0 DEF LocalInv
        <4> QED
          BY <1>e, <4>1
      <3> QED
        BY <2>3, <3>1 DEF LocalInv
    <2> QED
      BY <2>2, <2>3, <2>4, <2>5 DEF LocalInv
  <1>2. CASE InspectLocal
    BY <1>2 DEF InspectLocal, LocalInv
  <1>3. CASE WalkOn
    <2> DEFINE f == walked + 1
    <2>1. /\ walked' = f /\ held' = [held EXCEPT ![f] = {tree[f]}]
          /\ listing' = Append(listing, f) \/ listing' = listing
          /\ f \in 1 .. LocalFiles /\ ingesting = "walking"
          /\ UNCHANGED <<tree, edits, ingesting, read, ingestTrail>>
      BY <1>0, <1>3 DEF WalkOn
    <2>2. read = <<>> /\ ingestTrail = <<>>
      BY <2>1 DEF LocalInv
    <2>3. /\ listing' \in Seq(1 .. LocalFiles)
          /\ \A n \in 1 .. Len(listing') : listing'[n] <= walked'
      <3>1. \A n \in 1 .. Len(listing) : listing[n] <= f
        <4>1. \A n \in 1 .. Len(listing) : listing[n] <= walked /\ listing[n] \in 1 .. LocalFiles
          BY <1>e DEF LocalInv
        <4> QED
          BY <1>0, <4>1
      <3>2. CASE listing' = listing
        BY <1>0, <2>1, <3>1, <3>2
      <3>3. CASE listing' = Append(listing, f)
        <4>1. f <= f
          BY <1>0
        <4> HIDE DEF f
        <4>2. /\ listing' \in Seq(1 .. LocalFiles) /\ Len(listing') = Len(listing) + 1
              /\ \A n \in 1 .. Len(listing') :
                   listing'[n] = IF n = Len(listing) + 1 THEN f ELSE listing[n]
          BY <1>0, <2>1, <3>3
        <4> QED
          <5>1. \A n \in 1 .. Len(listing) + 1 : n = Len(listing) + 1 \/ n \in 1 .. Len(listing)
            BY <1>0
          <5> QED
            BY <2>1, <3>1, <4>1, <4>2, <5>1
      <3> QED
        BY <2>1, <3>2, <3>3
    <2>4. \A g \in 1 .. walked' : tree'[g] \in held'[g]
      <3>1. \A g \in 1 .. walked : g \in 1 .. LocalFiles /\ tree[g] \in held[g] /\ g # f
        BY <1>0 DEF LocalInv
      <3>2. \A g \in 1 .. walked' : g = f \/ g \in 1 .. walked
        BY <1>0, <2>1
      <3> HIDE DEF f
      <3> QED
        BY <1>0, <2>1, <3>1, <3>2
    <2>5. walked' \in 0 .. LocalFiles
      BY <2>1
    <2>6. held' \in [1 .. LocalFiles -> SUBSET Nat]
      <3> HIDE DEF f
      <3> QED
        BY <1>0, <2>1
    <2>7. read' = <<>> /\ Len(read') = 0 /\ Len(listing') \in Nat
      BY <2>1, <2>2, <2>3
    <2> HIDE DEF f
    <2>8. \A n \in 1 .. Len(read') : FALSE
      BY <2>7
    <2>9. Len(read') <= Len(listing')
      BY <2>7
    <2> QED
      BY <1>0, <2>1, <2>2, <2>3, <2>4, <2>5, <2>6, <2>8, <2>9 DEF LocalInv
  <1>4. CASE InspectReturns
    <2>1. ingestTrail' = <<"completed">>
      BY <1>4 DEF InspectReturns, LocalInv
    <2> QED
      BY <1>4, <2>1 DEF InspectReturns, LocalInv
  <1>5. CASE RefuseRead
    <2>1. Len(ingestTrail) # 2
      BY <1>5 DEF RefuseRead, LocalInv
    <2> QED
      BY <1>5, <2>1 DEF RefuseRead, LocalInv
  <1>6. CASE ReadFails
    <2>1. \/ ingestTrail' = <<"failed">>
          \/ ingestTrail' = <<"completed", "failed">>
      <3>1. \/ ingesting = "walking" /\ ingestTrail = <<>>
            \/ ingesting = "reading" /\ ingestTrail = <<"completed">>
        BY <1>6 DEF ReadFails, LocalInv
      <3>2. ingestTrail' = Append(ingestTrail, "failed")
        BY <1>6 DEF ReadFails
      <3>3. Append(<<>>, "failed") = <<"failed">>
        OBVIOUS
      <3> QED
        BY <3>1, <3>2, <3>3, SecondResult
    <2>2. Len(ingestTrail') = 2 => ingestTrail' = <<"completed", "failed">>
      BY <2>1
    <2> QED
      BY <1>6, <2>2 DEF ReadFails, LocalInv
  <1>7. CASE ReadFile
    <2> DEFINE n == Len(read) + 1
               f == listing[n]
    <2>1. /\ tree[f] # 0 /\ read' = Append(read, [file |-> f, version |-> tree[f]])
          /\ ingesting = "reading" /\ n \in 1 .. Len(listing)
          /\ UNCHANGED <<tree, edits, ingesting, walked, listing, ingestTrail, held>>
      BY <1>0, <1>7 DEF ReadFile
    <2>2. f \in 1 .. LocalFiles /\ f \in 1 .. walked
      <3>1. f \in 1 .. LocalFiles /\ f <= walked
        BY <1>0, <2>1 DEF LocalInv
      <3> HIDE DEF f
      <3> QED
        BY <1>0, <3>1
    <2>3. tree[f] \in Nat /\ tree[f] \in held[f] \ {0}
      BY <1>0, <2>1, <2>2 DEF LocalInv
    <2>4. /\ read' \in Seq([file : 1 .. LocalFiles, version : Nat]) /\ Len(read') = n
          /\ \A m \in 1 .. Len(read) : read'[m] = read[m]
          /\ read'[n].file = f /\ read'[n].version = tree[f]
      <3> DEFINE new == [file |-> f, version |-> tree[f]]
      <3>1. /\ new \in [file : 1 .. LocalFiles, version : Nat]
            /\ new.file = f /\ new.version = tree[f]
        BY <2>2, <2>3
      <3>2. read' = Append(read, new)
        BY <2>1
      <3> HIDE DEF new, f
      <3>3. /\ read' \in Seq([file : 1 .. LocalFiles, version : Nat]) /\ Len(read') = Len(read) + 1
            /\ \A m \in 1 .. Len(read) : read'[m] = read[m]
            /\ read'[Len(read) + 1] = new
        BY <1>0, <3>1, <3>2
      <3>4. read'[n] = new /\ Len(read') = n
        BY <3>3
      <3> HIDE DEF n
      <3> QED
        BY <3>1, <3>3, <3>4
    <2>5. \A m \in 1 .. n : m = n \/ m \in 1 .. Len(read)
      <3>1. Len(read) \in Nat
        BY <1>0
      <3> QED
        BY <3>1
    <2>6. n <= Len(listing)
      BY <2>1
    <2>7. \A m \in 1 .. n : read'[m].file = listing[m] /\ read'[m].version \in held[listing[m]] \ {0}
      <3>1. read'[n].file = listing[n] /\ read'[n].version \in held[listing[n]] \ {0}
        BY <2>3, <2>4
      <3>2. \A m \in 1 .. Len(read) :
              read'[m].file = listing[m] /\ read'[m].version \in held[listing[m]] \ {0}
        BY <2>4 DEF LocalInv
      <3> QED
        BY <2>5, <3>1, <3>2
    <2> HIDE DEF n, f
    <2>8. /\ Len(read') <= Len(listing')
          /\ \A m \in 1 .. Len(read') :
               read'[m].file = listing'[m] /\ read'[m].version \in held'[listing'[m]] \ {0}
      BY <2>1, <2>4, <2>6, <2>7
    <2>9. ingesting' = "reading" /\ ingestTrail' = <<"completed">>
      BY <2>1 DEF LocalInv
    <2> QED
      BY <2>1, <2>4, <2>8, <2>9 DEF LocalInv
  <1>8. CASE IngestReturns
    <2>1. ingestTrail' = <<"completed", "completed">>
      <3>1. ingestTrail = <<"completed">> /\ ingestTrail' = Append(ingestTrail, "completed")
        BY <1>8 DEF IngestReturns, LocalInv
      <3> QED
        BY <3>1, SecondResult
    <2> QED
      BY <1>8, <2>1 DEF IngestReturns, LocalInv
  <1>9. CASE UNCHANGED localVars
    BY <1>9 DEF localVars, LocalInv
  <1> QED
    BY <1>1, <1>2, <1>3, <1>4, <1>5, <1>6, <1>7, <1>8, <1>9 DEF LocalNext

LEMMA ListingIsRead ==
  ASSUME LocalInv, LocalAssumption
  PROVE  DocumentsOfListing
  <1>1. /\ listing \in Seq(1 .. LocalFiles)
        /\ read \in Seq([file : 1 .. LocalFiles, version : Nat])
        /\ DOMAIN read = 1 .. Len(read) /\ DOMAIN listing = 1 .. Len(listing)
    BY DEF LocalInv
  <1>2. ASSUME ingesting = "returned"
        PROVE  /\ [n \in DOMAIN read |-> read[n].file] = listing
               /\ \A n \in DOMAIN read : read[n].version \in held[read[n].file] \ {0}
               /\ ingestTrail = <<"completed", "completed">>
    <2>1. Len(read) = Len(listing) /\ ingestTrail = <<"completed", "completed">>
      BY <1>2 DEF LocalInv
    <2>2. listing = [n \in 1 .. Len(listing) |-> listing[n]]
      BY <1>1
    <2>3. \A n \in 1 .. Len(listing) : read[n].file = listing[n]
      BY <2>1 DEF LocalInv
    <2>4. [n \in 1 .. Len(listing) |-> read[n].file] = [n \in 1 .. Len(listing) |-> listing[n]]
      BY <2>3
    <2> QED
      BY <1>1, <2>1, <2>2, <2>4 DEF LocalInv
  <1>3. ingesting = "raised" /\ Len(ingestTrail) = 2 => ingestTrail = <<"completed", "failed">>
    BY DEF LocalInv
  <1> QED
    BY <1>2, <1>3 DEF DocumentsOfListing

\* However many commits and edits come between the requests and the reads of
\* integrations/runtime.py, github.py and local.py: the documents returned are the
\* documentation that was listed, in order, each with a content it has had since.
THEOREM DocumentsAlwaysFitTheProject ==
  ProjectSpec /\ LocalSpec => []DocumentsFitTheProject
  <1>0. ProjectAssumption /\ LocalAssumption
    BY ProjectAssumption, LocalAssumption
  <1>1. ProjectInit => ProjectInv
    <2> SUFFICES ASSUME ProjectInit PROVE ProjectInv
      OBVIOUS
    <2>1. [p \in 1 .. Paths |-> 1] \in [1 .. Paths -> 0 .. MaxCommits]
      BY <1>0 DEF ProjectAssumption
    <2>2. /\ commits \in Seq([1 .. Paths -> 0 .. MaxCommits]) /\ Len(commits) = 1
      BY <2>1 DEF ProjectInit
    <2>3. documents = <<>> /\ next = 1 /\ reading = "idle"
      BY DEF ProjectInit
    <2>4. ProjectTypeOK
      BY <1>0, <2>2 DEF ProjectInit, ProjectTypeOK, Reading, Inspection, Unread, ProjectAssumption
    <2>5. ReadingInv
      BY <1>0, <2>2, <2>3 DEF ReadingInv, Newest, ProjectAssumption
    <2>6. DocumentsInv
      BY <2>3 DEF DocumentsInv, Readable, ProjectInit, Unread
    <2> QED
      BY <2>4, <2>5, <2>6 DEF ProjectInv
  <1>2. ProjectInv /\ [ProjectNext]_projectVars => ProjectInv'
    BY <1>0, ProjectInductive
  <1>3. ProjectInv => PartsFitTogether
    BY <1>0, PartsFit
  <1>4. LocalInit => LocalInv
    BY <1>0 DEF LocalInit, LocalInv, LocalAssumption
  <1>5. LocalInv /\ [LocalNext]_localVars => LocalInv'
    BY <1>0, LocalInductive
  <1>6. LocalInv => DocumentsOfListing
    BY <1>0, ListingIsRead
  <1>7. ProjectSpec => []PartsFitTogether
    BY <1>1, <1>2, <1>3, PTL DEF ProjectSpec
  <1>8. LocalSpec => []DocumentsOfListing
    BY <1>4, <1>5, <1>6, PTL DEF LocalSpec
  <1>9. PartsFitTogether /\ DocumentsOfListing => DocumentsFitTheProject
    BY DEF DocumentsFitTheProject
  <1> QED
    BY <1>7, <1>8, <1>9, PTL

-----------------------------------------------------------------------------
\* The run of the orchestrator

Questions == {q \in (1 .. Len(work)) \X (1 .. Len(keys)) : keys[q[2]] # work[q[1]]}

\* The challenge that is made of a question.
Made(q) == [by |-> q[1], target |-> keys[q[2]], of |-> results[keys[q[2]]]]

\* The results are those of the last assignments that have run, under their kinds.
ResultsInv ==
  /\ work \in Seq(AgentKinds) /\ ran \in 0 .. Len(work) /\ keys \in Seq(AgentKinds)
  /\ results \in [AgentKinds -> 0 .. ran]
  /\ \A kind \in AgentKinds : results[kind] # 0 => work[results[kind]] = kind
  /\ \A n \in 1 .. ran : n <= results[work[n]]
  /\ \A kind \in AgentKinds : results[kind] # 0 => \E i \in 1 .. Len(keys) : keys[i] = kind
  /\ \A i \in 1 .. Len(keys) : results[keys[i]] # 0
  /\ \A i, j \in 1 .. Len(keys) : keys[i] = keys[j] => i = j

\* Every challenge is the answer to a question of its own.
QuestionsInv ==
  /\ posed \subseteq Questions
  /\ \A i \in 1 .. Len(challenges) : \E q \in posed : challenges[i] = Made(q)
  /\ \A i, j \in 1 .. Len(challenges) : challenges[i] = challenges[j] => i = j

\* The questions are put when all have run.
StageInv ==
  /\ challenges \in Seq([by : Nat, target : AgentKinds, of : Nat])
  /\ stage \in {"idle", "running", "escalated"} => posed = {} /\ challenges = <<>>
  /\ stage \in {"idle", "escalated"} => ran = 0
  /\ stage = "running" => ran < Len(work)
  /\ stage \in {"challenging", "returned"} => ran = Len(work)
  /\ stage = "returned" => Unposed = {}

OrchestrationInv == ResultsInv /\ QuestionsInv /\ StageInv

LEMMA OrchestrationInductive ==
  ASSUME OrchestrationInv, OrchestrationAssumption, [OrchestrationNext]_orchestrationVars
  PROVE  OrchestrationInv'
  <1>0. /\ work \in Seq(AgentKinds) /\ Len(work) \in Nat /\ ran \in 0 .. Len(work)
        /\ keys \in Seq(AgentKinds) /\ Len(keys) \in Nat
        /\ results \in [AgentKinds -> 0 .. ran]
    BY DEF OrchestrationInv, ResultsInv
  <1>1. ASSUME NEW n \in 0 .. MaxWork, NEW assigned \in [1 .. n -> AgentKinds], Assign(assigned)
        PROVE  OrchestrationInv'
    <2>1. /\ posed = {} /\ challenges = <<>> /\ ran = 0 /\ work' = assigned
          /\ UNCHANGED <<ran, results, keys, posed, challenges>>
          /\ stage' = IF Len(assigned) > MaxAssignments THEN "escalated" ELSE Phase(0, Len(assigned))
      BY <1>1 DEF Assign, OrchestrationInv, StageInv
    <2>2. assigned \in Seq(AgentKinds) /\ Len(assigned) = n /\ n \in Nat
      BY DEF OrchestrationAssumption
    <2>3. \A kind \in AgentKinds : results[kind] = 0
      BY <1>0, <2>1
    <2>4. ResultsInv'
      <3>1. results' \in [AgentKinds -> 0 .. ran']
        BY <1>0, <2>1
      <3>2. ran' \in 0 .. Len(work') /\ \A m \in 1 .. ran' : FALSE
        BY <2>1, <2>2
      <3> QED
        BY <1>0, <2>1, <2>2, <2>3, <3>1, <3>2 DEF OrchestrationInv, ResultsInv
    <2>5. QuestionsInv'
      BY <2>1 DEF QuestionsInv
    <2>6. StageInv'
      <3>1. stage' \in {"escalated", "running", "challenging"}
        BY <2>1 DEF Phase
      <3>2. stage' = "running" => ran' < Len(work')
        BY <2>1, <2>2 DEF Phase
      <3>3. stage' = "challenging" => ran' = Len(work')
        BY <2>1, <2>2 DEF Phase
      <3> QED
        BY <2>1, <3>1, <3>2, <3>3 DEF StageInv, OrchestrationInv
    <2> QED
      BY <2>4, <2>5, <2>6 DEF OrchestrationInv
  <1>2. CASE AssignedReturns
    <2> DEFINE m == ran + 1
               kind == work[m]
    <2>1. /\ posed = {} /\ challenges = <<>> /\ m \in 1 .. Len(work) /\ ran' = m
          /\ results' = [results EXCEPT ![kind] = m]
          /\ keys' = IF results[kind] # 0 THEN keys ELSE Append(keys, kind)
          /\ stage' = Phase(m, Len(work)) /\ UNCHANGED <<work, posed, challenges>>
      BY <1>0, <1>2 DEF AssignedReturns, OrchestrationInv, StageInv
    <2>2. kind \in AgentKinds /\ m \in Nat /\ m # 0
      BY <1>0, <2>1, ElementOfSeq
    <2>3. /\ \A n \in 1 .. ran : n <= m /\ n \in 1 .. Len(work) /\ work[n] \in AgentKinds
          /\ \A n \in 1 .. m : n = m \/ n \in 1 .. ran
          /\ 0 .. ran \subseteq 0 .. m /\ m \in 0 .. m /\ m <= m
      <3>1. \A n \in 1 .. ran : n <= m /\ n \in 1 .. Len(work)
        BY <1>0, <2>1
      <3> QED
        BY <1>0, <2>1, <3>1, ElementOfSeq
    <2> HIDE DEF m
    <2>4. results' \in [AgentKinds -> 0 .. m] /\ results'[kind] = m
          /\ \A other \in AgentKinds \ {kind} : results'[other] = results[other]
      <3> HIDE DEF kind
      <3>1. \A other \in AgentKinds : results[other] \in 0 .. m
        BY <1>0, <2>3
      <3> QED
        BY <1>0, <2>1, <2>2, <2>3, <3>1
    <2>5. \A other \in AgentKinds : results'[other] # 0 => work[results'[other]] = other
      BY <2>2, <2>4 DEF OrchestrationInv, ResultsInv
    <2>6. \A n \in 1 .. m : n <= results'[work[n]]
      <3>1. results'[work[m]] = m
        BY <2>4
      <3>2. \A n \in 1 .. ran : n <= results'[work[n]]
        <4> SUFFICES ASSUME NEW n \in 1 .. ran PROVE n <= results'[work[n]]
          OBVIOUS
        <4>1. n <= m /\ work[n] \in AgentKinds /\ n <= results[work[n]]
          BY <2>3 DEF OrchestrationInv, ResultsInv
        <4>2. CASE work[n] = kind
          BY <2>4, <4>1, <4>2
        <4>3. CASE work[n] # kind
          BY <2>4, <4>1, <4>3
        <4> QED
          BY <4>2, <4>3
      <3> QED
        BY <2>3, <3>1, <3>2
    <2>7. /\ keys' \in Seq(AgentKinds)
          /\ \A other \in AgentKinds : results'[other] # 0 => \E i \in 1 .. Len(keys') : keys'[i] = other
          /\ \A i \in 1 .. Len(keys') : results'[keys'[i]] # 0
          /\ \A i, j \in 1 .. Len(keys') : keys'[i] = keys'[j] => i = j
      <3> HIDE DEF kind
      <3>0. \A i \in 1 .. Len(keys) : keys[i] \in AgentKinds /\ results[keys[i]] # 0
        BY <1>0, ElementOfSeq DEF OrchestrationInv, ResultsInv
      <3>1. CASE results[kind] # 0
        <4>1. keys' = keys
          BY <2>1, <3>1
        <4>2. \A other \in AgentKinds : results'[other] # 0 => results[other] # 0
          BY <2>4, <3>1
        <4>3. \A i \in 1 .. Len(keys) : results'[keys[i]] # 0
          BY <2>2, <2>4, <3>0
        <4> QED
          BY <1>0, <4>1, <4>2, <4>3 DEF OrchestrationInv, ResultsInv
      <3>2. CASE results[kind] = 0
        <4> DEFINE last == Len(keys) + 1
        <4>1. /\ keys' \in Seq(AgentKinds) /\ Len(keys') = last /\ keys'[last] = kind
              /\ \A i \in 1 .. Len(keys) : keys'[i] = keys[i]
          BY <1>0, <2>1, <2>2, <3>2
        <4>2. /\ \A i \in 1 .. last : i = last \/ i \in 1 .. Len(keys)
              /\ last \in 1 .. last /\ 1 .. Len(keys) \subseteq 1 .. last
          BY <1>0
        <4> HIDE DEF last
        <4>3. \A i \in 1 .. Len(keys) : keys[i] # kind
          BY <3>0, <3>2
        <4>4. \A other \in AgentKinds : results'[other] # 0 => \E i \in 1 .. Len(keys') : keys'[i] = other
          <5> SUFFICES ASSUME NEW other \in AgentKinds, results'[other] # 0
                       PROVE  \E i \in 1 .. last : keys'[i] = other
            BY <4>1
          <5>1. CASE other = kind
            BY <4>1, <4>2, <5>1
          <5>2. CASE other # kind
            <6>1. PICK i \in 1 .. Len(keys) : keys[i] = other
              BY <2>4, <5>2 DEF OrchestrationInv, ResultsInv
            <6> QED
              BY <4>1, <4>2, <6>1
          <5> QED
            BY <5>1, <5>2
        <4>5. \A i \in 1 .. Len(keys') : results'[keys'[i]] # 0
          <5>1. \A i \in 1 .. Len(keys) : results'[keys[i]] # 0
            BY <2>4, <3>0, <4>3
          <5>2. results'[keys'[last]] # 0
            BY <2>2, <2>4, <4>1
          <5> QED
            BY <4>1, <4>2, <5>1, <5>2
        <4>6. \A i, j \in 1 .. Len(keys') : keys'[i] = keys'[j] => i = j
          <5>1. \A i, j \in 1 .. Len(keys) : keys[i] = keys[j] => i = j
            BY DEF OrchestrationInv, ResultsInv
          <5> SUFFICES ASSUME NEW i \in 1 .. last, NEW j \in 1 .. last, keys'[i] = keys'[j] PROVE i = j
            BY <4>1
          <5>2. CASE i = last
            BY <4>1, <4>2, <4>3, <5>2
          <5>3. CASE j = last
            BY <4>1, <4>2, <4>3, <5>3
          <5>4. CASE i # last /\ j # last
            BY <4>1, <4>2, <5>1, <5>4
          <5> QED
            BY <5>2, <5>3, <5>4
        <4> QED
          BY <4>1, <4>4, <4>5, <4>6
      <3> QED
        BY <3>1, <3>2
    <2>8. ResultsInv'
      <3>1. ran' \in 0 .. Len(work')
        BY <1>0, <2>1
      <3> QED
        BY <1>0, <2>1, <2>4, <2>5, <2>6, <2>7, <3>1 DEF ResultsInv
    <2>9. QuestionsInv'
      BY <2>1 DEF QuestionsInv
    <2>10. StageInv'
      <3>1. /\ stage' \in {"running", "challenging"}
            /\ stage' = "running" => m < Len(work)
            /\ stage' = "challenging" => m = Len(work)
        BY <1>0, <2>1 DEF Phase
      <3> QED
        BY <2>1, <3>1 DEF StageInv, OrchestrationInv
    <2> QED
      BY <2>8, <2>9, <2>10 DEF OrchestrationInv
  <1>3. CASE AskChallenge
    <2>1. PICK q \in Unposed :
            /\ stage = "challenging" /\ posed' = posed \cup {q}
            /\ challenges' = challenges \/ challenges' = Append(challenges, Made(q))
            /\ UNCHANGED <<stage, work, ran, results, keys>>
      BY <1>3 DEF AskChallenge, Made
    <2>2. q \in Questions /\ q \notin posed /\ Questions' = Questions
      BY <2>1 DEF Unposed, Questions
    <2>3. ResultsInv'
      BY <2>1 DEF OrchestrationInv, ResultsInv
    <2>4. Made(q) \in [by : Nat, target : AgentKinds, of : Nat]
      <3>1. q[1] \in 1 .. Len(work) /\ q[2] \in 1 .. Len(keys)
        BY <2>2 DEF Questions
      <3>2. q[1] \in Nat /\ keys[q[2]] \in AgentKinds
        BY <1>0, <3>1, ElementOfSeq
      <3>3. results[keys[q[2]]] \in Nat
        BY <1>0, <3>2
      <3> QED
        BY <3>2, <3>3 DEF Made
    <2>5. \A i \in 1 .. Len(challenges) : challenges[i] # Made(q)
      <3> SUFFICES ASSUME NEW i \in 1 .. Len(challenges), challenges[i] = Made(q) PROVE FALSE
        OBVIOUS
      <3>1. PICK r \in posed : Made(r) = Made(q)
        BY DEF OrchestrationInv, QuestionsInv
      <3>2. r \in Questions
        BY DEF OrchestrationInv, QuestionsInv
      <3>3. r[1] = q[1] /\ keys[r[2]] = keys[q[2]]
        BY <3>1 DEF Made
      <3>4. r[2] \in 1 .. Len(keys) /\ q[2] \in 1 .. Len(keys) /\ r = <<r[1], r[2]>> /\ q = <<q[1], q[2]>>
        BY <2>2, <3>2 DEF Questions
      <3>5. r[2] = q[2]
        BY <3>3, <3>4 DEF OrchestrationInv, ResultsInv
      <3> QED
        BY <2>2, <3>3, <3>4, <3>5
    <2>6. \A r \in posed' : Made(r)' = Made(r)
      BY <2>1 DEF Made
    <2>7. QuestionsInv' /\ challenges' \in Seq([by : Nat, target : AgentKinds, of : Nat])
      <3>0. challenges \in Seq([by : Nat, target : AgentKinds, of : Nat]) /\ Len(challenges) \in Nat
        BY DEF OrchestrationInv, StageInv
      <3>1. posed' \subseteq Questions'
        BY <2>1, <2>2 DEF OrchestrationInv, QuestionsInv
      <3>2. \A i \in 1 .. Len(challenges) : \E r \in posed' : challenges[i] = Made(r)
        BY <2>1 DEF OrchestrationInv, QuestionsInv
      <3>3. CASE challenges' = challenges
        BY <2>6, <3>0, <3>1, <3>2, <3>3 DEF OrchestrationInv, QuestionsInv
      <3>4. CASE challenges' = Append(challenges, Made(q))
        <4> DEFINE last == Len(challenges) + 1
        <4>1. /\ challenges' \in Seq([by : Nat, target : AgentKinds, of : Nat])
              /\ Len(challenges') = last /\ challenges'[last] = Made(q)
              /\ \A i \in 1 .. Len(challenges) : challenges'[i] = challenges[i]
          BY <2>4, <3>0, <3>4
        <4>2. \A i \in 1 .. last : i = last \/ i \in 1 .. Len(challenges)
          BY <3>0
        <4> HIDE DEF last
        <4>3. \A i \in 1 .. Len(challenges') : \E r \in posed' : challenges'[i] = Made(r)
          BY <2>1, <3>2, <4>1, <4>2
        <4>4. \A i, j \in 1 .. Len(challenges') : challenges'[i] = challenges'[j] => i = j
          BY <2>5, <4>1, <4>2 DEF OrchestrationInv, QuestionsInv
        <4> QED
          BY <2>6, <3>1, <4>1, <4>3, <4>4 DEF QuestionsInv
      <3> QED
        BY <2>1, <3>3, <3>4
    <2>8. StageInv'
      <3>1. stage' = "challenging" /\ ran' = Len(work')
        BY <2>1 DEF StageInv, OrchestrationInv
      <3> QED
        BY <2>7, <3>1 DEF StageInv
    <2> QED
      BY <2>3, <2>7, <2>8 DEF OrchestrationInv
  <1>4. CASE Conclude
    <2>1. /\ stage' = "returned" /\ Unposed = {} /\ ran = Len(work)
          /\ UNCHANGED <<work, ran, results, keys, posed, challenges>>
      BY <1>4 DEF Conclude, OrchestrationInv, StageInv
    <2>2. ResultsInv' /\ QuestionsInv'
      BY <2>1 DEF OrchestrationInv, ResultsInv, QuestionsInv, Made, Questions
    <2>3. Unposed' = Unposed
      BY <2>1 DEF Unposed
    <2>4. StageInv'
      BY <2>1, <2>3 DEF OrchestrationInv, StageInv
    <2> QED
      BY <2>2, <2>4 DEF OrchestrationInv
  <1>5. CASE OrchestrationRaises
    <2>1. stage' = "raised" /\ UNCHANGED <<work, ran, results, keys, posed, challenges>>
      BY <1>5 DEF OrchestrationRaises
    <2>2. ResultsInv'
      BY <2>1 DEF OrchestrationInv, ResultsInv
    <2>3. QuestionsInv'
      BY <2>1 DEF OrchestrationInv, QuestionsInv, Made, Questions
    <2>4. StageInv'
      BY <2>1 DEF OrchestrationInv, StageInv
    <2> QED
      BY <2>2, <2>3, <2>4 DEF OrchestrationInv
  <1>6. CASE UNCHANGED orchestrationVars
    <2>1. UNCHANGED <<stage, work, ran, results, keys, posed, challenges>>
      BY <1>6 DEF orchestrationVars
    <2>2. ResultsInv'
      BY <2>1 DEF OrchestrationInv, ResultsInv
    <2>3. QuestionsInv'
      BY <2>1 DEF OrchestrationInv, QuestionsInv, Made, Questions
    <2>4. StageInv'
      BY <2>1 DEF OrchestrationInv, StageInv, Unposed
    <2> QED
      BY <2>2, <2>3, <2>4 DEF OrchestrationInv
  <1> QED
    BY <1>1, <1>2, <1>3, <1>4, <1>5, <1>6 DEF OrchestrationNext

LEMMA ChallengesFit ==
  ASSUME OrchestrationInv
  PROVE  ChallengesFitResults
  <1>0. /\ work \in Seq(AgentKinds) /\ Len(work) \in Nat /\ keys \in Seq(AgentKinds)
        /\ \A n \in 1 .. Len(work) : work[n] \in AgentKinds
        /\ \A i \in 1 .. Len(keys) : keys[i] \in AgentKinds
    BY ElementOfSeq DEF OrchestrationInv, ResultsInv
  <1>1. stage = "escalated" => ran = 0 /\ posed = {}
    BY DEF OrchestrationInv, StageInv
  <1> SUFFICES ASSUME stage = "returned" PROVE ChallengesFitResults
    BY <1>1 DEF ChallengesFitResults
  <1>2. ran = Len(work) /\ Unposed = {}
    BY DEF OrchestrationInv, StageInv
  <1>3. ASSUME NEW n \in 1 .. Len(work)
        PROVE  n <= results[work[n]] /\ work[results[work[n]]] = work[n] /\ results[work[n]] # 0
    <2>1. n <= results[work[n]] /\ results[work[n]] \in 0 .. ran
      BY <1>0, <1>2 DEF OrchestrationInv, ResultsInv
    <2>2. results[work[n]] # 0
      BY <1>0, <1>2, <2>1
    <2> QED
      BY <1>0, <2>1, <2>2 DEF OrchestrationInv, ResultsInv
  <1>4. ASSUME NEW i \in 1 .. Len(challenges)
        PROVE  LET made == challenges[i]
               IN /\ made.of = results[made.target] /\ work[made.of] # work[made.by]
                  /\ \A j \in 1 .. i - 1 : challenges[j] # made
    <2>1. PICK q \in posed : challenges[i] = Made(q)
      BY DEF OrchestrationInv, QuestionsInv
    <2>2. q[2] \in 1 .. Len(keys) /\ keys[q[2]] # work[q[1]]
      BY DEF OrchestrationInv, QuestionsInv, Questions
    <2>3. work[results[keys[q[2]]]] = keys[q[2]]
      BY <1>0, <2>2 DEF OrchestrationInv, ResultsInv
    <2>4. /\ challenges[i].of = results[challenges[i].target]
          /\ work[challenges[i].of] # work[challenges[i].by]
      BY <2>1, <2>2, <2>3 DEF Made
    <2>5. \A j \in 1 .. i - 1 : j \in 1 .. Len(challenges) /\ j # i
      OBVIOUS
    <2> QED
      BY <2>4, <2>5 DEF OrchestrationInv, QuestionsInv
  <1>5. ASSUME NEW by \in 1 .. Len(work), NEW n \in 1 .. Len(work), work[n] # work[by]
        PROVE  \E q \in posed : {r \in posed : r[1] = by /\ keys[r[2]] = work[n]} = {q}
    <2>1. PICK i \in 1 .. Len(keys) : keys[i] = work[n]
      BY <1>0, <1>3 DEF OrchestrationInv, ResultsInv
    <2>2. <<by, i>> \in Questions
      BY <1>5, <2>1 DEF Questions
    <2>3. <<by, i>> \in posed
      BY <1>2, <2>2 DEF Unposed, Questions
    <2>4. ASSUME NEW r \in posed, r[1] = by, keys[r[2]] = work[n]
          PROVE  r = <<by, i>>
      <3>1. r[2] \in 1 .. Len(keys) /\ r = <<r[1], r[2]>>
        BY DEF OrchestrationInv, QuestionsInv, Questions
      <3>2. r[2] = i
        BY <2>1, <2>4, <3>1 DEF OrchestrationInv, ResultsInv
      <3> QED
        BY <2>4, <3>1, <3>2
    <2> QED
      BY <2>1, <2>3, <2>4
  <1> QED
    BY <1>3, <1>4, <1>5, <1>1 DEF ChallengesFitResults

\* For any number of assignments of any kinds, whatever agents answer and whichever of
\* them raises: in what AgentOrchestrator.run returns, the results are those of the last
\* assignments of their kinds, and the challenges were made of them.
THEOREM ChallengesAlwaysFitResults ==
  OrchestrationSpec => []ChallengesFitResults
  <1>0. OrchestrationAssumption
    BY OrchestrationAssumption
  <1>1. OrchestrationInit => OrchestrationInv
    <2> SUFFICES ASSUME OrchestrationInit PROVE OrchestrationInv
      OBVIOUS
    <2>1. /\ work = <<>> /\ Len(work) = 0 /\ keys = <<>> /\ Len(keys) = 0 /\ ran = 0
          /\ challenges = <<>> /\ Len(challenges) = 0 /\ posed = {} /\ stage = "idle"
      BY DEF OrchestrationInit
    <2>2. results \in [AgentKinds -> 0 .. 0] /\ \A kind \in AgentKinds : results[kind] = 0
      BY DEF OrchestrationInit
    <2> QED
      BY <2>1, <2>2 DEF OrchestrationInv, ResultsInv, QuestionsInv, StageInv
  <1>2. OrchestrationInv /\ [OrchestrationNext]_orchestrationVars => OrchestrationInv'
    BY <1>0, OrchestrationInductive
  <1>3. OrchestrationInv => ChallengesFitResults
    BY ChallengesFit
  <1> QED
    BY <1>1, <1>2, <1>3, PTL DEF OrchestrationSpec

-----------------------------------------------------------------------------
\* The facade of the SDK

\* What is added to a history by other runs changes nothing of what it tells of these.
LEMMA OthersTell ==
  ASSUME NEW S, NEW list \in Seq(S), NEW more \in Seq(S), NEW runs, NEW entries \in Seq(S),
         Tells(list, runs, entries), \A i \in 1 .. Len(more) : more[i].run \notin runs
  PROVE  /\ Tells(list \o more, runs, entries)
         /\ Places(list \o more, runs) = Places(list, runs)
  <1>1. /\ Len(list) \in Nat /\ Len(more) \in Nat /\ Len(list \o more) = Len(list) + Len(more)
        /\ \A n \in 1 .. Len(list) : (list \o more)[n] = list[n]
        /\ \A i \in 1 .. Len(more) : (list \o more)[Len(list) + i] = more[i]
    OBVIOUS
  <1>2. \A n \in 1 .. Len(list) + Len(more) :
          \/ n \in 1 .. Len(list)
          \/ \E i \in 1 .. Len(more) : n = Len(list) + i
    <2> SUFFICES ASSUME NEW n \in 1 .. Len(list) + Len(more), n \notin 1 .. Len(list)
                 PROVE  \E i \in 1 .. Len(more) : n = Len(list) + i
      OBVIOUS
    <2>1. n - Len(list) \in 1 .. Len(more) /\ n = Len(list) + (n - Len(list))
      BY <1>1
    <2> QED
      BY <2>1
  <1>3. \A n \in 1 .. Len(list) : n \in 1 .. Len(list) + Len(more)
    BY <1>1
  <1>4. Places(list \o more, runs) = Places(list, runs)
    <2> DEFINE whole == list \o more
    <2>1. Places(whole, runs) = {n \in 1 .. Len(list) + Len(more) : whole[n].run \in runs}
      BY <1>1 DEF Places
    <2>2. \A n \in 1 .. Len(list) : whole[n] = list[n]
      BY <1>1
    <2>3. \A i \in 1 .. Len(more) : whole[Len(list) + i].run \notin runs
      BY <1>1
    <2> HIDE DEF whole
    <2>4. \A n \in 1 .. Len(list) + Len(more) : whole[n].run \in runs => n \in 1 .. Len(list)
      BY <1>2, <2>3
    <2>5. Places(whole, runs) = Places(list, runs)
      BY <1>3, <2>1, <2>2, <2>4 DEF Places
    <2> QED
      BY <2>5 DEF whole
  <1>5. PICK at \in [1 .. Len(entries) -> Places(list, runs)] :
          /\ \A i, j \in 1 .. Len(entries) : i < j => at[i] < at[j]
          /\ \A n \in Places(list, runs) : \E i \in 1 .. Len(entries) : at[i] = n
          /\ \A i \in 1 .. Len(entries) : list[at[i]] = entries[i]
    BY DEF Tells
  <1>6. \A i \in 1 .. Len(entries) : at[i] \in 1 .. Len(list)
    BY DEF Places
  <1>7. \A i \in 1 .. Len(entries) : (list \o more)[at[i]] = entries[i]
    BY <1>1, <1>5, <1>6
  <1>8. Tells(list \o more, runs, entries)
    BY <1>4, <1>5, <1>7 DEF Tells
  <1> QED
    BY <1>4, <1>8

\* What is added to a history by these runs follows what it told of them.
LEMMA TheyTell ==
  ASSUME NEW S, NEW list \in Seq(S), NEW more \in Seq(S), NEW runs, NEW entries \in Seq(S),
         Tells(list, runs, entries), \A i \in 1 .. Len(more) : more[i].run \in runs
  PROVE  Tells(list \o more, runs, entries \o more)
  <1> DEFINE k == Len(entries)
             l == Len(list)
             m == Len(more)
             whole == list \o more
             all == entries \o more
  <1>1. /\ l \in Nat /\ m \in Nat /\ k \in Nat /\ Len(whole) = l + m /\ Len(all) = k + m
        /\ \A n \in 1 .. l : whole[n] = list[n]
        /\ \A i \in 1 .. m : whole[l + i] = more[i]
        /\ \A n \in 1 .. k : all[n] = entries[n]
        /\ \A i \in 1 .. m : all[k + i] = more[i]
    OBVIOUS
  <1>2. PICK at \in [1 .. k -> Places(list, runs)] :
          /\ \A i, j \in 1 .. k : i < j => at[i] < at[j]
          /\ \A n \in Places(list, runs) : \E i \in 1 .. k : at[i] = n
          /\ \A i \in 1 .. k : list[at[i]] = entries[i]
    BY DEF Tells
  <1> DEFINE after == [i \in 1 .. k + m |-> IF i <= k THEN at[i] ELSE l + (i - k)]
  <1> HIDE DEF k, l, m, whole, all
  <1>3. /\ \A i \in 1 .. k : i \in 1 .. k + m /\ after[i] = at[i]
        /\ \A i \in 1 .. m : k + i \in 1 .. k + m /\ after[k + i] = l + i
    BY <1>1
  <1>4. \A i \in 1 .. k + m : i \in 1 .. k \/ \E j \in 1 .. m : i = k + j
    <2> SUFFICES ASSUME NEW i \in 1 .. k + m, i \notin 1 .. k PROVE \E j \in 1 .. m : i = k + j
      OBVIOUS
    <2>1. i - k \in 1 .. m /\ i = k + (i - k)
      BY <1>1
    <2> QED
      BY <2>1
  <1>5. \A n \in 1 .. l + m : n \in 1 .. l \/ \E j \in 1 .. m : n = l + j
    <2> SUFFICES ASSUME NEW n \in 1 .. l + m, n \notin 1 .. l PROVE \E j \in 1 .. m : n = l + j
      OBVIOUS
    <2>1. n - l \in 1 .. m /\ n = l + (n - l)
      BY <1>1
    <2> QED
      BY <2>1
  <1>6. Places(list, runs) = {n \in 1 .. l : list[n].run \in runs}
    BY DEF Places, l
  <1>7. \A i \in 1 .. k : at[i] \in 1 .. l /\ list[at[i]].run \in runs
    BY <1>2, <1>6
  <1>8. Places(whole, runs) = {n \in 1 .. l + m : whole[n].run \in runs}
    BY <1>1 DEF Places
  <1>9. /\ \A n \in 1 .. l : n \in 1 .. l + m
        /\ \A i \in 1 .. m : l + i \in 1 .. l + m
        /\ \A n \in 1 .. l, i \in 1 .. m : n < l + i
        /\ \A i, j \in 1 .. m : i < j => l + i < l + j
        /\ \A i, j \in 1 .. m : k + i < k + j => i < j
        /\ \A i \in 1 .. k, j \in 1 .. m : ~(k + j < i)
    BY <1>1
  <1>10. \A n \in 1 .. l : whole[n].run \in runs => n \in Places(list, runs)
    BY <1>1, <1>6
  <1>11. \A i \in 1 .. k : at[i] \in Places(whole, runs)
    BY <1>1, <1>7, <1>8, <1>9
  <1>12. \A i \in 1 .. m : l + i \in Places(whole, runs)
    <2>1. \A i \in 1 .. m : more[i].run \in runs
      BY DEF m
    <2> QED
      BY <1>1, <1>8, <1>9, <2>1
  <1>13. \A i \in 1 .. k + m : after[i] \in Places(whole, runs)
    <2> SUFFICES ASSUME NEW i \in 1 .. k + m PROVE after[i] \in Places(whole, runs)
      OBVIOUS
    <2> HIDE DEF after
    <2>1. CASE i \in 1 .. k
      BY <1>3, <1>11, <2>1
    <2>2. ASSUME NEW j \in 1 .. m, i = k + j PROVE after[i] \in Places(whole, runs)
      BY <1>3, <1>12, <2>2
    <2> QED
      BY <1>4, <2>1, <2>2
  <1>14. after \in [1 .. k + m -> Places(whole, runs)]
    BY <1>13
  <1> HIDE DEF after
  <1>15. \A i, j \in 1 .. k + m : i < j => after[i] < after[j]
    <2> SUFFICES ASSUME NEW i \in 1 .. k + m, NEW j \in 1 .. k + m, i < j
                 PROVE  after[i] < after[j]
      OBVIOUS
    <2>1. CASE i \in 1 .. k /\ j \in 1 .. k
      BY <1>2, <1>3, <2>1
    <2>2. ASSUME i \in 1 .. k, NEW q \in 1 .. m, j = k + q PROVE after[i] < after[j]
      BY <1>3, <1>7, <1>9, <2>2
    <2>3. ASSUME NEW p \in 1 .. m, i = k + p, NEW q \in 1 .. m, j = k + q PROVE after[i] < after[j]
      <3>1. p < q
        BY <1>9, <2>3
      <3> QED
        BY <1>3, <1>9, <2>3, <3>1
    <2>4. ASSUME NEW p \in 1 .. m, i = k + p, j \in 1 .. k PROVE FALSE
      BY <1>9, <2>4
    <2> QED
      BY <1>4, <2>1, <2>2, <2>3, <2>4
  <1>16. \A n \in Places(whole, runs) : \E i \in 1 .. k + m : after[i] = n
    <2> SUFFICES ASSUME NEW n \in 1 .. l + m, whole[n].run \in runs
                 PROVE  \E i \in 1 .. k + m : after[i] = n
      BY <1>8
    <2>1. CASE n \in 1 .. l
      <3>1. PICK i \in 1 .. k : at[i] = n
        BY <1>2, <1>10, <2>1
      <3> QED
        BY <1>3, <3>1
    <2>2. ASSUME NEW j \in 1 .. m, n = l + j PROVE \E i \in 1 .. k + m : after[i] = n
      BY <1>3, <2>2
    <2> QED
      BY <1>5, <2>1, <2>2
  <1>17. \A i \in 1 .. k + m : whole[after[i]] = all[i]
    <2> SUFFICES ASSUME NEW i \in 1 .. k + m PROVE whole[after[i]] = all[i]
      OBVIOUS
    <2>1. CASE i \in 1 .. k
      <3>1. after[i] = at[i] /\ at[i] \in 1 .. l /\ list[at[i]] = entries[i]
        BY <1>2, <1>3, <1>7, <2>1
      <3>2. whole[at[i]] = list[at[i]] /\ all[i] = entries[i]
        BY <1>1, <2>1, <3>1
      <3> QED
        BY <3>1, <3>2
    <2>2. ASSUME NEW j \in 1 .. m, i = k + j PROVE whole[after[i]] = all[i]
      BY <1>1, <1>3, <2>2
    <2> QED
      BY <1>4, <2>1, <2>2
  <1>18. Len(all) = k + m
    BY <1>1
  <1>19. Tells(whole, runs, all)
    <2> DEFINE size == Len(all)
    <2>1. /\ after \in [1 .. size -> Places(whole, runs)]
          /\ \A i, j \in 1 .. size : i < j => after[i] < after[j]
          /\ \A n \in Places(whole, runs) : \E i \in 1 .. size : after[i] = n
          /\ \A i \in 1 .. size : whole[after[i]] = all[i]
      BY <1>14, <1>15, <1>16, <1>17, <1>18
    <2> QED
      BY <2>1, Zenon DEF Tells
  <1> QED
    BY <1>19 DEF whole, all

\* A run of which nothing is told has no entry, and may be counted among others.
LEMMA NothingTold ==
  ASSUME NEW list, NEW r, Tells(list, {r}, <<>>)
  PROVE  /\ \A n \in 1 .. Len(list) : list[n].run # r
         /\ \A runs : Places(list, runs \cup {r}) = Places(list, runs)
         /\ \A runs, entries : Tells(list, runs, entries) => Tells(list, runs \cup {r}, entries)
  <1>1. Len(<<>>) = 0 /\ 1 .. 0 = {}
    OBVIOUS
  <1>2. Places(list, {r}) = {}
    BY <1>1 DEF Tells
  <1>3. \A n \in 1 .. Len(list) : list[n].run # r
    BY <1>2 DEF Places
  <1>4. \A runs : Places(list, runs \cup {r}) = Places(list, runs)
    BY <1>3 DEF Places
  <1> QED
    BY <1>3, <1>4 DEF Tells

SdkEntry == [run : Runs, text : {"started", "success", "failed"}]

RunRecord ==
  [job : Job \cup {"none"}, task : Tasks \cup {AnyTask}, awaits : BOOLEAN, outcome : Outcome]

KeepRuns == {r \in Runs : run[r].job = "keep"}

\* A run that awaits, or has not begun, has not ended; and the property itself.
SdkInv ==
  /\ result \in [Tasks -> Result] /\ run \in [Runs -> RunRecord]
  /\ history \in Seq(SdkEntry) /\ added \in Seq(Runs)
  /\ \A r \in Runs : run[r].awaits \/ Fresh(r) => run[r].outcome = "none"
  /\ \A r \in Runs : Fresh(r) => ~run[r].awaits
  /\ ResultsFollowHistory

\* What a run tells.
LEMMA RunsEntries ==
  ASSUME NEW r \in Runs
  PROVE  /\ \A text \in {"started", "success", "failed"} :
              /\ <<Entry(r, text)>> \in Seq(SdkEntry)
              /\ \A i \in 1 .. Len(<<Entry(r, text)>>) : <<Entry(r, text)>>[i].run = r
         /\ \A job : /\ Opening(job, r) \in Seq(SdkEntry)
                     /\ \A i \in 1 .. Len(Opening(job, r)) : Opening(job, r)[i].run = r
         /\ \A outcome : /\ Closing(r, outcome) \in Seq(SdkEntry)
                         /\ \A i \in 1 .. Len(Closing(r, outcome)) : Closing(r, outcome)[i].run = r
         /\ \A outcome : /\ Returned(r, outcome) \in Seq(SdkEntry)
                         /\ \A i \in 1 .. Len(Returned(r, outcome)) : Returned(r, outcome)[i].run = r
  <1>1. ASSUME NEW text \in {"started", "success", "failed"}
        PROVE  /\ <<Entry(r, text)>> \in Seq(SdkEntry)
               /\ \A i \in 1 .. Len(<<Entry(r, text)>>) : <<Entry(r, text)>>[i].run = r
    <2>1. Entry(r, text) \in SdkEntry /\ Entry(r, text).run = r
      BY DEF Entry, SdkEntry
    <2> QED
      BY <2>1
  <1>2. <<>> \in Seq(SdkEntry) /\ \A i \in 1 .. Len(<<>>) : FALSE
    OBVIOUS
  <1>3. ASSUME NEW job
        PROVE  /\ Opening(job, r) \in Seq(SdkEntry)
               /\ \A i \in 1 .. Len(Opening(job, r)) : Opening(job, r)[i].run = r
    BY <1>1, <1>2 DEF Opening
  <1>4. ASSUME NEW outcome
        PROVE  /\ Closing(r, outcome) \in Seq(SdkEntry)
               /\ \A i \in 1 .. Len(Closing(r, outcome)) : Closing(r, outcome)[i].run = r
    <2>1. CASE outcome = "completed"
      BY <1>1, <2>1 DEF Closing
    <2>2. CASE outcome # "completed"
      BY <1>1, <2>2 DEF Closing
    <2> QED
      BY <2>1, <2>2
  <1>5. ASSUME NEW outcome
        PROVE  /\ Returned(r, outcome) \in Seq(SdkEntry)
               /\ \A i \in 1 .. Len(Returned(r, outcome)) : Returned(r, outcome)[i].run = r
    BY <1>1, <1>2 DEF Returned
  <1> QED
    BY <1>1, <1>3, <1>4, <1>5

LEMMA EntriesOfOne ==
  ASSUME NEW r \in Runs, NEW job, NEW outcome
  PROVE  /\ Opening(job, r) \o Closing(r, outcome) \in Seq(SdkEntry)
         /\ \A i \in 1 .. Len(Opening(job, r) \o Closing(r, outcome)) :
              (Opening(job, r) \o Closing(r, outcome))[i].run = r
  <1> DEFINE one == Opening(job, r)
             two == Closing(r, outcome)
  <1>1. /\ one \in Seq(SdkEntry) /\ \A i \in 1 .. Len(one) : one[i].run = r
        /\ two \in Seq(SdkEntry) /\ \A i \in 1 .. Len(two) : two[i].run = r
    BY RunsEntries
  <1> HIDE DEF one, two
  <1>2. /\ Len(one) \in Nat /\ Len(two) \in Nat /\ Len(one \o two) = Len(one) + Len(two)
        /\ one \o two \in Seq(SdkEntry)
        /\ \A i \in 1 .. Len(one) + Len(two) :
             (one \o two)[i] = IF i <= Len(one) THEN one[i] ELSE two[i - Len(one)]
    BY <1>1
  <1>3. \A i \in 1 .. Len(one) + Len(two) :
          IF i <= Len(one) THEN i \in 1 .. Len(one) ELSE i - Len(one) \in 1 .. Len(two)
    BY <1>2
  <1>4. one \o two \in Seq(SdkEntry) /\ \A i \in 1 .. Len(one \o two) : (one \o two)[i].run = r
    BY <1>1, <1>2, <1>3
  <1> QED
    BY <1>4 DEF one, two

\* What a step of one run leaves as it was.
LEMMA OneRunSteps ==
  ASSUME SdkInv, NEW r \in Runs, NEW new \in RunRecord, NEW more \in Seq(SdkEntry),
         run' = [run EXCEPT ![r] = new], history' = history \o more,
         \A i \in 1 .. Len(more) : more[i].run = r
  PROVE  /\ run' \in [Runs -> RunRecord] /\ history' \in Seq(SdkEntry)
         /\ run'[r] = new /\ \A q \in Runs \ {r} : run'[q] = run[q]
         /\ \A q \in Runs \ {r} : RunIsTold(q)'
         /\ \A entries \in Seq(SdkEntry) :
              Tells(history, {r}, entries) => Tells(history', {r}, entries \o more)
         /\ \A t \in Tasks : result'[t] = result[t] /\ r \notin AgentsOf(t) /\ r \notin AgentsOf(t)'
              => TaskFollowsHistory(t)'
         /\ run[r].job # "keep" /\ new.job # "keep" /\ added' = added
              => Tells(history', KeepRuns', KeepsTold')
  <1>0. run \in [Runs -> RunRecord] /\ history \in Seq(SdkEntry) /\ added \in Seq(Runs)
    BY DEF SdkInv
  <1>1. /\ run' \in [Runs -> RunRecord] /\ run'[r] = new
        /\ \A q \in Runs \ {r} : run'[q] = run[q]
    BY <1>0
  <1>2. /\ history' \in Seq(SdkEntry) /\ Len(history') = Len(history) + Len(more)
        /\ Len(history) \in Nat /\ Len(more) \in Nat
        /\ \A n \in 1 .. Len(history) : history'[n] = history[n]
    BY <1>0
  <1>3. ASSUME NEW runs, r \notin runs, NEW entries \in Seq(SdkEntry), Tells(history, runs, entries)
        PROVE  Tells(history', runs, entries)
    <2>1. Tells(history \o more, runs, entries)
      BY <1>0, <1>3, OthersTell
    <2> QED
      BY <2>1
  <1>4. ASSUME NEW entries \in Seq(SdkEntry), Tells(history, {r}, entries)
        PROVE  Tells(history', {r}, entries \o more)
    <2>1. \A i \in 1 .. Len(more) : more[i].run \in {r}
      OBVIOUS
    <2>2. Tells(history \o more, {r}, entries \o more)
      BY <1>0, <1>4, <2>1, TheyTell
    <2> QED
      BY <2>2
  <1>5. ASSUME NEW q \in Runs \ {r} PROVE RunIsTold(q)'
    <2>1. RunIsTold(q) /\ run'[q] = run[q]
      BY <1>1 DEF SdkInv, ResultsFollowHistory
    <2>2. r \notin {q}
      OBVIOUS
    <2>3. \A entries \in Seq(SdkEntry) : Tells(history, {q}, entries) => Tells(history', {q}, entries)
      BY <1>3, <2>2
    <2>4. /\ Opening(run[q].job, q) \in Seq(SdkEntry)
          /\ Opening(run[q].job, q) \o Closing(q, run[q].outcome) \in Seq(SdkEntry)
          /\ <<Entry(q, "success")>> \in Seq(SdkEntry)
      BY RunsEntries, EntriesOfOne
    <2> QED
      BY <2>1, <2>3, <2>4 DEF RunIsTold
  <1>6. ASSUME NEW t \in Tasks, result'[t] = result[t], r \notin AgentsOf(t), r \notin AgentsOf(t)'
        PROVE  TaskFollowsHistory(t)'
    <2>1. AgentsOf(t)' = AgentsOf(t)
      BY <1>1, <1>6 DEF AgentsOf
    <2>2. Places(history', AgentsOf(t)) = Places(history, AgentsOf(t))
      <3>1. \A n \in 1 .. Len(history') :
              n \in 1 .. Len(history) \/ history'[n].run = r
        <4> SUFFICES ASSUME NEW n \in 1 .. Len(history'), n \notin 1 .. Len(history)
                     PROVE  history'[n].run = r
          OBVIOUS
        <4>1. n - Len(history) \in 1 .. Len(more) /\ n \in 1 .. Len(history) + Len(more)
              /\ ~(n <= Len(history))
          BY <1>2
        <4>2. history'[n] = more[n - Len(history)]
          BY <1>0, <1>2, <4>1
        <4> QED
          BY <4>1, <4>2
      <3>2. \A n \in 1 .. Len(history) : n \in 1 .. Len(history')
        BY <1>2
      <3> QED
        BY <1>2, <1>6, <3>1, <3>2 DEF Places
    <2>3. \A n \in Places(history, AgentsOf(t)) :
            history'[n] = history[n] /\ run'[history'[n].run] = run[history[n].run]
      BY <1>1, <1>2, <1>6 DEF Places, AgentsOf
    <2>4. \A q \in AgentsOf(t) : run'[q] = run[q]
      BY <1>1, <1>6 DEF AgentsOf
    <2>5. TaskFollowsHistory(t)
      BY DEF SdkInv, ResultsFollowHistory
    <2> QED
      BY <1>6, <2>1, <2>2, <2>3, <2>4, <2>5 DEF TaskFollowsHistory
  <1>7. ASSUME run[r].job # "keep", new.job # "keep", added' = added
        PROVE  Tells(history', KeepRuns', KeepsTold')
    <2>1. KeepRuns' = KeepRuns /\ r \notin KeepRuns /\ KeepsTold' = KeepsTold
      BY <1>1, <1>7 DEF KeepRuns, KeepsTold
    <2>2. KeepsTold \in Seq(SdkEntry)
      <3>1. \A n \in 1 .. Len(added) : Entry(added[n], "success") \in SdkEntry
        BY <1>0, ElementOfSeq DEF Entry, SdkEntry
      <3>2. Len(added) \in Nat
        BY <1>0
      <3> QED
        BY <3>1, <3>2 DEF KeepsTold
    <2>3. Tells(history, KeepRuns, KeepsTold)
      BY DEF SdkInv, ResultsFollowHistory, KeepRuns
    <2> QED
      BY <1>3, <2>1, <2>2, <2>3
  <1> QED
    BY <1>1, <1>2, <1>4, <1>5, <1>6, <1>7

\* What is told of a run that has not begun, and of one that awaits.
LEMMA ToldSoFar ==
  ASSUME SdkInv, NEW r \in Runs
  PROVE  /\ Fresh(r) => Tells(history, {r}, <<>>)
         /\ \A job : Awaits(r, job) => Tells(history, {r}, Opening(job, r))
  <1>1. RunIsTold(r)
    BY DEF SdkInv, ResultsFollowHistory
  <1>2. Fresh(r) \/ run[r].awaits => Tells(history, {r}, Opening(run[r].job, r))
    BY <1>1 DEF SdkInv, RunIsTold
  <1> QED
    BY <1>2 DEF Fresh, Awaits, Opening

LEMMA NothingAdded ==
  /\ <<>> \in Seq(SdkEntry)
  /\ \A entries \in Seq(SdkEntry) : <<>> \o entries = entries /\ entries \o <<>> = entries
  /\ \A i \in 1 .. Len(<<>>) : FALSE
  OBVIOUS

\* A step of one run keeps the invariant, if its entries fit and the tasks follow.
LEMMA SdkStep ==
  ASSUME SdkInv, NEW r \in Runs, NEW new \in RunRecord, NEW more \in Seq(SdkEntry),
         NEW prior \in Seq(SdkEntry),
         run' = [run EXCEPT ![r] = new], history' = history \o more,
         \A i \in 1 .. Len(more) : more[i].run = r,
         result' \in [Tasks -> Result], added' = added,
         run[r].job # "keep", new.job \notin {"none", "keep"}, new.awaits => new.outcome = "none",
         Tells(history, {r}, prior),
         \/ prior \o more = Opening(new.job, r) /\ new.outcome \in {"none", "raised", "cancelled"}
         \/ /\ prior \o more = Opening(new.job, r) \o Closing(r, new.outcome)
            /\ new.outcome \in {"completed", "failed"} /\ new.job # "agent"
         \/ prior \o more = <<Entry(r, "success")>>
              /\ new.outcome \in {"completed", "failed"} /\ new.job = "agent",
         \A t \in Tasks :
           \/ TaskFollowsHistory(t)'
           \/ result'[t] = result[t] /\ r \notin AgentsOf(t) /\ r \notin AgentsOf(t)'
  PROVE  SdkInv'
  <1>1. /\ run' \in [Runs -> RunRecord] /\ history' \in Seq(SdkEntry)
        /\ run'[r] = new /\ \A q \in Runs \ {r} : run'[q] = run[q]
        /\ \A q \in Runs \ {r} : RunIsTold(q)'
        /\ Tells(history', {r}, prior \o more)
        /\ Tells(history', KeepRuns', KeepsTold')
    BY OneRunSteps
  <1>2. \A t \in Tasks : TaskFollowsHistory(t)'
    BY OneRunSteps
  <1>3. RunIsTold(r)'
    BY <1>1 DEF RunIsTold
  <1>4. ResultsFollowHistory'
    BY <1>1, <1>2, <1>3 DEF ResultsFollowHistory, KeepRuns
  <1>5. /\ \A q \in Runs : run'[q].awaits \/ run'[q].job = "none" => run'[q].outcome = "none"
        /\ \A q \in Runs : run'[q].job = "none" => ~run'[q].awaits
    BY <1>1 DEF SdkInv, Fresh
  <1> QED
    BY <1>1, <1>4, <1>5 DEF SdkInv, Fresh

\* What a step enters for a run that ends at once, and for one that awaits; and what
\* is left when an awaiting run ends.
LEMMA RecordEnded ==
  ASSUME NEW job \in Job, NEW t \in Tasks \cup {AnyTask}, NEW outcome \in Outcome
  PROVE  \E new \in RunRecord :
           /\ new = [job |-> job, task |-> t, awaits |-> FALSE, outcome |-> outcome]
           /\ new.job = job /\ new.task = t /\ ~new.awaits /\ new.outcome = outcome
  <1> DEFINE new == [job |-> job, task |-> t, awaits |-> FALSE, outcome |-> outcome]
  <1>1. /\ new \in RunRecord
        /\ new.job = job /\ new.task = t /\ ~new.awaits /\ new.outcome = outcome
    BY DEF RunRecord
  <1> QED
    BY <1>1

LEMMA RecordAwaits ==
  ASSUME NEW job \in Job, NEW t \in Tasks \cup {AnyTask}
  PROVE  \E new \in RunRecord :
           /\ new = [job |-> job, task |-> t, awaits |-> TRUE, outcome |-> "none"]
           /\ new.job = job /\ new.task = t /\ new.awaits /\ new.outcome = "none"
  <1> DEFINE new == [job |-> job, task |-> t, awaits |-> TRUE, outcome |-> "none"]
  <1>1. /\ new \in RunRecord
        /\ new.job = job /\ new.task = t /\ new.awaits /\ new.outcome = "none"
    BY DEF RunRecord, Outcome
  <1> QED
    BY <1>1

LEMMA RecordLeft ==
  ASSUME SdkInv, NEW r \in Runs, NEW job \in Job, NEW outcome \in Outcome,
         Awaits(r, job), Left(r, outcome)
  PROVE  \E new \in RunRecord :
           /\ run' = [run EXCEPT ![r] = new]
           /\ new.job = job /\ new.task = run[r].task /\ ~new.awaits /\ new.outcome = outcome
  <1> DEFINE new == [run[r] EXCEPT !.awaits = FALSE, !.outcome = outcome]
  <1>1. run \in [Runs -> RunRecord] /\ run[r] \in RunRecord
    BY DEF SdkInv
  <1>2. /\ new \in RunRecord /\ new.job = job /\ new.task = run[r].task
        /\ ~new.awaits /\ new.outcome = outcome
    BY <1>1 DEF RunRecord, Awaits
  <1>3. run' = [run EXCEPT ![r] = new]
    BY <1>1 DEF Left
  <1> HIDE DEF new
  <1> QED
    BY <1>2, <1>3

\* What runs that are no agents do keeps the invariant: they leave the results alone.
LEMMA OthersStep ==
  ASSUME SdkInv, NEW r \in Runs,
         \/ \E t \in Tasks : HandlerAnswers(r, t) \/ HandlerStarts(r, t)
         \/ HandlerReturns(r) \/ HandlerCancelled(r) \/ CallAnswers(r) \/ CallStarts(r) \/ CallEnds(r)
  PROVE  SdkInv'
  <1>0. result \in [Tasks -> Result] /\ history \in Seq(SdkEntry)
    BY DEF SdkInv
  <1>1. ASSUME NEW new \in RunRecord, NEW more \in Seq(SdkEntry), NEW prior \in Seq(SdkEntry),
               run' = [run EXCEPT ![r] = new], history' = history \o more,
               \A i \in 1 .. Len(more) : more[i].run = r,
               UNCHANGED <<result, added>>,
               run[r].job \notin {"agent", "keep"}, new.job \in {"engineering", "workflow", "call"},
               new.awaits => new.outcome = "none", Tells(history, {r}, prior),
               \/ /\ prior \o more = Opening(new.job, r)
                  /\ new.outcome \in {"none", "raised", "cancelled"}
               \/ /\ prior \o more = Opening(new.job, r) \o Closing(r, new.outcome)
                  /\ new.outcome \in {"completed", "failed"}
        PROVE  SdkInv'
    <2>1. run'[r] = new
      BY <1>1, OneRunSteps
    <2>2. \A t \in Tasks : result'[t] = result[t] /\ r \notin AgentsOf(t) /\ r \notin AgentsOf(t)'
      BY <1>1, <2>1 DEF AgentsOf
    <2>3. result' \in [Tasks -> Result]
      BY <1>0, <1>1
    <2>4. new.job \notin {"none", "keep"} /\ new.job # "agent" /\ run[r].job # "keep" /\ added' = added
      BY <1>1
    <2> QED
      BY <1>1, <2>2, <2>3, <2>4, SdkStep
  <1>2. /\ Opening("call", r) = <<>>
        /\ Closing(r, "completed") = <<Entry(r, "success")>>
        /\ Returned(r, "completed") = <<Entry(r, "success")>>
        /\ Returned(r, "raised") = <<>> /\ Returned(r, "cancelled") = <<>>
    BY DEF Opening, Closing, Returned
  <1>3. history = history \o <<>>
    BY <1>0, NothingAdded
  <1>4. \A job : Opening(job, r) \in Seq(SdkEntry)
    BY RunsEntries
  <1>5. Fresh(r) => Tells(history, {r}, <<>>) /\ run[r].job \notin {"agent", "keep"}
    BY ToldSoFar DEF Fresh
  <1>6. \A job \in {"engineering", "workflow", "call"} :
          Awaits(r, job) => Tells(history, {r}, Opening(job, r)) /\ run[r].job \notin {"agent", "keep"}
    BY ToldSoFar DEF Awaits
  <1>7. ASSUME NEW t \in Tasks, HandlerAnswers(r, t) PROVE SdkInv'
    <2>1. PICK job \in {"engineering", "workflow"}, outcome \in {"completed", "failed"} :
            /\ Fresh(r) /\ Entered(r, job, t, FALSE, outcome)
            /\ Told(Opening(job, r) \o Closing(r, outcome)) /\ UNCHANGED <<result, added>>
      BY <1>7 DEF HandlerAnswers
    <2>2. PICK new \in RunRecord :
            /\ run' = [run EXCEPT ![r] = new]
            /\ new.job = job /\ ~new.awaits /\ new.outcome = outcome
      <3>1. job \in Job /\ outcome \in Outcome /\ t \in Tasks \cup {AnyTask}
        BY DEF Job, Outcome
      <3>2. run' = [run EXCEPT ![r] = [job |-> job, task |-> t, awaits |-> FALSE, outcome |-> outcome]]
        BY <2>1 DEF Entered
      <3>3. \E new \in RunRecord :
              /\ new = [job |-> job, task |-> t, awaits |-> FALSE, outcome |-> outcome]
              /\ new.job = job /\ new.task = t /\ ~new.awaits /\ new.outcome = outcome
        BY <3>1, RecordEnded
      <3> QED
        BY <3>2, <3>3, Zenon
    <2> DEFINE more == Opening(job, r) \o Closing(r, outcome)
    <2>3. more \in Seq(SdkEntry) /\ \A i \in 1 .. Len(more) : more[i].run = r
      BY EntriesOfOne
    <2>4. history' = history \o more
      BY <2>1 DEF Told
    <2>5. <<>> \o more = Opening(new.job, r) \o Closing(r, new.outcome)
      BY <2>2, <2>3, NothingAdded
    <2> HIDE DEF more
    <2> QED
      BY <1>1, <1>5, <2>1, <2>2, <2>3, <2>4, <2>5, NothingAdded
  <1>8. ASSUME NEW t \in Tasks, HandlerStarts(r, t) PROVE SdkInv'
    <2>1. PICK job \in {"engineering", "workflow"} :
            /\ Fresh(r) /\ Entered(r, job, t, TRUE, "none")
            /\ Told(Opening(job, r)) /\ UNCHANGED <<result, added>>
      BY <1>8 DEF HandlerStarts
    <2>2. PICK new \in RunRecord :
            /\ run' = [run EXCEPT ![r] = new]
            /\ new.job = job /\ new.awaits /\ new.outcome = "none"
      <3>1. job \in Job /\ t \in Tasks \cup {AnyTask}
        BY DEF Job
      <3>2. run' = [run EXCEPT ![r] = [job |-> job, task |-> t, awaits |-> TRUE, outcome |-> "none"]]
        BY <2>1 DEF Entered
      <3>3. \E new \in RunRecord :
              /\ new = [job |-> job, task |-> t, awaits |-> TRUE, outcome |-> "none"]
              /\ new.job = job /\ new.task = t /\ new.awaits /\ new.outcome = "none"
        BY <3>1, RecordAwaits, Zenon
      <3> QED
        BY <3>2, <3>3, Zenon
    <2>3. Opening(job, r) \in Seq(SdkEntry) /\ \A i \in 1 .. Len(Opening(job, r)) : Opening(job, r)[i].run = r
      BY RunsEntries
    <2>4. history' = history \o Opening(job, r)
      BY <2>1 DEF Told
    <2>5. <<>> \o Opening(job, r) = Opening(new.job, r)
      BY <2>2, <2>3, NothingAdded
    <2> QED
      BY <1>1, <1>5, <2>1, <2>2, <2>3, <2>4, <2>5, NothingAdded
  <1>9. CASE HandlerReturns(r)
    <2>1. PICK job \in {"engineering", "workflow"}, outcome \in {"completed", "failed"} :
            /\ Awaits(r, job) /\ Left(r, outcome)
            /\ Told(Closing(r, outcome)) /\ UNCHANGED <<result, added>>
      BY <1>9 DEF HandlerReturns
    <2>2. PICK new \in RunRecord :
            /\ run' = [run EXCEPT ![r] = new]
            /\ new.job = job /\ ~new.awaits /\ new.outcome = outcome
      <3>1. job \in Job /\ outcome \in Outcome
        BY DEF Job, Outcome
      <3> QED
        BY <2>1, <3>1, RecordLeft
    <2>3. /\ Closing(r, outcome) \in Seq(SdkEntry)
          /\ \A i \in 1 .. Len(Closing(r, outcome)) : Closing(r, outcome)[i].run = r
      BY RunsEntries
    <2>4. history' = history \o Closing(r, outcome)
      BY <2>1 DEF Told
    <2>5. Opening(job, r) \o Closing(r, outcome) = Opening(new.job, r) \o Closing(r, new.outcome)
      BY <2>2
    <2>6. Tells(history, {r}, Opening(job, r)) /\ run[r].job \notin {"agent", "keep"}
      BY <1>6, <2>1
    <2> QED
      BY <1>1, <1>4, <2>1, <2>2, <2>3, <2>4, <2>5, <2>6
  <1>10. CASE HandlerCancelled(r)
    <2>1. PICK job \in {"engineering", "workflow"} :
            Awaits(r, job) /\ Left(r, "cancelled") /\ UNCHANGED <<result, history, added>>
      BY <1>10 DEF HandlerCancelled
    <2>2. PICK new \in RunRecord :
            /\ run' = [run EXCEPT ![r] = new]
            /\ new.job = job /\ ~new.awaits /\ new.outcome = "cancelled"
      <3>1. job \in Job /\ "cancelled" \in Outcome
        BY DEF Job, Outcome
      <3> QED
        BY <2>1, <3>1, RecordLeft
    <2>3. history' = history \o <<>>
      BY <1>3, <2>1
    <2>4. Opening(job, r) \o <<>> = Opening(new.job, r)
      BY <1>4, <2>2, NothingAdded
    <2>5. Tells(history, {r}, Opening(job, r)) /\ run[r].job \notin {"agent", "keep"}
      BY <1>6, <2>1
    <2> QED
      BY <1>1, <1>4, <2>1, <2>2, <2>3, <2>4, <2>5, NothingAdded
  <1>11. ASSUME NEW outcome \in {"none", "completed", "raised", "cancelled"}, NEW new \in RunRecord,
                run' = [run EXCEPT ![r] = new], new.job = "call", new.outcome = outcome,
                new.awaits => outcome = "none",
                history' = history \o Returned(r, outcome), UNCHANGED <<result, added>>,
                run[r].job \notin {"agent", "keep"}, Tells(history, {r}, <<>>)
         PROVE  SdkInv'
    <2>1. /\ Returned(r, outcome) \in Seq(SdkEntry)
          /\ \A i \in 1 .. Len(Returned(r, outcome)) : Returned(r, outcome)[i].run = r
      BY RunsEntries
    <2>2. \/ <<>> \o Returned(r, outcome) = Opening(new.job, r) /\ outcome # "completed"
          \/ /\ <<>> \o Returned(r, outcome) = Opening(new.job, r) \o Closing(r, new.outcome)
             /\ outcome = "completed"
      <3>1. <<>> \o Returned(r, outcome) = Returned(r, outcome) /\ Opening(new.job, r) = <<>>
        BY <1>2, <1>11, <2>1, NothingAdded
      <3>2. CASE outcome = "completed"
        <4>1. <<>> \o Closing(r, new.outcome) = Closing(r, new.outcome)
          BY RunsEntries, NothingAdded
        <4> QED
          BY <1>2, <1>11, <3>1, <3>2, <4>1
      <3>3. CASE outcome # "completed"
        BY <3>1, <3>3 DEF Returned
      <3> QED
        BY <3>2, <3>3
    <2> QED
      BY <1>1, <1>11, <2>1, <2>2, NothingAdded
  <1>12. CASE CallAnswers(r)
    <2>1. PICK outcome \in {"completed", "raised"} :
            /\ Fresh(r) /\ Entered(r, "call", AnyTask, FALSE, outcome)
            /\ Told(Returned(r, outcome)) /\ UNCHANGED <<result, added>>
      BY <1>12 DEF CallAnswers
    <2>2. PICK new \in RunRecord :
            /\ run' = [run EXCEPT ![r] = new]
            /\ new.job = "call" /\ ~new.awaits /\ new.outcome = outcome
      <3>1. "call" \in Job /\ outcome \in Outcome /\ AnyTask \in Tasks \cup {AnyTask}
        BY DEF Job, Outcome
      <3>2. run' = [run EXCEPT ![r] = [job |-> "call", task |-> AnyTask, awaits |-> FALSE, outcome |-> outcome]]
        BY <2>1 DEF Entered
      <3>3. \E new \in RunRecord :
              /\ new = [job |-> "call", task |-> AnyTask, awaits |-> FALSE, outcome |-> outcome]
              /\ new.job = "call" /\ new.task = AnyTask /\ ~new.awaits /\ new.outcome = outcome
        BY <3>1, RecordEnded
      <3> QED
        BY <3>2, <3>3, Zenon
    <2> QED
      BY <1>5, <1>11, <2>1, <2>2 DEF Told
  <1>13. CASE CallStarts(r)
    <2>1. /\ Fresh(r) /\ Entered(r, "call", AnyTask, TRUE, "none")
          /\ UNCHANGED <<result, history, added>>
      BY <1>13 DEF CallStarts
    <2>2. PICK new \in RunRecord :
            /\ run' = [run EXCEPT ![r] = new]
            /\ new.job = "call" /\ new.awaits /\ new.outcome = "none"
      <3>1. "call" \in Job /\ AnyTask \in Tasks \cup {AnyTask}
        BY DEF Job
      <3>2. run' = [run EXCEPT ![r] = [job |-> "call", task |-> AnyTask, awaits |-> TRUE, outcome |-> "none"]]
        BY <2>1 DEF Entered
      <3>3. \E new \in RunRecord :
              /\ new = [job |-> "call", task |-> AnyTask, awaits |-> TRUE, outcome |-> "none"]
              /\ new.job = "call" /\ new.task = AnyTask /\ new.awaits /\ new.outcome = "none"
        BY <3>1, RecordAwaits, Zenon
      <3> QED
        BY <3>2, <3>3, Zenon
    <2>3. Returned(r, "none") = <<>> /\ history' = history \o <<>>
      BY <1>3, <2>1 DEF Returned
    <2> QED
      BY <1>5, <1>11, <2>1, <2>2, <2>3
  <1>14. CASE CallEnds(r)
    <2>1. PICK outcome \in {"completed", "raised", "cancelled"} :
            /\ Awaits(r, "call") /\ Left(r, outcome)
            /\ Told(Returned(r, outcome)) /\ UNCHANGED <<result, added>>
      BY <1>14 DEF CallEnds
    <2>2. PICK new \in RunRecord :
            /\ run' = [run EXCEPT ![r] = new]
            /\ new.job = "call" /\ ~new.awaits /\ new.outcome = outcome
      <3>1. "call" \in Job /\ outcome \in Outcome
        BY DEF Job, Outcome
      <3> QED
        BY <2>1, <3>1, RecordLeft
    <2>3. Tells(history, {r}, <<>>) /\ run[r].job \notin {"agent", "keep"}
      BY <1>2, <1>6, <2>1
    <2> QED
      BY <1>11, <2>1, <2>2, <2>3 DEF Told
  <1> QED
    BY <1>7, <1>8, <1>9, <1>10, <1>12, <1>13, <1>14

\* The step of an agent keeps the invariant, if what becomes of its task follows.
LEMMA AgentStep ==
  ASSUME SdkInv, NEW r \in Runs, NEW new \in RunRecord, NEW more \in Seq(SdkEntry),
         run' = [run EXCEPT ![r] = new], history' = history \o more,
         result' \in [Tasks -> Result], added' = added,
         new.job = "agent", new.awaits => new.outcome = "none",
         Fresh(r) \/ (Awaits(r, "agent") /\ new.task = run[r].task),
         \/ more = <<>> /\ new.outcome \in {"none", "raised", "cancelled"}
         \/ more = <<Entry(r, "success")>> /\ new.outcome \in {"completed", "failed"},
         \A t \in Tasks : TaskFollowsHistory(t)' \/ (result'[t] = result[t] /\ t # new.task)
  PROVE  SdkInv'
  <1>1. run'[r] = new
    <2>1. run \in [Runs -> RunRecord]
      BY DEF SdkInv
    <2> QED
      BY <2>1
  <1>2. Opening("agent", r) = <<>> /\ run[r].job \in {"none", "agent"}
    BY DEF Opening, Fresh, Awaits
  <1>3. Tells(history, {r}, <<>>)
    BY <1>2, ToldSoFar
  <1>4. <<>> \in Seq(SdkEntry) /\ <<>> \o more = more
    BY NothingAdded
  <1>5. \A i \in 1 .. Len(more) : more[i].run = r
    <2>1. CASE more = <<>>
      BY <2>1
    <2>2. CASE more = <<Entry(r, "success")>>
      <3>1. \A i \in 1 .. Len(<<Entry(r, "success")>>) : <<Entry(r, "success")>>[i].run = r
        BY RunsEntries
      <3> QED
        BY <2>2, <3>1, Zenon
    <2> QED
      BY <2>1, <2>2
  <1>6. \A t \in Tasks : t # new.task => r \notin AgentsOf(t) /\ r \notin AgentsOf(t)'
    BY <1>1 DEF AgentsOf, Fresh, Awaits
  <1>7. \A t \in Tasks :
          \/ TaskFollowsHistory(t)'
          \/ result'[t] = result[t] /\ r \notin AgentsOf(t) /\ r \notin AgentsOf(t)'
    BY <1>6
  <1>8. \/ <<>> \o more = Opening(new.job, r) /\ new.outcome \in {"none", "raised", "cancelled"}
        \/ <<>> \o more = <<Entry(r, "success")>> /\ new.outcome \in {"completed", "failed"}
    BY <1>2, <1>4
  <1>9. run[r].job # "keep" /\ new.job \notin {"none", "keep"}
    BY <1>2
  <1> QED
    BY <1>3, <1>4, <1>5, <1>7, <1>8, <1>9, SdkStep

\* An agent that raises before or after it awaits changes nothing of its task's story.
LEMMA AgentIsSilent ==
  ASSUME SdkInv, NEW r \in Runs, NEW new \in RunRecord,
         run' = [run EXCEPT ![r] = new], UNCHANGED <<result, history>>,
         new.job = "agent", new.outcome \in {"raised", "cancelled"}, NEW t \in Tasks, new.task = t,
         Fresh(r) \/ (Awaits(r, "agent") /\ t = run[r].task)
  PROVE  TaskFollowsHistory(t)'
  <1>0. run \in [Runs -> RunRecord] /\ TaskFollowsHistory(t)
    BY DEF SdkInv, ResultsFollowHistory
  <1>1. run'[r] = new /\ \A q \in Runs \ {r} : run'[q] = run[q]
    BY <1>0
  <1>2. Tells(history, {r}, <<>>)
    <2>1. Opening("agent", r) = <<>>
      BY DEF Opening
    <2> QED
      BY <2>1, ToldSoFar
  <1>3. AgentsOf(t)' = AgentsOf(t) \cup {r}
    BY <1>1 DEF AgentsOf, Fresh, Awaits
  <1>4. Places(history', AgentsOf(t)') = Places(history, AgentsOf(t))
    <2>1. Places(history, AgentsOf(t) \cup {r}) = Places(history, AgentsOf(t))
      <3>1. \A n \in 1 .. Len(history) : history[n].run # r
        BY <1>2, NothingTold
      <3> QED
        BY <3>1 DEF Places
    <2>2. history' = history
      OBVIOUS
    <2> QED
      BY <1>3, <2>1, <2>2
  <1>5. \A n \in Places(history, AgentsOf(t)) : history[n].run \in Runs \ {r}
    BY <1>2, NothingTold DEF Places, AgentsOf
  <1>6. \A n \in Places(history, AgentsOf(t)) : run'[history'[n].run] = run[history[n].run]
    BY <1>1, <1>5
  <1>7. \A q \in AgentsOf(t) : q = r \/ run'[q] = run[q]
    BY <1>1 DEF AgentsOf
  <1>8. result'[t] = result[t] /\ run'[r].outcome \in {"raised", "cancelled"}
    BY <1>1
  <1>9. result'[t] = "running" =>
          \E q \in AgentsOf(t)' : run'[q].awaits \/ run'[q].outcome \in {"raised", "cancelled"}
    BY <1>3, <1>8
  <1>10. result'[t] \in {"completed", "failed"} =>
           \E n \in Places(history', AgentsOf(t)') :
             /\ run'[history'[n].run].outcome = result'[t]
             /\ \A m \in Places(history', AgentsOf(t)') : m <= n
    BY <1>0, <1>4, <1>6, <1>8 DEF TaskFollowsHistory
  <1> QED
    BY <1>9, <1>10 DEF TaskFollowsHistory

\* An agent that returns has the last word on its task.
LEMMA AgentHasLastWord ==
  ASSUME SdkInv, NEW r \in Runs, NEW new \in RunRecord,
         run' = [run EXCEPT ![r] = new], Told(<<Entry(r, "success")>>),
         new.job = "agent", new.outcome \in {"completed", "failed"}, NEW t \in Tasks, new.task = t,
         result' = [result EXCEPT ![t] = new.outcome]
  PROVE  TaskFollowsHistory(t)'
  <1> DEFINE n == Len(history) + 1
  <1>0. /\ run \in [Runs -> RunRecord] /\ history \in Seq(SdkEntry)
        /\ result \in [Tasks -> Result]
    BY DEF SdkInv
  <1>1. run'[r] = new /\ result'[t] = new.outcome
    BY <1>0
  <1>2. r \in AgentsOf(t)'
    BY <1>1 DEF AgentsOf
  <1>3. n \in 1 .. n /\ Len(history') = n /\ history'[n] = Entry(r, "success")
    <2>1. <<Entry(r, "success")>> \in Seq(SdkEntry)
      BY RunsEntries
    <2>2. history' = Append(history, Entry(r, "success"))
      BY <1>0 DEF Told
    <2> QED
      BY <1>0, <2>2
  <1>4. history'[n].run = r
    BY <1>3 DEF Entry
  <1> HIDE DEF n
  <1>5. n \in Places(history', AgentsOf(t)')
    BY <1>2, <1>3, <1>4 DEF Places
  <1>6. \A m \in Places(history', AgentsOf(t)') : m <= n
    BY <1>3 DEF Places
  <1>7. run'[history'[n].run].outcome = result'[t] /\ result'[t] # "running"
    BY <1>1, <1>4
  <1> QED
    BY <1>5, <1>6, <1>7 DEF TaskFollowsHistory

\* What agents do keeps the invariant.
LEMMA AgentsStep ==
  ASSUME SdkInv, NEW r \in Runs,
         \/ \E t \in Tasks : AgentRefused(r, t) \/ AgentAnswers(r, t) \/ AgentStarts(r, t)
         \/ AgentReturns(r) \/ AgentRaises(r)
  PROVE  SdkInv'
  <1>0. /\ result \in [Tasks -> Result] /\ history \in Seq(SdkEntry)
        /\ run \in [Runs -> RunRecord]
    BY DEF SdkInv
  <1>1. <<>> \in Seq(SdkEntry) /\ history = history \o <<>>
    BY <1>0, NothingAdded
  <1>2. <<Entry(r, "success")>> \in Seq(SdkEntry)
    BY RunsEntries
  <1>3. /\ "agent" \in Job /\ {"none", "completed", "failed", "raised", "cancelled"} \subseteq Outcome
        /\ \A t \in Tasks : t \in Tasks \cup {AnyTask}
        /\ {"completed", "failed", "running"} \subseteq Result
    BY DEF Job, Outcome, Result
  <1>4. ASSUME NEW new \in RunRecord,
               run' = [run EXCEPT ![r] = new], UNCHANGED <<result, history, added>>,
               new.job = "agent", ~new.awaits, new.outcome \in {"raised", "cancelled"},
               Fresh(r) \/ (Awaits(r, "agent") /\ new.task = run[r].task)
        PROVE  SdkInv'
    <2>1. history' = history \o <<>> /\ result' \in [Tasks -> Result]
      BY <1>0, <1>1, <1>4
    <2>2. \A t \in Tasks : TaskFollowsHistory(t)' \/ (result'[t] = result[t] /\ t # new.task)
      <3> SUFFICES ASSUME NEW t \in Tasks
                   PROVE  TaskFollowsHistory(t)' \/ (result'[t] = result[t] /\ t # new.task)
        OBVIOUS
      <3>1. CASE new.task = t
        BY <1>4, <3>1, AgentIsSilent
      <3>2. CASE new.task # t
        BY <1>4, <3>2
      <3> QED
        BY <3>1, <3>2
    <2> QED
      BY <1>1, <1>4, <2>1, <2>2, AgentStep
  <1>5. ASSUME NEW new \in RunRecord, NEW status \in {"completed", "failed"},
               run' = [run EXCEPT ![r] = new], Told(<<Entry(r, "success")>>), added' = added,
               new.job = "agent", ~new.awaits, new.outcome = status,
               result' = [result EXCEPT ![new.task] = status],
               Fresh(r) \/ (Awaits(r, "agent") /\ new.task = run[r].task)
        PROVE  SdkInv'
    <2>1. history' = history \o <<Entry(r, "success")>>
      BY <1>5 DEF Told
    <2>2. result' \in [Tasks -> Result] /\ \A t \in Tasks : t # new.task => result'[t] = result[t]
      BY <1>0, <1>3, <1>5
    <2>3. \A t \in Tasks : TaskFollowsHistory(t)' \/ (result'[t] = result[t] /\ t # new.task)
      <3> SUFFICES ASSUME NEW t \in Tasks
                   PROVE  TaskFollowsHistory(t)' \/ (result'[t] = result[t] /\ t # new.task)
        OBVIOUS
      <3>1. CASE new.task = t
        <4>1. result' = [result EXCEPT ![t] = new.outcome]
          BY <1>5, <3>1
        <4> QED
          BY <1>5, <3>1, <4>1, AgentHasLastWord
      <3>2. CASE new.task # t
        BY <2>2, <3>2
      <3> QED
        BY <3>1, <3>2
    <2> QED
      BY <1>2, <1>5, <2>1, <2>2, <2>3, AgentStep
  <1>6. ASSUME NEW t \in Tasks, AgentRefused(r, t) PROVE SdkInv'
    <2>1. PICK new \in RunRecord :
            /\ run' = [run EXCEPT ![r] = new]
            /\ new.job = "agent" /\ ~new.awaits /\ new.outcome = "raised"
      <3>1. run' = [run EXCEPT ![r] = [job |-> "agent", task |-> t, awaits |-> FALSE, outcome |-> "raised"]]
        BY <1>6 DEF AgentRefused, Entered
      <3>2. "raised" \in Outcome
        BY <1>3
      <3>3. \E new \in RunRecord :
              /\ new = [job |-> "agent", task |-> t, awaits |-> FALSE, outcome |-> "raised"]
              /\ new.job = "agent" /\ new.task = t /\ ~new.awaits /\ new.outcome = "raised"
        BY <1>3, <3>2, RecordEnded
      <3> QED
        BY <3>1, <3>3, Zenon
    <2>2. Fresh(r) /\ UNCHANGED <<result, history, added>>
      BY <1>6 DEF AgentRefused
    <2>3. Fresh(r) \/ (Awaits(r, "agent") /\ new.task = run[r].task)
      BY <2>2
    <2>4. new.outcome \in {"raised", "cancelled"}
      BY <2>1
    <2> QED
      BY <1>4, <2>1, <2>2, <2>3, <2>4
  <1>7. ASSUME NEW t \in Tasks, AgentAnswers(r, t) PROVE SdkInv'
    <2>1. PICK status \in {"completed", "failed"} :
            /\ Fresh(r) /\ Entered(r, "agent", t, FALSE, status)
            /\ result' = [result EXCEPT ![t] = status]
            /\ Told(<<Entry(r, "success")>>) /\ added' = added
      BY <1>7 DEF AgentAnswers
    <2>2. PICK new \in RunRecord :
            /\ run' = [run EXCEPT ![r] = new]
            /\ new.job = "agent" /\ new.task = t /\ ~new.awaits /\ new.outcome = status
      <3>1. run' = [run EXCEPT ![r] = [job |-> "agent", task |-> t, awaits |-> FALSE, outcome |-> status]]
        BY <2>1 DEF Entered
      <3>2. status \in Outcome
        BY <1>3
      <3>3. \E new \in RunRecord :
              /\ new = [job |-> "agent", task |-> t, awaits |-> FALSE, outcome |-> status]
              /\ new.job = "agent" /\ new.task = t /\ ~new.awaits /\ new.outcome = status
        BY <1>3, <3>2, RecordEnded
      <3> QED
        BY <3>1, <3>3, Zenon
    <2>3. Fresh(r) \/ (Awaits(r, "agent") /\ new.task = run[r].task)
      BY <2>1
    <2>4. result' = [result EXCEPT ![new.task] = status]
      BY <2>1, <2>2
    <2> QED
      BY <1>5, <2>1, <2>2, <2>3, <2>4
  <1>8. ASSUME NEW t \in Tasks, AgentStarts(r, t) PROVE SdkInv'
    <2>1. /\ Fresh(r) /\ Entered(r, "agent", t, TRUE, "none")
          /\ result' = [result EXCEPT ![t] = "running"]
          /\ UNCHANGED <<history, added>>
      BY <1>8 DEF AgentStarts
    <2>2. PICK new \in RunRecord :
            /\ run' = [run EXCEPT ![r] = new]
            /\ new.job = "agent" /\ new.task = t /\ new.awaits /\ new.outcome = "none"
      <3>1. run' = [run EXCEPT ![r] = [job |-> "agent", task |-> t, awaits |-> TRUE, outcome |-> "none"]]
        BY <2>1 DEF Entered
      <3>2. \E new \in RunRecord :
              /\ new = [job |-> "agent", task |-> t, awaits |-> TRUE, outcome |-> "none"]
              /\ new.job = "agent" /\ new.task = t /\ new.awaits /\ new.outcome = "none"
        BY <1>3, RecordAwaits
      <3> QED
        BY <3>1, <3>2, Zenon
    <2>3. /\ result' \in [Tasks -> Result] /\ result'[t] = "running"
          /\ \A q \in Tasks : q # t => result'[q] = result[q]
      BY <1>0, <1>3, <2>1
    <2>4. r \in AgentsOf(t)' /\ run'[r].awaits
      BY <1>0, <2>2 DEF AgentsOf
    <2>6. \A q \in Tasks : TaskFollowsHistory(q)' \/ (result'[q] = result[q] /\ q # new.task)
      <3> SUFFICES ASSUME NEW q \in Tasks
                   PROVE  TaskFollowsHistory(q)' \/ (result'[q] = result[q] /\ q # new.task)
        OBVIOUS
      <3>1. CASE q = t
        <4>1. TaskFollowsHistory(q)'
          BY <2>3, <2>4, <3>1 DEF TaskFollowsHistory
        <4> QED
          BY <4>1
      <3>2. CASE q # t
        BY <2>2, <2>3, <3>2
      <3> QED
        BY <3>1, <3>2
    <2>7. history' = history \o <<>>
      BY <1>1, <2>1
    <2> QED
      BY <1>1, <2>1, <2>2, <2>3, <2>6, <2>7, AgentStep
  <1>9. CASE AgentReturns(r)
    <2>1. PICK status \in {"completed", "failed"} :
            /\ Awaits(r, "agent") /\ Left(r, status)
            /\ result' = [result EXCEPT ![run[r].task] = status]
            /\ Told(<<Entry(r, "success")>>) /\ added' = added
      BY <1>9 DEF AgentReturns
    <2>2. status \in Outcome
      BY <1>3
    <2>3. PICK new \in RunRecord :
            /\ run' = [run EXCEPT ![r] = new]
            /\ new.job = "agent" /\ new.task = run[r].task /\ ~new.awaits /\ new.outcome = status
      BY <1>3, <2>1, <2>2, RecordLeft
    <2> QED
      BY <1>5, <2>1, <2>3
  <1>10. CASE AgentRaises(r)
    <2>1. PICK outcome \in {"raised", "cancelled"} :
            Awaits(r, "agent") /\ Left(r, outcome) /\ UNCHANGED <<result, history, added>>
      BY <1>10 DEF AgentRaises
    <2>2. outcome \in Outcome
      BY <1>3
    <2>3. PICK new \in RunRecord :
            /\ run' = [run EXCEPT ![r] = new]
            /\ new.job = "agent" /\ new.task = run[r].task /\ ~new.awaits /\ new.outcome = outcome
      BY <1>3, <2>1, <2>2, RecordLeft
    <2> QED
      BY <1>4, <2>1, <2>3
  <1> QED
    BY <1>6, <1>7, <1>8, <1>9, <1>10

\* A task that is created has no story yet.
LEMMA CreateStep ==
  ASSUME SdkInv, NEW t \in Tasks, CreateTask(t)
  PROVE  SdkInv'
  <1>1. /\ result' \in [Tasks -> Result] /\ result'[t] = "queued"
        /\ \A q \in Tasks \ {t} : result'[q] = result[q]
        /\ UNCHANGED <<run, history, added>>
    BY DEF SdkInv, CreateTask, Result
  <1>2. \A q \in Tasks : TaskFollowsHistory(q)'
    <2> SUFFICES ASSUME NEW q \in Tasks PROVE TaskFollowsHistory(q)'
      OBVIOUS
    <2>1. TaskFollowsHistory(q) /\ AgentsOf(q)' = AgentsOf(q)
      BY <1>1 DEF SdkInv, ResultsFollowHistory, AgentsOf
    <2>2. CASE q = t
      BY <1>1, <2>2 DEF TaskFollowsHistory
    <2>3. CASE q # t
      <3>1. result'[q] = result[q]
        BY <1>1, <2>3
      <3> QED
        BY <1>1, <2>1, <3>1 DEF TaskFollowsHistory
    <2> QED
      BY <2>2, <2>3
  <1>3. \A r \in Runs : RunIsTold(r)'
    BY <1>1 DEF SdkInv, ResultsFollowHistory, RunIsTold
  <1>4. Tells(history', KeepRuns', KeepsTold')
    <2>1. KeepRuns' = KeepRuns /\ KeepsTold' = KeepsTold
      BY <1>1 DEF KeepRuns, KeepsTold
    <2> QED
      BY <1>1, <2>1 DEF SdkInv, ResultsFollowHistory, KeepRuns
  <1>5. ResultsFollowHistory'
    BY <1>2, <1>3, <1>4 DEF ResultsFollowHistory, KeepRuns
  <1> QED
    BY <1>1, <1>5 DEF SdkInv, Fresh

\* What a step keeps is told as it is kept.
LEMMA KeepStep ==
  ASSUME SdkInv, NEW r \in Runs, Keep(r)
  PROVE  SdkInv'
  <1>0. /\ result \in [Tasks -> Result] /\ history \in Seq(SdkEntry)
        /\ run \in [Runs -> RunRecord] /\ added \in Seq(Runs)
    BY DEF SdkInv
  <1>1. PICK outcome \in {"completed", "raised"} :
          /\ Fresh(r) /\ Entered(r, "keep", AnyTask, FALSE, outcome)
          /\ added' = IF outcome = "completed" THEN Append(added, r) ELSE added
          /\ Told(Returned(r, outcome)) /\ result' = result
    BY DEF Keep
  <1>2. PICK new \in RunRecord :
          /\ run' = [run EXCEPT ![r] = new]
          /\ new.job = "keep" /\ ~new.awaits /\ new.outcome = outcome
    <2>1. run' = [run EXCEPT ![r] = [job |-> "keep", task |-> AnyTask, awaits |-> FALSE, outcome |-> outcome]]
      BY <1>1 DEF Entered
    <2>2. "keep" \in Job /\ outcome \in Outcome /\ AnyTask \in Tasks \cup {AnyTask}
      BY DEF Job, Outcome
    <2>3. \E new \in RunRecord :
            /\ new = [job |-> "keep", task |-> AnyTask, awaits |-> FALSE, outcome |-> outcome]
            /\ new.job = "keep" /\ new.task = AnyTask /\ ~new.awaits /\ new.outcome = outcome
      BY <2>2, RecordEnded
    <2> QED
      BY <2>1, <2>3, Zenon
  <1> DEFINE more == Returned(r, outcome)
  <1>3. more \in Seq(SdkEntry) /\ \A i \in 1 .. Len(more) : more[i].run = r
    BY RunsEntries
  <1>4. history' = history \o more
    BY <1>1 DEF Told
  <1>5. <<>> \o more = more /\ <<>> \in Seq(SdkEntry)
    BY <1>3, NothingAdded
  <1>6. Tells(history, {r}, <<>>)
    BY <1>1, ToldSoFar
  <1>7. /\ more = IF outcome = "completed" THEN <<Entry(r, "success")>> ELSE <<>>
        /\ Opening("keep", r) = <<>> /\ Closing(r, "completed") = <<Entry(r, "success")>>
    BY DEF Returned, Opening, Closing
  <1> HIDE DEF more
  <1>8. /\ run' \in [Runs -> RunRecord] /\ history' \in Seq(SdkEntry)
        /\ run'[r] = new /\ \A q \in Runs \ {r} : run'[q] = run[q]
        /\ \A q \in Runs \ {r} : RunIsTold(q)'
        /\ \A entries \in Seq(SdkEntry) :
             Tells(history, {r}, entries) => Tells(history', {r}, entries \o more)
        /\ \A t \in Tasks : result'[t] = result[t] /\ r \notin AgentsOf(t) /\ r \notin AgentsOf(t)'
              => TaskFollowsHistory(t)'
    BY <1>2, <1>3, <1>4, OneRunSteps
  <1>9. \A t \in Tasks : TaskFollowsHistory(t)'
    BY <1>1, <1>2, <1>8 DEF AgentsOf, Fresh
  <1>10. RunIsTold(r)'
    <2>1. Tells(history', {r}, more)
      BY <1>5, <1>6, <1>8
    <2>2. CASE outcome = "completed"
      <3>1. <<>> \o Closing(r, outcome) = more
        BY <1>5, <1>7, <2>2
      <3>2. run'[r].job = "keep" /\ run'[r].outcome = outcome
        BY <1>2, <1>8
      <3>3. Opening(run'[r].job, r) \o Closing(r, run'[r].outcome) = more
        BY <1>7, <3>1, <3>2
      <3> QED
        BY <2>1, <2>2, <3>2, <3>3 DEF RunIsTold
    <2>3. CASE outcome = "raised"
      <3>1. run'[r].outcome = outcome /\ Opening(run'[r].job, r) = more
        BY <1>2, <1>7, <1>8, <2>3
      <3> QED
        BY <2>1, <2>3, <3>1 DEF RunIsTold
    <2> QED
      BY <2>2, <2>3
  <1>11. KeepRuns' = KeepRuns \cup {r}
    BY <1>2, <1>8 DEF KeepRuns
  <1>12. KeepsTold \in Seq(SdkEntry) /\ Len(KeepsTold) = Len(added) /\ Len(added) \in Nat
         /\ \A n \in 1 .. Len(added) : KeepsTold[n] = Entry(added[n], "success")
    <2>1. \A n \in 1 .. Len(added) : Entry(added[n], "success") \in SdkEntry
      BY <1>0, ElementOfSeq DEF Entry, SdkEntry
    <2>2. Len(added) \in Nat
      BY <1>0
    <2> QED
      BY <2>1, <2>2 DEF KeepsTold
  <1>13. KeepsTold' = KeepsTold \o more /\ added' \in Seq(Runs)
    <2>1. CASE outcome = "completed"
      <3>1. /\ added' \in Seq(Runs) /\ Len(added') = Len(added) + 1
            /\ added'[Len(added) + 1] = r
            /\ \A n \in 1 .. Len(added) : added'[n] = added[n]
        BY <1>0, <1>1, <2>1
      <3> DEFINE told == KeepsTold
                 later == KeepsTold'
                 last == Entry(r, "success")
      <3>2. last \in SdkEntry /\ more = <<last>>
        BY <1>7, <2>1 DEF SdkEntry, Entry
      <3>3. told \in Seq(SdkEntry) /\ Len(told) = Len(added)
        BY <1>12
      <3>4. /\ later = [n \in 1 .. Len(added) + 1 |-> Entry(added'[n], "success")]
            /\ later[Len(added) + 1] = last
            /\ \A n \in 1 .. Len(added) : later[n] = told[n]
        <4>1. later = [n \in 1 .. Len(added) + 1 |-> Entry(added'[n], "success")]
          BY <3>1 DEF KeepsTold
        <4>2. /\ Len(added) + 1 \in 1 .. Len(added) + 1
              /\ \A n \in 1 .. Len(added) : n \in 1 .. Len(added) + 1
          BY <1>12
        <4> HIDE DEF later
        <4> QED
          BY <1>12, <3>1, <4>1, <4>2
      <3>5. \A n \in 1 .. Len(added) + 1 : later[n] \in SdkEntry
        <4>1. \A n \in 1 .. Len(added) : told[n] \in SdkEntry
          BY <3>3, ElementOfSeq
        <4>2. \A n \in 1 .. Len(added) + 1 : n \in 1 .. Len(added) \/ n = Len(added) + 1
          BY <1>12
        <4> HIDE DEF told, later, last
        <4> QED
          BY <3>2, <3>4, <4>1, <4>2
      <3> HIDE DEF told, later, last
      <3>6. later \in Seq(SdkEntry) /\ Len(later) = Len(added) + 1
        <4>1. later \in [1 .. Len(added) + 1 -> SdkEntry] /\ Len(added) + 1 \in Nat
          BY <1>12, <3>4, <3>5
        <4> QED
          BY <4>1
      <3>7. /\ told \o more \in Seq(SdkEntry) /\ Len(told \o more) = Len(added) + 1
            /\ (told \o more)[Len(added) + 1] = last
            /\ \A n \in 1 .. Len(added) : (told \o more)[n] = told[n]
        BY <1>12, <3>2, <3>3
      <3>8. \A n \in 1 .. Len(later) : later[n] = (told \o more)[n]
        <4>1. \A n \in 1 .. Len(later) : n \in 1 .. Len(added) \/ n = Len(added) + 1
          BY <1>12, <3>6
        <4> QED
          BY <3>4, <3>7, <4>1
      <3>9. later = told \o more
        BY <3>6, <3>7, <3>8, SeqEqual
      <3> QED
        BY <3>1, <3>9 DEF told, later
    <2>2. CASE outcome = "raised"
      <3>1. added' = added /\ more = <<>>
        BY <1>1, <1>7, <2>2
      <3>2. KeepsTold' = KeepsTold
        BY <3>1 DEF KeepsTold
      <3> QED
        BY <1>0, <1>12, <3>1, <3>2, NothingAdded
    <2> QED
      BY <2>1, <2>2
  <1>14. Tells(history', KeepRuns', KeepsTold')
    <2>1. Tells(history, KeepRuns, KeepsTold)
      BY DEF SdkInv, ResultsFollowHistory, KeepRuns
    <2>2. Tells(history, KeepRuns \cup {r}, KeepsTold)
      BY <1>6, <2>1, NothingTold
    <2>3. \A i \in 1 .. Len(more) : more[i].run \in KeepRuns \cup {r}
      BY <1>3
    <2>4. Tells(history \o more, KeepRuns \cup {r}, KeepsTold \o more)
      BY <1>0, <1>3, <1>12, <2>2, <2>3, TheyTell
    <2> QED
      BY <1>4, <1>11, <1>13, <2>4
  <1>15. ResultsFollowHistory'
    BY <1>8, <1>9, <1>10, <1>14 DEF ResultsFollowHistory, KeepRuns
  <1>16. /\ \A q \in Runs : run'[q].awaits \/ run'[q].job = "none" => run'[q].outcome = "none"
         /\ \A q \in Runs : run'[q].job = "none" => ~run'[q].awaits
    BY <1>2, <1>8 DEF SdkInv, Fresh
  <1>17. result' \in [Tasks -> Result]
    BY <1>0, <1>1
  <1> QED
    BY <1>8, <1>13, <1>15, <1>16, <1>17 DEF SdkInv, Fresh

LEMMA SdkStarts == SdkInit => SdkInv
  <1> SUFFICES ASSUME SdkInit PROVE SdkInv
    OBVIOUS
  <1>1. /\ result = [t \in Tasks |-> "none"] /\ history = <<>> /\ added = <<>>
        /\ run \in [Runs -> RunRecord]
        /\ \A r \in Runs : run[r].job = "none" /\ ~run[r].awaits /\ run[r].outcome = "none"
    BY DEF SdkInit, RunRecord, Outcome
  <1>2. result \in [Tasks -> Result] /\ history \in Seq(SdkEntry) /\ added \in Seq(Runs)
    BY <1>1 DEF Result
  <1>3. \A runs : Tells(<<>>, runs, <<>>)
    <2> SUFFICES ASSUME NEW runs PROVE Tells(<<>>, runs, <<>>)
      OBVIOUS
    <2>1. Len(<<>>) = 0 /\ 1 .. 0 = {} /\ Places(<<>>, runs) = {}
      BY DEF Places
    <2>2. <<>> \in [1 .. Len(<<>>) -> Places(<<>>, runs)]
      BY <2>1
    <2> QED
      BY <2>1, <2>2 DEF Tells
  <1>4. KeepsTold = <<>>
    BY <1>1 DEF KeepsTold
  <1>5. \A r \in Runs : RunIsTold(r)
    BY <1>1, <1>3 DEF RunIsTold, Opening
  <1>6. \A t \in Tasks : TaskFollowsHistory(t)
    BY <1>1 DEF TaskFollowsHistory
  <1>7. ResultsFollowHistory
    BY <1>1, <1>3, <1>4, <1>5, <1>6 DEF ResultsFollowHistory
  <1> QED
    BY <1>1, <1>2, <1>7 DEF SdkInv, Fresh

\* The results kept for the tasks and the audit history of the facade always tell the
\* same story, whatever runs, and whatever runs at the same time.
THEOREM ResultsAlwaysFollowHistory == SdkSpec => []ResultsFollowHistory
  <1>1. SdkInit => SdkInv
    BY SdkStarts
  <1>2. SdkInv /\ [SdkNext]_sdkVars => SdkInv'
    <2> SUFFICES ASSUME SdkInv, [SdkNext]_sdkVars PROVE SdkInv'
      OBVIOUS
    <2>1. ASSUME NEW t \in Tasks, CreateTask(t) PROVE SdkInv'
      BY <2>1, CreateStep
    <2>2. ASSUME NEW r \in Runs, NEW t \in Tasks,
                 AgentRefused(r, t) \/ AgentAnswers(r, t) \/ AgentStarts(r, t) PROVE SdkInv'
      BY <2>2, AgentsStep
    <2>3. ASSUME NEW r \in Runs, AgentReturns(r) \/ AgentRaises(r) PROVE SdkInv'
      BY <2>3, AgentsStep
    <2>4. ASSUME NEW r \in Runs, NEW t \in Tasks,
                 HandlerAnswers(r, t) \/ HandlerStarts(r, t) PROVE SdkInv'
      BY <2>4, OthersStep
    <2>5. ASSUME NEW r \in Runs,
                 \/ HandlerReturns(r) \/ HandlerCancelled(r)
                 \/ CallAnswers(r) \/ CallStarts(r) \/ CallEnds(r)
          PROVE SdkInv'
      BY <2>5, OthersStep
    <2>6. ASSUME NEW r \in Runs, Keep(r) PROVE SdkInv'
      BY <2>6, KeepStep
    <2>7. CASE UNCHANGED sdkVars
      <3>1. UNCHANGED <<result, run, history, added>>
        BY <2>7 DEF sdkVars
      <3>2. \A t \in Tasks : TaskFollowsHistory(t)'
        BY <3>1 DEF SdkInv, ResultsFollowHistory, TaskFollowsHistory, AgentsOf
      <3>3. \A r \in Runs : RunIsTold(r)'
        BY <3>1 DEF SdkInv, ResultsFollowHistory, RunIsTold
      <3>4. Tells(history', KeepRuns', KeepsTold')
        <4>1. KeepRuns' = KeepRuns /\ KeepsTold' = KeepsTold
          BY <3>1 DEF KeepRuns, KeepsTold
        <4> QED
          BY <3>1, <4>1 DEF SdkInv, ResultsFollowHistory, KeepRuns
      <3>5. ResultsFollowHistory'
        BY <3>2, <3>3, <3>4 DEF ResultsFollowHistory, KeepRuns
      <3> QED
        BY <3>1, <3>5 DEF SdkInv, Fresh
    <2> QED
      BY <2>1, <2>2, <2>3, <2>4, <2>5, <2>6, <2>7 DEF SdkNext
  <1>3. SdkInv => ResultsFollowHistory
    BY DEF SdkInv
  <1> QED
    BY <1>1, <1>2, <1>3, PTL DEF SdkSpec
=============================================================================
