------------------------ MODULE KnowledgeRepository -------------------------
(***************************************************************************)
(* The knowledge entities of knowledge/models.py and their repository,     *)
(* adapters/knowledge/local.py.  Entities are immutable: a client reads    *)
(* one, derives a changed copy and stores it with update(), which replaces *)
(* whatever the repository holds by then.  Content, provenance and times   *)
(* are abstracted to the client that wrote a version.                      *)
(***************************************************************************)
EXTENDS Naturals, Sequences

CONSTANTS
  Entities,      \* ids of entities
  Clients,       \* users of the repository; None is not one of them
  MaxVersions,   \* bound: versions of an entity
  MaxRelations,  \* bound: relationships of an entity
  None           \* no entity

ASSUME KnowledgeAssumption ==
  /\ MaxVersions \in Nat \ {0}
  /\ MaxRelations \in Nat

Version == [number : 1 .. MaxVersions, writer : Clients, active : BOOLEAN]

Entity == [current : 1 .. MaxVersions, versions : Seq(Version), relations : 0 .. MaxRelations]

VARIABLES
  stored,  \* _entities: the entity under each id, or None
  copy,    \* the entity each client has in hand, of any id
  outdated \* history: <<client, id>> whose copy was read before the last change

knowledgeVars == <<stored, copy, outdated>>

KnowledgeTypeOK ==
  /\ stored \in [Entities -> Entity \cup {None}]
  /\ copy \in [Clients -> [Entities -> Entity \cup {None}]]
  /\ outdated \in SUBSET (Clients \X Entities)

KnowledgeInit ==
  /\ stored = [e \in Entities |-> None]
  /\ copy = [c \in Clients |-> [e \in Entities |-> None]]
  /\ outdated = {}

-----------------------------------------------------------------------------
\* KnowledgeEntity

NewEntity(client) ==
  [current |-> 1, versions |-> <<[number |-> 1, writer |-> client, active |-> TRUE]>>,
   relations |-> 0]

\* active_version is not None.
Active(entity) == entity.versions[entity.current].active

\* Variant: the new version takes the place of one that was invalidated.
WithVersionInPlace(entity, client) ==
  IF Active(entity)
  THEN [entity EXCEPT !.current = @ + 1,
          !.versions = Append(@, [number |-> entity.current + 1, writer |-> client,
                                  active |-> TRUE])]
  ELSE [entity EXCEPT !.versions[entity.current].active = TRUE,
                      !.versions[entity.current].writer = client]

WithVersion(entity, client) ==
  [entity EXCEPT !.current = @ + 1,
     !.versions = Append(@, [number |-> entity.current + 1, writer |-> client,
                             active |-> TRUE])]

Invalidated(entity) == [entity EXCEPT !.versions[entity.current].active = FALSE]

Related(entity) == [entity EXCEPT !.relations = @ + 1]

-----------------------------------------------------------------------------
\* LocalKnowledgeRepository

\* The repository now holds entity under id e, as client c knows.
Put(c, e, entity) ==
  /\ stored' = [stored EXCEPT ![e] = entity]
  /\ copy' = [copy EXCEPT ![c][e] = entity]
  /\ outdated' = (outdated \cup {<<d, e>> : d \in Clients}) \ {<<c, e>>}

\* create() takes a new entity, or one that has been deleted.
Create(c, e) ==
  /\ stored[e] = None
  /\ Put(c, e, IF copy[c][e] = None THEN NewEntity(c) ELSE copy[c][e])

\* get() and search() leave out an entity whose current version is invalidated,
\* unless they are asked to include it.
Get(c, e) == \E include_invalidated \in BOOLEAN :
  /\ stored[e] # None
  /\ include_invalidated \/ Active(stored[e])
  /\ copy' = [copy EXCEPT ![c][e] = stored[e]]
  /\ outdated' = outdated \ {<<c, e>>}
  /\ UNCHANGED stored

\* A client derives another entity from its copy.
Derive(c, e) ==
  /\ copy[c][e] # None
  /\ \/ /\ copy[c][e].current < MaxVersions
        /\ copy' = [copy EXCEPT ![c][e] = WithVersion(@, c)]
     \/ copy' = [copy EXCEPT ![c][e] = Invalidated(@)]
     \/ /\ copy[c][e].relations < MaxRelations
        /\ copy' = [copy EXCEPT ![c][e] = Related(@)]
  /\ UNCHANGED <<stored, outdated>>

\* update() asks only that the id is known.
Update(c, e) ==
  /\ stored[e] # None /\ copy[c][e] # None
  /\ Put(c, e, copy[c][e])

Invalidate(c, e) ==
  /\ stored[e] # None
  /\ Put(c, e, Invalidated(stored[e]))

AddRelationship(c, e) ==
  /\ stored[e] # None /\ stored[e].relations < MaxRelations
  /\ Put(c, e, Related(stored[e]))

Delete(e) ==
  /\ stored[e] # None
  /\ stored' = [stored EXCEPT ![e] = None]
  /\ outdated' = outdated \cup {<<d, e>> : d \in Clients}
  /\ UNCHANGED copy

KnowledgeNext == \E e \in Entities :
  \/ Delete(e)
  \/ \E c \in Clients :
       \/ Create(c, e) \/ Get(c, e) \/ Derive(c, e) \/ Update(c, e)
       \/ Invalidate(c, e) \/ AddRelationship(c, e)

KnowledgeSpec == KnowledgeInit /\ [][KnowledgeNext]_knowledgeVars

-----------------------------------------------------------------------------
\* Properties

\* New history keeps every version with its writer; only "active" may be lost.
Keeps(old, new) ==
  /\ Len(old.versions) <= Len(new.versions)
  /\ old.relations <= new.relations
  /\ \A n \in 1 .. Len(old.versions) :
       /\ new.versions[n].writer = old.versions[n].writer
       /\ new.versions[n].active => old.versions[n].active

OutdatedUpdate(e) == \E c \in Clients : <<c, e>> \in outdated /\ Update(c, e)

\* A stored entity keeps every version it had, its writer and its relationships,
\* and no invalidated version becomes active again, unless a client stores a copy
\* that it read before the last change: update() does not notice that.
HistoryKept == [][\A e \in Entities :
  (stored[e] # None /\ stored'[e] # None /\ ~OutdatedUpdate(e))
    => Keeps(stored[e], stored'[e])]_knowledgeVars
=============================================================================
