-------------------------------- MODULE Stores --------------------------------
(***************************************************************************)
(* The two stores of what an application knows, adapters/knowledge and     *)
(* adapters/memory, side by side: both hand out immutable objects, and     *)
(* update() puts back whatever its client made of the one it read.  They   *)
(* share no state.                                                         *)
(***************************************************************************)
EXTENDS KnowledgeRepository, MemoryRepository

\* What the two stores keep.  A stored entity keeps every version it had, its writer
\* and its relationships, and no invalidated version becomes active again; a memory
\* that was invalidated or superseded does not either, and keeps its reason.  The
\* exception is a client that stores a copy it read before the last change: neither
\* update() notices.
StoresKeepThePast == HistoryKept /\ RetirementKept
=============================================================================
