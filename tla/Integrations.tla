----------------------------- MODULE Integrations -----------------------------
(***************************************************************************)
(* The two connectors that documentation is ingested from, integrations/   *)
(* github.py with the runtime that reads a project's context through it,   *)
(* and integrations/local.py, side by side.  Both list first and read      *)
(* afterwards, while others write.  They share no state.                   *)
(***************************************************************************)
EXTENDS ProjectContext, LocalRepository

\* What the integrations return fits what was read, from GitHub, where the parts of
\* a context are read while others commit, and from a local repository, whose files
\* change between the listing and the reading.
DocumentsFitTheProject == PartsFitTogether /\ DocumentsOfListing
=============================================================================
