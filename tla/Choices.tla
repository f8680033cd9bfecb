------------------------------- MODULE Choices --------------------------------
(***************************************************************************)
(* Two services that choose on behalf of their caller: the context builder *)
(* the items of a context, the model router the route of a request.        *)
(***************************************************************************)
EXTENDS ContextBuilder, ModelRouting

\* What is chosen can be explained: the items that a context is built from, among
\* duplicates, filters, a limit and a room; and the route of a request, among routes
\* whose names and models coincide.
ChoicesExplained == SelectionExplained /\ AskedForItsOwnModel
=============================================================================
