------------------------------ MODULE MCDelivery ------------------------------
(***************************************************************************)
(* Work that is delivered and verified, and calls of a model, for TLC.  A  *)
(* behaviour is about one of them.                                         *)
(***************************************************************************)
EXTENDS CorrectedDelivery, ProviderModel

VARIABLE about  \* what the behaviour is about

vars == <<deliveryVars, providerVars, about>>

Init == DeliveryInit /\ ProviderInit /\ about \in {"delivery", "model"}

OfDelivery(A) == about = "delivery" /\ A /\ UNCHANGED <<providerVars, about>>

OfModel(A) == about = "model" /\ A /\ UNCHANGED <<deliveryVars, about>>

Next == OfDelivery(DeliveryNext) \/ OfModel(ProviderNext)

Spec == Init /\ [][Next]_vars

\* The fairness of either: collaborators answer, time passes and timers fire, delays
\* end and streams are read.  Nothing is assumed of the provider.
FairSpec ==
  /\ Spec
  /\ WF_vars(OfDelivery(Judged)) /\ WF_vars(OfDelivery(BeginCorrection))
  /\ WF_vars(OfDelivery(EndCorrection))
  /\ \A r \in Runs : WF_vars(OfDelivery(Agent(r)))
  /\ \A p \in Prompts :
       /\ WF_vars(OfModel(Silence(p)))
       /\ WF_vars(OfModel(HttpTimesOut(p)))
       /\ WF_vars(OfModel(CallTimesOut(p)))
       /\ WF_vars(OfModel(SendAgain(p)))
       /\ WF_vars(OfModel(NextLine(p)))

TwoRuns == 0 .. 1

-----------------------------------------------------------------------------
\* Verifications end, whatever the stages and the tools answer, and so do calls of a
\* model: with a timeout whatever the provider sends, without one unless it keeps
\* sending what is no answer.
EverythingEnds == EveryVerificationEnds /\ ModelCallsEnd
=============================================================================
