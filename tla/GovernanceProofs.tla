--------------------------- MODULE GovernanceProofs ---------------------------
(***************************************************************************)
(* Proofs about SecurityGateway, for every number of actions, limit,       *)
(* window and budget, and about IntegrityEngine, for every set of keys and *)
(* sources and any amount of evidence and assessments.                     *)
(***************************************************************************)
EXTENDS SecurityGateway, IntegrityEngine, FiniteSetTheorems, TLAPS

-----------------------------------------------------------------------------
\* Typing

\* The sets whose sizes the limits speak of are finite.
LEMMA ActionSets ==
  ASSUME GatewayAssumption
  PROVE  /\ UnderWay \subseteq Actions /\ IsFiniteSet(UnderWay)
         /\ Cardinality(UnderWay) \in Nat
         /\ counted \in SUBSET Actions =>
              IsFiniteSet(Recent) /\ Cardinality(Recent) \in Nat
  <1>1. UnderWay \subseteq Actions
    BY DEF UnderWay
  <1>2. IsFiniteSet(UnderWay) /\ Cardinality(UnderWay) \in Nat
    BY <1>1, FS_Subset, FS_CardinalityType DEF GatewayAssumption
  <1>3. counted \in SUBSET Actions => Recent \subseteq Actions
    BY DEF Recent
  <1> QED
    BY <1>1, <1>2, <1>3, FS_Subset, FS_CardinalityType DEF GatewayAssumption

\* A decision that refuses is how an action ends.
LEMMA RefusalIsEnding ==
  \A q \in Asked : \A approval : ~Cleared(q, approval) => Decision(q) \in Ending
  BY DEF Cleared, Decision, Ending

\* The state of the gateway, of its guard and of its approval gate keeps its types.
THEOREM GatewayTypeCorrect == GatewaySpec => []GatewayTypeOK
  <1> USE GatewayAssumption DEF GatewayAssumption
  <1>1. GatewayInit => GatewayTypeOK
    BY DEF GatewayInit, GatewayTypeOK, Place, Ending
  <1>2. GatewayTypeOK /\ [GatewayNext]_gatewayVars => GatewayTypeOK'
    <2> SUFFICES ASSUME GatewayTypeOK, [GatewayNext]_gatewayVars PROVE GatewayTypeOK'
      OBVIOUS
    <2>1. ASSUME NEW a \in Actions, Refuse(a) PROVE GatewayTypeOK'
      BY <2>1, RefusalIsEnding DEF Refuse, End, Audit, GatewayTypeOK, Place
    <2>2. ASSUME NEW a \in Actions, Exceed(a) PROVE GatewayTypeOK'
      BY <2>2 DEF Exceed, End, Recent, GatewayTypeOK, Place, Ending
    <2>3. ASSUME NEW a \in Actions, Admit(a) PROVE GatewayTypeOK'
      <3>1. peak' \in Nat
        BY <2>3, ActionSets DEF Admit, Higher, GatewayTypeOK
      <3> QED
        BY <2>3, <3>1 DEF Admit, Recent, GatewayTypeOK, Place
    <2>4. ASSUME NEW a \in Actions, Complete(a) PROVE GatewayTypeOK'
      <3> PICK result \in {"success", "failed"}, usage \in Estimate :
             Complete(a)!(result, usage)
        BY <2>4 DEF Complete
      <3>1. CASE \E b \in Budgets : usage[b] < 0
        BY <3>1 DEF End, GatewayTypeOK, Place, Ending
      <3>2. CASE ~\E b \in Budgets : usage[b] < 0
        <4>1. \A b \in Budgets : usage[b] \in Nat
          BY <3>2 DEF Estimate
        <4>2. /\ End(a, result) /\ Audit(a, result)
              /\ counted' = counted \cup {a}
              /\ stamp' = [stamp EXCEPT ![a] = clock]
              /\ used' = [b \in Budgets |-> used[b] + usage[b]]
              /\ UNCHANGED <<approvals, handed, clock, peak>>
          BY <3>2
        <4>3. used' \in [Budgets -> Nat]
          BY <4>1, <4>2 DEF GatewayTypeOK
        <4>4. trail' \in Seq([action : Actions, result : Ending])
          BY <4>2 DEF Audit, GatewayTypeOK, Ending
        <4> QED
          BY <4>2, <4>3, <4>4 DEF End, GatewayTypeOK, Place, Ending
      <3> QED
        BY <3>1, <3>2
    <2>5. ASSUME NEW a \in Actions, Drop(a) PROVE GatewayTypeOK'
      BY <2>5 DEF Drop, End, GatewayTypeOK, Place, Ending
    <2>6. ASSUME NEW r \in Requests, RequestApproval(r) PROVE GatewayTypeOK'
      BY <2>6 DEF RequestApproval, GatewayTypeOK, Approval, ApprovalStatus
    <2>7. ASSUME NEW r \in Requests, Resolve(r) PROVE GatewayTypeOK'
      BY <2>7 DEF Resolve, GatewayTypeOK, Approval, ApprovalStatus
    <2>8. CASE TickClock
      BY <2>8 DEF TickClock, GatewayTypeOK
    <2>9. CASE UNCHANGED gatewayVars
      BY <2>9 DEF gatewayVars, GatewayTypeOK
    <2> QED
      BY <2>1, <2>2, <2>3, <2>4, <2>5, <2>6, <2>7, <2>8, <2>9 DEF GatewayNext
  <1> QED
    BY <1>1, <1>2, PTL DEF GatewaySpec

-----------------------------------------------------------------------------
\* The limits

\* What each step adds to the list of the guard it takes from the actions under way.
LimitsInv ==
  /\ GatewayTypeOK
  /\ \A a \in counted : place[a] = "over"
  /\ Cardinality(UnderWay) <= peak
  /\ Cardinality(Recent) + Cardinality(UnderWay) < MaxActions + Higher(peak, 1)
  /\ \A b \in Budgets : used[b] + Cardinality(UnderWay) * MaxUsage <= Limit + peak * MaxUsage

\* Products with a natural number are natural, and keep the order.
LEMMA Products == ASSUME NEW m \in Nat, NEW k \in Nat PROVE m * k \in Nat
  OBVIOUS

LEMMA Monotone ==
  ASSUME NEW m \in Nat, NEW n \in Nat, m <= n, NEW k \in Nat
  PROVE  m * k <= n * k /\ m * k \in Nat /\ n * k \in Nat
  <1>1. PICK d \in Nat : n = m + d
    <2>1. n - m \in Nat /\ n = m + (n - m)
      OBVIOUS
    <2> QED
      BY <2>1
  <1>2. n * k = m * k + d * k /\ d * k >= 0
    BY <1>1
  <1> QED
    BY <1>2

\* An action leaves the actions under way and, when it is counted, joins the list.
LEMMA LimitsAtEnd ==
  ASSUME GatewayAssumption, LimitsInv, NEW a \in Actions, place[a] = "under_way",
         place' = [place EXCEPT ![a] = "over"], UNCHANGED <<clock, peak>>
  PROVE  /\ Cardinality(UnderWay') = Cardinality(UnderWay) - 1
         /\ Cardinality(UnderWay') \in Nat
         /\ UNCHANGED <<counted, stamp>> => Cardinality(Recent') = Cardinality(Recent)
         /\ counted' = counted \cup {a} /\ stamp' = [stamp EXCEPT ![a] = clock]
              => Cardinality(Recent') = Cardinality(Recent) + 1
  <1>1. UnderWay' = UnderWay \ {a} /\ a \in UnderWay
    BY DEF LimitsInv, GatewayTypeOK, UnderWay
  <1>2. Cardinality(UnderWay') = Cardinality(UnderWay) - 1 /\ Cardinality(UnderWay') \in Nat
    BY <1>1, ActionSets, FS_RemoveElement, FS_CardinalityType
  <1>3. UNCHANGED <<counted, stamp>> => Recent' = Recent
    BY DEF Recent
  <1>4. ASSUME counted' = counted \cup {a}, stamp' = [stamp EXCEPT ![a] = clock]
        PROVE  Cardinality(Recent') = Cardinality(Recent) + 1
    <2>1. a \notin counted
      BY DEF LimitsInv
    <2>2. clock - clock <= WindowSeconds
      BY DEF LimitsInv, GatewayTypeOK, GatewayAssumption
    <2>3. Recent' = Recent \cup {a} /\ a \notin Recent
      BY <1>4, <2>1, <2>2 DEF Recent, LimitsInv, GatewayTypeOK
    <2> QED
      BY <2>3, ActionSets, FS_AddElement DEF LimitsInv, GatewayTypeOK
  <1> QED
    BY <1>2, <1>3, <1>4

\* The rate limit and the budgets bound what has been done, up to the actions that
\* were under way together: the guard decides without those, and for every number
\* of them this is all that it can exceed.
THEOREM LimitsAlwaysHold == GatewaySpec => []LimitsHold
  <1> USE GatewayAssumption DEF GatewayAssumption
  <1>1. GatewayInit => LimitsInv
    <2> SUFFICES ASSUME GatewayInit PROVE LimitsInv
      OBVIOUS
    <2>1. UnderWay = {} /\ Recent = {} /\ peak = 0
      BY DEF GatewayInit, UnderWay, Recent
    <2>2. GatewayTypeOK
      BY DEF GatewayInit, GatewayTypeOK, Place, Ending
    <2> QED
      BY <2>1, <2>2, FS_EmptySet DEF LimitsInv, GatewayInit, Higher
  <1>2. LimitsInv /\ GatewayTypeOK' /\ [GatewayNext]_gatewayVars => LimitsInv'
    <2> SUFFICES ASSUME LimitsInv, GatewayTypeOK', [GatewayNext]_gatewayVars
                 PROVE  LimitsInv'
      OBVIOUS
    <2> USE DEF LimitsInv
    <2>0. Cardinality(UnderWay) \in Nat /\ IsFiniteSet(UnderWay)
          /\ Cardinality(Recent) \in Nat /\ IsFiniteSet(Recent)
      BY ActionSets DEF GatewayTypeOK
    <2>1. ASSUME NEW a \in Actions, place[a] = "new", place' = [place EXCEPT ![a] = "over"],
                 counted' \in {counted, Recent}, UNCHANGED <<stamp, used, clock, peak>>
          PROVE  LimitsInv'
      <3>1. UnderWay' = UnderWay
        BY <2>1 DEF UnderWay, GatewayTypeOK
      <3>2. Recent' = Recent
        BY <2>1 DEF Recent
      <3>3. \A c \in counted' : place'[c] = "over"
        BY <2>1 DEF Recent, GatewayTypeOK
      <3> QED
        BY <2>1, <3>1, <3>2, <3>3 DEF Higher
    <2>2. ASSUME NEW a \in Actions, Refuse(a) PROVE LimitsInv'
      BY <2>1, <2>2 DEF Refuse, End
    <2>3. ASSUME NEW a \in Actions, Exceed(a) PROVE LimitsInv'
      BY <2>1, <2>3 DEF Exceed, End
    <2>4. ASSUME NEW a \in Actions, Admit(a) PROVE LimitsInv'
      <3>1. UnderWay' = UnderWay \cup {a} /\ a \notin UnderWay
        BY <2>4 DEF Admit, UnderWay, GatewayTypeOK
      <3>2. Cardinality(UnderWay') = Cardinality(UnderWay) + 1
        BY <2>0, <3>1, FS_AddElement
      <3>3. Recent' = Recent
        BY <2>4 DEF Admit, Recent
      <3>4. \A c \in counted' : place'[c] = "over"
        BY <2>4 DEF Admit, Recent, GatewayTypeOK
      <3>5. /\ peak' \in Nat /\ peak' >= 1
            /\ Cardinality(UnderWay') <= peak'
        BY <2>0, <2>4, <3>2 DEF Admit, Higher, GatewayTypeOK
      <3>6. PICK estimate \in Estimate : WithinLimits(estimate)
        BY <2>4 DEF Admit
      <3>7. Cardinality(Recent') < MaxActions
        BY <3>3, <3>6 DEF WithinLimits
      <3>8. \A b \in Budgets : used'[b] <= Limit
        <4> SUFFICES ASSUME NEW b \in Budgets PROVE used'[b] <= Limit
          OBVIOUS
        <4>1. used[b] \in Nat /\ estimate[b] \in Int /\ estimate[b] >= 0
              /\ used[b] + estimate[b] <= Limit
          BY <3>6 DEF WithinLimits, Estimate, GatewayTypeOK
        <4> QED
          BY <2>4, <4>1 DEF Admit
      <3>9. Cardinality(UnderWay') * MaxUsage <= peak' * MaxUsage
        BY <2>0, <3>2, <3>5, Monotone
      <3>10. Cardinality(Recent') + Cardinality(UnderWay') < MaxActions + Higher(peak', 1)
        BY <2>0, <3>2, <3>3, <3>5, <3>7 DEF Higher
      <3>11. \A b \in Budgets :
               used'[b] + Cardinality(UnderWay') * MaxUsage <= Limit + peak' * MaxUsage
        <4>1. Cardinality(UnderWay') * MaxUsage \in Nat /\ peak' * MaxUsage \in Nat
          <5>1. Cardinality(UnderWay') \in Nat
            BY <2>0, <3>2
          <5> QED
            BY <3>5, <5>1, Monotone
        <4>2. \A b \in Budgets : used'[b] \in Nat
          BY DEF GatewayTypeOK
        <4> QED
          BY <3>8, <3>9, <4>1, <4>2
      <3> QED
        BY <3>4, <3>5, <3>10, <3>11
    <2>5. ASSUME NEW a \in Actions, Complete(a) PROVE LimitsInv'
      <3> PICK result \in {"success", "failed"}, usage \in Estimate :
             Complete(a)!(result, usage)
        BY <2>5 DEF Complete
      <3>1. place[a] = "under_way" /\ place' = [place EXCEPT ![a] = "over"]
            /\ UNCHANGED <<clock, peak>>
        BY DEF End
      <3>2. Cardinality(UnderWay') = Cardinality(UnderWay) - 1
            /\ Cardinality(UnderWay') \in Nat
        BY <3>1, LimitsAtEnd
      <3>3. \/ UNCHANGED <<counted, stamp>>
            \/ counted' = counted \cup {a} /\ stamp' = [stamp EXCEPT ![a] = clock]
        OBVIOUS
      <3>4. Cardinality(Recent') <= Cardinality(Recent) + 1 /\ Cardinality(Recent') \in Nat
        <4>1. CASE UNCHANGED <<counted, stamp>>
          <5>1. Cardinality(Recent') = Cardinality(Recent)
            BY <3>1, <4>1, LimitsAtEnd
          <5> QED
            BY <2>0, <5>1
        <4>2. CASE counted' = counted \cup {a} /\ stamp' = [stamp EXCEPT ![a] = clock]
          <5>1. Cardinality(Recent') = Cardinality(Recent) + 1
            BY <3>1, <4>2, LimitsAtEnd
          <5> QED
            BY <2>0, <5>1
        <4> QED
          BY <3>3, <4>1, <4>2
      <3>5. \A c \in counted' : place'[c] = "over"
        BY <3>1, <3>3 DEF GatewayTypeOK
      <3>6. \A b \in Budgets : used'[b] <= used[b] + MaxUsage
        <4>1. used' = used \/ used' = [b \in Budgets |-> used[b] + usage[b]]
          OBVIOUS
        <4>2. \A b \in Budgets : used[b] \in Nat /\ usage[b] \in Int /\ usage[b] <= MaxUsage
          BY DEF GatewayTypeOK, Estimate
        <4> QED
          BY <4>1, <4>2
      <3>7. Higher(peak', 1) = Higher(peak, 1) /\ Higher(peak, 1) \in Nat
        BY <3>1 DEF Higher, GatewayTypeOK
      <3>8. Cardinality(Recent') + Cardinality(UnderWay') < MaxActions + Higher(peak', 1)
        BY <2>0, <3>2, <3>4, <3>7
      <3>9. (Cardinality(UnderWay) - 1) * MaxUsage = Cardinality(UnderWay) * MaxUsage - MaxUsage
        BY <2>0
      <3>10. \A b \in Budgets :
               used'[b] + Cardinality(UnderWay') * MaxUsage <= Limit + peak' * MaxUsage
        <4> SUFFICES ASSUME NEW b \in Budgets
                     PROVE  used'[b] + Cardinality(UnderWay') * MaxUsage
                              <= Limit + peak' * MaxUsage
          OBVIOUS
        <4>1. used[b] \in Nat /\ used'[b] \in Nat /\ used'[b] <= used[b] + MaxUsage
          BY <3>6 DEF GatewayTypeOK
        <4>2. used[b] + Cardinality(UnderWay) * MaxUsage <= Limit + peak * MaxUsage
          OBVIOUS
        <4>3. Cardinality(UnderWay') * MaxUsage = Cardinality(UnderWay) * MaxUsage - MaxUsage
          BY <3>2, <3>9
        <4>4. Cardinality(UnderWay) * MaxUsage \in Nat /\ peak * MaxUsage \in Nat
              /\ peak' = peak
          <5>1. peak \in Nat /\ peak' = peak
            BY <3>1 DEF GatewayTypeOK
          <5> HIDE DEF LimitsInv
          <5> QED
            BY <2>0, <5>1, Products
        <4> QED
          BY <4>1, <4>2, <4>3, <4>4
      <3>11. Cardinality(UnderWay') <= peak'
        BY <2>0, <3>1, <3>2 DEF GatewayTypeOK
      <3> QED
        BY <3>5, <3>8, <3>10, <3>11
    <2>6. ASSUME NEW a \in Actions, Drop(a) PROVE LimitsInv'
      <3>1. place[a] = "under_way" /\ place' = [place EXCEPT ![a] = "over"]
            /\ UNCHANGED <<counted, stamp, used, clock, peak>>
        BY <2>6 DEF Drop, End
      <3>2. Cardinality(UnderWay') = Cardinality(UnderWay) - 1
            /\ Cardinality(UnderWay') \in Nat
            /\ Cardinality(Recent') = Cardinality(Recent)
        BY <3>1, LimitsAtEnd
      <3>3. Cardinality(UnderWay') * MaxUsage <= Cardinality(UnderWay) * MaxUsage
        BY <2>0, <3>2, Monotone
      <3>4. \A b \in Budgets :
              used'[b] + Cardinality(UnderWay') * MaxUsage <= Limit + peak' * MaxUsage
        <4>1. Cardinality(UnderWay') * MaxUsage \in Nat
              /\ Cardinality(UnderWay) * MaxUsage \in Nat /\ peak * MaxUsage \in Nat
          <5>1. peak \in Nat
            BY DEF GatewayTypeOK
          <5> HIDE DEF LimitsInv
          <5> QED
            BY <2>0, <3>2, <5>1, Products
        <4>2. \A b \in Budgets : used[b] \in Nat
          BY DEF GatewayTypeOK
        <4> QED
          BY <3>1, <3>3, <4>1, <4>2
      <3>5. \A c \in counted' : place'[c] = "over"
        BY <3>1 DEF GatewayTypeOK
      <3> QED
        BY <2>0, <3>1, <3>2, <3>4, <3>5 DEF Higher, GatewayTypeOK
    <2>7. ASSUME UNCHANGED <<place, counted, stamp, used, clock, peak>> PROVE LimitsInv'
      BY <2>7 DEF UnderWay, Recent, Higher
    <2>8. CASE TickClock
      <3>1. UnderWay' = UnderWay
        BY <2>8 DEF TickClock, UnderWay
      <3>2. Recent' \subseteq Recent
        BY <2>8 DEF TickClock, Recent, GatewayTypeOK
      <3>3. Cardinality(Recent') <= Cardinality(Recent) /\ Cardinality(Recent') \in Nat
        BY <2>0, <3>2, FS_Subset, FS_CardinalityType
      <3> QED
        BY <2>0, <2>8, <3>1, <3>3 DEF TickClock, Higher, GatewayTypeOK
    <2> QED
      BY <2>2, <2>3, <2>4, <2>5, <2>6, <2>7, <2>8
         DEF GatewayNext, RequestApproval, Resolve, gatewayVars
  <1>3. LimitsInv => LimitsHold
    <2> SUFFICES ASSUME LimitsInv PROVE LimitsHold
      OBVIOUS
    <2>1. Cardinality(UnderWay) \in Nat /\ Cardinality(Recent) \in Nat
      BY ActionSets DEF LimitsInv, GatewayTypeOK
    <2>2. Cardinality(UnderWay) * MaxUsage \in Nat /\ peak * MaxUsage \in Nat
      <3>1. peak \in Nat
        BY DEF LimitsInv, GatewayTypeOK
      <3> QED
        BY <2>1, <3>1, Products
    <2>3. \A b \in Budgets : used[b] <= Limit + peak * MaxUsage
      BY <2>2 DEF LimitsInv, GatewayTypeOK
    <2>4. Higher(peak, 1) \in Nat
      BY DEF Higher, LimitsInv, GatewayTypeOK
    <2> QED
      BY <2>1, <2>3, <2>4 DEF LimitsHold, LimitsInv
  <1> QED
    BY <1>1, <1>2, <1>3, GatewayTypeCorrect, PTL DEF GatewaySpec

-----------------------------------------------------------------------------
\* The audit trail

Recorded == {"success", "failed", "denied", "approval_required"}

\* The places of an action's records in a trail.
Own(records, a) == {n \in DOMAIN records : records[n].action = a}

\* The trail tells how an action ended.
Told(a) ==
  /\ IF ending[a] \in Recorded
     THEN \E n \in Own(trail, a) : Own(trail, a) = {n} /\ trail[n].result = ending[a]
     ELSE Own(trail, a) = {}
  /\ a \in counted => ending[a] \in {"success", "failed"}

\* An action has an ending once it is over.
TrailInv ==
  /\ GatewayTypeOK
  /\ \A a \in Actions : Told(a) /\ (place[a] # "over" => ending[a] = "none")

\* A record has a place of its own, and the others keep theirs.
LEMMA AuditedPlaces ==
  ASSUME GatewayTypeOK, NEW a \in Actions, NEW result \in Ending, Audit(a, result)
  PROVE  /\ Own(trail', a) = Own(trail, a) \cup {Len(trail) + 1}
         /\ trail'[Len(trail) + 1].result = result
         /\ \A b \in Actions : b # a => Own(trail', b) = Own(trail, b)
         /\ \A n \in DOMAIN trail : trail'[n] = trail[n]
  <1> DEFINE record == [action |-> a, result |-> result]
             last == Len(trail) + 1
  <1>1. /\ trail \in Seq([action : Actions, result : Ending])
        /\ record \in [action : Actions, result : Ending]
        /\ trail' = Append(trail, record)
    BY DEF GatewayTypeOK, Audit
  <1>2. record.action = a /\ record.result = result
    OBVIOUS
  <1> HIDE DEF record
  <1>3. /\ DOMAIN trail' = DOMAIN trail \cup {last} /\ last \notin DOMAIN trail
        /\ trail'[last] = record
        /\ \A n \in DOMAIN trail : trail'[n] = trail[n]
    BY <1>1
  <1> HIDE DEF last
  <1>4. Own(trail', a) = Own(trail, a) \cup {last}
    BY <1>2, <1>3 DEF Own
  <1>5. \A b \in Actions : b # a => Own(trail', b) = Own(trail, b)
    BY <1>2, <1>3 DEF Own
  <1> QED
    BY <1>2, <1>3, <1>4, <1>5 DEF last

\* An action that ends with a record, and is counted only if it completed.
LEMMA EndTold ==
  ASSUME TrailInv, GatewayTypeOK', NEW a \in Actions, NEW how \in Recorded,
         place[a] # "over", End(a, how), Audit(a, how),
         counted' \subseteq counted \cup {a},
         a \in counted' => how \in {"success", "failed"}
  PROVE  TrailInv'
  <1>0. GatewayTypeOK /\ how \in Ending
    BY DEF TrailInv, Recorded, Ending
  <1>1. /\ Own(trail', a) = Own(trail, a) \cup {Len(trail) + 1}
        /\ trail'[Len(trail) + 1].result = how
        /\ \A b \in Actions : b # a => Own(trail', b) = Own(trail, b)
        /\ \A n \in DOMAIN trail : trail'[n] = trail[n]
    BY <1>0, AuditedPlaces
  <1>2. /\ ending'[a] = how /\ place'[a] = "over"
        /\ \A b \in Actions : b # a => ending'[b] = ending[b] /\ place'[b] = place[b]
    BY <1>0 DEF GatewayTypeOK, End
  <1>3. Own(trail, a) = {}
    BY DEF TrailInv, Told, Recorded
  <1>4. Own(trail', a) = {Len(trail) + 1}
    BY <1>1, <1>3
  <1>5. \A b \in Actions : Told(b)'
    <2> TAKE b \in Actions
    <2>1. CASE b = a
      BY <1>1, <1>2, <1>4, <2>1 DEF Told, Recorded
    <2>2. CASE b # a
      <3>1. Told(b) /\ Own(trail', b) = Own(trail, b) /\ ending'[b] = ending[b]
        BY <1>1, <1>2, <2>2 DEF TrailInv
      <3>2. \A n \in Own(trail, b) : trail'[n] = trail[n]
        BY <1>1 DEF Own
      <3>3. b \in counted' => b \in counted
        BY <2>2
      <3> QED
        BY <3>1, <3>2, <3>3 DEF Told
    <2> QED
      BY <2>1, <2>2
  <1> QED
    BY <1>2, <1>5 DEF TrailInv

\* A step that writes no record: what it ends, it ends without one.
LEMMA QuietTold ==
  ASSUME TrailInv, GatewayTypeOK', trail' = trail, counted' \subseteq counted,
         \A a \in Actions :
           \/ ending'[a] = ending[a] /\ (place'[a] # "over" => place[a] # "over")
           \/ /\ ending[a] = "none" /\ ending'[a] \notin Recorded
              /\ place[a] # "over" /\ place'[a] = "over"
  PROVE  TrailInv'
  <1>1. \A a \in Actions : Told(a)'
    <2> TAKE a \in Actions
    <2>1. CASE ending'[a] = ending[a]
      BY <2>1 DEF TrailInv, Told, Own
    <2>2. CASE ending[a] = "none" /\ ending'[a] \notin Recorded
      BY <2>2 DEF TrailInv, Told, Own, Recorded
    <2> QED
      BY <2>1, <2>2
  <1> QED
    BY <1>1 DEF TrailInv

\* Every step keeps the trail and the endings in accord.
LEMMA TrailInductive == GatewaySpec => []TrailInv
  <1>1. GatewayInit /\ GatewayTypeOK => TrailInv
    BY DEF GatewayInit, TrailInv, Told, Own, Recorded
  <1>2. TrailInv /\ GatewayTypeOK' /\ [GatewayNext]_gatewayVars => TrailInv'
    <2> SUFFICES ASSUME TrailInv, GatewayTypeOK', [GatewayNext]_gatewayVars PROVE TrailInv'
      OBVIOUS
    <2>0. GatewayTypeOK
      BY DEF TrailInv
    <2>1. ASSUME NEW a \in Actions, Refuse(a) PROVE TrailInv'
      <3> PICK q \in Asked, approval \in handed \cup {NoApproval} : Refuse(a)!(q, approval)
        BY <2>1 DEF Refuse
      <3>1. Decision(q) \in {"denied", "approval_required"}
        BY DEF Cleared, Decision
      <3>2. a \notin counted
        BY DEF TrailInv, Told
      <3> QED
        BY <3>1, <3>2, EndTold DEF Recorded
    <2>2. ASSUME NEW a \in Actions, Exceed(a) PROVE TrailInv'
      <3>1. /\ place[a] = "new" /\ End(a, "over_limit") /\ trail' = trail
            /\ counted' \subseteq counted
        BY <2>2 DEF Exceed, Recent
      <3>2. ending[a] = "none"
        BY <3>1 DEF TrailInv
      <3> QED
        BY <2>0, <3>1, <3>2, QuietTold DEF End, Recorded, GatewayTypeOK
    <2>3. ASSUME NEW a \in Actions, Admit(a) PROVE TrailInv'
      <3>1. /\ place[a] = "new" /\ place' = [place EXCEPT ![a] = "under_way"]
            /\ trail' = trail /\ ending' = ending /\ counted' \subseteq counted
        BY <2>3 DEF Admit, Recent
      <3>2. \A b \in Actions : place'[b] # "over" => place[b] # "over"
        BY <2>0, <3>1 DEF GatewayTypeOK
      <3> QED
        BY <3>1, <3>2, QuietTold
    <2>4. ASSUME NEW a \in Actions, Complete(a) PROVE TrailInv'
      <3> PICK result \in {"success", "failed"}, usage \in Estimate :
             Complete(a)!(result, usage)
        BY <2>4 DEF Complete
      <3>1. place[a] = "under_way" /\ ending[a] = "none"
        BY DEF TrailInv
      <3>2. CASE \E b \in Budgets : usage[b] < 0
        <4>1. End(a, "miscounted") /\ trail' = trail /\ counted' = counted
          BY <3>2
        <4> QED
          BY <2>0, <3>1, <4>1, QuietTold DEF End, Recorded, GatewayTypeOK
      <3>3. CASE ~\E b \in Budgets : usage[b] < 0
        <4>1. End(a, result) /\ Audit(a, result) /\ counted' = counted \cup {a}
          BY <3>3
        <4> QED
          BY <3>1, <4>1, EndTold DEF Recorded
      <3> QED
        BY <3>2, <3>3
    <2>5. ASSUME NEW a \in Actions, Drop(a) PROVE TrailInv'
      <3>1. /\ place[a] = "under_way" /\ End(a, "dropped") /\ trail' = trail
            /\ counted' = counted
        BY <2>5 DEF Drop
      <3>2. ending[a] = "none"
        BY <3>1 DEF TrailInv
      <3> QED
        BY <2>0, <3>1, <3>2, QuietTold DEF End, Recorded, GatewayTypeOK
    <2>6. CASE UNCHANGED <<place, ending, counted, trail>>
      BY <2>6, QuietTold
    <2>7. ASSUME NEW r \in Requests, RequestApproval(r) \/ Resolve(r) PROVE TrailInv'
      BY <2>6, <2>7 DEF RequestApproval, Resolve
    <2>8. CASE TickClock \/ UNCHANGED gatewayVars
      BY <2>6, <2>8 DEF TickClock, gatewayVars
    <2> QED
      BY <2>1, <2>2, <2>3, <2>4, <2>5, <2>7, <2>8 DEF GatewayNext
  <1> QED
    BY <1>1, <1>2, GatewayTypeCorrect, PTL DEF GatewaySpec

\* However many actions overlap: the audit trail has one record, with the right result,
\* of each action that was refused or that completed, and of every counted one.
THEOREM TrailAlwaysTellsOutcome == GatewaySpec => []TrailTellsOutcome
  <1>1. TrailInv => TrailTellsOutcome
    BY DEF TrailInv, Told, Own, Recorded, TrailTellsOutcome
  <1> QED
    BY <1>1, TrailInductive, PTL

-----------------------------------------------------------------------------
\* The integrity engine

\* Fresh evidence that does not contradict a claim supports it.
LEMMA SupportOrContradiction ==
  \A claim, item : Supports(claim, item) \/ Contradicts(claim, item)
  BY DEF Supports, Contradicts

LEMMA OppositePolarities ==
  ASSUME NEW p, NEW q, {p, q} = {"true", "false"}
  PROVE  p \in {"true", "false"} /\ q \in {"true", "false"} /\ p # q
  <1>1. p \in {"true", "false"} /\ q \in {"true", "false"}
    OBVIOUS
  <1>2. ASSUME p = q PROVE FALSE
    <2>1. {p} = {"true", "false"}
      BY <1>2
    <2>2. "true" \in {p} /\ "false" \in {p}
      BY <2>1
    <2> QED
      BY <2>2
  <1> QED
    BY <1>1, <1>2

\* What validate_claim can answer, and what a settled answer says of the evidence.
LEMMA VerdictFacts ==
  ASSUME NEW claim, NEW fresh, NEW stale
  PROVE  LET verdict == Verdict(claim, fresh, stale)
         IN /\ verdict \in Status \ {"unsupported"}
            /\ verdict \in Settled => \A i \in fresh : Supports(claim, evidence[i])
  <1> DEFINE supporting == {i \in fresh : Supports(claim, evidence[i])}
             contradicting == {i \in fresh : Contradicts(claim, evidence[i])}
             verdict == Verdict(claim, fresh, stale)
  <1>1. CASE contradicting # {}
    <2>1. verdict = "questionable"
      BY <1>1 DEF Verdict
    <2> QED
      BY <2>1 DEF Status, Settled
  <1>2. CASE contradicting = {}
    <2>1. \A i \in fresh : Supports(claim, evidence[i])
      BY <1>2, SupportOrContradiction
    <2>2. supporting = {} => verdict = "insufficient_evidence"
      <3>1. supporting = fresh
        BY <2>1
      <3> QED
        BY <1>2, <3>1 DEF Verdict
    <2>3. supporting # {} =>
            verdict \in {"questionable", "technically_risky", "supported"}
      BY <1>2 DEF Verdict
    <2> QED
      BY <2>1, <2>2, <2>3 DEF Status, Settled
  <1> QED
    BY <1>1, <1>2

\* Whatever settled a claim was given and is still fresh supports it.
IntegrityInv ==
  /\ IntegrityTypeOK
  /\ \A n \in 1 .. Len(assessed) :
       /\ assessed[n].seen <= Len(evidence)
       /\ assessed[n].status # "unsupported"
       /\ assessed[n].status \in Settled =>
            \A i \in 1 .. assessed[n].seen :
              Matches(assessed[n].claim, evidence[i]) /\ i \notin expired
                => Supports(assessed[n].claim, evidence[i])

\* What the sequences hold.
LEMMA ElementTypes ==
  ASSUME IntegrityTypeOK, NEW n \in 1 .. Len(assessed)
  PROVE  assessed[n].seen \in Nat /\ Len(evidence) \in Nat
  <1> DEFINE T == [claim : Claim, status : Status, seen : Nat]
  <1>1. assessed \in Seq(T) /\ evidence \in Seq(Item)
    BY DEF IntegrityTypeOK
  <1>2. \A x \in T : x.seen \in Nat
    OBVIOUS
  <1> HIDE DEF T
  <1>3. assessed[n] \in T
    BY <1>1
  <1> QED
    BY <1>1, <1>2, <1>3

\* Assessments have one of the statuses.
LEMMA StatusTypes ==
  ASSUME IntegrityTypeOK
  PROVE  \A n \in 1 .. Len(assessed) : assessed[n].status \in Status
  <1> DEFINE T == [claim : Claim, status : Status, seen : Nat]
  <1>1. assessed \in Seq(T)
    BY DEF IntegrityTypeOK
  <1>2. \A x \in T : x.status \in Status
    OBVIOUS
  <1> HIDE DEF T
  <1> QED
    BY <1>1, <1>2

\* An idea is supported when each of its criteria is.
LEMMA SupportedIdea ==
  ASSUME NEW criteria, IdeaStatus(criteria) = "supported",
         \A n \in criteria : assessed[n].status \in Status
  PROVE  \A n \in criteria : assessed[n].status = "supported"
  BY DEF IdeaStatus, Status

LEMMA IntegrityInductive == IntegritySpec => []IntegrityInv
  <1>1. IntegrityInit => IntegrityInv
    BY DEF IntegrityInit, IntegrityInv, IntegrityTypeOK
  <1>2. IntegrityInv /\ [IntegrityNext]_integrityVars => IntegrityInv'
    <2> SUFFICES ASSUME IntegrityInv, [IntegrityNext]_integrityVars
                 PROVE  IntegrityInv'
      OBVIOUS
    <2> USE DEF IntegrityInv
    <2>1. ASSUME NEW item \in Item, Track(item) PROVE IntegrityInv'
      <3>1. /\ evidence' = Append(evidence, item)
            /\ UNCHANGED <<expired, assessed>>
        BY <2>1 DEF Track
      <3>2. /\ evidence' \in Seq(Item) /\ Len(evidence') = Len(evidence) + 1
            /\ \A i \in 1 .. Len(evidence) : evidence'[i] = evidence[i]
        BY <3>1 DEF IntegrityTypeOK
      <3>3. IntegrityTypeOK'
        BY <3>1, <3>2 DEF IntegrityTypeOK
      <3>4. ASSUME NEW n \in 1 .. Len(assessed)
            PROVE  /\ assessed[n].seen \in Nat /\ assessed[n].seen <= Len(evidence')
                   /\ \A i \in 1 .. assessed[n].seen : evidence'[i] = evidence[i]
        BY <3>2, ElementTypes
      <3> QED
        BY <3>1, <3>3, <3>4 DEF Matches, Supports
    <2>2. ASSUME NEW i \in 1 .. Len(evidence), Expire(i) PROVE IntegrityInv'
      BY <2>2 DEF Expire, IntegrityTypeOK, Matches, Supports
    <2>3. ASSUME NEW claim \in Claims, Validate(claim) PROVE IntegrityInv'
      <3>0. claim \in Claim
        BY IntegrityAssumption
      <3>1. PICK expiring \in SUBSET (Matching(claim) \ expired) : Validate(claim)!(expiring)
        BY <2>3 DEF Validate
      <3> DEFINE fresh == Matching(claim) \ expired
                 stale == Matching(claim) \cap (expired \cup expiring)
                 given == [claim |-> claim, status |-> Verdict(claim, fresh, stale),
                           seen |-> Len(evidence)]
      <3>2. assessed' = Append(assessed, given) /\ expired' = expired \cup expiring
            /\ UNCHANGED evidence
        BY <3>1
      <3>3. /\ given.status \in Status \ {"unsupported"}
            /\ given.status \in Settled => \A i \in fresh : Supports(claim, evidence[i])
        BY VerdictFacts
      <3>4. given.seen = Len(evidence) /\ given.claim = claim /\ Len(evidence) \in Nat
            /\ given \in [claim : Claim, status : Status, seen : Nat]
        BY <3>0, <3>3 DEF IntegrityTypeOK
      <3> HIDE DEF given
      <3>5. IntegrityTypeOK'
        <4>1. Matching(claim) \in SUBSET (1 .. Len(evidence))
          BY DEF Matching
        <4>2. expired' \in SUBSET (1 .. Len(evidence'))
          BY <3>2, <4>1 DEF IntegrityTypeOK
        <4>3. assessed' \in Seq([claim : Claim, status : Status, seen : Nat])
          BY <3>2, <3>4 DEF IntegrityTypeOK
        <4> QED
          BY <3>2, <4>2, <4>3 DEF IntegrityTypeOK
      <3>6. ASSUME NEW n \in 1 .. Len(assessed')
            PROVE  \/ n \in 1 .. Len(assessed) /\ assessed'[n] = assessed[n]
                   \/ assessed'[n] = given
        BY <3>2, <3>4 DEF IntegrityTypeOK
      <3>7. given.status \in Settled =>
              \A i \in 1 .. given.seen :
                Matches(given.claim, evidence[i]) /\ i \notin expired
                  => Supports(given.claim, evidence[i])
        BY <3>3, <3>4 DEF Matching
      <3>8. ASSUME NEW n \in 1 .. Len(assessed')
            PROVE  /\ assessed'[n].seen <= Len(evidence')
                   /\ assessed'[n].status # "unsupported"
                   /\ assessed'[n].status \in Settled =>
                        \A i \in 1 .. assessed'[n].seen :
                          Matches(assessed'[n].claim, evidence'[i]) /\ i \notin expired'
                            => Supports(assessed'[n].claim, evidence'[i])
        <4>1. CASE n \in 1 .. Len(assessed) /\ assessed'[n] = assessed[n]
          BY <3>2, <4>1
        <4>2. CASE assessed'[n] = given
          BY <3>2, <3>3, <3>4, <3>7, <4>2
        <4> QED
          BY <3>6, <4>1, <4>2
      <3> QED
        BY <3>2, <3>5, <3>8 DEF Matches, Supports
    <2>4. CASE UNCHANGED integrityVars
      BY <2>4 DEF integrityVars, IntegrityTypeOK, Matches, Supports
    <2> QED
      BY <2>1, <2>2, <2>3, <2>4 DEF IntegrityNext
  <1> QED
    BY <1>1, <1>2, PTL DEF IntegritySpec

\* The tracked evidence and the assessments keep their types.
THEOREM IntegrityTypeCorrect == IntegritySpec => []IntegrityTypeOK
  BY IntegrityInductive, PTL DEF IntegrityInv

\* A claim that was settled and the contradiction detector never disagree about the
\* evidence the claim was settled on, for any evidence, however it expires.
THEOREM SettledClaimsAgree == IntegritySpec => []SettledMeansAgreed
  <1>1. IntegrityInv => SettledMeansAgreed
    <2> SUFFICES ASSUME IntegrityInv PROVE SettledMeansAgreed
      OBVIOUS
    <2>1. ASSUME NEW n \in 1 .. Len(assessed), assessed[n].status \in Settled
          PROVE  AgreedOn(n)
      <3> SUFFICES ASSUME NEW i \in 1 .. assessed[n].seen, NEW j \in 1 .. assessed[n].seen,
                          Matches(assessed[n].claim, evidence[i]),
                          Matches(assessed[n].claim, evidence[j]),
                          Conflict(i, j)
                   PROVE  FALSE
        BY DEF AgreedOn
      <3>1. /\ Supports(assessed[n].claim, evidence[i])
            /\ Supports(assessed[n].claim, evidence[j])
        BY <2>1 DEF IntegrityInv, Conflict
      <3>2. /\ evidence[i].polarity \in {"true", "false"}
            /\ evidence[j].polarity \in {"true", "false"}
            /\ evidence[i].polarity # evidence[j].polarity
        BY OppositePolarities DEF Conflict
      <3> QED
        BY <3>1, <3>2 DEF Supports
    <2>2. ASSUME NEW criteria \in SUBSET (1 .. Len(assessed)), IdeaStatus(criteria) = "supported",
                 NEW n \in criteria
          PROVE  AgreedOn(n)
      <3>1. assessed[n].status = "supported"
        BY <2>2, StatusTypes, SupportedIdea DEF IntegrityInv
      <3> QED
        BY <2>1, <3>1 DEF Settled
    <2>3. ASSUME NEW n \in Known, NEW m \in Known, Opposite(n, m),
                 NEW i \in 1 .. Len(evidence),
                 i <= assessed[n].seen, i <= assessed[m].seen, i \notin expired,
                 Matches(assessed[n].claim, evidence[i])
          PROVE  evidence[i].polarity = "none"
      <3>1. n \in 1 .. Len(assessed) /\ m \in 1 .. Len(assessed)
            /\ assessed[n].status \in Settled /\ assessed[m].status \in Settled
        BY DEF Known, Settled
      <3>2. i \in 1 .. assessed[n].seen /\ i \in 1 .. assessed[m].seen
        BY <2>3, <3>1, ElementTypes DEF IntegrityInv
      <3>3. Matches(assessed[m].claim, evidence[i])
        BY <2>3 DEF Opposite, Matches
      <3>4. Supports(assessed[n].claim, evidence[i]) /\ Supports(assessed[m].claim, evidence[i])
        BY <2>3, <3>1, <3>2, <3>3 DEF IntegrityInv
      <3> QED
        BY <2>3, <3>4 DEF Supports, Opposite
    <2> QED
      BY <2>1, <2>2, <2>3 DEF SettledMeansAgreed
  <1> QED
    BY <1>1, IntegrityInductive, PTL

\* UNSUPPORTED is a verdict that validate_claim cannot reach, for any evidence, whatever
\* its documentation says of it: the general form of what the run of UnsupportedIsTold shows.
THEOREM UnsupportedIsUnreachable == IntegritySpec => []NeverUnsupported
  <1>1. IntegrityInv => NeverUnsupported
    <2> SUFFICES ASSUME IntegrityInv PROVE NeverUnsupported
      OBVIOUS
    <2>1. ASSUME NEW criteria \in SUBSET (1 .. Len(assessed))
          PROVE  IdeaStatus(criteria) # "unsupported"
      <3>1. "unsupported" \notin {assessed[n].status : n \in criteria}
        BY DEF IntegrityInv
      <3> QED
        BY <3>1 DEF IdeaStatus
    <2> QED
      BY <2>1 DEF IntegrityInv, NeverUnsupported
  <1> QED
    BY <1>1, IntegrityInductive, PTL
=============================================================================
