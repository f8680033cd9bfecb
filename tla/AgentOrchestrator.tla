-------------------------- MODULE AgentOrchestrator --------------------------
(***************************************************************************)
(* AgentOrchestrator.run of specialized/runtime.py: every assignment is    *)
(* run by an agent of its kind, then every agent is asked to challenge     *)
(* the results of the other kinds.  What agents answer is the              *)
(* application's; any of them may raise.                                   *)
(***************************************************************************)
EXTENDS Naturals, Sequences

CONSTANTS
  AgentKinds,      \* the kinds of agents
  MaxAssignments,  \* max_assignments
  MaxWork          \* bound of the assignments given

ASSUME OrchestrationAssumption == MaxAssignments \in Nat \ {0} /\ MaxWork \in Nat

OrchestrationStage == {"idle", "running", "challenging", "returned", "escalated", "raised"}

VARIABLES
  stage,       \* where the run stands
  work,        \* the kinds assigned, in order
  ran,         \* assignments whose agents have returned
  results,     \* the assignment whose result is kept for a kind, 0 for none
  keys,        \* the kinds in results, in the order in which they got their first
  posed,       \* the questions posed: an assignment, and the place of a kind in keys
  challenges   \* challenges made: the assignment of the challenger, the kind
               \* challenged and the assignment whose result it was shown

orchestrationVars == <<stage, work, ran, results, keys, posed, challenges>>

OrchestrationTypeOK ==
  /\ stage \in OrchestrationStage
  /\ work \in Seq(AgentKinds) /\ Len(work) <= MaxWork
  /\ ran \in 0 .. Len(work)
  /\ results \in [AgentKinds -> 0 .. Len(work)]
  /\ keys \in Seq(AgentKinds)
  /\ posed \subseteq (1 .. Len(work)) \X (1 .. Len(keys))
  /\ challenges \in Seq([by : 1 .. Len(work), target : AgentKinds, of : 1 .. Len(work)])

OrchestrationInit ==
  /\ stage = "idle" /\ work = <<>> /\ ran = 0
  /\ results = [kind \in AgentKinds |-> 0] /\ keys = <<>>
  /\ posed = {} /\ challenges = <<>>

-----------------------------------------------------------------------------
\* Helpers

\* The questions of the second loop that are left: each assignment's agent is asked
\* about the results of the other kinds.
Unposed == {q \in (1 .. Len(work)) \X (1 .. Len(keys)) : keys[q[2]] # work[q[1]]} \ posed

Sooner(q, r) == q[1] < r[1] \/ (q[1] = r[1] /\ q[2] < r[2])

\* After so many assignments the loop goes on, or the second one begins.
Phase(finished, all) == IF finished < all THEN "running" ELSE "challenging"

-----------------------------------------------------------------------------
\* Actions

\* Too many assignments are escalated before any of them runs.
Assign(assigned) ==
  /\ stage = "idle"
  /\ work' = assigned
  /\ stage' = IF Len(assigned) > MaxAssignments THEN "escalated" ELSE Phase(0, Len(assigned))
  /\ UNCHANGED <<ran, results, keys, posed, challenges>>

\* Variant: the first result of a kind is kept.
AssignedReturnsFirst ==
  /\ stage = "running"
  /\ ran' = ran + 1
  /\ results' = IF results[work[ran + 1]] # 0 THEN results
                ELSE [results EXCEPT ![work[ran + 1]] = ran + 1]
  /\ keys' = IF results[work[ran + 1]] # 0 THEN keys ELSE Append(keys, work[ran + 1])
  /\ stage' = Phase(ran + 1, Len(work))
  /\ UNCHANGED <<work, posed, challenges>>

\* A second assignment of one kind replaces the result of the first, in its place.
AssignedReturns ==
  /\ stage = "running"
  /\ ran' = ran + 1
  /\ results' = [results EXCEPT ![work[ran + 1]] = ran + 1]
  /\ keys' = IF results[work[ran + 1]] # 0 THEN keys ELSE Append(keys, work[ran + 1])
  /\ stage' = Phase(ran + 1, Len(work))
  /\ UNCHANGED <<work, posed, challenges>>

\* The next agent is shown the next result, and challenges it or does not.
AskChallenge == \E q \in Unposed :
  /\ stage = "challenging"
  /\ \A r \in Unposed \ {q} : Sooner(q, r)
  /\ posed' = posed \cup {q}
  /\ LET target == keys[q[2]]
     IN challenges' \in {challenges,
          Append(challenges, [by |-> q[1], target |-> target, of |-> results[target]])}
  /\ UNCHANGED <<stage, work, ran, results, keys>>

Conclude ==
  /\ stage = "challenging" /\ Unposed = {}
  /\ stage' = "returned"
  /\ UNCHANGED <<work, ran, results, keys, posed, challenges>>

\* A kind without a specification, an agent that raises, a caller that is cancelled:
\* nothing is returned of what the other agents did.
OrchestrationRaises ==
  /\ stage = "running" \/ (stage = "challenging" /\ Unposed # {})
  /\ stage' = "raised"
  /\ UNCHANGED <<work, ran, results, keys, posed, challenges>>

OrchestrationNext ==
  \/ \E n \in 0 .. MaxWork : \E assigned \in [1 .. n -> AgentKinds] : Assign(assigned)
  \/ AssignedReturns \/ AskChallenge \/ Conclude \/ OrchestrationRaises

OrchestrationSpec == OrchestrationInit /\ [][OrchestrationNext]_orchestrationVars

-----------------------------------------------------------------------------
\* Properties

\* What is returned fits together although results replace each other: the result of
\* a kind is that of its last assignment; every challenge was made of a result that
\* is returned, by an agent of another kind and once per assignment; every assignment
\* was asked once about every other kind.  An escalated run has run nothing.
ChallengesFitResults ==
  /\ stage = "returned" =>
       /\ \A n \in 1 .. Len(work) :
            n <= results[work[n]] /\ work[results[work[n]]] = work[n]
       /\ \A i \in 1 .. Len(challenges) :
            LET made == challenges[i]
            IN /\ made.of = results[made.target] /\ work[made.of] # work[made.by]
               /\ \A j \in 1 .. i - 1 : challenges[j] # made
       /\ \A by, n \in 1 .. Len(work) : work[n] # work[by] =>
            \E q \in posed : {r \in posed : r[1] = by /\ keys[r[2]] = work[n]} = {q}
  /\ stage = "escalated" => ran = 0 /\ posed = {}
=============================================================================
