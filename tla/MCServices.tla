------------------------------ MODULE MCServices ----------------------------
(***************************************************************************)
(* The services that share no state with each other, for TLC: those that   *)
(* keep it in the process, and the job table that several processes share. *)
(* A behaviour uses one of them, so that their state spaces add up instead *)
(* of multiplying: the steps of one service neither read nor write the     *)
(* state of another.                                                       *)
(***************************************************************************)
EXTENDS Stores, SecurityGateway, MCIntegrityEngine, SdkFacade, Choices,
        AgentRuntime, AgentOrchestrator, Integrations, Evaluation, ExternalWrites,
        RuntimeEvents, JobQueue, TLC

VARIABLE service  \* the one that is used

Init ==
  /\ KnowledgeInit /\ MemoryInit /\ GatewayInit /\ IntegrityInit /\ SdkInit
  /\ ContextInit /\ AgentRunInit /\ OrchestrationInit /\ ProjectInit
  /\ WriteInit /\ RuntimeInit /\ JobInit
  /\ service \in {"knowledge", "memory", "gateway", "integrity", "sdk", "context",
                  "agent", "orchestration", "project", "evaluation", "redteam",
                  "local", "writes", "routing", "runtime", "jobs"}
  \* Of these services one initial state is enough where they are not used.
  /\ IF service = "evaluation" THEN EvaluationInit
     ELSE evaluation = [suite |-> <<>>, responses |-> <<>>, outcome |-> "running"]
  /\ RedTeamInit /\ (service # "redteam" => redteam.total = 0)
  /\ LocalInit /\ (service # "local" => \A f \in 1 .. LocalFiles : tree[f] = 0)
  /\ IF service = "routing" THEN RoutingInit ELSE router = <<>> /\ prepared = NothingPrepared

Uses(name) == service = name /\ UNCHANGED service

Next ==
  \/ /\ Uses("knowledge") /\ KnowledgeNext
     /\ UNCHANGED
          <<memoryVars, gatewayVars, integrityVars, sdkVars, contextVars, agentVars,
            orchestrationVars, projectVars, evaluation, redteam, localVars, writeVars,
            routingVars, runtimeVars, jobVars>>
  \/ /\ Uses("memory") /\ MemoryNext
     /\ UNCHANGED
          <<knowledgeVars, gatewayVars, integrityVars, sdkVars, contextVars, agentVars,
            orchestrationVars, projectVars, evaluation, redteam, localVars, writeVars,
            routingVars, runtimeVars, jobVars>>
  \/ /\ Uses("gateway") /\ GatewayNext
     /\ UNCHANGED
          <<knowledgeVars, memoryVars, integrityVars, sdkVars, contextVars, agentVars,
            orchestrationVars, projectVars, evaluation, redteam, localVars, writeVars,
            routingVars, runtimeVars, jobVars>>
  \/ /\ Uses("integrity") /\ IntegrityNext
     /\ UNCHANGED
          <<knowledgeVars, memoryVars, gatewayVars, sdkVars, contextVars, agentVars,
            orchestrationVars, projectVars, evaluation, redteam, localVars, writeVars,
            routingVars, runtimeVars, jobVars>>
  \/ /\ Uses("sdk") /\ SdkNext
     /\ UNCHANGED
          <<knowledgeVars, memoryVars, gatewayVars, integrityVars, contextVars,
            agentVars, orchestrationVars, projectVars, evaluation, redteam, localVars,
            writeVars, routingVars, runtimeVars, jobVars>>
  \/ /\ Uses("context") /\ ContextNext
     /\ UNCHANGED
          <<knowledgeVars, memoryVars, gatewayVars, integrityVars, sdkVars, agentVars,
            orchestrationVars, projectVars, evaluation, redteam, localVars, writeVars,
            routingVars, runtimeVars, jobVars>>
  \/ /\ Uses("agent") /\ AgentNext
     /\ UNCHANGED
          <<knowledgeVars, memoryVars, gatewayVars, integrityVars, sdkVars,
            contextVars, orchestrationVars, projectVars, evaluation, redteam,
            localVars, writeVars, routingVars, runtimeVars, jobVars>>
  \/ /\ Uses("orchestration") /\ OrchestrationNext
     /\ UNCHANGED
          <<knowledgeVars, memoryVars, gatewayVars, integrityVars, sdkVars,
            contextVars, agentVars, projectVars, evaluation, redteam, localVars,
            writeVars, routingVars, runtimeVars, jobVars>>
  \/ /\ Uses("project") /\ ProjectNext
     /\ UNCHANGED
          <<knowledgeVars, memoryVars, gatewayVars, integrityVars, sdkVars,
            contextVars, agentVars, orchestrationVars, evaluation, redteam, localVars,
            writeVars, routingVars, runtimeVars, jobVars>>
  \/ /\ Uses("evaluation") /\ EvaluationNext
     /\ UNCHANGED
          <<knowledgeVars, memoryVars, gatewayVars, integrityVars, sdkVars,
            contextVars, agentVars, orchestrationVars, projectVars, redteam, localVars,
            writeVars, routingVars, runtimeVars, jobVars>>
  \/ /\ Uses("redteam") /\ RedTeamNext
     /\ UNCHANGED
          <<knowledgeVars, memoryVars, gatewayVars, integrityVars, sdkVars,
            contextVars, agentVars, orchestrationVars, projectVars, evaluation,
            localVars, writeVars, routingVars, runtimeVars, jobVars>>
  \/ /\ Uses("local") /\ LocalNext
     /\ UNCHANGED
          <<knowledgeVars, memoryVars, gatewayVars, integrityVars, sdkVars,
            contextVars, agentVars, orchestrationVars, projectVars, evaluation,
            redteam, writeVars, routingVars, runtimeVars, jobVars>>
  \/ /\ Uses("writes") /\ WriteNext
     /\ UNCHANGED
          <<knowledgeVars, memoryVars, gatewayVars, integrityVars, sdkVars,
            contextVars, agentVars, orchestrationVars, projectVars, evaluation,
            redteam, localVars, routingVars, runtimeVars, jobVars>>
  \/ /\ Uses("routing") /\ Prepare
     /\ UNCHANGED
          <<knowledgeVars, memoryVars, gatewayVars, integrityVars, sdkVars,
            contextVars, agentVars, orchestrationVars, projectVars, evaluation,
            redteam, localVars, writeVars, runtimeVars, jobVars>>
  \/ /\ Uses("runtime") /\ RuntimeNext
     /\ UNCHANGED
          <<knowledgeVars, memoryVars, gatewayVars, integrityVars, sdkVars,
            contextVars, agentVars, orchestrationVars, projectVars, evaluation,
            redteam, localVars, writeVars, routingVars, jobVars>>
  \/ /\ Uses("jobs") /\ JobNext
     /\ UNCHANGED
          <<knowledgeVars, memoryVars, gatewayVars, integrityVars, sdkVars,
            contextVars, agentVars, orchestrationVars, projectVars, evaluation,
            redteam, localVars, writeVars, routingVars, runtimeVars>>

vars ==
  <<knowledgeVars, memoryVars, gatewayVars, integrityVars, sdkVars, contextVars,
    agentVars, orchestrationVars, projectVars, evaluation, redteam, localVars,
    writeVars, routingVars, runtimeVars, jobVars, service>>

Spec == Init /\ [][Next]_vars

Symmetry == Permutations(Actions)

-----------------------------------------------------------------------------
\* Values of constants

\* An item's text, length, metadata and kind; relevance, authority and freshness.
Piece(id, text, tag, kind, grades) ==
  [id |-> id, content |-> text[1], size |-> text[2], tag |-> tag, kind |-> kind,
   relevance |-> grades[1], authority |-> grades[2], freshness |-> grades[3]]

\* Two contents in two versions each, one of them equal in authority and score but
\* for the kind, the other unequal in authority.
Pieces ==
  {Piece(1, <<"x", 2>>, "t", "memory", <<50, 40, 100>>),
   Piece(2, <<"x", 3>>, "t", "knowledge", <<50, 40, 100>>),
   Piece(3, <<"y", 2>>, "t", "decision", <<50, 100, 0>>),
   Piece(4, <<"z", 1>>, "u", "memory", <<100, 50, 50>>),
   Piece(5, <<"y", 1>>, "u", "task", <<0, 90, 100>>)}

Wanted(limit, room, tag, kinds, minScore) ==
  [limit |-> limit, room |-> room, tag |-> tag, kinds |-> kinds, minScore |-> minScore]

\* A limit that is reached, a room that is, both filters, and metadata.
Wishes ==
  {Wanted(1, 9, "any", {}, 0), Wanted(2, 4, "any", {}, 0),
   Wanted(3, 4, "any", {"memory", "task"}, 4500), Wanted(3, 3, "t", {}, 0)}

Budgeted == {Wanted(1, 2, "any", {}, 0), Wanted(3, 3, "any", {}, 0)}

OrdinaryCase(id) == [id |-> id, adversarial |-> FALSE, critical |-> FALSE]

\* A caller's own cases after the built-in ones: with those a dishonest answer or a
\* failed case is outweighed in the rates.  And no cases at all.
ExtendedSuites ==
  {<<>>, BuiltinCases, BuiltinCases \o [n \in 1 .. 4 |-> OrdinaryCase(17 + n)]}

ASSUME StrictAssumption == StrictSuites
=============================================================================
