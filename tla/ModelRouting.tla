----------------------------- MODULE ModelRouting -----------------------------
(***************************************************************************)
(* performance/routing.py: a ModelRouter is built from a list of routes    *)
(* and a policy, and prepares requests: it selects a route and completes   *)
(* the request.  A provider serves the model that a request names, and its *)
(* own when it names none.                                                 *)
(***************************************************************************)
EXTENDS Naturals, Sequences, FiniteSets

CONSTANTS
  RouteNames,  \* of routes and of models
  TaskTypes,   \* values of metadata["task_type"], "general" where there is none
  MaxRoutes,   \* bound: routes of a router
  Unnamed      \* no explicit model, no route for a task

ASSUME RoutingAssumption == MaxRoutes \in Nat /\ Unnamed \notin RouteNames

ModelRoute == [name : RouteNames, model : RouteNames]

RoutingPolicy == [default : RouteNames, tasks : [TaskTypes -> RouteNames \cup {Unnamed}]]

VARIABLES
  router,   \* the routes in the order of their names' first registration, the policy
  prepared  \* the last request: what it asked for, its route and the model it names

routingVars == <<router, prepared>>

NothingPrepared == [model |-> Unnamed, task |-> "general", route |-> 0, sent |-> Unnamed]

-----------------------------------------------------------------------------
\* Constructing a router

\* {route.name: route}: a name keeps its first place and has its last route.
Registered(list) ==
  LET first(n) == \A m \in 1 .. n - 1 : list[m].name # list[n].name
      last(n) == CHOOSE m \in DOMAIN list : /\ list[m].name = list[n].name
                                           /\ \A k \in m + 1 .. Len(list) : list[k].name # list[n].name
      \* the place in the list of the k-th of the names
      place(k) == CHOOSE n \in DOMAIN list : first(n) /\ Cardinality({m \in 1 .. n : first(m)}) = k
  IN [k \in 1 .. Cardinality({n \in DOMAIN list : first(n)}) |-> list[last(place(k))]]

\* An unknown route in the policy is a ValueError: there is no such router.
Routable(routes, policy) ==
  LET names == {routes[n].name : n \in DOMAIN routes}
  IN policy.default \in names /\ \A t \in TaskTypes : policy.tasks[t] \in names \cup {Unnamed}

RoutingInit ==
  /\ \E size \in 1 .. MaxRoutes : \E list \in [1 .. size -> ModelRoute], policy \in RoutingPolicy :
       /\ Routable(Registered(list), policy)
       /\ router = [routes |-> Registered(list), policy |-> policy]
  /\ prepared = NothingPrepared

-----------------------------------------------------------------------------
\* Routing a request

\* The places of the routes that an explicit choice may mean.
Meant(explicit) ==
  {n \in DOMAIN router.routes : router.routes[n].model = explicit \/ router.routes[n].name = explicit}

First(places) == CHOOSE n \in places : \A m \in places : n <= m

Named(name) == CHOOSE n \in DOMAIN router.routes : router.routes[n].name = name

\* The first route that is meant; without one, that of the task or the default.
Route(explicit, task) ==
  LET name == IF router.policy.tasks[task] = Unnamed THEN router.policy.default
              ELSE router.policy.tasks[task]
  IN IF explicit # Unnamed /\ Meant(explicit) # {} THEN First(Meant(explicit)) ELSE Named(name)

\* An explicit choice is left as it is, also when it is the name of the route.
Prepare == \E explicit \in RouteNames \cup {Unnamed}, task \in TaskTypes :
  LET route == Route(explicit, task) IN
  /\ prepared' = [model |-> explicit, task |-> task, route |-> route,
                  sent |-> IF explicit = Unnamed THEN router.routes[route].model ELSE explicit]
  /\ UNCHANGED router

RoutingSpec == RoutingInit /\ [][Prepare]_routingVars

-----------------------------------------------------------------------------
\* Properties

\* The model that a provider is asked for is the model of the route, whose price and
\* concurrency the caller goes by, whatever the policy and the task are: always where
\* the request names no model, and otherwise unless the model it names is the name of
\* that route or means no route at all.  However names are registered twice, a choice
\* that means a route gets one it means.
AskedForItsOwnModel ==
  prepared.route # 0 =>
    LET route == router.routes[prepared.route] IN
    \/ prepared.sent = route.model
    \/ prepared.model = route.name
    \/ /\ prepared.model # Unnamed
       /\ \A n \in DOMAIN router.routes :
            prepared.model \notin {router.routes[n].name, router.routes[n].model}
=============================================================================
