\* One entity of up to three versions with two clients, one memory with one client,
\* three actions in a window that holds one, two items of evidence for two
\* assessments, three runs over two tasks.  One build over two retrievers, one run of
\* a plan, up to four assignments of three kinds where three may be given, one context
\* of a project.  The built-in suite alone and with a caller's cases, with at most one
\* deviating response; up to three attacks.  Four files of which three are
\* documentation and one of those generated, up to three edits.  Two calls that write.
\* Routers of up to three routes over two names.  Three events, three subscriptions of
\* two handlers.  Two jobs, one of them without a handler, and workers of three
\* processes, one of which may die once: at most nine claims of a job.
\* Every call, action and run happens once: a service may stop when all have.
SPECIFICATION Spec
CONSTANTS
  Entities = {e}
  Clients = {a, b}
  MaxVersions = 3
  MaxRelations = 1
  None = None
  Memories = {m}
  Keepers = {k}
  Absent = Absent
  Actions = {a1, a2, a3}
  MaxActions = 1
  WindowSeconds = 1
  Budgets = {"cost", "seconds"}
  Limit = 1
  MaxUsage = 1
  MaxClock = 2
  Requests = {r}
  NoApproval = NoApproval
  Keys = {key}
  NoKey = NoKey
  Sources = {s1, s2}
  Claims <- Stated
  MaxEvidence = 2
  MaxAssessments = 2
  Tasks = {t1, t2}
  Runs = {r1, r2, r3}
  Retrievers = 2
  Pool <- Pieces
  ContextRequests <- Wishes
  Compactions <- Budgeted
  MaxShelved = 4
  MaxPlan = 2
  AgentKinds = {ka, kb, kc}
  MaxAssignments = 3
  MaxWork = 4
  Paths = 4
  DocPaths = {1, 2, 3}
  UnsafePaths = {3}
  LargePaths = {2}
  EmptyCommits = {2}
  MaxCommits = 3
  Suites <- ExtendedSuites
  MaxDeviations = 1
  Attacks = 3
  LocalFiles = 4
  LocalDocs = {1, 2, 4}
  Generated = {2}
  MaxEdits = 3
  Writes = {w1, w2}
  RouteNames = {ra, rb}
  TaskTypes = {"general", "verification"}
  MaxRoutes = 3
  Unnamed = Unnamed
  Handlers = {ha, hb}
  MaxEvents = 3
  MaxSubscribed = 3
  NumJobs = 2
  Workers = {wa, wb, wc}
  LeaseTicks = 1
  MaxAttempts = 2
  Unhandled = {2}
  Stoppable = {wb}
  Interleaved = TRUE
  Overrun = FALSE
  MaxCrashes = 1
  MaxClaims = 9
  Idle = Idle
  NoLease = NoLease
SYMMETRY Symmetry
INVARIANTS
  LimitsHold TrailTellsOutcome SettledMeansAgreed ResultsFollowHistory
  ChoicesExplained ObserverKnowsTheRun ChallengesFitResults UnsafeNeverPasses
  DocumentsFitTheProject EffectsAreAudited DeliveredToSubscribers
  HandlerOwnsJob
PROPERTIES StoresKeepThePast FinishedIsFinal
CHECK_DEADLOCK FALSE
