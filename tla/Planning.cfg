SPECIFICATION PlanningSpec
CONSTANTS
  cloud = cloud
  plan = plan
  NoBackend = NoBackend
  Billing <- TheBilling
  Shadow <- TheShadow
  ConfiguredRate <- TheRates
  Preference <- ThePriority
  Defaults <- TheDefaults
  Multiplier <- TheMultiplier
  LatencyRate = 1
  LocalRate = 1
  RetryThreshold = 25
  MinBucketRuns = 2
  TieBand = 3
  PacketLimit = 2
  Prompts <- ThePrompts
  Workspaces <- TheWorkspaces
  Worlds <- TheWorlds
  Outages <- TheOutages
  Histories <- TheHistories
  ScopeFree = FALSE
  SiteAnswers <- TheAnswers
  Levels = {4}
  PinCommands <- ThePins
  MaxPins = 1
  Drafts <- TheDrafts
  Capabilities = {"quick", "strong"}
  MaxId = 3
  Invocations <- TheInvocations
  MaxCalls = 1
  MaxFaults = 1
  MaxRuns = 2
INVARIANTS
  ClassesAreKept
  RoutesAreCurrent
  PlansAreSound
  RunIsAccounted
PROPERTIES
  PlansAreKept
