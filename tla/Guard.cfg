SPECIFICATION GuardSpec
CONSTANTS
  Words <- TheWords
  Calls <- TheCalls
  Projects <- TheProjects
  Settings <- TheSettings
  Levels = {"unset", "high"}
  UserSecrets <- TheSecrets
  MaxLoads = 2
  Machines <- TheMachines
  Argvs <- TheArgvs
  UserFiles <- TheFiles
  Ballots <- TheBallots
  Limits = {1}
  MaxLaunches = 2
  MaxOthers = 1
INVARIANTS
  PolicyIsKept
  LaunchIsSound

  
