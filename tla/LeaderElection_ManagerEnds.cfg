SPECIFICATION FairSpec
CONSTANTS
  Replicas = {r1, r2}
  NoReplica = NoReplica
  Config <- MCConfig
  SecondsPerTick = 5
  Delay = 1
  MaxFaults = 0
  MaxErrors = 1
PROPERTIES ManagerEndsProcess
