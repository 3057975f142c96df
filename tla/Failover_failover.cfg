SPECIFICATION FailoverFairSpec
CONSTANTS
  Replicas = {r1, r2}
  NoReplica = NoReplica
  Config <- MCConfig
  SecondsPerTick = 5
  Delay = 0
  MaxFaults = 1
  MaxErrors = 0
  Objects = {o}
  NoObject = NoObject
  RequestDelay = 1
INVARIANTS CollectionTypeOK StrayDeletesBounded ReportedOnce
PROPERTY CollectedAcrossLeaders
