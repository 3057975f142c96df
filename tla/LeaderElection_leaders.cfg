SPECIFICATION FairSpec
CONSTANTS
  Replicas = {r1, r2}
  NoReplica = NoReplica
  Config <- MCConfig
  SecondsPerTick = 5
  Delay = 1
  MaxFaults = 2
  MaxErrors = 1
INVARIANTS TypeOK OverlapBounded StandbyIdle
PROPERTIES TakenWhenSilent Reconciled
