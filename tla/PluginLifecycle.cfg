CONSTANTS
  NOwners = 3
  r1 = r1
  r2 = r2
  Resources = {r1, r2}
  MaxInserts <- InsertsOf
  MaxEffects <- EffectsOf
SPECIFICATION FairSpec
CHECK_DEADLOCK FALSE
INVARIANTS
  LedgerIsWorld
  RestoredOnceInReverse
  SettledBetweenDrivers
  DependencyLostOnlyToStartup
PROPERTIES
  GateClosesFirst
  RollbackCompletes
