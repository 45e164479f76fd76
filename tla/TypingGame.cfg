CONSTANTS
  SIZE = 2
  Letters = {"a", "b"}
  Bottom = 2
  Up = 2
  CreateEvery = 2
  Wrap = 2
  MaxDue = 1
SPECIFICATION FairSpec
INVARIANTS TypeOK ListIntact PoolSuffices SleepsListening
PROPERTIES ImplementsRules TicksSimulated KeyAnswered
CHECK_DEADLOCK TRUE
