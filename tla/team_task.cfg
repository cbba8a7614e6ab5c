SPECIFICATION FairSpec
CONSTANTS
  alice = alice
  bob = bob
  carol = carol
  Participants <- ThreeAgents
  NoAgent = NoAgent
  NumCriteria = 1
  MaxAttempts = 2
  MaxRevisions = 1
  MaxTrouble = 1
INVARIANTS
  TypeOK
  LedgerShape
PROPERTIES
  PassIsUnanimous
  OthersAreAskedFirst
  CycleSpec
  Resolves
CHECK_DEADLOCK FALSE
