SPECIFICATION FairSpec
CONSTANTS
  NULL = NULL
  Methods = {m1, m2}
  MaxEnvs = 3
INVARIANTS
  TypeOK
  EntryIsMethod
PROPERTIES
  EveryWalkEnds
