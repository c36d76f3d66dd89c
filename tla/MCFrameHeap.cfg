SPECIFICATION FairSpec
CONSTANTS
  NULL = NULL
  Iseqs = {"iseq"}
  LineTable <- MCLineTable
  Cmes = {"method"}
  CFuncs = {}
  Objects = {"object", "extended", "Foo", "extended_S"}
  Modules = {"Foo", "extended_S"}
  SpecialObjects = {}
  ClassOf <- MCClassOf
  DefinedClass <- MCDefinedClass
  References <- MCReferences
  Labels = {"label"}
  BaseLabel <- MCBaseLabel
  Addresses = {1, 2, 3, 4, 5, 6, 7, 8}
  Home <- MCHome
  Spare = {7, 8}
  Droppable <- MCDroppable
  CapturedFrames <- MCCapturedFrames
  Capacities = {0, 2}
  Forms = {"raw", "minimal"}
INVARIANTS
  TypeOK
  WrapperIsIntact
  NoUseAfterFree
  KeptIsIntact
  NoReceiverIsHeld
  MinimalHoldsNoCode
PROPERTIES
  FramesAreFreed
  ImplementsWrapper
