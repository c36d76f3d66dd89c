SPECIFICATION MainSpec
CONSTANTS
  NULL = NULL
  Main = "main"
  FrozenCore = "FrozenCore"
  Iseqs = {"iseq"}
  LineTable <- MCLineTable
  Cmes = {"method"}
  CFuncs = {}
  Objects = {"main", "FrozenCore", "object", "Foo"}
  Modules = {"Foo"}
  SpecialObjects = {"main", "FrozenCore"}
  ClassOf <- MCClassOf
  DefinedClass <- MCDefinedClass
  References <- MCReferences
  Labels = {}
  BaseLabel <- NoBaseLabel
  Addresses = {1, 2, 3, 4, 5, 6, 7}
  Home <- MCHome
  Spare = {1, 2, 3, 4, 5, 6, 7}
  Droppable = {}
  CapturedFrames <- MCCapturedFrames
  Capacities = {}
  Forms = {"raw"}
INVARIANTS
  MainIsRecognised
