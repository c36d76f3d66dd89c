SPECIFICATION FairSpec
CONSTANTS
  NULL = NULL
  Iseqs <- MCIseqs
  LineTable <- MCLineTable
  Cmes <- MCCmes
  CFuncs <- MCCFuncs
  Objects <- MCObjects
  Modules <- MCModules
  SpecialObjects = {"main", "FrozenCore"}
  ClassOf <- MCClassOf
  MainObject = "main"
  FrozenCore = "FrozenCore"
  Class = "Class"
  Module = "Module"
  IClasses <- MCIClasses
  PlainModules <- MCPlainModules
  Singletons <- MCSingletons
  Refinements = {"Refinement"}
  Super <- MCSuper
  Attached <- MCAttached
  RefinedClass <- MCRefinedClass
  DefinedAt <- MCDefinedAt
  IClassSharesName = FALSE
  ConstantName <- MCConstantName
  FirstNames <- MCFirstNames
  IseqType <- MCIseqType
  BlockOrEval = {"block", "eval"}
  BaseLabel <- MCLabels
  Label <- MCLabels
  Path <- MCPaths
  RealPath <- MCRealPaths
  CalledId <- MCCalledId
  OriginalId <- MCCalledId
  DefinedClass <- MCDefinedClass
  CapturedFrames <- MCCapturedFrames
CHECK_DEADLOCK FALSE
INVARIANTS
  CFuncsHaveProfileFrames
