SPECIFICATION FairSpec
CONSTANTS
  NULL = NULL
  NotThread = NotThread
  main = main
  worker = worker
  Threads <- MCThreads
  Main = main
  Iseqs <- MCIseqs
  LineTable <- MCLineTable
  Cmes <- MCCmes
  CFuncs <- MCCFuncs
  Objects <- MCObjects
  Modules <- MCModules
  SpecialObjects = {"FrozenCore"}
  ClassOf <- MCClassOf
  AppFrames <- MCAppFrames
  BottomFrame <- MCBottomFrame
  CallerLocationsFrame <- LibraryRuby
  PrimitiveCallerLocationsFrame <- LibraryC
  BacktraceLocationsFrame <- LibraryC
  EnsureObjectIsThreadFrame <- LibraryRuby
  InitializeFrame <- LibraryRuby
  MaxDepth <- MCMaxDepth
INVARIANTS
  TypeOK
  NeverCrashes
  CapturesPresentStack
PROPERTIES
  ImplementsBacktrace
  ImplementsWrapper
  EveryCallEnds
