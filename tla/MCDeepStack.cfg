SPECIFICATION Spec
CONSTANTS
  NULL = NULL
  NotThread = NotThread
  main = main
  worker = worker
  Threads <- DeepThreads
  Main = main
  Iseqs <- MCIseqs
  LineTable <- DeepLineTable
  Cmes <- MCCmes
  CFuncs <- MCCFuncs
  Objects <- MCObjects
  Modules <- MCModules
  SpecialObjects = {"FrozenCore"}
  ClassOf <- MCClassOf
  AppFrames <- DeepAppFrames
  BottomFrame <- MCBottomFrame
  CallerLocationsFrame <- LibraryRuby
  PrimitiveCallerLocationsFrame <- LibraryC
  BacktraceLocationsFrame <- LibraryC
  EnsureObjectIsThreadFrame <- LibraryRuby
  InitializeFrame <- LibraryRuby
  MaxDepth <- DeepMaxDepth
INVARIANTS
  CapturesPresentStack
  CallerLocationsIsCallersView
  LegacySkipsToShownCaller
PROPERTIES
  ImplementsBacktrace
