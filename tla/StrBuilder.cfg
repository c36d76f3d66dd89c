SPECIFICATION FairSpec
CONSTANTS
  FixedSizes = {0, 1, 2, 3, 4, 5}
  GrowableSizes = {1, 2, 3, 4}
  Clients = {{"append_value"}, {"append", "append_value"}, {"appendf"}}
  SizeModulus = 256
  MaxNuls = 1
  MaxPiece = 5
  MaxText = 8
CHECK_DEADLOCK FALSE
INVARIANTS
  TypeOK
  FixedHoldsBeginning
  LabelsAreWhole
  GrowableEndsWithText
PROPERTIES
  EveryAppendEnds
