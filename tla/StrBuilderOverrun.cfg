SPECIFICATION FairSpec
CONSTANTS
  FixedSizes = {4}
  GrowableSizes = {}
  Clients = {{"append", "append_value"}}
  SizeModulus = 256
  MaxNuls = 0
  MaxPiece = 5
  MaxText = 8
CHECK_DEADLOCK FALSE
INVARIANTS
  NeverOverruns
