SPECIFICATION FairSpec
CONSTANTS
  FixedSizes = {}
  GrowableSizes = {4}
  Clients = {{"append", "append_value"}}
  SizeModulus = 256
  MaxNuls = 0
  MaxPiece = 5
  MaxText = 8
CHECK_DEADLOCK FALSE
INVARIANTS
  NamesAreWhole
