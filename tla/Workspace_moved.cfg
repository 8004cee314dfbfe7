CONSTANTS
  Ids = {"a", "b", "c", "d"}
  Types = {"box", "sphere"}
  Names = {"p"}
  Values = {"1", "2", "3", ""}
  Empty = ""
  Unset = "unset"
  NoName = "none"
  CustomValue = "3"
  CustomType = "sphere"
  Documents <- PairOrTriple
  Additions <- NewOrReadded
  MaxEdits = 1
  MaxMergedEdits = 0
SPECIFICATION MergeSpec
INVARIANTS OneSidedMoveAdopted
CHECK_DEADLOCK FALSE
