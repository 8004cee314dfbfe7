CONSTANTS
  Ids = {"a", "b", "c", "d"}
  Types = {"box", "sphere"}
  Names = {"p"}
  Values = {"1", "2", "3", ""}
  Empty = ""
  Unset = "unset"
  NoName = "none"
  CustomValue = "3"
  CustomType = "sphere"
  Documents <- PairOrTriple
  Additions <- NewOrReadded
  MaxEdits = 2
  MaxMergedEdits = 1
SPECIFICATION MergeSpec
INVARIANTS
    TreesWellFormed
    ChangesApplyOrConflict
    MergeIsSymmetric
    MergeIsAbsorbed
    ResolutionsDecideConflicts
CHECK_DEADLOCK FALSE
