SPECIFICATION ExchangeSpec
CONSTANTS
  t1 = t1
  t2 = t2
  nullptr = nullptr
  p1 = p1
  p2 = p2
  Threads <- MCThreads
  Keys <- MCKeys
  Settings <- MCSettings
  Texts <- MCTexts
  Original <- MCOriginal
  Unset = Unset
  Empty = Empty
  Nobody = Nobody
  None = None
  Nullptr = nullptr
  TempNames = {p1, p2}
  Stale = {p1}
  MaxAttempts = 2
  StepLimit = 1
  BufferLimit = 1
  MeshLimit = 2
  Sizes = {1, 2}
  Unknown = Unknown
  Documents <- MCDocuments
  Exports <- MCExports
  ThreadOps <- MCThreadOps
INVARIANTS
    SettingsScoped
    TempFilesOwned
    QuotasEnforced
    MetadataKept
PROPERTIES
    GuardsReleased
