SPECIFICATION Spec
CONSTANTS
  Versions = {v1, v2}
  None = None
  Loop = run
  Callers = {c1}
  Queries = {q1}
  MaxPublishes = 3
  Unmappable = {}
  TooLarge = {}
  Unstamped = {2}
  RemovalMayFail = FALSE
INVARIANTS
  TypeOK IInv NoUseAfterUnmap OneSnapshot NoMappingLeak RenameTargetUnmapped
  ServedFileKept OnlyServedFile ReadyMeansLoaded FreshAtReturn
PROPERTIES ImplementsSnapshotStore
