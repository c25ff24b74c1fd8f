CONSTANTS
  None = None
  Loaders = {l1, l2}
  Requests <- SomeRequests
  Registries <- SomeRegistries
  FileStem <- Stems
  Capabilities <- Caps
  Configured = 5
  Margin = 1
SPECIFICATION Spec
INVARIANT ListingAlwaysHolds
CHECK_DEADLOCK FALSE
