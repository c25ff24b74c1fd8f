CONSTANTS
  None = None
  Loaders = {l1, l2}
  Requests <- SomeRequests
  Registries <- SomeRegistries
  FileStem <- Stems
  Capabilities <- Caps
  Configured = 5
  Margin = 1
SPECIFICATION Spec
INVARIANTS
  RegisteredFirst
  ExactDevice
  ReadyIsWhole
  ListingHolds
CHECK_DEADLOCK FALSE
