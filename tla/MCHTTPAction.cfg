SPECIFICATION ActionSpec
CONSTANTS
  routes <- Locations
  root <- ServerRoot
  error_pages <- Pages
  Paths <- Targets
  NoRoute = NoRoute
  Directory = Directory
  Locked <- LockedFiles
  Requests <- TheRequests
  Disk <- Site
  MaxContent = 5
  Urls <- TheUrls
INVARIANTS
  AnswerFitsTheFiles
  FirstIndexIsServed
PROPERTIES
  ImplementsStore
  OnlyNamedFilesChange
CHECK_DEADLOCK FALSE
