SPECIFICATION WebservSpec
CONSTANTS
  routes <- SiteRoutes
  root <- ServerRoot
  error_pages <- NoPages
  Paths <- ShortPaths
  NoRoute = NoRoute
  Written <- Files
  Directories <- UploadDirectories
  Existing <- OtherFiles
  getaddrinfo <- Hosts
  Descriptors = {3, 4, 5}
  None = None
INVARIANTS
  ReadAsWritten
  AcceptedIsUsable
  MistakesAreContained
  NamesFindTheirServer
  LongestLocationWins
  PathsNameTheirFiles
  DescriptorsAreAccountedFor
  EveryAddressIsServed
CHECK_DEADLOCK FALSE
