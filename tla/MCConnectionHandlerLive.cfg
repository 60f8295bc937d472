\* One connection, three messages: page, script and errors, a full socket.
SPECIFICATION LiveConnSpec
CONSTANTS
  routes <- TwoRoutes
  root <- ServerRoot
  error_pages <- NoPages
  Paths <- NoPaths
  NoRoute = NoRoute
  c1 = c1
  c2 = c2
  Conn = {c1}
  Messages <- AllMessages
  Present <- ThreeFiles
  Size <- Sizes
  client_max_body_size = 1
  Room = 2
  MaxRequests <- Three
INVARIANTS
  RequestsAreNotMixedUp
  OnlyTheAskedAreCutOff
  PatientClientsAreServed
PROPERTIES
  EveryRequestIsAnswered
  PatientEndsAreNoticed
CHECK_DEADLOCK FALSE
