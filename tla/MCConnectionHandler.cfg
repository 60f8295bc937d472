\* Two connections, one with two messages and one with one, and room for two pages
\* or one answer of a script.
SPECIFICATION ConnSpec
CONSTANTS
  routes <- TwoRoutes
  root <- ServerRoot
  error_pages <- NoPages
  Paths <- NoPaths
  NoRoute = NoRoute
  c1 = c1
  c2 = c2
  Conn = {c1, c2}
  Messages <- SomeMessages
  Present <- ThreeFiles
  Size <- Sizes
  client_max_body_size = 1
  Room = 2
  MaxRequests <- TwoAndOne
INVARIANTS
  AnswersHaveRequests
  RequestsAreNotMixedUp
  WhatWaitsIsWoken
CHECK_DEADLOCK FALSE
