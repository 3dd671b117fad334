SPECIFICATION Spec
CONSTANTS
  t1 = t1
  t2 = t2
  r1 = r1
  o1 = o1
  o2 = o2
  p1 = p1
  Tickets <- TwoTickets
  Requests <- OneRequest
  Objects <- TwoObjects
  Plans <- OnePlan
  Layers = 1
  MaxInflight = 1
  Expiring = FALSE
  Closing = TRUE
  Retain = TRUE
  NoRequest = NoRequest
  NoObject = NoObject
  NoPlan = NoPlan
  NoTicket = NoTicket
INVARIANTS
  EveryGroupHasOneHolder
  HitsShareResident
  CopiesReadHeldBuffers
  CloseReturnsEverything
PROPERTIES
  CloseReturns
