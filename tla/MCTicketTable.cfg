SPECIFICATION TableSpec
CONSTANTS
  t1 = t1
  t2 = t2
  r1 = r1
  r2 = r2
  o1 = o1
  p1 = p1
  p2 = p2
  Tickets <- MCTickets
  Requests <- MCRequests
  Objects <- MCObjects
  Plans <- MCPlans
  Layers = 3
  NoRequest = NoRequest
  NoObject = NoObject
  NoPlan = NoPlan
  NoTicket = NoTicket
INVARIANTS
  TableTypeOK
  IndexMatchesBindings
  ActiveIsComplete
PROPERTIES
  TerminalFrozen
  ImplementsLifecycle
