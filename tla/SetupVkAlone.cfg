SPECIFICATION Spec
CONSTANTS
  r1 = r1
  r2 = r2
  p1 = p1
  p2 = p2
  None = None
  Requests <- TwoRequests
  Pollers <- TwoPollers
INVARIANTS
  OrderIsEnforced
