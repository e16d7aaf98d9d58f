SPECIFICATION Spec
CONSTANTS
  alice = alice
  p1 = p1
  p2 = p2
  MaxEvents = 2
  Kind <- TwoMessages
  Conversation <- OneClient
  Pollers <- TwoPollers
  MaxEventAttempts = 2
INVARIANTS
  HandledOnce
  ClaimIsHeld
PROPERTIES
  NoMessageDropped
  InOrder
SYMMETRY AnyPoller
