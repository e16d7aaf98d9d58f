SPECIFICATION FairSpec
CONSTANTS
  alice = alice
  p1 = p1
  p2 = p2
  MaxEvents = 3
  Kind <- AnsweredByBot
  Conversation <- OneClient
  Pollers <- OnePoller
  MaxEventAttempts = 2
INVARIANTS
  TypeOK
PROPERTIES
  EventuallyLeavesQueue
