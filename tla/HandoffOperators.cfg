SPECIFICATION Spec
CONSTANTS
  t1 = t1
  v1 = v1
  TelegramClients <- Tg
  VkClients <- Vk
  MaxMessages = 2
  MaxChunks = 2
  MaxRequests = 2
  MaxTopics = 2
  MaxCommands = 2
  Scenarios <- Operators
INVARIANTS
  HandledInOnePlace
  RelayedOnce
  AcknowledgementIsHonest
  TopicIsPrivate
PROPERTIES
  NothingLost
CHECK_DEADLOCK FALSE
