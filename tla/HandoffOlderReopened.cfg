SPECIFICATION Spec
CONSTANTS
  t1 = t1
  v1 = v1
  TelegramClients <- Tg
  VkClients <- Vk
  MaxMessages = 2
  MaxChunks = 1
  MaxRequests = 2
  MaxTopics = 1
  MaxCommands = 2
  Scenarios <- OnlyReopening
INVARIANTS
  OlderStaysClosed
CHECK_DEADLOCK FALSE
