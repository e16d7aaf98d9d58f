SPECIFICATION Spec
CONSTANTS
  t1 = t1
  v1 = v1
  TelegramClients <- Tg
  VkClients <- Vk
  MaxMessages = 1
  MaxChunks = 1
  MaxRequests = 1
  MaxTopics = 1
  MaxCommands = 0
  Scenarios <- OnlyClosedOnTheWeb
INVARIANTS
  IncidentsCanBeResolved
CHECK_DEADLOCK FALSE
