SPECIFICATION FairSpec
CONSTANTS
  t1 = t1
  v1 = v1
  TelegramClients <- Tg
  VkClients <- Vk
  MaxMessages = 2
  MaxChunks = 1
  MaxRequests = 2
  MaxTopics = 2
  MaxCommands = 1
  Scenarios <- Interruptions
PROPERTIES
  CompletedIsFinal
  EventuallyHandled
