SPECIFICATION FairSpec
CONSTANTS
  t1 = t1
  v1 = v1
  TelegramConversations <- OneTelegram
  VkConversations <- NoConversation
  MaxDeliveries = 2
  MaxRequeues = 1
  MaxAttempts = 2
  BatchLimit = 2
  AlertLimit = 2
  StorageMayFail = FALSE
INVARIANTS
  AtMostOnce
  NoOvertaking
  RetriesAreBounded
  NotifiedMeansReported
PROPERTIES
  EventuallySettled
  EventuallyReported
