SPECIFICATION Spec
CONSTANTS
  t1 = t1
  v1 = v1
  TelegramConversations <- OneTelegram
  VkConversations <- OneVk
  MaxDeliveries = 1
  MaxRequeues = 2
  MaxAttempts = 2
  BatchLimit = 2
  AlertLimit = 2
  StorageMayFail = TRUE
INVARIANTS
  TypeOK
  SafeToRetry
  SentMeansReceived
  AttemptIsAwaited
PROPERTY
  ImplementsContract
