SPECIFICATION Spec
CONSTANTS
  a1 = a1
  a2 = a2
  c0 = c0
  c1 = c1
  c2 = c2
  Tabs <- TwoTabs
  Types <- Typed
  Initial = c0
  Nothing = Nothing
  HistoryLimit = 1
  MaxRevision = 2
  MaxQueue = 2
  MaxOrders = 2
  Watched <- OneChannel
  PollStaleAfter = 0
  DeliveryStaleAfter = 1
  Never = Never
  Parts <- AllParts
  t1 = t1
  t2 = t2
  x1 = x1
  Threads <- TwoThreads
  close = close
  reopen = reopen
  Texts <- ThreeTexts
  Writes <- Written
  Closing <- Close
  Reopening <- Reopen
  Nobody = Nobody
  MaxKeys = 3
  MaxReads = 2
  Sections <- OneSection
  Labels <- TwoLabels
  MaxAttempts = 3
INVARIANTS
  DraftIsKept
  RestartKeepsState
  ReadyMeansAlive
  OutageIsAlerted
  ButtonsKeepWorking
  DeskIsHonest
  FailedMeansUndone
PROPERTIES
  NothingOverwrittenUnseen
