SPECIFICATION FairSpec
CONSTANTS
  NFiles = 1
  Size = 4
  Starts <- MCStale
  Windows = {1}
  AckBytes = 3
  PromptFlush = TRUE
CHECK_DEADLOCK FALSE
PROPERTIES
  TimedAckFlush
