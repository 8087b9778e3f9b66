SPECIFICATION FairSpec
CONSTANTS
  NFiles = 1
  Size = 6
  Starts <- MCAligned
  Windows = {2}
  AckBytes = 4
  PromptFlush = FALSE
CHECK_DEADLOCK FALSE
PROPERTIES
  TimedAckFlush
