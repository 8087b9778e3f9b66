SPECIFICATION FairSpec
CONSTANTS
  NFiles = 2
  Size = 5
  Starts <- MCAligned
  Windows = {1, 3}
  AckBytes = 3
  PromptFlush = TRUE
CHECK_DEADLOCK FALSE
INVARIANTS
  AckNeverAhead
  AckOfCurrentFile
PROPERTIES
  TimedAckFlush
  AllSent
