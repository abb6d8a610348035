\* Two other masters and a full address range of three; a poll at every other token.
SPECIFICATION Spec
CONSTANTS
  MaxMaster = 2
  MaxInfoFrames = 1
  NPoll = 1
  MaxPollRetries = 2
  NRetryToken = 1
  TokenCountSize = 2
  QueueDepth = 2
  ThisStation = 1
  Others = {0, 2}
  Flags = {TRUE}
  StartedTwice = FALSE
  MaxTraffic = 2
INVARIANTS TypeOK NoneLostNoneRepeated FrameLimit AnswersLastRequest
PROPERTIES OnlyHolderInitiates OnlyAskedIsBelieved
