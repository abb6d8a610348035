\* One NPDU to send on a bus that falls silent.
SPECIFICATION FairSpec
CONSTANTS
  MaxMaster = 2
  MaxInfoFrames = 1
  NPoll = 1
  MaxPollRetries = 2
  NRetryToken = 1
  TokenCountSize = 2
  QueueDepth = 2
  ThisStation = 1
  Others = {0, 2}
  Flags = {TRUE}
  StartedTwice = TRUE
  MaxTraffic = 1
PROPERTY SoleMasterSends
