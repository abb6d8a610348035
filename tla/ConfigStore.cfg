\* A daemon provisioned by the environment: one point, a connection, and a
\* protocol this build does not have, until the operator picks one of two. Two
\* jobs in flight at once: enough for an edit between the start and the answer of
\* a scan, for two scans that overlap, and for a switch during a discovery.
SPECIFICATION FairSpec
CONSTANTS
  p1 = p1
  b2 = b2
  Ids = {p1, p2}
  Bodies = {b2}
  Protocols = {"", "bacnet", "modbus", "zwave"}
  Known = {"bacnet", "modbus"}
  Conns = {"c1", "c2"}
  Settings = {"good", "moved", "bad"}
  BadSettings = {"bad"}
  DeviceKeys = {"d1"}
  TopicOf <- MCTopicOf
  NoProtocol = ""
  FirstProtocol = "bacnet"
  DefaultConfig <- MCDefaultConfig
  NoFile = NoFile
  EnvProtocol = "zwave"
  EnvSettings = "good"
  EnvConn <- MCEnvConn
  EnvPoints <- MCEnvPoints
  NoOverride = NoOverride
  Jobs = {j1, j2}
  NoJob = NoJob
  MaxOps = 5
  MaxPushed = 2
  MaxPoints = 3
INVARIANT TypeOK
PROPERTIES EditsPersistOrReport OnlyRemovalsRemove ChangesAreAnnounced DiskHoldsValidSaves ScanEnds
CHECK_DEADLOCK FALSE
