CONSTANTS
  bolt = bolt
  jolokia = jolokia
  kernel = kernel
  Collector = {bolt, jolokia, kernel}
  Bolt = bolt
  Jolokia = jolokia
  Apoc = {kernel}
  Rounds <- MCRounds
  Module <- OneModule
  Header = {0}
  Headroom = 1
  CapTimeout = 1
  JolokiaTimeout = 1
  AcquireTimeout = 1
  Connections = 1
  Others = 0
  MaxTime = 3
SPECIFICATION Spec
INVARIANT PartialFailuresRecorded
