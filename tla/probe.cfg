CONSTANTS
  bolt = bolt
  jolokia = jolokia
  kernel = kernel
  Collector = {bolt, jolokia, kernel}
  Bolt = bolt
  Jolokia = jolokia
  Apoc = {kernel}
  Rounds <- MCRounds
  Module <- MCModule
  Header = {0, 2}
  Headroom = 1
  CapTimeout = 1
  JolokiaTimeout = 1
  AcquireTimeout = 1
  Connections = 1
  Others = 1
  MaxTime = 3
SPECIFICATION FairSpec
INVARIANTS
  WithinTimeout
  UpIffBoltSucceeded
  AllReported
  SomeFailureRecorded
PROPERTY Terminates
