CONSTANTS
  a = a
  b = b
  literal = literal
  old = old
  new = new
  NoDriver = NoDriver
  NoTarget = NoTarget
  FromFile = FromFile
  Unreadable = Unreadable
  Probe = {p1}
  Reloader = {r1}
  Driver = {d1, d2}
  FileContent = {old, Unreadable}
  Password = {literal, old}
  Target <- MCTarget
  Config <- SwapConfig
  Budget = {1}
  Grace = 1
  LockDelay = 1
  MaxTime = 2
SPECIFICATION FairSpec
INVARIANT
  TypeOK
PROPERTIES
  ReclaimedByReloads
  SettlesOnConfig
  ClosedAtExit
