CONSTANTS
  a = a
  b = b
  literal = literal
  old = old
  new = new
  NoDriver = NoDriver
  NoTarget = NoTarget
  FromFile = FromFile
  Unreadable = Unreadable
  Probe = {p1, p2}
  Reloader = {r1}
  Driver = {d1, d2}
  FileContent = {literal}
  Password = {literal}
  Target <- MCTarget
  Config <- MCConfig
  Budget = {1}
  Grace = 2
  LockDelay = 1
  MaxTime = 3
SPECIFICATION Spec
SYMMETRY MCSymmetry
INVARIANTS
  NoUseAfterClose
  HeldOnce
  OwnServer
PROPERTY
  ImplementsLease
