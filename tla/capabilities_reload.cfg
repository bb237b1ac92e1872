CONSTANTS
  Probe = {p1, p2}
  Version = core
  Procedure = {kernel}
  NoCaps = NoCaps
  MaxReloads = 1
SPECIFICATION Spec
INVARIANT ReloadInvalidates
