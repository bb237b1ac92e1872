CONSTANTS
  listed = listed
  other = other
  fast = fast
  full = full
  Reloader = {hup, post}
  Hup = hup
  NoOne = NoOne
  Probe = {p1}
  Name = {listed, other}
  Module = {fast, full}
  Unset = Unset
  Absent = Absent
  Text <- MCText
  Secret = {s}
  MaxEdits = 2
SPECIFICATION FairSpec
INVARIANTS
  TypeOK
  ListedTargetHasModule
  NoSignalLost
PROPERTIES
  NeverOlder
  LastHupLoaded
