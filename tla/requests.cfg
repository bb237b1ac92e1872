CONSTANTS
  Request = {r1, r2}
  Ask <- MCAsk
  Config <- MCConfig
  Target = {"t", "d", "x"}
  ModuleName = {"default", "quiet", "gone"}
  NoName = ""
  Nobody = Nobody
SPECIFICATION Spec
INVARIANTS
  InflightExact
  RunsCounted
  QueriesBounded
PROPERTIES
  AnsweredIfClosesReturn
  AnsweredAnyway
