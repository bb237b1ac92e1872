CONSTANTS
  Text <- MCText
  Query <- MCQuery
  ModuleName = {"default", "other"}
  NoName = ""
  NoModule = "no module"
  Host = {"", "a", "b", "c", "n", "localhost"}
  Port = {"7687", "7688", "bolt"}
  UriAddress <- MCUriAddress
  NoHost = ""
  NoPort = ""
  BoltPort = "7687"
  KnownCollector = {"bolt", "server"}
  LocalHost = {"localhost", ""}
  Scheme = {"neo4j", "bolt"}
  NoScheme = ""
  File <- MCFile
  Disk <- MCDisk
  Pem = {"cert"}
SPECIFICATION Spec
INVARIANTS
  VerdictExact
  LoadedIsValid
  LoadedIsUsable
  ListedReachable
  OwnCredentials
