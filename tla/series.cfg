CONSTANTS
  Loop = {"transactions", "indexes", "constraints", "meta", "databases", "kernel"}
  TxRows <- MCTxRows
  IndexRows <- MCIndexRows
  ConstraintRows <- MCConstraintRows
  MetaRows <- MCMetaRows
  DatabaseRows <- MCDatabaseRows
  KernelRows <- MCKernelRows
  NoDatabase = ""
  OwnDatabase = "home"
  NoStatus = ""
  KnownStatus = {"online", "offline"}
  Cap = 2
  Truncated = "<truncated>"
  Kilo = 10
  Giga = 1000
  Large = 50
  Day = 24
  Month = 731
  Replies <- MCReplies
  GCBeans <- MCGCBeans
  Second = 10
  SlowRows <- MCSlowRows
  ExposeQueryText = {TRUE, FALSE}
  Empty = ""
SPECIFICATION SeriesSpec
INVARIANTS
  TransactionTotals
  IndexesBounded
  MetaBounded
  OneStatus
  KernelDated
  MBeansIndependent
  GCFromOneBean
  SlowAsProbed
