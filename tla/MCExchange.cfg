\* Bounds: 2 steps of the CRSs, 1 failing call, 1 restart.
SPECIFICATION FairSpec
CONSTANTS
  a = a
  b = b
  reports = reports
  report = report
  dotfile = dotfile
  v = v
  w = w
  daemon = daemon
  None = None
  Torn = Torn
  Link = Link
  CRSs = {a, b}
  Dirs = {reports}
  AllowedDirs = {reports}
  Paths = {report, dotfile}
  Hidden = {dotfile}
  Contents = {v, w}
  Consumers = {daemon}
  DirOf <- MCDirOf
  ContentsOf <- MCContentsOf
  FetchDir <- MCFetchDir
  MaxWrites = 2
  MaxFaults = 1
  MaxRestarts = 1
INVARIANTS
  TypeOK
  OnlyWholeFilesFetched
  TempsAccounted
  DrainedOnExit
PROPERTIES
  ImplementsBoard
  Delivered
  Fetched
CHECK_DEADLOCK FALSE
