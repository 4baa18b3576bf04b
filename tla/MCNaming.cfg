CONSTANTS
  process = process
  host = host
  web = web
  db = db
  webId = webId
  dbId = dbId
  podId = podId
  webName = webName
  dbName = dbName
  Pids = {process}
  MaxFd = 1
  Host = host
  Containers = {web, db}
  CgroupOf <- MCCgroupOf
  RootOf <- MCRootOf
  Dirs <- MCDirs
  Files <- MCFiles
  Programs <- MCPrograms
  ExcludePrefixes <- MCExcludePrefixes
  Answers <- MCAnswers
  TrueAnswer <- MCTrueAnswer
  None = None
  RingCapacity = 3
  MaxNameLen = 4
  IgnoredNames = {"pipe:"}
  MemoryNames = {"memfd:"}
  NamespaceNames = {"net:"}
SPECIFICATION FairSpec
CHECK_DEADLOCK FALSE
INVARIANTS OpensAreAccepted ShownPathsAreTrue NamesAreOfThisProcess
PROPERTIES NamesArrive
