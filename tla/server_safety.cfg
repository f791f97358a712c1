SPECIFICATION Spec
CONSTANTS
  NoSource = NoSource  NotLive = NotLive  Nobody = Nobody
  NoName = NoName  NoClient = NoClient
  number = number  url = url  movie = movie  id0 = id0
  Talkers = {t1, t2}
  Sources = {s1, s2}
  Names = {number, url, movie}
  StreamIds = {id0}
  NumberName <- MCNumberName
  StreamIdOf <- MCStreamIdOf
  MaxSetups = 2
  MaxThreads = 1
  SetsLevel = FALSE
SYMMETRY Symmetry
INVARIANTS TypeOK MapSound ListsSound NobodyToPlayFor TeardownComplete NothingDangles
PROPERTIES DeletedUnderLock
CHECK_DEADLOCK FALSE
