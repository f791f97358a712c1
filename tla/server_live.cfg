SPECIFICATION FairSpec
CONSTANTS
  NoSource = NoSource  NotLive = NotLive  Nobody = Nobody
  NoName = NoName  NoClient = NoClient
  number = number  url = url  movie = movie  id0 = id0
  Talkers = {t1, t2}
  Sources = {s1, s2}
  Names = {number, url}
  StreamIds = {id0}
  NumberName <- MCNumberName
  StreamIdOf <- MCStreamIdOf
  MaxSetups = 1
  MaxThreads = 0
  SetsLevel = TRUE
INVARIANTS NothingDangles
PROPERTIES TeardownEnds
CHECK_DEADLOCK FALSE
