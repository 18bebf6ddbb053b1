\* A socket daemon and two stdio daemons, of which two are alive at a time.
CONSTANTS
  Daemons = {t1, p1, p2}
  Tcp = {t1}
  Sessions = {s1}
  Commands = {c1}
  NoSession = NoSession
  NoDaemon = NoDaemon
  Used = {t1, p1}
  MaxAlive = 2
  Marked = TRUE
SPECIFICATION Spec
INVARIANTS TypeOK OrphansAreEnded StdioStopsClean
CHECK_DEADLOCK FALSE
