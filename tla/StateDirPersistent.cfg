\* A socket daemon and a stdio daemon.
CONSTANTS
  Daemons = {t1, p1}
  Tcp = {t1}
  Sessions = {s1}
  Commands = {c1}
  NoSession = NoSession
  NoDaemon = NoDaemon
  Used = {t1}
  MaxAlive = 2
  Marked = TRUE
SPECIFICATION Spec
INVARIANT PersistentUntilStopped
CHECK_DEADLOCK FALSE
