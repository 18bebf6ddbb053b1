\* One socket daemon.
CONSTANTS
  Daemons = {t1}
  Tcp = {t1}
  Sessions = {s1}
  Commands = {c1}
  NoSession = NoSession
  NoDaemon = NoDaemon
  Used = {t1}
  MaxAlive = 2
  Marked = FALSE
SPECIFICATION Spec
PROPERTY ShutdownIsReliable
CHECK_DEADLOCK FALSE
