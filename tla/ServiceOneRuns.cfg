\* Two clients start commands on one session.
CONSTANTS
  k1 = k1
  k2 = k2
  k3 = k3
  Sessions = {s1}
  Commands = {c1, c2}
  Callers = {k1, k2}
  NoSession = NoSession
  NoCommand = NoCommand
  NoThread = NoThread
  MayCall <- StartTwice
  MayBeHosted = {}
  TimedCommands = {}
  MaxOutput = 0
SPECIFICATION Spec
INVARIANT OneRunsAtATime
CHECK_DEADLOCK FALSE
