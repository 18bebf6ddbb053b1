\* One client starts a command, another cancels it.
CONSTANTS
  k1 = k1
  k2 = k2
  k3 = k3
  Sessions = {s1}
  Commands = {c1}
  Callers = {k1, k2}
  NoSession = NoSession
  NoCommand = NoCommand
  NoThread = NoThread
  MayCall <- CancelOne
  MayBeHosted = {}
  TimedCommands = {}
  MaxOutput = 0
SPECIFICATION Spec
INVARIANT CancelAfterEndMeansKilled
CHECK_DEADLOCK FALSE
