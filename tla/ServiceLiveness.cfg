\* One client starts commands, the first with a timeout, another closes the session.
CONSTANTS
  k1 = k1
  k2 = k2
  k3 = k3
  Sessions = {s1}
  Commands = {c1,c2}
  Callers = {k1,k2}
  NoSession = NoSession
  NoCommand = NoCommand
  NoThread = NoThread
  MayCall <- CloseOne
  MayBeHosted = {}
  TimedCommands = {c1}
  MaxOutput = 0
SPECIFICATION FairSpec
INVARIANT ShellIsOwned
PROPERTIES TimeoutIsEnforced DroppedSessionsSettle EveryCallReturns
CHECK_DEADLOCK FALSE
