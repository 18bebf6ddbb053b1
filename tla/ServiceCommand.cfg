\* One command with a timeout, which prints, is canceled and closed.
CONSTANTS
  k1 = k1
  k2 = k2
  k3 = k3
  Sessions = {s1}
  Commands = {c1}
  Callers = {k1,k2,k3}
  NoSession = NoSession
  NoCommand = NoCommand
  NoThread = NoThread
  MayCall <- CancelAndClose
  MayBeHosted = {s1}
  TimedCommands = {c1}
  MaxOutput = 1
SPECIFICATION FairSpec
INVARIANTS TypeOK KilledBeforeRecorded
PROPERTIES UnlistedShellEnds ImplementsLifecycle ImplementsStore
CHECK_DEADLOCK FALSE
