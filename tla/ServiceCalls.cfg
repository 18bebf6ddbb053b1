\* A client starts commands, another cancels them and closes the session, of either kind.
CONSTANTS
  k1 = k1
  k2 = k2
  k3 = k3
  Sessions = {s1}
  Commands = {c1,c2}
  Callers = {k1,k2}
  NoSession = NoSession
  NoCommand = NoCommand
  NoThread = NoThread
  MayCall <- EndCalls
  MayBeHosted = {s1}
  TimedCommands = {}
  MaxOutput = 0
SYMMETRY Symmetric
SPECIFICATION Spec
INVARIANTS NoCommandStranded KilledIsNotFailed ExecutionIsWatched
CHECK_DEADLOCK FALSE
