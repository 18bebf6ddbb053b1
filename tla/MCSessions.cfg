\* Two runs and two closes on one session of each class.
CONSTANTS
  r1 = r1  r2 = r2  c1 = c1  c2 = c2
  Runs = {r1, r2}
  Closers = {c1, c2}
  NoCall = NoCall
  Kinds = {"sync", "async"}
  MaxLines = 1
SPECIFICATION EitherFairSpec
INVARIANTS SessionTypesOK ResultsAreOwn ClosedIsDead OneShell ClosedLeavesNoRunspace ScriptsHaveRunspace
PROPERTIES CallsReturn HostedCallsReturn
CHECK_DEADLOCK FALSE
