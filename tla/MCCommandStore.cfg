\* One session, two commands, appends up to seq 3, batches of two chunks.
CONSTANTS
  Sessions = {s1}
  Commands = {c1, c2}
  NoSession = NoSession
  MaxSeq = 3
  MaxBatch = 2
SYMMETRY Symmetric
SPECIFICATION Spec
INVARIANTS TypeOK TerminalEventMatchesStatus
PROPERTIES TerminalIsFinal EndedSessionStaysEnded ReadersSeeAppendsOnly
