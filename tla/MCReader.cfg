\* Two readers of one command, a log of at most five events; a command that
\* prints up to four characters to each stream, in chunks of two, with tails of three.
CONSTANTS
  Commands = {c1}
  Readers = {r1, r2}
  MaxLog = 5
  ChunkSize = 2
  TailLimit = 3
  MaxText = 4
SYMMETRY Symmetric
SPECIFICATION ReadOrWriteSpec
INVARIANTS LogTypesOK CursorLosesNothing ResultIsWhole LogIsOutput ChunksStandTogether TailsMatchLog
CHECK_DEADLOCK FALSE
