CONSTANTS
  r1 = r1  r2 = r2
  c1 = c1  c2 = c2  c3 = c3
  Requests = {r1, r2}
  Closers = {c1, c2, c3}
  Graceful = {c1, c2}
  NoCall = NoCall  NoAnswer = NoAnswer  Eof = Eof
  Transports = {"stdio", "socket"}
  Limits = {"none", "positive", "not_positive"}
SPECIFICATION FairSpec
INVARIANTS TypeOK AnswersStayInStep OneCloses
PROPERTIES CloseEndsDaemon LimitedRequestsReturn ClosesReturn
CHECK_DEADLOCK FALSE
