SPECIFICATION FairSpec
CONSTANTS
  c1 = c1
  c2 = c2
  c3 = c3
  Threads = {t1, t2}
  Connections <- MCConnections
  MaxRequests <- MCMaxRequests
  MaxLength = 0
  NumSlots = 1
  Routes = {"answer", "drop", "recurse", "forward"}
INVARIANTS
  LentOnce
  AnswersOwnUnlessForwarded
PROPERTIES
  EveryThreadReturns
CHECK_DEADLOCK FALSE
