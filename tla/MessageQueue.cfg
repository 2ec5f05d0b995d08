CONSTANTS
  Messages = {m1, m2, m3, m4}
  Consumers = {c1, c2, c3}
  MaxLength = 1
  NoMessage = NoMessage
SPECIFICATION FairSpec
INVARIANTS
  FirstInFirstOut
  NoLostWakeup
PROPERTIES
  AcceptedIsTaken
CHECK_DEADLOCK FALSE
