CONSTANTS
  e1 = e1
  e2 = e2
  e3 = e3
  e4 = e4
  q1 = q1
  q2 = q2
  Envelopes <- MCEnvelopes
  Questions <- MCQuestions
  QuestionOf <- MCQuestionOf
  Slots = {s1, s2}
  MaxIn = 0
  MaxOut = 1
  Unreachable = TRUE
  NoEnvelope = NoEnvelope
  NoResponse = NoResponse
SPECIFICATION FairSpec
INVARIANTS
  SingleOwner
  WaitersAlive
PROPERTIES
  ImplementsQueryService
  EveryQueryEnds
CHECK_DEADLOCK FALSE
