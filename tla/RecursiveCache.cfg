CONSTANTS
  Questions = {q1, q2}
  Names = {root, com}
  Root = root
  RecordCounts = {0, 2}
  MaxAnswerRRs = 2
  MaxReferralRRs = 1
  MaxSequence = 4
  MaxMade = 2
SPECIFICATION FairSpec
INVARIANTS
  CountsExact
  EveryEntryListed
PROPERTIES
  CollectionEvictsOldest
  ExpiredAreCollected
CHECK_DEADLOCK FALSE
