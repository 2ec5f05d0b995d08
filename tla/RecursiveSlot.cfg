CONSTANTS
  Slots = {s1}
  Names <- MCNames
  Addresses = {"root", "other", "sub"}
  Asked <- MCAsked
  RootReferral <- MCRootReferral
  Replies <- MCReplies
  Faults = {"unopened", "lost", "error", "late", "uncached", "forgotten"}
  MaxRecursionDepth = 4
SPECIFICATION FairSpec
INVARIANTS
  AskedOnce
PROPERTIES
  ReferralsFromAbove
  EveryQueryResponded
