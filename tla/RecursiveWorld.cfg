CONSTANTS
  Slots = {s1, s2}
  Names <- MCNames
  Addresses = {"root", "nz", "host"}
  Asked <- MCAsked
  RootReferral <- MCRootReferral
  Replies <- MCReplies
  Faults = {}
  MaxRecursionDepth = 4
SPECIFICATION Spec
INVARIANTS
  NeverWrong
