SPECIFICATION StreamSpec
CONSTANTS
  H = 2
  B = 3
  S = 4
  P = 8
  TailLen = 1
  ImageLens <- MCLens
  Junk <- MCJunk
INVARIANTS
  VerifiedIsTheTargets
  StoredIsAPrefix
  GoodFileVerifies
PROPERTIES
  ProgrammedOnce
CHECK_DEADLOCK FALSE
