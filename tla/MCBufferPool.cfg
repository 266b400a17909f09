CONSTANTS
  Thread = {t1, t2, t3}
  Short = {a, b}
  Long = {long}
  NoString = NoString
  initial_blocks = 1
  SlabBlocks = 1
SPECIFICATION Spec
INVARIANTS EachBlockOnce CopyIsExact PoolIsBounded
