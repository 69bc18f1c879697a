\* As MC_HazardPointers.cfg, but each thread constructs a second context
\* after destroying its first, so that a destructor and a new context of
\* the other thread can overlap on the same block.
CONSTANTS
  t1 = t1
  t2 = t2
  n0 = n0
  n1 = n1
  n2 = n2
  n3 = n3
  NULL = NULL
  Threads = {t1, t2}
  Nodes = {n0, n1, n2, n3}
  InitNode = n0
  BlockSize <- SameBlockSize
  NumBlocks = 2
  R <- SameBufferSize
  Lifetimes = 2
  MaxOps = 2
SPECIFICATION Spec
INVARIANTS
  NoUseAfterFree
