\* Two threads, one context each.  t1 retires through a buffer of R = 1:
\* every retire reclaims, a protected node is handed to the domain, and the
\* destructor's collect puts it back.  t2's buffer of R = 2 is reclaimed in
\* part and compacted, and reaches the destructor partly filled.  A chunk has a single block
\* (NUM_HAZP_CHUNK_BLOCKS = 1): two threads that both find the pool empty
\* each push a chunk and hold contexts at the same time; a thread that finds
\* the pool non-empty spins in pools_reserve until the other releases.
CONSTANTS
  t1 = t1
  t2 = t2
  n0 = n0
  n1 = n1
  n2 = n2
  n3 = n3
  NULL = NULL
  Threads = {t1, t2}
  Nodes = {n0, n1, n2, n3}
  InitNode = n0
  BlockSize <- SameBlockSize
  NumBlocks = 1
  R <- MixedBufferSize
  Lifetimes = 1
  MaxOps = 2
SPECIFICATION Spec
INVARIANTS
  TypeOK
  NoUseAfterFree
  NoDoubleFree
  TeardownClean
  BlocksExclusive
