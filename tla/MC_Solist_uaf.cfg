\* Two threads, two calls each, on hashes 0 and 2 of bucket 0: a delete
\* frees the node it unlinked while the other thread traverses it.
CONSTANTS
  t1 = t1
  t2 = t2
  NoOp = NoOp
  Threads = {t1, t2}
  Hashes = {0, 2}
  Kinds <- AllKinds
  HashBits = 5
  InitSize = 2
  MaxBucketLength = 4
  MaxSize = 2
  MaxNodes = 5
  MaxOps = 2
SPECIFICATION Spec
INVARIANT NoUseAfterFree
