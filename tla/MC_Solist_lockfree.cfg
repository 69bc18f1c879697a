\* t1 inserts hash 3 while t2 deletes hash 1 (which either inserted) from the same bucket of a
\* 2-bucket list; only t1 is scheduled fairly, so t2 may stop right after
\* its mark CAS, before the unlink.
CONSTANTS
  t1 = t1
  t2 = t2
  NoOp = NoOp
  Threads = {t1, t2}
  Hashes = {1, 3}
  Kinds <- AllKinds
  HashBits = 5
  InitSize = 2
  MaxBucketLength = 4
  MaxSize = 2
  MaxNodes = 8
  MaxOps = 2
SPECIFICATION SoloSpec
CHECK_DEADLOCK FALSE
PROPERTIES
  SoloProgress
