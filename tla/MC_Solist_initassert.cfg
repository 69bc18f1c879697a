\* Two threads, one call each, on hashes 0 and 1 of a fresh 2-bucket list:
\* an insert into bucket 0 races with the initialisation of bucket 1.
CONSTANTS
  t1 = t1
  t2 = t2
  NoOp = NoOp
  Threads = {t1, t2}
  Hashes = {0, 1}
  Kinds = {"insert", "find"}
  HashBits = 5
  InitSize = 2
  MaxBucketLength = 4
  MaxSize = 2
  MaxNodes = 5
  MaxOps = 1
SPECIFICATION Spec
INVARIANT IbAsserts
