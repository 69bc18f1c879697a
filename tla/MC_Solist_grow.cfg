\* Two threads, two inserts each, of hashes 1 and 5 (bucket 1 at sizes 2
\* and 4) into a 2-bucket list with max_bucket_length 1: the second insert
\* into the bucket expands the table, so both threads may pass expand's
\* size check, or one finds that the other has already expanded and takes
\* the early return.  slot + nbuckets stays within the table for these
\* hashes (with hash 3 it does not: hazard at line 1273).  WithinBounds
\* cuts behaviours where a thread would double the table past MaxSize or
\* allocate past MaxNodes.
CONSTANTS
  t1 = t1
  t2 = t2
  NoOp = NoOp
  Threads = {t1, t2}
  Hashes = {1, 5}
  Kinds = {"insert"}
  HashBits = 5
  InitSize = 2
  MaxBucketLength = 1
  MaxSize = 4
  MaxNodes = 8
  MaxOps = 2
SPECIFICATION Spec
CONSTRAINT
  WithinBounds
INVARIANTS
  SortedChain
  BucketsWellFormed
PROPERTIES
  Linearizable
