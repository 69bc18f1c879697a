\* Two threads, two calls each, on hashes 1 and 3 of bucket 1 of a
\* 2-bucket list: the threads race to initialise bucket 1, to insert next
\* to each other and to mark and unlink neighbouring nodes.  max_bucket_length 4 keeps the
\* table at 2 buckets.  Memory safety fails here (runs sol_init_race,
\* sol_init_assert, sol_uaf); this run checks order, counting and
\* linearizability.
CONSTANTS
  t1 = t1
  t2 = t2
  NoOp = NoOp
  Threads = {t1, t2}
  Hashes = {1, 3}
  Kinds <- AllKinds
  HashBits = 5
  InitSize = 2
  MaxBucketLength = 4
  MaxSize = 2
  MaxNodes = 8
  MaxOps = 2
SPECIFICATION Spec
INVARIANTS
  SortedChain
  BucketsWellFormed
  ItemCount
  NoLeak
PROPERTIES
  Linearizable
