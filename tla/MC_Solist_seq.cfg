\* One thread, any sequence of five insert/delete/find calls on a list of
\* 4 buckets with max_bucket_length 2.  Hashes 0, 4, 8, 12 all fall in
\* bucket 0 at sizes 2 and 4: the third insert splits it (bucket 2), the
\* fourth doubles the table (bucket 4); hash 3 lazily initialises bucket 3.
CONSTANTS
  t1 = t1
  t2 = t2
  NoOp = NoOp
  Threads = {t1}
  Hashes = {0, 3, 4, 8, 12}
  Kinds <- AllKinds
  HashBits = 5
  InitSize = 4
  MaxBucketLength = 2
  MaxSize = 8
  MaxNodes = 9
  MaxOps = 5
SPECIFICATION Spec
INVARIANTS
  TypeOK
  SortedChain
  BucketsWellFormed
  ItemCount
  NoLeak
PROPERTIES
  ImplementsSet
  NoLostBucket
