\* Two threads on a 2-bucket list with max_bucket_length 1: inserts of
\* hashes 0 and 2 (both bucket 0) make insert_node expand the table, while
\* a find or insert of hash 1 lazily initialises bucket 1.
CONSTANTS
  t1 = t1
  t2 = t2
  NoOp = NoOp
  Threads = {t1, t2}
  Hashes = {0, 1, 2}
  Kinds = {"insert", "find"}
  HashBits = 5
  InitSize = 2
  MaxBucketLength = 1
  MaxSize = 4
  MaxNodes = 6
  MaxOps = 2
SPECIFICATION Spec
\* A thread that meets a null bucket at find_node's cur->next() (the
\* stale publication of sol_init_assert) stops there: such ends are
\* crashes of the code, not deadlocks of the model.
CHECK_DEADLOCK FALSE
PROPERTY NoLostBucket
