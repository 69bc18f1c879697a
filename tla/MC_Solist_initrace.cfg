\* Two threads call find_item_node(1) on a fresh 2-bucket list: both run
\* initialise_bucket(1) for the uninitialised bucket 1.
CONSTANTS
  t1 = t1
  t2 = t2
  NoOp = NoOp
  Threads = {t1, t2}
  Hashes = {1}
  Kinds = {"find"}
  HashBits = 5
  InitSize = 2
  MaxBucketLength = 4
  MaxSize = 2
  MaxNodes = 4
  MaxOps = 1
SPECIFICATION Spec
INVARIANT NoLinkedFreed
