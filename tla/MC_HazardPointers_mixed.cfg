\* Two threads whose contexts ask for blocks of different sizes (S = 1 and
\* S = 2) from one domain, which the domain is documented to serve by
\* creating a chunk of the matching block size.
CONSTANTS
  t1 = t1
  t2 = t2
  n0 = n0
  n1 = n1
  n2 = n2
  n3 = n3
  NULL = NULL
  Threads = {t1, t2}
  Nodes = {n0, n1, n2, n3}
  InitNode = n0
  BlockSize <- MixedBlockSize
  NumBlocks = 2
  R <- SameBufferSize
  Lifetimes = 1
  MaxOps = 1
SPECIFICATION Spec
PROPERTIES
  ReserveCompletes
