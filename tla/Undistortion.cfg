SPECIFICATION Spec
CONSTANTS
  Sizes = {s1, s2}
  MaxFiles = 3
  Concurrency = 2
INVARIANTS WritesEachImageOnce ThreadsEndBeforeDialog
PROPERTY ClosesItself
