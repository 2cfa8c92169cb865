SPECIFICATION Spec
CONSTANTS Threads = {t1, t2}
          Requests = {0, 2, Back}
          Back = Back
          MaxBucket = 2
          BlockBucket = 1
          InitialSize = 2
          PageSize = 2
          Word = 1024
          MaxOps = 4
          EMPTY = EMPTY
          GARBAGE = GARBAGE
          NULL = NULL
INVARIANTS EndsInsidePool
SYMMETRY Symmetric
CHECK_DEADLOCK FALSE
