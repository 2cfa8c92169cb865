SPECIFICATION Spec
CONSTANTS Procs = {p1, p2}
          Keys = {k1, k2}
          Parts = 2
          JobSize = 2
          MaxSize = 3
          Word = 16
          MaxEvict = 1
          MaxOps = 4
          MaxCrashes = 1
          CallsFail = TRUE
          NULL = NULL
INVARIANTS EntriesWhole SizeExact PutAloneStores
SYMMETRY Symmetric
CHECK_DEADLOCK FALSE
