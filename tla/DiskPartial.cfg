SPECIFICATION Spec
CONSTANTS Procs = {p1, p2}
          Keys = {k1, k2}
          Parts = 2
          JobSize = 2
          MaxSize = 3
          Word = 16
          MaxEvict = 2
          MaxOps = 4
          MaxCrashes = 0
          CallsFail = FALSE
          NULL = NULL
INVARIANTS NoPartialEntry
SYMMETRY Symmetric
CHECK_DEADLOCK FALSE
