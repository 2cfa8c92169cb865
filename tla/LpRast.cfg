SPECIFICATION FairRastSpec
CONSTANTS Threads = {0, 1, 2}
          MaxRounds = 8
          Contexts = {c1, c2}
          NumBins = 2
          MaxScenes = 2
          NULL = NULL
INVARIANTS Lockstep OneScene FenceMeansRastered FlushedIsFinished
PROPERTIES FlushReturns DestroyReturns
CHECK_DEADLOCK FALSE
