SPECIFICATION Spec
CONSTANTS Workers = {w1, w2}
          Users = {u1, u2}
          Jobs = {j1, j2, j3}
          HasCleanup = {j1, j2, j3}
          MaxJobs = 2
          Flags = {TRUE, FALSE}
          Growth = 1
          Shutdown = "destroy"
          Null = Null
INVARIANTS RingInv OneOwner FenceMeansOver CleanupOnce NoSlotOverlooked
PROPERTIES JobQueueSpec ExecutedOnce FinishWaitsForAll
SYMMETRY Symmetry
CONSTRAINT GrowsOnce
CHECK_DEADLOCK FALSE
