SPECIFICATION FairSpec
CONSTANTS Workers = {w1, w2}
          Users = {u1, u2}
          Jobs = {j1, j2}
          HasCleanup = {}
          MaxJobs = 2
          Flags = {FALSE}
          Growth = 8
          Shutdown = "destroy"
          Null = Null
PROPERTIES QueuedJobsComplete FinishReturns ShutdownCompletes
CHECK_DEADLOCK FALSE
