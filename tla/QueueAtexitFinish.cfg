SPECIFICATION FairSpec
CONSTANTS Workers = {w1, w2}
          Users = {u1}
          Jobs = {j1}
          HasCleanup = {j1}
          MaxJobs = 4
          Flags = {FALSE}
          Growth = 8
          Shutdown = "atexit"
          Null = Null
PROPERTY ShutdownCompletes
CHECK_DEADLOCK FALSE
