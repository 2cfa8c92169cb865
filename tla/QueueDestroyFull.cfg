SPECIFICATION Spec
CONSTANTS Workers = {w1}
          Users = {u1}
          Jobs = {j1, j2}
          HasCleanup = {j1}
          MaxJobs = 2
          Flags = {FALSE}
          Growth = 8
          Shutdown = "destroy"
          Null = Null
INVARIANT NoJobLeftBehind
CHECK_DEADLOCK FALSE
