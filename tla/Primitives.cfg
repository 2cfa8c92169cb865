SPECIFICATION FairPSpec
CONSTANTS Threads = {t1, t2, t3}
          CondThreads = {t1, t2, t3}
          NoThread = NoThread
          MaxTime = 2
          Timeouts = {1}
          Epoch = 1
INVARIANTS NoLostWakeup NoUseAfterDestroy
PROPERTIES MutexSpec LockProgress FutexFenceSpec FutexWaitersReturn FutexTimedWaitsReturn CondFenceSpec CondWaitersReturn
