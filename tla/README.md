# A TLA+ model of Mesa's threading and resource core

This directory is a verification development for the Mesa tree under `src/`
(18.2.0-devel).  Mesa is several million lines, most of it API state, compilers
and register packing.  What it shares, and what is hard to get right and
hardest to test, is a small layer of concurrent machinery on which drivers,
caches and window systems are built: mutexes and fences on futexes, a job
queue, a barrier, allocators that cross threads.  The development covers that
layer and three of its users: the rasterizer threads of llvmpipe, the allocator
of the Intel Vulkan driver, and the shader cache on disk.

Every module says which source file it models; `PROJECT.json` maps every
definition to source lines.

## 1. The system and its parts

### The core layer (modelled)

| part | state | operations | who calls it |
|---|---|---|---|
| `simple_mtx` (`util/simple_mtx.h`, `futex.h`) | one word, 0/1/2 | lock, unlock | everything on Linux |
| `util_queue_fence`, futex build (`util/u_queue.h/.c`) | one word, 0/1/2 | init, reset, signal, wait, wait with timeout | util_queue, its users |
| `util_queue_fence`, other builds (`util/u_queue.c`) | flag, mutex, condition variable | the same, and destroy | the same |
| `util_queue` (`util/u_queue.c`) | ring of jobs, indices, counter, kill flag, threads, `finish_lock` | worker loop, add_job, drop_job, finish, destroy | disk cache, threaded context, amdgpu and radeon winsys, freedreno, radeonsi shader compilation |
| the exit list (`util/u_queue.c`) | `queue_list`, `exit_mutex` | add, remove, `atexit_handler` | init, destroy, `exit()` |
| `util_barrier` (`util/u_thread.h`) | count, waiters, sequence | init, wait, destroy | `util_queue_finish`, llvmpipe |
| slab allocator (`util/slab.c`) | lists of each child pool, owner of each element, counter of orphaned pages | create_child, alloc, free, destroy_child | transfers and queries of all Gallium drivers, threaded context |

How they interact: a user thread adds a job with a fence to the queue; a worker
takes it under `queue->lock`, executes it outside the lock, signals the fence
and calls the cleanup callback.  Users wait on the fence or drop the job.
`util_queue_finish` adds one job per worker, each of which waits at a barrier.
`util_queue_destroy` and the exit handler set `kill_threads` and join the
threads; the dying threads signal what is left.

Hard behaviours: the windows between two atomic accesses of a futex word; a
full ring, whose indices look like an empty one's; condition variables with one
signal per event; a destroy or an exit that meets every other operation; an
element freed by one thread while the pool it belongs to is destroyed by
another.  `PROJECT.json` lists them as hazards, each with its line and the
properties that cover it.

What makes each part correct:

- **simple_mtx**: mutual exclusion, no lost wakeup, some locker gets in.
- **fences**: a wait without timeout returns only on a signalled fence; every
  waiter of a signalled fence returns; a timed wait returns; nobody is inside a
  destroyed fence.
- **util_queue**: first in, first out; each submission executed at most once,
  and never after it was dropped, and cleaned up exactly once; a signalled fence means the job is over;
  exactly one party is responsible for every unsignalled fence; finish waits
  for everything queued before it; blocked adders, finishers and the shutdown
  make progress.
- **exit list**: the handler uses live queues only, waits for their threads and
  returns when they end.
- **util_barrier**: rounds never overlap, everybody gets through.
- **slab**: an element is in one place; memory is not freed while in use, not
  leaked; the owner recorded in an element is alive.

### Users of the core layer (modelled)

| part | state | operations | hard behaviour |
|---|---|---|---|
| llvmpipe rasterizer (`lp_rast.c`, `lp_setup.c`, `lp_scene.c`, `lp_scene_queue.c`, `lp_fence.c`) | semaphores of each thread, scene queue, `curr_scene`, the scene's bin iterator and fence, `rast_mutex` | worker loop, flush of a context, `lp_rast_destroy` | several contexts, threads that meet twice per scene at the barrier, a fence that counts threads and not bins |
| anv state and block pool (`anv_allocator.c`) | tagged free-list heads and the links inside free memory, one `{next, end}` word per bucket and per end of the pool, size and center | alloc, alloc_back, free, growth | compare-and-swap on a head whose first element is reused meanwhile, fetch-and-add past the end, sleepers on a futex, growth in two directions |
| disk cache (`disk_cache.c`) | a directory shared by processes: entries, temporary files, flocks, a size word | put with eviction, remove | no common lock; names and inodes change between two system calls; a process dies anywhere |

What makes them correct:

- **rasterizer**: all threads work on the one current scene; its fence is
  finished only when its bins are; a flush returns, with its scene finished;
  destroy returns.
- **anv allocator**: states in use never overlap; the free lists contain free
  states only; nothing is lost; whoever sleeps has somebody who will wake it; the
  ends of the pool stay inside what is mapped.
- **disk cache**: readers see whole entries; the size is what the entries take
  up; what a dead process leaves behind blocks nothing.

### Parts not modelled yet

| part | state | hard behaviour | properties |
|---|---|---|---|
| `wsi_common_queue.h`, `wsi_common_x11.c`, `wsi_common_wayland.c`, `u_vector.c` | acquire and present queues, busy flags, status | application and present thread, swapchain errors, timeouts | an image has one owner, waits end after an error |
| `pb_cache.c`, `pb_slab.c`, `pb_buffer_fenced.c` | buckets of idle buffers, reclaim lists, fenced lists | unlock around callbacks, expiry, busy buffers | no buffer in two places, sizes add up |
| `u_threaded_context.c` | ring of batches, `last`/`next`, tokens | batches reused on top of `util_queue`, synchronisation from inside | a batch is not written while it is executed, order of calls |
| `hash_table.c`, `set.c` | open-addressed arrays | deleted entries, rehash | refines a map, searches end |
| `loader_dri3_helper.c`, `mesa/main` shared objects | counters, events, reference counts | several threads wait for one event source | no lost event, no use after free |

### Not planned

The GL API and the state tracker, the shader compilers, the hardware drivers,
addrlib, the EGL/GLX/GBM front ends and the dispatch code: sequential, generated,
vendored or defined by documents outside the repository.  `PROJECT.json` gives
the reason for each.

## 2. The modules

| module | models | remarks |
|---|---|---|
| `Mutex`, `Fence`, `JobQueue` | what a mutex, a fence and a job queue promise | abstract specifications, used by `INSTANCE`; closing a `JobQueue` forgets the queued jobs and signals any subset of them, since the code signals all or none |
| `SimpleMtx` | `simple_mtx_lock/unlock` | one action per atomic access or system call |
| `FutexFence` | the futex fence | the same grain; a late `futex_wake` of an earlier round is possible |
| `CondFence` | the fence with mutex and condition variable | two clocks; one action per mutex operation |
| `Primitives` | a build's mutex and fences side by side | one object of the three kinds is in use; instances of the three modules above |
| `UtilQueue`, `MCUtilQueue` | `util_queue` | one action per critical section; `MCUtilQueue` has symmetry and the bound of the enlargement |
| `QueueExit` | the exit list, init/destroy/exit of several queues | one action per critical section or `pthread_join` |
| `UtilBarrier` | the barrier built from a condition variable | one action from one `cnd_wait` to the next |
| `Slab`, `MCSlab` | the slab allocator | lists are sets; page addresses are reused |
| `LpRast` | the rasterizer threads of llvmpipe and the contexts that use them | extends `UtilBarrier`: every `util_barrier_wait` is a sequence of its actions |
| `AnvStatePool` | the state pool of anv and the block pool below it | one action per atomic instruction or system call |
| `DiskCache` | put, evict and remove of several processes | one action per system call; crashes |
| `FutexFenceProofs`, `PrimitivesProofs`, `LpRastProofs` (with the barrier), `UtilQueueProofs`, `QueueExitProofs`, `SlabProofs`, `DiskCacheProofs`, `AnvStatePoolProofs` | theorems | see section 5 |

Definitions marked "Mutant" are changed forms of an action; no specification
uses them.  Each is a plausible bug in the code and breaks the property it is
listed with in `PROJECT.json`, which shows that the property says something
about the code.

### Correspondence with the code

*Futexes.*  `asleep` is the kernel's queue on the word.  `futex_wait` compares
and queues in one step or returns at once; a sleeper may be interrupted at any
time; `futex_wake` wakes any one sleeper, or all.

*Condition variables.*  A thread asleep is in a wait state of its program
counter; `cnd_signal` moves one such thread to its retry state if there is one,
`cnd_broadcast` all of them; spurious wakeups are actions of their own.

*UtilQueue.*  The fields of `struct util_queue` have their own names.  All of
them but `num_threads` are accessed with `queue->lock` held, so a critical
section is one step.  A worker's `wpc` goes through `loop`, `asleep`, `exec`,
`barrier`, `signal`, `cleanup`, and `drain`, `exited` when it is killed; a
user's `upc` names the function it is in and the place where it blocks.  A job
is named by the fence it embeds, and a slot is a job or `Null` (the memset
slot).  A full ring that dying workers leave behind still holds its jobs, and
`OneOwner` still counts a slot as the party responsible: that nobody will ever look
at it is what `NoJobLeftBehind` is about.  Fences are atomic here, justified by `FutexFence` and `CondFence`,
which both implement `Fence`; so is the barrier of `util_queue_finish`, after
`UtilBarrier`.  Callers respect the contract of `util_queue_fence_reset` and of
a job's memory (`Free`): a job is added only when its last submission is over
and nobody still uses it.  `outcome`, `cleaned` and `before` are history
variables that no action reads.  `Shutdown` chooses between a queue that is
never shut down, one destroyed by a user when all others have stopped using it
(the contract of destroy), and one killed by the exit handler while users go on.

*QueueExit.*  Every queue has an owner that creates and destroys it, at any time,
also while `exit()` runs in another thread.  The worker threads are reduced to
"may end after `kill_threads`", and need not: a worker at the barrier of
`util_queue_finish` may wait there for ever (finding 2).  `pthread_join` of a thread somebody else is
joining fails at once, as POSIX implementations report it; `thrd_join` returns
that and the code ignores it.  `util_queue_destroy` does not hold `exit_mutex`
while it kills and joins, so the two can meet; `ExitWaitsForAll` says what is
still guaranteed then (section 4).

*Slab.*  A child pool stands for the thread that uses it (the API requires
that).  Sections under the parent mutex are one step; the first read of
`elt->owner` and the countdown of an orphaned page are separate steps.
`held` is what the program has allocated; any pool may free any held element.

*LpRast.*  `tpc` is a thread's place in `thread_function`; inside a barrier the
variables of `UtilBarrier` say more.  A semaphore is its counter: signal and wait
hold its mutex, and the loop around `cnd_wait` is the guard "counter > 0".  The
ring of `lp_scene_queue` is a sequence.  A scene is named by its context, which has
one (`MAX_SCENES` is 1).  `curr_x`, `curr_y` are the number of the bin.  The scene's
`fence` and the context's `last_fence` are the two references to one
`lp_fence`; its count is kept with the latter.  `rast_mutex` is held from
`lp_rast_queue_scene` to the end of `lp_rast_finish`.  The screen is destroyed when
no context is inside a flush.

*AnvStatePool.*  The unit is the smallest state; `next[o]` is the word in memory
at offset `o`, where a free state keeps its link.  It is defined where the word was
last written as a link; elsewhere `Read` gives `GARBAGE`, which is what the
application has left there.  A pop reads a head, then the link (which may have changed, or be no
link any more), then compares and swaps offset and count as one word.  The
`{next, end}` words are changed by fetch-and-add and exchange only.  The exchange of such a word and the
`futex_wake` after it are two steps, and a `futex_wait` may return at any time (`Interrupt`), after which the
caller starts again with its fetch-and-add, as the code does.  In
`anv_block_pool_grow` the center is written before the size, the mutex is
unlocked, and the result is computed by two reads in either order.  A growth that
fails changes nothing and is tried again (no step).  The two `next` counters are
read together when the new size is computed; both only grow meanwhile, except by
the exchange of the other end's grower.

*DiskCache.*  A name (`file[k]`, `tmp[k]`) refers to an inode or to none; an
inode has a length and an flock.  `open` without `O_TRUNC` reuses a temporary file
that a dead process has left.  The file an eviction chooses is any, since access
times are not modelled; a random directory may have no file.  With `CallsFail` any
system call may fail: `stat`, `unlink` with the file in place, `open` of either
file, `flock`, `write` and `rename`.  An entry that exists and cannot be opened is
taken for a missing one, as in the code.  `disturbed` (an entry or temporary file was
removed while another process was at work on its key, or an entry could not be
opened), `misaccounted` (a process died between a file operation and its accounting,
or an `unlink` left its file in place) and `alone` are history variables that no
action's guard reads.

## 3. The runs

| run | instance | states | shows |
|---|---|---|---|
| `primitives` | 3 threads, clock to 2 | 12 000 | mutex: no lost wakeup, `Mutex` implemented, progress; both fences: `Fence` implemented, waiters and timed waiters return, no use after destroy |
| `queue` | 2 workers, 2 users, 3 jobs, 2 slots with and without resize, destroy | 292 000 | ring, ownership, fences, callbacks, finish, free slots, `JobQueue`, with blocked adders, an enlarged ring and a destroy at the end |
| `queue_live` | 2 workers, 2 users, 2 jobs, 2 slots, destroy | 145 000 | queued jobs complete, each `util_queue_finish` returns although two are called at a time, the shutdown ends |
| `rast` | 3 threads, 2 contexts with 2 flushes each, 2 bins | 266 000 | lockstep, one scene, fence and bins, flush and destroy return |
| `anv` | 2 threads, 4 allocations, states of 1, block of 2, states of 4, back blocks | 568 000 | sleepers and wakers with interrupted waits, overlap, free lists, losses at both ends |
| `disk` | 2 processes, 2 keys, 4 operations, 1 eviction each, 1 death, failing calls | 4 789 000 | whole entries, exact size, no left-over in the way |
| `slab` | 3 pools, 3 pages of 2 elements | 105 000 | places, lifetimes, leaks |
| `exit_list` | 2 queues of 2 threads | 9 000 | the exit handler, with queues created and destroyed around it |

### Bounds, and why they are enough

- *Threads.*  Two workers and two users already give every pair of concurrent
  operations, a barrier with somebody missing, two competing adders and two
  finishers; the primitives get three threads, so that a waker or locker meets two
  sleepers.
  The proofs cover any number.
- *Slots.*  Two slots with three jobs and the barrier jobs: the ring fills up
  and wraps, and is enlarged by `Growth` = 1 (the code: 8) while its contents are
  wrapped around the end.  `GrowsOnce` bounds the search after it.
- *Time.*  `CondFence` needs a clock value before, at and after each timeout.
- *MaxRounds* = 8: four scenes, two barriers each.
- *Rasterizer*: three threads, because with two a thread that is late has nobody
  to be confused with; two contexts with two scenes each, so that a scene is
  followed by one of the same and of the other context; two bins, so that one
  thread gets none.
- *Slab*: two elements per page let one be free and one held; three pools let a
  third one free what belongs to a second while the first is destroyed.
- *anv*: `MaxOps` = 4 allocations are enough for a pop that is overtaken by pop,
  use and push (the ABA case; the mutant without the count is found), for a
  split in two levels, for a bucket's block to end under two threads, and for
  both ends to grow.  `MaxDoublings` bounds one growth (a larger one
  would be no step) and is not reached.  `Word`
  stands for 2^32 in the unsigned difference of size and center, which does wrap
  around (finding 3).
- *disk*: `MaxOps` = 4 lets an entry be stored, removed and stored twice at the same
  time; a file of two parts is partly written in between; the size limit
  holds one entry, so that a put evicts whenever there is one; a second eviction
  of the same put (the code allows 8) starts from the same place and only repeats it.

Symmetry is used in safety runs only.  Deadlock is not checked where the program
may stop: a queue or rasterizer that has been destroyed, and the bounded
operations of `anv` and `disk`.  That no thread of `anv` is stuck is what
`SleeperHasWaker` says.

### Fairness

A thread inside a function of the library is scheduled (weak fairness of its
steps), callbacks return, `pthread_join` returns after the thread has ended.
`QueueExit` does not assume that a worker ends: `ExitReturns` says that the handler
returns or stays in the join of one worker that does not.
No caller has to call anything, no spurious wakeup, signal or interruption has to
happen, and nobody has to signal a fence.  `FutexFence` needs strong fairness of
the timeout, since the timeout is absolute and an interrupted call that is
repeated after it returns at once; `CondFence` needs strong fairness of the
mutex, as `mtx_t` gives no formal guarantee but hands the lock over in practice.
The rasterizer's threads and whoever has called one of its functions go on; nobody
has to flush or destroy.  The number of flushes is bounded, so that a context
cannot be overtaken at `rast_mutex` for ever.  `anv` and `disk` have safety
properties only: a lock-free pop may fail for ever in theory, a growth may fail
for ever in practice, and nothing in `cache_put` waits.

Two limits of liveness.  With several users, a user that waits for a slot can be
overtaken for ever by others that call `util_queue_add_job` at the right moment: the
code promises no fairness between callers.  What it does promise is
`NoSlotOverlooked`: while a user sleeps, no more slots are free than users have been
woken up for, so somebody gets each of them, and with `QueuedJobsComplete` slots get
free again.  `finish_lock` may be overtaken in the same way, so `FinishReturns`
starts where the barrier jobs have been added; that it is held until then is what
keeps the barriers of two users apart (without it the run finds both workers at
different barriers).  And `QueuedJobsComplete` lets a
shutdown excuse a job that is never signalled, which is what the first finding
below is about.

## 4. Findings

Four runs end with a counterexample; each checks what a comment or an assertion
of the code says.

1. `queue_destroy_full`: when the ring is full `read_idx == write_idx`, so the
   loop of a dying thread over the remaining jobs ends at once and none of
   their fences is signalled ("signal remaining jobs before terminating").
2. `queue_atexit_finish`: `exit()` during `util_queue_finish` can hang, a worker
   waiting at the barrier for one that has left its loop without taking its
   barrier job ("Wait for all queues to assert idle when exit() is called").
3. `anv_grow`: `anv_block_pool_grow` reads the size and the center after it has
   unlocked the mutex.  When the other end grows between the two reads, the
   front end becomes larger than the front of the pool, or wraps around to a
   number that stops all further growth ("Assert that we only ever
   grow the pool").  Only pools with back allocations, the surface state pool,
   have a center that moves.
4. `disk_partial`: the flock is on an inode, the rename on a name.  After an
   entry has been removed under the hands of a second process, that process can
   rename the half-written temporary file of another one ("to prevent any readers
   from seeing a partially written file").  The checksum lets readers reject it,
   but the entry then exists, so no put replaces it until it is evicted.

The same models show further consequences, for which no run of their own is kept:

- Without any death or failing call the size of the disk cache goes wrong.  An entry
  that is removed between the `rename` and the `stat` of `cache_put` is subtracted
  and never added (disk_cache.c:982-991), and two processes that have
  both passed the `stat` of one file both subtract it, since nobody looks at the
  result of `unlink` (579-582, 684-688).  The size is then too small, or wraps around
  and makes every put evict.  TLC finds both when `~disturbed` is taken out of
  `SizeExact`, with `CallsFail` = `FALSE` and `MaxCrashes` = 0.
- With `Shutdown` = "atexit", a user blocked on a full ring while `exit()` kills the
  threads does not look at `kill_threads` again and finds an occupied slot, against
  `assert(ptr->job == NULL)` (u_queue.c:465, `AddFindsFreeSlot`); and
  `util_queue_finish` after the kill returns at once although a job is
  queued or being executed, since `util_queue_add_job` gives up (418-424,
  `FinishWaitsForAll`).  Because of this and of finding 2 the theorems of
  `UtilQueueProofs` are about queues that only destroy shuts down.
- `util_queue_drop_job` calls the cleanup callback before the fence is signalled
  (u_queue.c:500 and 511), execution after it, as u_queue.h:227 says for both:
  `CleanupOnce` is about how often it is called, not about this order.
- `_util_queue_fence_wait_timeout` of the build without futexes adds the absolute
  timeout, not the remaining time, to the current time (u_queue.c:175-176) and so
  waits too long.
- A process that dies between `rename` and the addition, or whose `unlink` fails with
  the file in place, leaves a wrong size behind as well; `misaccounted` excuses both.
- `util_queue_drop_job` searches with the same loop as finding 1: on a full ring it
  does not find the job and waits for its execution.
- When `exit()` meets a destroy in progress, one of the two joins of each thread
  fails, so either may go on while a thread still runs (u_queue.c:389-391).
  `ExitWaitsForAll` speaks of the queues whose owner is not in destroy.
- The comment at lp_fence.c:38 calls `rank` the number of bins; it is the number of
  threads (lp_setup.c:204), which is what `FenceMeansRastered` is stated with.

Apart from the order of cleanup, those of the queue concern full queues without resize, processes that exit while
other threads still use a queue, or builds without futexes.

## 5. Proofs

All theorems hold for every value of the constants that satisfies the named
assumptions of the modules: any number of threads, users, processes, jobs,
slots, pools, pages, keys, bins, rounds, operations and crashes.  The bounds of
section 3 are constants too, so the theorems do not depend on them.  Each
inductive invariant was checked with TLC on the instance of the corresponding run
before it was proved; of `MemInv` below, which quantifies over functions
that TLC cannot enumerate, the consequences were (the properties of the run `anv`).

| module | theorems | property of a run |
|---|---|---|
| `PrimitivesProofs` | `MutexExcludes`, `NoWakeupIsLost`, `ImplementsMutex`, `MutexImplements` | `NoLostWakeup`, `MutexSpec` |
| | `FutexFenceImplements`, `StdFenceImplements`, `StdNoUseAfterDestroy` | `FutexFenceSpec`, `CondFenceSpec`, `NoUseAfterDestroy` |
| `FutexFenceProofs` | `FenceLosesNoWakeup`, `ImplementsFence` | |
| `UtilQueueProofs` | `RingConsistent`, `EveryJobHasOneOwner`, `FencesTellTheTruth`, `AddFindsSlot`, `JobsExecuteOnce` | `RingInv`, `OneOwner`, `FenceMeansOver`, `ExecutedOnce` |
| | `CleanupRunsOnce`, `SlotsNotOverlooked`, `ImplementsJobQueue`, `FinishWaits` | `CleanupOnce`, `NoSlotOverlooked`, `JobQueueSpec`, `FinishWaitsForAll` |
| `QueueExitProofs` | `ExitUsesLiveQueues`, `ExitWaits` | `HandlerUsesLiveQueues`, `ExitWaitsForAll` |
| `SlabProofs` | `SlabOnePlace`, `SlabNoUseAfterFree`, `SlabNoLeak`, `SlabOwnerIsAlive` | `OnePlace`, `NoUseAfterFree`, `NoLeak`, `OwnerIsAlive` |
| `LpRastProofs` | `BarrierLockstep`, `BarrierLosesNoWakeup`, `BarrierAssertions` | `Lockstep` |
| | `RastLockstep`, `RastOneScene`, `RastFenceMeansRastered`, `RastFlushedIsFinished` | `Lockstep`, `OneScene`, `FenceMeansRastered`, `FlushedIsFinished` |
| `DiskCacheProofs` | `DiskInvariant`, `DiskEntriesWhole`, `DiskPutAloneStores`, `DiskSizeExact` | `EntriesWhole`, `PutAloneStores`, `SizeExact` |
| `AnvStatePoolProofs` | `AnvSleeperHasWaker`, `AnvNoOverlap`, `AnvFreeListsIntact`, `AnvNothingLost` | `SleeperHasWaker`, `NoOverlap`, `FreeListsIntact`, `NothingLost` |

The arguments:

- **PrimitivesProofs, the mutex.**  `IInv` (in `SimpleMtx`): types, exclusion,
  "the word is 0 exactly when nobody owns the mutex", the kernel's queue is the
  set of threads inside `futex_wait`, and no lost wakeup.  The relation of word
  and owner is what makes exclusion inductive: the compare-and-swap and the
  exchange decide by the word.  Every step is a step of `Mutex` or a stutter.
  A step of the composition is a step of the primitive in use and a stutter of
  the others, so the results carry over to it.
- **PrimitivesProofs, the fence with a condition variable.**  `StdIInv`: the
  mutex and the condition variable agree with the places of the threads (`StdAt`),
  one thread at most is about to set the flag, and then the fence exists and is
  unsignalled (`StdSetter`), one thread at most destroys it, and then nobody waits
  (`StdDestroyer`).  A destroyer gets the mutex only when the signaller has left
  it, which is all that `NoUseAfterDestroy` needs.
- **FutexFenceProofs.**  `IInv`: types, the kernel's queue, timed threads are
  waiters, no lost wakeup.
- **LpRastProofs, the barrier.**  `IInv`: `waiters` is the number of threads whose saved
  sequence number is the current one; threads outside have passed exactly
  `sequence` rounds, threads inside wait for this round or have not yet left the
  last one.  When the last thread arrives the cardinality argument shows that
  all others have arrived (`LastArrives`).
- **UtilQueueProofs.**  For a queue that is never shut down or shut down by
  destroy (`Shutdown # "atexit"`; with the exit handler the code violates what
  is proved, see section 4).  `IInv` adds to `TypeOK`, `RingInv` and
  `OneOwner`: what each program counter says about the job of its thread
  (`JobsOfThreads`), which barrier jobs can be pending (`BarrierFences`, without
  which finish could add a job that is still queued), nobody uses a queue that
  is being destroyed (`ShutdownAlone`), and how far a submission has got
  (`Outcomes`).  One lemma per group of conjuncts, in it one step per action;
  the arithmetic of the ring indices (wrap-around, enlargement) is in lemmas of
  its own.  On top of it:
  - `JobsExecuteOnce` is about the step that executes: its submission is still
    pending, so it was neither executed before nor dropped.
  - `CleanupRunsOnce` needs `Cleaning`: a worker that is about to call the
    callback is the only one that has the job, whose fence is signalled
    and whose submission is over; and a submission that is over was cleaned up
    unless a worker still has it, which makes "at most once" "exactly once".
  - `SlotsNotOverlooked`: each taken job wakes a sleeping user if there is one, and a
    user that sleeps again has found the ring full.
  - `ImplementsJobQueue` maps the ring to the sequence
    of what `Nth(0)`, `Nth(1)`, ... hold.  Taking is `Tail`, adding is `Append`,
    also when the ring is enlarged on the way, and dropping replaces
    one element by the empty job; the drain of a dying worker is the close.
  - `FinishWaits` needs `FinishInv`: a job that finish waits for is queued or held
    by a worker, in the ring it is in front of every job of the barrier, so it has
    left the ring when a worker holds one of those; and when a worker gets past the
    barrier all workers are at it, so none holds anything else and nothing is left
    to wait for.
- **QueueExitProofs.**  `IInv`: the list holds the queues between the end of init
  and the end of destroy, once each (`Listed`); the handler has `exit_mutex` as long as
  it walks, over queues that are still listed (`Handler`); the threads of queues
  behind it, and those with a smaller index of the queue it works on, have ended
  unless the owner is in destroy (`Stopped`).
- **SlabProofs.**  The four properties of the run need each other, and
  three facts more: the pages of a pool belong to it alone, and somebody has each
  element of them (`PagesOwned`); `slab_free` keeps its element between its two
  looks at the owner, and an orphan stays one (`ArgInv`); a pool that does not
  exist has no elements.  The countdown of an orphaned page is a cardinality.
- **LpRastProofs, the rasterizer.**  A step of the rasterizer is a step of the barrier or leaves it
  alone (`RastSteps`), so the barrier's invariant carries over.  `Phase` says that
  `rast_mutex` makes one context at a time the user of the threads, and that they
  are together in one of three phases of its scene: coming to the first barrier,
  between the two, leaving the second; each thread's place, semaphores and round
  are fixed by the phase.  A phase ends with the arrival of the last thread at a
  barrier, and `LastArrives` says where the others are then.
- **DiskCacheProofs.**  What holds always: an flock belongs to a process with that
  file open (`Locks`), no inode has two names (`Names`).  What a process knows
  about its names unless a file was removed under another one's hands or an
  entry could not be opened (`Orderly`), and when it is alone (`AloneAt`).  `Accounted`: the size word is the
  number of entries, less those still to be added or to be removed for want of
  a `stat`, plus those still to be subtracted, times their size, modulo its width.
- **AnvStatePoolProofs, the sleepers.**  `SleepInv`.  The `next` of a `{next, end}` word acts as
  a mutex: the thread whose fetch-and-add moves it over the end is the only one
  that grows that end of the pool (`OneGrower`, `GrowerAt`) or fetches a block for
  that bucket (`OneFetcher`), and as long as `next` is past the end there is such a
  thread.  The ends only move up: at the pool since the loop in
  `anv_block_pool_alloc_new` goes on until the new end is above the block; in a
  bucket since the front of the pool is handed out once, in ascending order
  (`BlocksBelow`, `GotAbove`).  So a thread on its way to sleep either has seen an
  old end, and `futex_wait` returns at once, or the present one, and the thread
  that will replace it is there (`PoolWaiter`, `BucketWaiter`).  One that is asleep
  with an old end has a thread between the exchange and `futex_wake`
  (`Woken`): the wake empties the queue of the kernel, and nobody falls asleep there
  on an old word.  That a
  block is cut into states without rest (`Whole`) excludes that a bucket's `next`
  jumps over its end, in which case nobody would fetch the next block.
- **AnvStatePoolProofs, the memory.**  `MemInv`: there are owners `own`, stacks `n`, `at` and
  counters `fresh` with `Memory`.  Every unit of memory, used or not,
  has exactly one owner (`Owned`, `Apart`, `Cover`): what is left of an end of the pool,
  a state in use, a place on a free list, the rest of a bucket's block, or a
  thread that is about to return or push it.  So an action is a transfer from
  one owner to another, and no property of the memory is shown by looking at
  pairs of states.
  - `Stacks`: each list is a stack whose links lead down to `EMPTY`.  What a link
    says can only be destroyed by the owner of the word, and nobody else owns a
    place on a list.
  - `Popper`: the head a pop has read is outdated, or it is the present one and the
    link that was read is the present one too.  The count grows with every
    change of the head (`CountsGrow`), so an outdated head is never
    mistaken for the present one, also when the same state is back on top (the ABA
    case); the compare-and-swap then takes exactly the top of the stack.
  - `Pusher`: a push writes its links into memory it owns; the chunks of a split are
    for two different lists.
  - `Fresh`: how much of an end has been handed out.  It is the counter,
    except while somebody grows that end: then it is what the grower has found there,
    whatever waiting threads have added since.
  - `HeldOnce`: the application has each state once, in one of the sizes of the buckets.

  With `LinksTyped`, `AnvNoOverlap` is `Apart` for states in use, and the other two
  are `Apart` and `Cover` once the recursive `OnList` is known to be the stack
  (`OnListIs`).  That is shown with an explicit function `Seen` in the place of
  the recursive one, by induction in the form "a set with 0 that is closed under the
  successor has all natural numbers" (`NatSetInduction`, from the well-foundedness of
  `<`); that the number of links is enough to reach the bottom is a
  cardinality argument (`StackBound`).

Assumptions: that sets of threads or keys are finite where they are counted, that
the null value and the kinds of names are distinct, that sizes and counts are
naturals, and that a rasterizer thread is named by its index (`Threads =
0 .. count - 1`).  For anv also what the powers of two are there for
(`PowersAssumption`): sizes are positive and the size of a bucket is a proper multiple of
that of every smaller one; and that `EMPTY` (1 in the code, where states are
multiples of 64 bytes) is no offset.  The count of a free list
is a natural number in the model and has 32 bits in the code: the theorems about the memory
hold for the code as long as no pop is overtaken by 2^32 changes of its list.  No
theorem assumes anything about the behaviour of the code.

Only model-checked:

- all liveness: `LockProgress`, `FutexWaitersReturn`, `FutexTimedWaitsReturn`,
  `CondWaitersReturn`, `QueuedJobsComplete`, `FinishReturns`, `ShutdownCompletes`,
  `FlushReturns`, `DestroyReturns`, `ExitReturns`.  They rest on
  fairness and `ENABLED`, which the prover does not support;
- the queue shut down by the exit handler, for which section 4 has counterexamples.

## 6. What is left out

- Weak memory: the atomics of `simple_mtx` and of the fences are full barriers,
  and other shared state is accessed under locks.  The unlocked read of
  `num_threads` in `util_queue_finish` is modelled as an atomic read.
- Failing `malloc`/`calloc` in `util_queue_init`, thread names, priorities and
  `util_queue_get_thread_time_nano`.  A queue that got fewer threads than asked
  for is the same model with fewer workers.
- `util_barrier` on `pthread_barrier_t` and `simple_mtx` on `mtx_t`, which only
  forward.
- The debug magic numbers of the slab allocator; `OnePlace` states what they
  test.
- llvmpipe without threads (`LP_NUM_THREADS=0`), `LP_NO_RAST`, and what is in a
  bin; the allocation failures of `lp_rast_create`.
- In `anv_allocator.c`: the mapping of the pool (a map once seen stays valid, since
  old maps are kept), state streams, the pointer free list and the bo pool, scratch
  bos, the bo cache.
- In `disk_cache.c`: `disk_cache_get`, which changes nothing, the key table (whose
  races only make a later lookup miss), blob callbacks, creation and destruction.
- Everything `PROJECT.json` lists as not modelled.  The map covers a small share of
  the repository: most of it is API state, compilers, register packing and
  vendored or generated code, of which a state machine small enough to check
  would say nothing.

## 7. Plan

The safety properties of all passing runs are proved.  What is left is to model more:
the batches of `u_threaded_context.c` composed with `JobQueue`;
`pb_cache` and `pb_slab`; the wsi queues with `u_vector` and the X11 present
thread; `hash_table` against a map.
