----------------------------- MODULE AnvStatePool -----------------------------
(***************************************************************************)
(* The state pool of the Intel Vulkan driver and the block pool below it   *)
(* (src/intel/vulkan/anv_allocator.c), at the grain of their atomic        *)
(* instructions and system calls.  States come from lock-free free lists,  *)
(* from larger free chunks that are split, or from a block; blocks come    *)
(* from the front or the back of a pool that grows around its center.      *)
(*                                                                         *)
(* The unit of offsets and sizes is the smallest state; bucket b holds     *)
(* states of 2^b units.                                                    *)
(***************************************************************************)
EXTENDS Integers, Sequences, FiniteSets, FiniteSetsExt, Bags, TLC

CONSTANTS Threads,
          Requests,     \* what the application allocates: buckets, Back
          Back,         \* the back of the pool, and its free list
          MaxBucket,    \* the buckets are 0 .. MaxBucket
          BlockBucket,  \* the bucket of block_size
          InitialSize,  \* initial_size of anv_block_pool_init
          PageSize,     \* PAGE_SIZE
          Word,         \* uint32_t is taken modulo Word
          MaxOps,       \* bound: how many states are allocated, and waits interrupted
          EMPTY,        \* the end of a free list
          GARBAGE,      \* what the application leaves in a state
          NULL

Buckets == 0 .. MaxBucket
Lists == Buckets \cup {Back}
Front == "front"
Sides == {Front, Back}

ASSUME AnvAssumption ==
    /\ MaxBucket \in Nat /\ Requests \subseteq Lists /\ BlockBucket \in Buckets
    /\ Back \notin Buckets /\ Back # Front
    /\ InitialSize \in Nat \ {0} /\ PageSize \in Nat \ {0}
    /\ Word \in Nat \ {0} /\ MaxOps \in Nat
    /\ EMPTY \notin Int /\ GARBAGE \notin Int /\ EMPTY # GARBAGE /\ NULL \notin Lists

\* anv_state_pool_get_bucket_size.
Size(b) == IF b = Back THEN 2 ^ BlockBucket ELSE 2 ^ b
BlockSize == 2 ^ BlockBucket

\* Bound: how often one growth doubles the pool.
MaxDoublings == 5

\* What the powers of two are needed for: a state of a bucket is cut into states of
\* every smaller one without rest.
ASSUME PowersAssumption ==
    /\ \A b \in Buckets : Size(b) \in Nat \ {0}
    /\ \A b, c \in Buckets : b < c => \E k \in 2 .. Size(c) : Size(c) = k * Size(b)
    /\ \A k \in 1 .. MaxDoublings : 2 ^ k \in Nat

VARIABLES
    head,    \* the free lists: offset and count of each
    next,    \* next[o]: the word at offset o, if it was last written as a link
    block,   \* buckets[b].block: next and end
    state,   \* pool->state and pool->back_state: next and end
    bo_size, center, mutex,  \* pool->bo.size, pool->center_bo_offset, device->mutex
    pc, loc, \* each thread's place and its local variables
    asleep,  \* the threads the kernel has queued on the end of a block or pool
    held,    \* the bag of states the application has: <<offset, size>>
    ops      \* how many states have been asked for, and waits interrupted

pool == <<state, bo_size, center, mutex>>
vars == <<head, next, block, pool, pc, loc, asleep, held, ops>>

Goto(t, l) == pc' = [pc EXCEPT ![t] = l]

NoLocals == [want |-> NULL, list |-> NULL, cur |-> NULL, link |-> NULL, off |-> NULL,
             side |-> NULL, old |-> NULL, end |-> NULL, push |-> <<>>]

Extent(o, n) == o .. o + n - 1

\* anv_state_pool_init.
Init ==
    /\ head = [l \in Lists |-> [offset |-> EMPTY, count |-> 0]]
    /\ next = [o \in {} |-> EMPTY]
    /\ block = [b \in Buckets |-> [next |-> 0, end |-> 0]]
    /\ state = [s \in Sides |-> [next |-> 0, end |-> 0]]
    /\ bo_size = InitialSize /\ center = 0 /\ mutex = NULL
    /\ pc = [t \in Threads |-> "idle"] /\ loc = [t \in Threads |-> NoLocals]
    /\ asleep = {} /\ held = EmptyBag /\ ops = 0

\* The memory after the application has written into a state.
Used(links, off, n) == [o \in DOMAIN links \ Extent(off, n) |-> links[o]]

\* The state goes to the application.
Return(t, off, n) ==
    /\ held' = held (+) SetToBag({<<off, n>>})
    /\ next' = Used(next, off, n)
    /\ Goto(t, "idle")
    /\ loc' = [loc EXCEPT ![t] = NoLocals]
-----------------------------------------------------------------------------
(* anv_state_pool_alloc_no_vg, anv_state_pool_alloc_back                   *)

\* current.u64 = list->u64 of the first free list to try.
Alloc(t, b) ==
    /\ pc[t] = "idle" /\ ops < MaxOps
    /\ ops' = ops + 1
    /\ loc' = [loc EXCEPT ![t].want = b, ![t].list = b, ![t].cur = head[b]]
    /\ Goto(t, "pop")
    /\ UNCHANGED <<head, next, block, pool, asleep, held>>

\* The word at an offset: a link, or what the application has left there.
Read(o) == IF o \in DOMAIN next THEN next[o] ELSE GARBAGE

\* while (current.offset != EMPTY): read the link of the first state, or go on to
\* the next larger bucket, or to the pool.
Pop(t) ==
    LET l == loc[t].list IN
    /\ pc[t] = "pop"
    /\ \/ /\ loc[t].cur.offset # EMPTY
          /\ loc' = [loc EXCEPT ![t].link = Read(loc[t].cur.offset)]
          /\ Goto(t, "pop_cas")
       \/ /\ loc[t].cur.offset = EMPTY /\ l \in Buckets \ {MaxBucket}
          /\ loc' = [loc EXCEPT ![t].list = l + 1, ![t].cur = head[l + 1]]
          /\ UNCHANGED pc
       \/ /\ loc[t].cur.offset = EMPTY /\ l = MaxBucket
          /\ UNCHANGED loc
          /\ Goto(t, "bucket")
       \/ /\ loc[t].cur.offset = EMPTY /\ l = Back
          /\ loc' = [loc EXCEPT ![t].side = Back]
          /\ Goto(t, "pool")
    /\ UNCHANGED <<head, next, block, pool, asleep, held, ops>>

\* Mutant: the count of the list head is not incremented.
BumpNot(count) == count

\* new.count = current.count + 1.
Bump(count) == count + 1

\* Mutant: the chunk that is returned is pushed as well.
SplitOne(off, l, b) == <<[list |-> b, off |-> off, n |-> Size(l) \div Size(b)]>>

\* Mutant: a chunk larger than a block is split into states of one block only.
SplitLoses(off, l, b) ==
    LET chunk == IF Size(l) > BlockSize /\ Size(b) < BlockSize THEN BlockSize ELSE Size(l)
    IN  <<[list |-> b, off |-> off + Size(b), n |-> chunk \div Size(b) - 1]>>

\* What is pushed back of a chunk of bucket l when a state of bucket b is taken
\* from its beginning.
Split(off, l, b) ==
    LET big == Size(l) > BlockSize /\ Size(b) < BlockSize
        chunk == IF big THEN BlockSize ELSE Size(l)
        blocks == [list |-> BlockBucket, off |-> off + BlockSize, n |-> Size(l) \div BlockSize - 1]
        states == [list |-> b, off |-> off + Size(b), n |-> chunk \div Size(b) - 1]
    IN  IF big THEN <<blocks, states>> ELSE <<states>>

\* __sync_val_compare_and_swap of anv_free_list_pop.
PopCas(t) ==
    LET l == loc[t].list  cur == loc[t].cur  b == loc[t].want IN
    /\ pc[t] = "pop_cas"
    /\ \/ /\ head[l] # cur
          /\ loc' = [loc EXCEPT ![t].cur = head[l]]
          /\ Goto(t, "pop")
          /\ UNCHANGED <<head, next, held>>
       \/ /\ head[l] = cur
          /\ head' = [head EXCEPT ![l] = [offset |-> loc[t].link, count |-> Bump(cur.count)]]
          /\ \/ l = b /\ Return(t, cur.offset, Size(b))
             \/ /\ l # b
                /\ loc' = [loc EXCEPT ![t].off = cur.offset, ![t].push = Split(cur.offset, l, b)]
                /\ Goto(t, "push")
                /\ UNCHANGED <<next, held>>
    /\ UNCHANGED <<block, pool, asleep, ops>>

\* anv_state_pool_free.
Free(t, h) ==
    /\ pc[t] = "idle"
    /\ held' = held (-) SetToBag({h})
    /\ LET l == IF h[1] < 0 THEN Back ELSE CHOOSE b \in Buckets : Size(b) = h[2]
       IN  loc' = [loc EXCEPT ![t].push = <<[list |-> l, off |-> h[1], n |-> 1]>>]
    /\ Goto(t, "push")
    /\ UNCHANGED <<head, next, block, pool, asleep, ops>>

\* The i-th of the states that are pushed together.
Nth(p, i) == p.off + i * Size(p.list)

\* anv_free_list_push: the chain is built and the head is read.
Push(t) ==
    LET p == Head(loc[t].push)
        chain == {Nth(p, i) : i \in 0 .. p.n - 2}
    IN
    /\ pc[t] = "push"
    /\ next' = [o \in DOMAIN next \cup chain |-> IF o \in chain THEN o + Size(p.list) ELSE next[o]]
    /\ loc' = [loc EXCEPT ![t].cur = head[p.list]]
    /\ Goto(t, "push_cas")
    /\ UNCHANGED <<head, block, pool, asleep, held, ops>>

\* The link of the last state is written and the head exchanged.
PushCas(t) ==
    LET p == Head(loc[t].push)  cur == loc[t].cur
        last == Nth(p, p.n - 1)
        linked == [o \in DOMAIN next \cup {last} |-> IF o = last THEN cur.offset ELSE next[o]]
    IN
    /\ pc[t] = "push_cas"
    /\ \/ /\ head[p.list] # cur
          /\ next' = linked
          /\ loc' = [loc EXCEPT ![t].cur = head[p.list]]
          /\ UNCHANGED <<head, pc, held>>
       \/ /\ head[p.list] = cur
          /\ head' = [head EXCEPT ![p.list] = [offset |-> p.off, count |-> Bump(cur.count)]]
          /\ \/ /\ Len(loc[t].push) > 1
                /\ next' = linked
                /\ loc' = [loc EXCEPT ![t].push = Tail(loc[t].push)]
                /\ Goto(t, "push")
                /\ UNCHANGED held
             \/ /\ Len(loc[t].push) = 1 /\ loc[t].want = NULL  \* a free
                /\ next' = linked
                /\ loc' = [loc EXCEPT ![t] = NoLocals]
                /\ Goto(t, "idle")
                /\ UNCHANGED held
             \/ /\ Len(loc[t].push) = 1 /\ loc[t].want # NULL  \* a split
                /\ next' = Used(linked, loc[t].off, Size(loc[t].want))
                /\ held' = held (+) SetToBag({<<loc[t].off, Size(loc[t].want)>>})
                /\ loc' = [loc EXCEPT ![t] = NoLocals]
                /\ Goto(t, "idle")
    /\ UNCHANGED <<block, pool, asleep, ops>>
-----------------------------------------------------------------------------
(* anv_fixed_size_state_pool_alloc_new                                     *)

\* A large state is a block; a small one is cut off the bucket's block with
\* __sync_fetch_and_add, and whoever comes to its end fetches a new block.
BucketAlloc(t) ==
    LET b == loc[t].want  old == block[b] IN
    /\ pc[t] = "bucket"
    /\ \/ /\ Size(b) >= BlockSize
          /\ loc' = [loc EXCEPT ![t].side = Front]
          /\ Goto(t, "pool")
          /\ UNCHANGED <<block, next, held>>
       \/ /\ Size(b) < BlockSize
          /\ block' = [block EXCEPT ![b].next = @ + Size(b)]
          /\ \/ old.next < old.end /\ Return(t, old.next, Size(b))
             \/ /\ old.next >= old.end
                /\ loc' = [loc EXCEPT ![t].side = Front, ![t].old = old]
                /\ Goto(t, IF old.next = old.end THEN "pool" ELSE "bucket_wait")
                /\ UNCHANGED <<next, held>>
    /\ UNCHANGED <<head, pool, asleep, ops>>

\* futex_wait(&pool->block.end, block.end, NULL).
BucketWait(t) ==
    /\ pc[t] = "bucket_wait"
    /\ \/ /\ block[loc[t].want].end = loc[t].old.end
          /\ asleep' = asleep \cup {t} /\ Goto(t, "bucket_sleep")
       \/ /\ block[loc[t].want].end # loc[t].old.end
          /\ Goto(t, "bucket") /\ UNCHANGED asleep
    /\ UNCHANGED <<head, next, block, pool, loc, held, ops>>

\* __sync_lock_test_and_set(&pool->block.u64, new.u64): the new block is installed.
\* old.next != block.next always holds, because of this thread's own
\* __sync_fetch_and_add.
BucketExchange(t) ==
    LET b == loc[t].want IN
    /\ pc[t] = "bucket_xchg"
    /\ block' = [block EXCEPT ![b] = [next |-> loc[t].off + Size(b), end |-> loc[t].off + BlockSize]]
    /\ Goto(t, "bucket_wake")
    /\ UNCHANGED <<head, next, pool, loc, asleep, held, ops>>

\* Mutant: nobody is woken.
BucketWakeSilent(t) ==
    LET b == loc[t].want IN
    /\ pc[t] = "bucket_wake"
    /\ held' = held (+) SetToBag({<<loc[t].off, Size(b)>>})
    /\ loc' = [loc EXCEPT ![t] = NoLocals]
    /\ Goto(t, "idle")
    /\ UNCHANGED <<head, next, block, pool, asleep, ops>>

\* futex_wake(&pool->block.end, INT_MAX): whoever sleeps by now is woken, also in a
\* wait for a later block; return offset.
BucketWake(t) ==
    LET b == loc[t].want
        waiters == {u \in asleep : pc[u] = "bucket_sleep" /\ loc[u].want = b}
    IN
    /\ pc[t] = "bucket_wake"
    /\ held' = held (+) SetToBag({<<loc[t].off, Size(b)>>})
    /\ loc' = [loc EXCEPT ![t] = NoLocals]
    /\ pc' = [u \in Threads |-> IF u = t THEN "idle" ELSE IF u \in waiters THEN "bucket" ELSE pc[u]]
    /\ asleep' = asleep \ waiters
    /\ UNCHANGED <<head, next, block, pool, ops>>
-----------------------------------------------------------------------------
(* anv_block_pool_alloc_new, anv_block_pool_grow                           *)

\* The size of the block a thread takes from the pool.
Want(t) == IF loc[t].want # Back /\ Size(loc[t].want) > BlockSize THEN Size(loc[t].want) ELSE BlockSize

\* A block has been allocated at old.next: anv_block_pool_alloc_back turns it
\* into a negative offset, and a small state is only the first of its block.
GotBlock(t, at) ==
    \/ loc[t].side = Back /\ Return(t, -(at + BlockSize), BlockSize)
    \/ /\ loc[t].side = Front /\ Size(loc[t].want) >= BlockSize
       /\ Return(t, at, Size(loc[t].want))
    \/ /\ loc[t].side = Front /\ Size(loc[t].want) < BlockSize
       /\ loc' = [loc EXCEPT ![t].off = at]
       /\ Goto(t, "bucket_xchg")
       /\ UNCHANGED <<next, held>>

\* __sync_fetch_and_add(&pool_state->u64, block_size).
PoolAlloc(t) ==
    LET s == loc[t].side  old == state[s] IN
    /\ pc[t] = "pool"
    /\ state' = [state EXCEPT ![s].next = @ + Want(t)]
    /\ \/ old.next + Want(t) <= old.end /\ GotBlock(t, old.next)
       \/ /\ old.next + Want(t) > old.end
          /\ loc' = [loc EXCEPT ![t].old = old]
          /\ Goto(t, IF old.next <= old.end THEN "grow" ELSE "pool_wait")
          /\ UNCHANGED <<next, held>>
    /\ UNCHANGED <<head, block, bo_size, center, mutex, asleep, ops>>

\* futex_wait(&pool_state->end, state.end, NULL).
PoolWait(t) ==
    /\ pc[t] = "pool_wait"
    /\ \/ /\ state[loc[t].side].end = loc[t].old.end
          /\ asleep' = asleep \cup {t} /\ Goto(t, "pool_sleep")
       \/ /\ state[loc[t].side].end # loc[t].old.end
          /\ Goto(t, "pool") /\ UNCHANGED asleep
    /\ UNCHANGED <<head, next, block, pool, loc, held, ops>>

\* align_u32, and & ~(PAGE_SIZE - 1).
AlignUp(n) == ((n + PageSize - 1) \div PageSize) * PageSize
AlignDown(n) == (n \div PageSize) * PageSize

\* size = pool->bo.size * 2; while (size < back_required + front_required) size *= 2.
Doubled(required) ==
    {n \in {bo_size * 2 ^ k : k \in 1 .. MaxDoublings} :
        n >= required /\ (n = bo_size * 2 \/ n \div 2 < required)}

\* The size and the center that anv_block_pool_grow computes with the mutex held;
\* the old ones when there is enough room on both sides.  There is none when it
\* takes more than MaxDoublings.
Grown ==
    LET back_used == AlignUp(state[Back].next)
        front_used == AlignUp(state[Front].next)
        back_required == Max({back_used, center})
        front_required == Max({front_used, bo_size - center})
        ratio(size) == Max({AlignDown((size * back_used) \div (front_used + back_used)), back_required})
    IN  IF back_used * 2 <= back_required /\ front_used * 2 <= front_required
        THEN {[size |-> bo_size, center |-> center]}
        ELSE {[size |-> size,
               center |-> IF back_used = 0 THEN 0 ELSE Min({ratio(size), size - front_required})] :
                 size \in Doubled(back_required + front_required)}

\* pthread_mutex_lock up to the first assignment of anv_block_pool_expand_range.
\* A growth that fails returns 0 and is tried again: no step.
Grow(t) ==
    /\ pc[t] = "grow" /\ mutex = NULL
    /\ mutex' = t
    /\ \E g \in Grown : center' = g.center /\ loc' = [loc EXCEPT ![t].end = g.size]
    /\ Goto(t, "expand")
    /\ UNCHANGED <<head, next, block, state, bo_size, asleep, held, ops>>

\* anv_bo_init(&pool->bo, gem_handle, size), and the mutex is unlocked.
Expand(t) ==
    /\ pc[t] = "expand"
    /\ bo_size' = loc[t].end
    /\ mutex' = NULL
    /\ Goto(t, IF loc[t].side = Back THEN "read" ELSE "read_two")
    /\ UNCHANGED <<head, next, block, state, center, loc, asleep, held, ops>>

\* return pool->bo.size - pool->center_bo_offset: the mutex is not held any more,
\* and the order of the two reads is the compiler's.  The first of them.
ReadFirst(t) ==
    /\ pc[t] = "read_two"
    /\ \/ loc' = [loc EXCEPT ![t].end = bo_size] /\ Goto(t, "read_center")
       \/ loc' = [loc EXCEPT ![t].end = center] /\ Goto(t, "read_size")
    /\ UNCHANGED <<head, next, block, pool, asleep, held, ops>>

\* The second read, and the result; do ... while (new.end < new.next).
ReadEnd(t) ==
    LET end == CASE pc[t] = "read_center" -> (loc[t].end - center) % Word
                 [] pc[t] = "read_size" -> (bo_size - loc[t].end) % Word
                 [] OTHER -> center
    IN
    /\ pc[t] \in {"read_center", "read_size", "read"}
    /\ loc' = [loc EXCEPT ![t].end = end]
    /\ Goto(t, IF end < loc[t].old.next + Want(t) THEN "grow" ELSE "pool_xchg")
    /\ UNCHANGED <<head, next, block, pool, asleep, held, ops>>

\* __sync_lock_test_and_set(&pool_state->u64, new.u64).
PoolExchange(t) ==
    LET s == loc[t].side IN
    /\ pc[t] = "pool_xchg"
    /\ state' = [state EXCEPT ![s] = [next |-> loc[t].old.next + Want(t), end |-> loc[t].end]]
    /\ Goto(t, IF state[s].next # loc[t].old.next THEN "pool_wake" ELSE "pool_got")
    /\ UNCHANGED <<head, next, block, bo_size, center, mutex, loc, asleep, held, ops>>

\* futex_wake(&pool_state->end, INT_MAX).
PoolWake(t) ==
    LET waiters == {u \in asleep : pc[u] = "pool_sleep" /\ loc[u].side = loc[t].side} IN
    /\ pc[t] = "pool_wake"
    /\ pc' = [u \in Threads |-> IF u = t THEN "pool_got" ELSE IF u \in waiters THEN "pool" ELSE pc[u]]
    /\ asleep' = asleep \ waiters
    /\ UNCHANGED <<head, next, block, pool, loc, held, ops>>

\* return state.next.
PoolGot(t) ==
    /\ pc[t] = "pool_got"
    /\ GotBlock(t, loc[t].old.next)
    /\ UNCHANGED <<head, block, pool, asleep, ops>>
-----------------------------------------------------------------------------
\* A signal interrupts futex_wait, which nobody checks for: the thread tries again
\* and adds to the counter once more, for which the bound is.
Interrupt(t) ==
    /\ t \in asleep /\ ops < MaxOps
    /\ ops' = ops + 1
    /\ asleep' = asleep \ {t}
    /\ Goto(t, IF pc[t] = "bucket_sleep" THEN "bucket" ELSE "pool")
    /\ UNCHANGED <<head, next, block, pool, loc, held>>

Step(t) ==
    \/ Pop(t) \/ PopCas(t) \/ Push(t) \/ PushCas(t)
    \/ BucketAlloc(t) \/ BucketWait(t) \/ BucketExchange(t) \/ BucketWake(t)
    \/ PoolAlloc(t) \/ PoolWait(t) \/ Grow(t) \/ Expand(t) \/ ReadFirst(t) \/ ReadEnd(t)
    \/ PoolExchange(t) \/ PoolWake(t) \/ PoolGot(t) \/ Interrupt(t)

Next == \E t \in Threads :
           Step(t) \/ (\E b \in Requests : Alloc(t, b)) \/ (\E h \in BagToSet(held) : Free(t, h))

Spec == Init /\ [][Next]_vars
-----------------------------------------------------------------------------
\* No memory is handed out twice: the states the application has do not overlap,
\* whether they come from a free list, a split chunk or either end of the pool.
NoOverlap ==
    \A g, h \in BagToSet(held) :
       IF g = h THEN held[g] = 1
       ELSE Extent(g[1], g[2]) \cap Extent(h[1], h[2]) = {}

\* The states on free list l, following the links.
OnList(l) ==
    LET last == Cardinality(DOMAIN next)
        reach[n \in 0 .. last] ==
          IF n = 0 THEN {head[l].offset}
          ELSE LET r == reach[n - 1] IN r \cup {next[o] : o \in r \cap DOMAIN next}
    IN  reach[last] \ {EMPTY}

Units(l) == UNION {Extent(o, Size(l)) : o \in OnList(l) \ {GARBAGE}}

\* The free lists are intact: their links lead to states, each of which is on one
\* list, and none of them is in use: a pop whose link was read too early fails.
FreeListsIntact ==
    \A l \in Lists :
       /\ GARBAGE \notin OnList(l)
       /\ \A h \in BagToSet(held) : Extent(h[1], h[2]) \cap Units(l) = {}
       /\ \A m \in Lists \ {l} : Units(l) \cap Units(m) = {}

\* No memory is lost: when nobody is inside the allocator, everything that has
\* been taken from the front of the pool is in use, free, or the rest of the
\* block of a bucket, and everything taken from its back is in use or free,
\* although waiting threads have added to the counters.
NothingLost ==
    (\A t \in Threads : pc[t] = "idle") =>
       /\ Extent(0, state[Front].next) =
             (UNION {Extent(h[1], h[2]) : h \in {g \in BagToSet(held) : g[1] >= 0}})
             \cup (UNION {Units(l) : l \in Buckets})
             \cup (UNION {block[b].next .. block[b].end - 1 : b \in Buckets})
       /\ Extent(-state[Back].next, state[Back].next) =
             (UNION {Extent(h[1], h[2]) : h \in {g \in BagToSet(held) : g[1] < 0}})
             \cup Units(Back)

\* "The pool only grows on both ends" and "Assert that we only ever grow the
\* pool": neither end of the pool is ever above what is mapped.
EndsInsidePool ==
    mutex = NULL => state[Front].end <= bo_size - center /\ state[Back].end <= center

\* The places of a thread that grows the pool, and of one that fetches a block.
Growing == {"grow", "expand", "read", "read_two", "read_center", "read_size", "pool_xchg"}
Fetching == Growing \cup {"pool", "pool_wait", "pool_sleep", "pool_wake", "pool_got", "bucket_xchg"}

\* Nobody sleeps through its wakeup.  For a thread in futex_wait another one has
\* exchanged the word and is about to call futex_wake; or the word is the one the
\* thread compared, and another thread is still on its way to exchange it, one that
\* fetches the bucket's block or one that grows that end of the pool (which never
\* sleeps in a futex itself, so that the threads cannot all wait for each other).
SleeperHasWaker ==
    \A t \in asleep : \E u \in Threads :
       \/ /\ pc[t] = "bucket_sleep" /\ loc[u].want = loc[t].want
          /\ \/ pc[u] = "bucket_wake"
             \/ pc[u] \in Fetching /\ block[loc[t].want].end = loc[t].old.end
       \/ /\ pc[t] = "pool_sleep" /\ loc[u].side = loc[t].side
          /\ \/ pc[u] = "pool_wake"
             \/ pc[u] \in Growing /\ state[loc[t].side].end = loc[t].old.end

\* Threads only differ in their names.
Symmetric == Permutations(Threads)
=============================================================================
