-------------------------- MODULE AnvStatePoolProofs --------------------------
(***************************************************************************)
(* For any number of threads, buckets and sizes: no thread of the anv      *)
(* state pool sleeps through its wakeup, no memory is handed out twice,    *)
(* the free lists stay intact, and no memory is lost.                      *)
(***************************************************************************)
EXTENDS AnvStatePool, FiniteSetTheorems, WellFoundedInduction, TLAPS
-----------------------------------------------------------------------------
(***************************************************************************)
(* The inductive invariant.                                                *)
(***************************************************************************)
Places == {"idle", "pop", "pop_cas", "push", "push_cas", "bucket", "bucket_wait", "bucket_sleep",
           "bucket_wake"} \cup Fetching

Words == [next : Nat, end : Nat]

PoolTyped ==
    /\ state \in [Sides -> Words]
    /\ block \in [Buckets -> Words]
    /\ bo_size \in Nat /\ center \in Int
    /\ pc \in [Threads -> Places]
    /\ DOMAIN loc = Threads
    /\ \A t \in Threads : DOMAIN loc[t] = DOMAIN NoLocals
    /\ asleep = {t \in Threads : pc[t] \in {"bucket_sleep", "pool_sleep"}}

Small(b) == Size(b) < BlockSize

\* What the place of a thread says about its local variables.
LocAt(t) ==
    /\ pc[t] \in {"pop", "pop_cas"} =>
          \/ loc[t].want \in Buckets /\ loc[t].list \in Buckets
          \/ loc[t].want = Back /\ loc[t].list = Back
    /\ pc[t] \in {"bucket", "bucket_wait", "bucket_sleep", "bucket_xchg", "bucket_wake"} => loc[t].want \in Buckets
    /\ pc[t] \in {"bucket_wait", "bucket_sleep", "bucket_xchg", "bucket_wake"} => Small(loc[t].want)
    /\ pc[t] \in Fetching =>
          \/ loc[t].side = Front /\ loc[t].want \in Buckets
          \/ loc[t].side = Back /\ loc[t].want = Back
    /\ pc[t] \in Growing \cup {"pool_wait", "pool_sleep", "bucket_wait", "bucket_sleep", "pool_wake", "pool_got"}
          => loc[t].old \in Words
    /\ pc[t] = "expand" => loc[t].end \in Nat
    /\ pc[t] \in {"read_center", "read_size"} => loc[t].end \in Int
    /\ pc[t] \in {"bucket_xchg", "bucket_wake"} => loc[t].side = Front /\ loc[t].off \in Nat

\* pool_state->next acts as a mutex: whoever moves it over the end of the pool grows
\* the pool, alone, and nobody else gets a block until the new end is there.
GrowerAt(t) ==
    pc[t] \in Growing =>
       LET s == loc[t].side  old == loc[t].old IN
       /\ state[s].end = old.end
       /\ old.next <= old.end /\ old.end < old.next + Want(t)
       /\ state[s].next >= old.next + Want(t)
       /\ pc[t] = "pool_xchg" => loc[t].end \in Nat /\ loc[t].end >= old.next + Want(t)

OneGrower ==
    /\ \A t, u \in Threads :
          pc[t] \in Growing /\ pc[u] \in Growing /\ loc[t].side = loc[u].side => t = u
    /\ \A s \in Sides : state[s].next > state[s].end =>
          \E t \in Threads : pc[t] \in Growing /\ loc[t].side = s

\* The end of the pool that a waiting thread has seen is an old one, or the pool is
\* being grown.
PoolWaiter(t) ==
    pc[t] \in {"pool_wait", "pool_sleep"} =>
       LET w == state[loc[t].side] IN
       /\ loc[t].old.end <= w.end
       /\ loc[t].old.end = w.end => w.next > w.end

\* The same for the block of a bucket.
Fetches(t, b) == pc[t] \in Fetching /\ loc[t].want = b

OneFetcher ==
    /\ \A t, u \in Threads, b \in Buckets : Small(b) /\ Fetches(t, b) /\ Fetches(u, b) => t = u
    /\ \A b \in Buckets : Small(b) /\ block[b].next > block[b].end => \E t \in Threads : Fetches(t, b)
    /\ \A t \in Threads, b \in Buckets : Small(b) /\ Fetches(t, b) => block[b].next > block[b].end

BucketWaiter(t) ==
    pc[t] \in {"bucket_wait", "bucket_sleep"} =>
       LET w == block[loc[t].want] IN
       /\ loc[t].old.end <= w.end
       /\ loc[t].old.end = w.end => w.next > w.end

\* A block is used up without rest.
Whole == \A b \in Buckets : block[b].next <= block[b].end =>
            \E k \in Nat : block[b].end = block[b].next + k * Size(b)

\* The front of the pool is handed out once: everything that was given to a bucket is
\* below what will be given next, so that the end of its block only moves up.
Below(n) ==
    /\ n <= state[Front].next
    /\ \A t \in Threads : pc[t] \in Growing /\ loc[t].side = Front => n <= loc[t].old.next

BlocksBelow == \A b \in Buckets : Below(block[b].end)

Got(t, at) == Small(loc[t].want) => at >= block[loc[t].want].end /\ Below(at + BlockSize)

GotAbove(t) ==
    /\ pc[t] \in {"pool_wake", "pool_got"} /\ loc[t].side = Front => Got(t, loc[t].old.next)
    /\ pc[t] = "bucket_xchg" => Got(t, loc[t].off)

SleepInv ==
    /\ PoolTyped /\ OneGrower /\ OneFetcher /\ Whole /\ BlocksBelow
    /\ \A t \in Threads :
          LocAt(t) /\ GrowerAt(t) /\ PoolWaiter(t) /\ BucketWaiter(t) /\ GotAbove(t)

\* Sizes are positive.
LEMMA SizeFacts ==
    /\ \A b \in Buckets : Size(b) \in Nat /\ Size(b) > 0
    /\ BlockSize \in Nat /\ BlockSize > 0
    /\ \A b \in Buckets : Small(b) => \E k \in Nat : BlockSize = Size(b) + k * Size(b)
<1>1. BlockSize = Size(BlockBucket) /\ BlockBucket \in Buckets
  BY AnvAssumption DEF Size, BlockSize
<1>2. /\ \A b \in Buckets : Size(b) \in Nat /\ Size(b) > 0
      /\ BlockSize \in Nat /\ BlockSize > 0
  BY <1>1, PowersAssumption
<1>3. ASSUME NEW b \in Buckets, Small(b) PROVE \E k \in Nat : BlockSize = Size(b) + k * Size(b)
  <2>1. Size(b) < Size(BlockBucket) /\ b # BlockBucket
    BY <1>1, <1>2, <1>3 DEF Small
  <2>2. b \in Nat /\ BlockBucket \in Nat
    BY <1>1 DEF Buckets
  <2>3. ~(BlockBucket < b)
    <3>1. SUFFICES ASSUME BlockBucket < b PROVE FALSE
      OBVIOUS
    <3>2. PICK k \in 2 .. Size(b) : Size(b) = k * Size(BlockBucket)
      BY <1>1, <3>1, PowersAssumption
    <3>3. k * Size(BlockBucket) >= 2 * Size(BlockBucket)
      BY <1>1, <1>2, <3>2
    <3> QED
      BY <1>1, <1>2, <2>1, <3>2, <3>3
  <2>4. PICK k \in 2 .. Size(BlockBucket) : Size(BlockBucket) = k * Size(b)
    BY <1>1, <2>1, <2>2, <2>3, PowersAssumption
  <2>5. k - 1 \in Nat /\ BlockSize = Size(b) + (k - 1) * Size(b)
    BY <1>1, <1>2, <2>4
  <2> QED
    BY <2>5
<1> QED
  BY <1>2, <1>3

\* How much a thread takes from the pool.
LEMMA WantFacts ==
    ASSUME NEW t \in Threads, loc[t].want \in Buckets \cup {Back}
    PROVE  /\ Want(t) \in Nat /\ Want(t) >= BlockSize /\ Want(t) > 0
           /\ Small(loc[t].want) => Want(t) = BlockSize
  BY SizeFacts, AnvAssumption DEF Want, Small

\* Only thread t moves, and neither the pool nor the blocks change.
LEMMA OwnStep ==
    ASSUME SleepInv, NEW t \in Threads, UNCHANGED <<state, block>>, PoolTyped',
           \A u \in Threads : u # t => pc'[u] = pc[u] /\ loc'[u] = loc[u],
           LocAt(t)', GrowerAt(t)', PoolWaiter(t)', BucketWaiter(t)', GotAbove(t)',
           pc'[t] \in Growing <=> pc[t] \in Growing,
           pc'[t] \in Growing => loc'[t].side = loc[t].side /\ loc'[t].old = loc[t].old,
           \A b \in Buckets : Small(b) => (Fetches(t, b)' <=> Fetches(t, b))
    PROVE  SleepInv'
<1>1. OneGrower'
  BY DEF SleepInv, OneGrower
<1>2. OneFetcher'
  <2>1. \A u \in Threads, b \in Buckets : Small(b) => (Fetches(u, b)' <=> Fetches(u, b))
    BY DEF Fetches
  <2> QED
    BY <2>1 DEF SleepInv, OneFetcher, Small
<1>3. Whole'
  BY DEF SleepInv, Whole
<1>4. \A n : Below(n) => Below(n)'
  BY DEF Below
<1>5. BlocksBelow'
  BY <1>4 DEF SleepInv, BlocksBelow
<1>6. ASSUME NEW u \in Threads, u # t
      PROVE  LocAt(u)' /\ GrowerAt(u)' /\ PoolWaiter(u)' /\ BucketWaiter(u)' /\ GotAbove(u)'
  <2>1. pc'[u] = pc[u] /\ loc'[u] = loc[u]
    BY <1>6
  <2>2. LocAt(u)'
    BY <2>1 DEF SleepInv, LocAt, Small
  <2>3. GrowerAt(u)'
    BY <2>1 DEF SleepInv, GrowerAt, Want
  <2>4. PoolWaiter(u)' /\ BucketWaiter(u)'
    BY <2>1 DEF SleepInv, PoolWaiter, BucketWaiter
  <2>5. GotAbove(u)'
    BY <1>4, <2>1 DEF SleepInv, GotAbove, Got, Small
  <2> QED
    BY <2>2, <2>3, <2>4, <2>5
<1> QED
  BY <1>1, <1>2, <1>3, <1>5, <1>6 DEF SleepInv

\* The places outside the pool.
ListPlaces == {"idle", "pop", "pop_cas", "push", "push_cas"}

\* A step between places where no thread waits and nobody waits for it.
LEMMA ListStep ==
    ASSUME SleepInv, NEW t \in Threads, UNCHANGED <<state, block, bo_size, center, asleep>>,
           pc[t] \in ListPlaces \cup {"bucket"}, NEW p \in ListPlaces \cup {"bucket"},
           pc' = [pc EXCEPT ![t] = p],
           DOMAIN loc' = Threads, DOMAIN loc'[t] = DOMAIN NoLocals,
           \A u \in Threads : u # t => loc'[u] = loc[u],
           LocAt(t)'
    PROVE  SleepInv'
<1>1. \A u \in Threads : u # t => pc'[u] = pc[u]
  BY DEF SleepInv, PoolTyped
<1>2. pc'[t] = p /\ pc' \in [Threads -> Places]
  BY DEF SleepInv, PoolTyped, Places, ListPlaces
<1>3. PoolTyped'
  BY <1>1, <1>2 DEF SleepInv, PoolTyped, ListPlaces
<1>4. pc[t] \notin Fetching /\ p \notin Fetching /\ pc[t] \notin Growing /\ p \notin Growing
  BY DEF ListPlaces, Fetching, Growing
<1>5. GrowerAt(t)' /\ PoolWaiter(t)' /\ BucketWaiter(t)' /\ GotAbove(t)'
  BY <1>2, <1>4 DEF GrowerAt, PoolWaiter, BucketWaiter, GotAbove, ListPlaces
<1> QED
  BY <1>1, <1>2, <1>3, <1>4, <1>5, OwnStep DEF Fetches

\* The locals of a thread after some of them have been assigned.
LEMMA LocFacts ==
    ASSUME PoolTyped, NEW t \in Threads
    PROVE  /\ DOMAIN loc = Threads /\ DOMAIN loc[t] = DOMAIN NoLocals
           /\ DOMAIN NoLocals = {"want", "list", "cur", "link", "off", "side", "old", "end", "push"}
  BY DEF PoolTyped, NoLocals

\* The free lists, and the calls that begin there.
LEMMA ListSteps ==
    ASSUME SleepInv, NEW t \in Threads,
           \/ Push(t) \/ PushCas(t) \/ (\E b \in Requests : Alloc(t, b))
           \/ (\E h \in BagToSet(held) : Free(t, h))
    PROVE  SleepInv'
<1> USE AnvAssumption, LocFacts DEF SleepInv
<1>1. ASSUME NEW b \in Requests, Alloc(t, b) PROVE SleepInv'
  <2>1. b \in Buckets \/ b = Back
    BY DEF Lists
  <2>2. loc'[t].want = b /\ loc'[t].list = b /\ pc'[t] = "pop"
    BY <1>1 DEF Alloc, Goto, PoolTyped
  <2>3. LocAt(t)'
    BY <2>1, <2>2 DEF LocAt, Fetching, Growing
  <2> HIDE DEF SleepInv
  <2>4. DOMAIN loc' = Threads /\ DOMAIN loc'[t] = DOMAIN NoLocals
    BY <1>1 DEF Alloc, SleepInv
  <2>5. \A u \in Threads : u # t => loc'[u] = loc[u]
    BY <1>1 DEF Alloc, SleepInv
  <2> QED
    BY <1>1, <2>3, <2>4, <2>5, ListStep DEF Alloc, Goto, pool, ListPlaces
<1>2. CASE Push(t) \/ PushCas(t) \/ \E h \in BagToSet(held) : Free(t, h)
  <2>1. /\ pc[t] \in ListPlaces /\ UNCHANGED <<state, block, bo_size, center, asleep>>
        /\ \E p \in {"push", "push_cas", "idle"} : pc' = [pc EXCEPT ![t] = p]
    <3>1. CASE Push(t)
      BY <3>1 DEF Push, Goto, pool, ListPlaces
    <3>2. CASE PushCas(t)
      <4>1. pc[t] = "push_cas" /\ pc = [pc EXCEPT ![t] = "push_cas"]
        BY <3>2 DEF PushCas, PoolTyped
      <4> QED
        BY <3>2, <4>1 DEF PushCas, Goto, pool, ListPlaces
    <3>3. CASE \E h \in BagToSet(held) : Free(t, h)
      BY <3>3 DEF Free, Goto, pool, ListPlaces
    <3> QED
      BY <1>2, <3>1, <3>2, <3>3
  <2>2. /\ DOMAIN loc' = Threads /\ DOMAIN loc'[t] = DOMAIN NoLocals
        /\ \A u \in Threads : u # t => loc'[u] = loc[u]
    BY <1>2 DEF Push, PushCas, Free
  <2>3. LocAt(t)'
    BY <2>1 DEF LocAt, PoolTyped, Fetching, Growing
  <2> HIDE DEF SleepInv
  <2> QED
    BY <2>1, <2>2, <2>3, ListStep DEF ListPlaces
<1> QED
  BY <1>1, <1>2

\* The states that come from a free list, and the way to the bucket.
LEMMA PopSteps ==
    ASSUME SleepInv, NEW t \in Threads,
           (Pop(t) /\ (loc[t].list # Back \/ loc[t].cur.offset # EMPTY)) \/ PopCas(t)
    PROVE  SleepInv'
<1> USE AnvAssumption
<1>0. PoolTyped /\ LocAt(t)
  BY DEF SleepInv
<1>1. /\ DOMAIN loc' = Threads /\ DOMAIN loc'[t] = DOMAIN NoLocals
      /\ \A u \in Threads : u # t => loc'[u] = loc[u]
  BY <1>0, LocFacts DEF Pop, PopCas, Return, Goto
<1>2. CASE Pop(t) /\ (loc[t].list # Back \/ loc[t].cur.offset # EMPTY)
  <2>1. pc[t] = "pop" /\ UNCHANGED <<state, block, bo_size, center, asleep>>
    BY <1>2 DEF Pop, pool
  <2>2. \/ loc[t].want \in Buckets /\ loc[t].list \in Buckets
        \/ loc[t].want = Back /\ loc[t].list = Back
    BY <1>0, <2>1 DEF LocAt
  <2>3. CASE loc[t].cur.offset # EMPTY
    <3>1. pc' = [pc EXCEPT ![t] = "pop_cas"]
      BY <1>2, <2>3 DEF Pop, Goto
    <3>2. loc'[t].want = loc[t].want /\ loc'[t].list = loc[t].list
      BY <1>0, <1>2, <2>3, LocFacts, Zenon DEF Pop
    <3>3. LocAt(t)'
      BY <1>0, <2>2, <3>1, <3>2 DEF LocAt, PoolTyped, Fetching, Growing
    <3> QED
      BY <1>1, <2>1, <3>1, <3>3, ListStep DEF ListPlaces
  <2>4. CASE loc[t].cur.offset = EMPTY /\ loc[t].list # MaxBucket
    <3>1. pc' = [pc EXCEPT ![t] = "pop"]
      BY <1>0, <1>2, <2>1, <2>4 DEF Pop, PoolTyped
    <3>2. loc[t].list \in Buckets \ {MaxBucket}
      BY <1>2, <2>2, <2>4
    <3>3. loc'[t].want = loc[t].want /\ loc'[t].list = loc[t].list + 1
      BY <1>0, <1>2, <2>4, <3>2, LocFacts, SMTT(30) DEF Pop
    <3>4. loc[t].list + 1 \in Buckets /\ loc[t].want \in Buckets
      BY <2>2, <3>2 DEF Buckets
    <3>5. LocAt(t)'
      BY <1>0, <3>1, <3>3, <3>4 DEF LocAt, PoolTyped, Fetching, Growing
    <3> QED
      BY <1>1, <2>1, <3>1, <3>5, ListStep DEF ListPlaces
  <2>5. CASE loc[t].cur.offset = EMPTY /\ loc[t].list = MaxBucket
    <3>1. pc' = [pc EXCEPT ![t] = "bucket"] /\ loc' = loc /\ loc[t].want \in Buckets
      BY <1>2, <2>2, <2>5 DEF Pop, Goto
    <3>2. LocAt(t)'
      BY <1>0, <3>1 DEF LocAt, PoolTyped, Fetching, Growing
    <3> QED
      BY <1>1, <2>1, <3>1, <3>2, ListStep DEF ListPlaces
  <2> QED
    BY <2>3, <2>4, <2>5
<1>3. CASE PopCas(t)
  <2>1. pc[t] = "pop_cas" /\ UNCHANGED <<state, block, bo_size, center, asleep>>
    BY <1>3 DEF PopCas, pool
  <2>2. CASE head[loc[t].list] # loc[t].cur
    <3>1. pc' = [pc EXCEPT ![t] = "pop"]
      BY <1>3, <2>2 DEF PopCas, Goto
    <3>2. loc'[t].want = loc[t].want /\ loc'[t].list = loc[t].list
      BY <1>0, <1>3, <2>2, LocFacts, Zenon DEF PopCas
    <3>3. LocAt(t)'
      BY <1>0, <2>1, <3>1, <3>2 DEF LocAt, PoolTyped, Fetching, Growing
    <3> QED
      BY <1>1, <2>1, <3>1, <3>3, ListStep DEF ListPlaces
  <2>3. CASE head[loc[t].list] = loc[t].cur
    <3>1. PICK p \in {"idle", "push"} : pc' = [pc EXCEPT ![t] = p]
      BY <1>3, <2>3 DEF PopCas, Return, Goto
    <3>2. LocAt(t)'
      BY <1>0, <3>1 DEF LocAt, PoolTyped, Fetching, Growing
    <3> QED
      BY <1>1, <2>1, <3>1, <3>2, ListStep DEF ListPlaces
  <2> QED
    BY <2>2, <2>3
<1> QED
  BY <1>2, <1>3

\* The back of the pool is next.
LEMMA PopBackStep ==
    ASSUME SleepInv, NEW t \in Threads, Pop(t), loc[t].list = Back, loc[t].cur.offset = EMPTY
    PROVE  SleepInv'
<1> USE AnvAssumption
<1>0. PoolTyped /\ LocAt(t) /\ pc[t] = "pop"
  BY DEF SleepInv, Pop
<1>1. loc[t].want = Back
  BY <1>0 DEF LocAt
<1>2. /\ DOMAIN loc' = Threads /\ DOMAIN loc'[t] = DOMAIN NoLocals
      /\ \A u \in Threads : u # t => loc'[u] = loc[u]
  BY <1>0, LocFacts DEF Pop
<1>3. loc[t].list \notin Buckets /\ loc[t].list # MaxBucket
  BY DEF Buckets
<1>4. pc' = [pc EXCEPT ![t] = "pool"] /\ UNCHANGED <<state, block, bo_size, center, asleep>>
  BY <1>3 DEF Pop, Goto, pool
<1>5. loc'[t].want = Back /\ loc'[t].side = Back
  BY <1>0, <1>1, <1>3, LocFacts, Zenon DEF Pop
<1>6. pc'[t] = "pool" /\ \A u \in Threads : u # t => pc'[u] = pc[u]
  BY <1>0, <1>4 DEF PoolTyped
<1>7. PoolTyped'
  BY <1>0, <1>2, <1>4, <1>6 DEF PoolTyped, Places, Fetching
<1>8. LocAt(t)'
  BY <1>5, <1>6 DEF LocAt, Fetching, Growing
<1>9. GrowerAt(t)' /\ PoolWaiter(t)' /\ BucketWaiter(t)' /\ GotAbove(t)'
  BY <1>6 DEF GrowerAt, PoolWaiter, BucketWaiter, GotAbove, Growing
<1>10. \A b \in Buckets : ~Fetches(t, b)' /\ ~Fetches(t, b)
  BY <1>0, <1>5 DEF Fetches, Fetching, Growing
<1>11. pc[t] \notin Growing /\ pc'[t] \notin Growing
  BY <1>0, <1>6 DEF Growing
<1> QED
  BY <1>2, <1>4, <1>6, <1>7, <1>8, <1>9, <1>10, <1>11, OwnStep

\* Only thread t moves; the end of no block changes, nor does the pool.
LEMMA NextStep ==
    ASSUME SleepInv, NEW t \in Threads, UNCHANGED state, PoolTyped', OneFetcher', Whole',
           \A b \in Buckets : block'[b].end = block[b].end /\ block'[b].next >= block[b].next,
           \A u \in Threads : u # t => pc'[u] = pc[u] /\ loc'[u] = loc[u],
           LocAt(t)', BucketWaiter(t)',
           pc[t] \notin Growing, pc'[t] \notin Growing \cup {"pool_wait", "pool_sleep", "pool_wake", "pool_got", "bucket_xchg"}
    PROVE  SleepInv'
<1>0. PoolTyped
  BY DEF SleepInv
<1>1. OneGrower'
  BY DEF SleepInv, OneGrower
<1>2. \A n : Below(n) => Below(n)'
  BY DEF Below
<1>3. BlocksBelow'
  BY <1>2 DEF SleepInv, BlocksBelow
<1>4. ASSUME NEW u \in Threads, u # t
      PROVE  LocAt(u)' /\ GrowerAt(u)' /\ PoolWaiter(u)' /\ BucketWaiter(u)' /\ GotAbove(u)'
  <2>1. pc'[u] = pc[u] /\ loc'[u] = loc[u]
    BY <1>4
  <2>2. LocAt(u)'
    BY <2>1 DEF SleepInv, LocAt, Small
  <2>3. GrowerAt(u)'
    BY <2>1 DEF SleepInv, GrowerAt, Want
  <2>4. PoolWaiter(u)'
    BY <2>1 DEF SleepInv, PoolWaiter
  <2>5. BucketWaiter(u)'
    <3>1. CASE pc[u] \in {"bucket_wait", "bucket_sleep"}
      <4> DEFINE b == loc[u].want
      <4>1. b \in Buckets /\ loc[u].old \in Words
        BY <3>1 DEF SleepInv, LocAt
      <4>2. block[b] \in Words /\ block'[b] \in Words
        BY <1>0, <4>1 DEF PoolTyped
      <4>3. block'[b].end = block[b].end /\ block'[b].next >= block[b].next
        BY <4>1
      <4>4. BucketWaiter(u)
        BY DEF SleepInv
      <4> HIDE DEF b
      <4> QED
        BY <2>1, <3>1, <4>1, <4>2, <4>3, <4>4 DEF BucketWaiter, Words, b
    <3>2. CASE pc[u] \notin {"bucket_wait", "bucket_sleep"}
      BY <2>1, <3>2 DEF BucketWaiter
    <3> QED
      BY <3>1, <3>2
  <2>6. GotAbove(u)'
    <3>1. GotAbove(u) /\ LocAt(u)
      BY DEF SleepInv
    <3>2. CASE pc[u] \in {"pool_wake", "pool_got", "bucket_xchg"} /\ loc[u].side = Front
      <4>1. loc[u].want \in Buckets
        BY <3>1, <3>2, AnvAssumption DEF LocAt, Fetching
      <4>2. \A at : Got(u, at) => Got(u, at)'
        BY <1>2, <2>1, <4>1 DEF Got, Small
      <4> QED
        BY <2>1, <3>1, <4>2 DEF GotAbove
    <3>3. CASE ~(pc[u] \in {"pool_wake", "pool_got", "bucket_xchg"} /\ loc[u].side = Front)
      BY <2>1, <3>1, <3>3 DEF GotAbove, LocAt
    <3> QED
      BY <3>2, <3>3
  <2> QED
    BY <2>2, <2>3, <2>4, <2>5, <2>6
<1>5. GrowerAt(t)' /\ PoolWaiter(t)' /\ GotAbove(t)'
  BY DEF GrowerAt, PoolWaiter, GotAbove
<1> QED
  BY <1>1, <1>3, <1>4, <1>5 DEF SleepInv

\* The fetch-and-add on the block of a bucket.
LEMMA BucketAllocStep ==
    ASSUME SleepInv, NEW t \in Threads, BucketAlloc(t)
    PROVE  SleepInv'
<1>0. PoolTyped /\ LocAt(t) /\ pc[t] = "bucket" /\ UNCHANGED <<state, bo_size, center, asleep>>
  BY DEF SleepInv, BucketAlloc, pool
<1>a. PICK b \in Buckets : b = loc[t].want
  BY <1>0 DEF LocAt
<1>b. PICK old \in Words : old = block[b]
  BY <1>0 DEF PoolTyped
<1> USE <1>a, <1>b
<1>1. b \in Buckets /\ old \in Words /\ Size(b) \in Nat /\ Size(b) > 0 /\ b # Back
  BY <1>0, SizeFacts, AnvAssumption DEF LocAt, PoolTyped
<1>2. /\ DOMAIN loc' = Threads /\ DOMAIN loc'[t] = DOMAIN NoLocals
      /\ \A u \in Threads : u # t => loc'[u] = loc[u]
  BY <1>0, LocFacts DEF BucketAlloc, Return, Goto
<1>3. pc[t] \notin Fetching /\ pc[t] \notin Growing
  BY <1>0 DEF Fetching, Growing
<1>4. CASE ~Small(b)
  <2>1. pc' = [pc EXCEPT ![t] = "pool"] /\ UNCHANGED block /\ ~(Size(b) < BlockSize)
    BY <1>1, <1>4, SizeFacts DEF BucketAlloc, Goto, Small
  <2>2. loc'[t].want = b /\ loc'[t].side = Front
    BY <1>0, <2>1, LocFacts, Zenon DEF BucketAlloc
  <2>3. pc'[t] = "pool" /\ \A u \in Threads : u # t => pc'[u] = pc[u]
    BY <1>0, <2>1 DEF PoolTyped
  <2>4. PoolTyped'
    BY <1>0, <1>2, <2>1, <2>3 DEF PoolTyped, Places, Fetching
  <2>5. LocAt(t)'
    BY <1>1, <2>2, <2>3 DEF LocAt, Fetching, Growing
  <2>6. GrowerAt(t)' /\ PoolWaiter(t)' /\ BucketWaiter(t)' /\ GotAbove(t)'
    BY <2>3 DEF GrowerAt, PoolWaiter, BucketWaiter, GotAbove, Growing
  <2>7. \A c \in Buckets : Small(c) => ~Fetches(t, c)' /\ ~Fetches(t, c)
    BY <1>3, <1>4, <2>2 DEF Fetches
  <2> QED
    BY <1>0, <1>2, <1>3, <2>1, <2>3, <2>4, <2>5, <2>6, <2>7, OwnStep DEF Growing
<1>5. CASE Small(b)
  <2>1. /\ block' = [block EXCEPT ![b].next = @ + Size(b)] /\ Size(b) < BlockSize
        /\ ~(Size(b) >= BlockSize)
    BY <1>1, <1>5, SizeFacts DEF BucketAlloc, Small
  <2>2. /\ \A c \in Buckets : c # b => block'[c] = block[c]
        /\ block'[b] = [next |-> old.next + Size(b), end |-> old.end]
        /\ block' \in [Buckets -> Words]
    BY <1>0, <1>1, <2>1 DEF PoolTyped, Words
  <2>3. \A c \in Buckets : block'[c].end = block[c].end /\ block'[c].next >= block[c].next
    <3>1. \A c \in Buckets : block[c].next \in Nat
      BY <1>0 DEF PoolTyped, Words
    <3> QED
      BY <1>1, <2>2, <3>1
  <2>4. old.next \in Nat /\ old.end \in Nat
    BY <1>1 DEF Words
  <2>5. Whole /\ OneFetcher
    BY DEF SleepInv
  <2>6. Whole'
    <3>1. ASSUME old.next + Size(b) <= old.end
          PROVE  \E k \in Nat : old.end = (old.next + Size(b)) + k * Size(b)
      <4>1. PICK k \in Nat : old.end = old.next + k * Size(b)
        BY <1>1, <2>4, <2>5, <3>1 DEF Whole
      <4>2. k # 0
        BY <1>1, <2>4, <3>1, <4>1
      <4>3. k - 1 \in Nat /\ old.end = (old.next + Size(b)) + (k - 1) * Size(b)
        BY <1>1, <2>4, <4>1, <4>2
      <4> QED
        BY <4>3
    <3>2. ASSUME NEW c \in Buckets, (block[c].next <= block[c].end)'
          PROVE  \E k \in Nat : (block[c].end = block[c].next + k * Size(c))'
      <4>1. CASE c = b
        BY <2>2, <3>1, <3>2, <4>1
      <4>2. CASE c # b
        BY <2>2, <2>5, <3>2, <4>2 DEF Whole
      <4> QED
        BY <4>1, <4>2
    <3> QED
      BY <3>2 DEF Whole
  <2>7. CASE old.next < old.end
    <3>1. pc' = [pc EXCEPT ![t] = "idle"]
      <4>1. ~(old.next >= old.end)
        BY <2>4, <2>7
      <4> QED
        BY <2>1, <4>1 DEF BucketAlloc, Return, Goto
    <3>2. pc'[t] = "idle" /\ \A u \in Threads : u # t => pc'[u] = pc[u]
      BY <1>0, <3>1 DEF PoolTyped
    <3>3. PoolTyped'
      BY <1>0, <1>2, <2>2, <3>1, <3>2 DEF PoolTyped, Places
    <3>4. LocAt(t)' /\ BucketWaiter(t)'
      BY <3>2 DEF LocAt, BucketWaiter, Fetching, Growing
    <3>5. \A u \in Threads, c \in Buckets : Fetches(u, c)' <=> Fetches(u, c)
      BY <1>2, <1>3, <3>2 DEF Fetches, Fetching, Growing
    <3>6. old.next + Size(b) <= old.end
      <4>1. PICK k \in Nat : old.end = old.next + k * Size(b)
        BY <1>1, <2>4, <2>5, <2>7 DEF Whole
      <4>2. k >= 1
        BY <1>1, <2>4, <2>7, <4>1
      <4> QED
        BY <1>1, <2>4, <4>1, <4>2
    <3>7. OneFetcher'
      <4>1. \A u \in Threads : ~Fetches(u, b)
        BY <1>1, <1>5, <2>4, <2>5, <2>7 DEF OneFetcher
      <4>2. ~(block'[b].next > block'[b].end)
        BY <1>1, <2>2, <2>4, <3>6
      <4> QED
        BY <2>2, <2>5, <3>5, <4>1, <4>2 DEF OneFetcher, Small
    <3>8. pc'[t] \notin Growing \cup {"pool_wait", "pool_sleep", "pool_wake", "pool_got", "bucket_xchg"}
      BY <3>2 DEF Growing
    <3> QED
      BY <1>0, <1>2, <1>3, <2>3, <2>6, <3>2, <3>3, <3>4, <3>7, <3>8, NextStep
  <2>8. CASE old.next >= old.end
    <3> DEFINE p == IF old.next = old.end THEN "pool" ELSE "bucket_wait"
    <3>1. pc' = [pc EXCEPT ![t] = p] /\ loc' = [loc EXCEPT ![t].side = Front, ![t].old = old]
      <4>1. ~(old.next < old.end)
        BY <2>4, <2>8
      <4> QED
        BY <2>1, <4>1 DEF BucketAlloc, Goto
    <3>2. loc'[t].want = b /\ loc'[t].side = Front /\ loc'[t].old = old
      BY <1>0, <3>1, LocFacts, Zenon
    <3>3. pc'[t] = p /\ \A u \in Threads : u # t => pc'[u] = pc[u]
      BY <1>0, <3>1 DEF PoolTyped
    <3>4. PoolTyped'
      BY <1>0, <1>2, <2>2, <3>1, <3>3 DEF PoolTyped, Places, Fetching
    <3>5. LocAt(t)'
      BY <1>1, <1>5, <3>2, <3>3 DEF LocAt, Fetching, Growing, Small
    <3>6. block'[b].next > block'[b].end /\ block'[b].end = old.end
      BY <1>1, <2>2, <2>4, <2>8
    <3>7. BucketWaiter(t)'
      BY <2>4, <3>2, <3>3, <3>6 DEF BucketWaiter
    <3>8. pc'[t] \notin Growing \cup {"pool_wait", "pool_sleep", "pool_wake", "pool_got", "bucket_xchg"}
      BY <3>3 DEF Growing
    <3>9. /\ \A u \in Threads, c \in Buckets : u # t => (Fetches(u, c)' <=> Fetches(u, c))
          /\ \A c \in Buckets : ~Fetches(t, c)
          /\ \A c \in Buckets : Fetches(t, c)' => c = b
      BY <1>2, <1>3, <3>2, <3>3 DEF Fetches
    <3>10. old.next = old.end => Fetches(t, b)' /\ \A u \in Threads : ~Fetches(u, b)
      BY <1>1, <1>5, <2>4, <2>5, <3>2, <3>3 DEF OneFetcher, Fetches, Fetching
    <3>11. old.next # old.end => ~Fetches(t, b)' /\ old.next > old.end
      BY <2>4, <2>8, <3>3 DEF Fetches, Fetching, Growing
    <3>12. OneFetcher'
      <4>1. \A u, v \in Threads, c \in Buckets : Small(c) /\ Fetches(u, c)' /\ Fetches(v, c)' => u = v
        BY <2>5, <3>9, <3>10, <3>11 DEF OneFetcher
      <4>2. \A c \in Buckets : Small(c) /\ block'[c].next > block'[c].end => \E u \in Threads : Fetches(u, c)'
        <5>1. ASSUME NEW c \in Buckets, c # b, Small(c), block'[c].next > block'[c].end
              PROVE  \E u \in Threads : Fetches(u, c)'
          BY <2>2, <2>5, <3>9, <5>1 DEF OneFetcher
        <5>2. \E u \in Threads : Fetches(u, b)'
          <6>1. CASE old.next = old.end
            BY <3>10, <6>1
          <6>2. CASE old.next # old.end
            <7>1. PICK u \in Threads : Fetches(u, b)
              BY <1>1, <1>5, <2>5, <3>11, <6>2 DEF OneFetcher
            <7> QED
              BY <1>1, <3>9, <7>1
          <6> QED
            BY <6>1, <6>2
        <5> QED
          BY <5>1, <5>2
      <4>3. \A u \in Threads, c \in Buckets : Small(c) /\ Fetches(u, c)' => block'[c].next > block'[c].end
        BY <2>2, <2>5, <3>6, <3>9 DEF OneFetcher
      <4> QED
        BY <4>1, <4>2, <4>3 DEF OneFetcher, Small
    <3> QED
      BY <1>0, <1>2, <1>3, <2>3, <2>6, <3>3, <3>4, <3>5, <3>7, <3>8, <3>12, NextStep
  <2> QED
    BY <2>4, <2>7, <2>8
<1> QED
  BY <1>4, <1>5

\* The test of futex_wait on the end of a block.
LEMMA BucketWaitStep ==
    ASSUME SleepInv, NEW t \in Threads, BucketWait(t)
    PROVE  SleepInv'
<1>0. PoolTyped /\ LocAt(t) /\ BucketWaiter(t) /\ pc[t] = "bucket_wait"
  BY DEF SleepInv, BucketWait
<1>1. UNCHANGED <<state, block, bo_size, center, loc>>
  BY DEF BucketWait, pool
<1>2. PICK p \in {"bucket_sleep", "bucket"} :
         /\ pc' = [pc EXCEPT ![t] = p]
         /\ p = "bucket_sleep" => block[loc[t].want].end = loc[t].old.end /\ asleep' = asleep \cup {t}
         /\ p = "bucket" => asleep' = asleep
  BY DEF BucketWait, Goto
<1>3. pc'[t] = p /\ \A u \in Threads : u # t => pc'[u] = pc[u]
  BY <1>0, <1>2 DEF PoolTyped
<1>4. PoolTyped'
  <2>1. pc' \in [Threads -> Places]
    BY <1>0, <1>2 DEF PoolTyped, Places
  <2>2. asleep' = {u \in Threads : pc'[u] \in {"bucket_sleep", "pool_sleep"}}
    BY <1>0, <1>2, <1>3 DEF PoolTyped
  <2> QED
    BY <1>0, <1>1, <2>1, <2>2 DEF PoolTyped
<1>5. LocAt(t)'
  BY <1>0, <1>1, <1>3 DEF LocAt, Fetching, Growing, Small
<1>6. BucketWaiter(t)'
  BY <1>0, <1>1, <1>2, <1>3 DEF BucketWaiter
<1>7. pc[t] \notin Fetching /\ p \notin Fetching /\ pc[t] \notin Growing /\ p \notin Growing
  BY <1>0 DEF Fetching, Growing
<1>8. GrowerAt(t)' /\ PoolWaiter(t)' /\ GotAbove(t)'
  BY <1>3, <1>7 DEF GrowerAt, PoolWaiter, GotAbove, Fetching
<1> QED
  BY <1>1, <1>3, <1>4, <1>5, <1>6, <1>7, <1>8, OwnStep DEF Fetches

\* The new block of a bucket: its fetcher was the only one, and those that wait on the
\* old end will see a new one.
LEMMA BucketExchangeStep ==
    ASSUME SleepInv, NEW t \in Threads, BucketExchange(t)
    PROVE  SleepInv'
<1>0. /\ PoolTyped /\ LocAt(t) /\ GotAbove(t) /\ OneFetcher /\ Whole /\ OneGrower /\ BlocksBelow
      /\ pc[t] = "bucket_xchg"
  BY DEF SleepInv, BucketExchange
<1>a. PICK b \in Buckets : b = loc[t].want
  BY <1>0 DEF LocAt
<1>b. PICK off \in Nat : off = loc[t].off
  BY <1>0 DEF LocAt
<1> USE <1>a, <1>b
<1>1. Small(b) /\ Size(b) \in Nat /\ Size(b) > 0 /\ BlockSize \in Nat /\ Size(b) < BlockSize
  BY <1>0, SizeFacts DEF LocAt, Small
<1>2. /\ UNCHANGED <<state, bo_size, center, loc, asleep>>
      /\ block' = [block EXCEPT ![b] = [next |-> off + Size(b), end |-> off + BlockSize]]
      /\ pc' = [pc EXCEPT ![t] = "bucket_wake"]
  BY DEF BucketExchange, pool, Goto
<1>3. \A u \in Threads : loc'[u] = loc[u]
  BY <1>2
<1>4. /\ block'[b] = [next |-> off + Size(b), end |-> off + BlockSize]
      /\ \A c \in Buckets : c # b => block'[c] = block[c]
      /\ block' \in [Buckets -> Words]
  BY <1>0, <1>1, <1>2 DEF PoolTyped, Words
<1>5. pc'[t] = "bucket_wake" /\ \A u \in Threads : u # t => pc'[u] = pc[u]
  BY <1>0, <1>2 DEF PoolTyped
<1>6. PoolTyped'
  <2>1. pc' \in [Threads -> Places]
    BY <1>0, <1>2 DEF PoolTyped, Places
  <2>2. asleep' = {u \in Threads : pc'[u] \in {"bucket_sleep", "pool_sleep"}}
    BY <1>0, <1>2, <1>5 DEF PoolTyped
  <2> QED
    BY <1>0, <1>2, <1>3, <1>4, <2>1, <2>2 DEF PoolTyped
<1>7. \A u \in Threads : u # t => /\ pc'[u] \in Growing <=> pc[u] \in Growing
                                  /\ pc'[u] \in Fetching <=> pc[u] \in Fetching
  BY <1>5
<1>8. /\ pc[t] \notin Growing /\ pc'[t] \notin Growing /\ pc'[t] \notin Fetching /\ pc[t] \in Fetching
  BY <1>0, <1>5 DEF Growing, Fetching
<1>9. OneGrower'
  BY <1>0, <1>2, <1>3, <1>7, <1>8 DEF OneGrower
<1>10. /\ \A u \in Threads, c \in Buckets : u # t => (Fetches(u, c)' <=> Fetches(u, c))
       /\ \A c \in Buckets : ~Fetches(t, c)' /\ (Fetches(t, c) => c = b) /\ Fetches(t, b)
  BY <1>3, <1>7, <1>8 DEF Fetches
<1>11. \A u \in Threads : ~Fetches(u, b)'
  BY <1>0, <1>1, <1>10 DEF OneFetcher
<1>12. OneFetcher'
  <2>1. ~(block'[b].next > block'[b].end)
    BY <1>1, <1>4
  <2>2. \A u, v \in Threads, c \in Buckets : Small(c) /\ Fetches(u, c)' /\ Fetches(v, c)' => u = v
    BY <1>0, <1>10 DEF OneFetcher
  <2>3. \A c \in Buckets : Small(c) /\ block'[c].next > block'[c].end => \E u \in Threads : Fetches(u, c)'
    BY <1>0, <1>4, <1>10, <2>1 DEF OneFetcher
  <2>4. \A u \in Threads, c \in Buckets : Small(c) /\ Fetches(u, c)' => block'[c].next > block'[c].end
    BY <1>0, <1>4, <1>10, <1>11 DEF OneFetcher
  <2> QED
    BY <2>2, <2>3, <2>4 DEF OneFetcher, Small
<1>13. Whole'
  <2>1. PICK k \in Nat : BlockSize = Size(b) + k * Size(b)
    BY <1>1, SizeFacts
  <2>2. block'[b].end = block'[b].next + k * Size(b)
    BY <1>1, <1>4, <2>1
  <2> QED
    BY <1>0, <1>4, <2>2 DEF Whole
<1>14. \A n : Below(n) => Below(n)'
  BY <1>2, <1>3, <1>7, <1>8 DEF Below
<1>15. off >= block[b].end /\ Below(off + BlockSize)
  BY <1>0, <1>1 DEF GotAbove, Got
<1>16. BlocksBelow'
  BY <1>0, <1>4, <1>14, <1>15 DEF BlocksBelow
<1>17. ASSUME NEW u \in Threads
       PROVE  LocAt(u)' /\ GrowerAt(u)' /\ PoolWaiter(u)' /\ BucketWaiter(u)' /\ GotAbove(u)'
  <2>0. LocAt(u) /\ GrowerAt(u) /\ PoolWaiter(u) /\ BucketWaiter(u) /\ GotAbove(u)
    BY DEF SleepInv
  <2>1. CASE u = t
    <3>1. LocAt(t)'
      BY <1>0, <1>3, <1>5, <1>8 DEF LocAt, Small, Growing
    <3> QED
      BY <1>5, <1>8, <2>1, <3>1 DEF GrowerAt, PoolWaiter, BucketWaiter, GotAbove
  <2>3. CASE u # t
    <3>0. pc'[u] = pc[u]
      BY <1>5, <2>3
    <3>1. loc'[u] = loc[u]
      BY <1>3
    <3>2. LocAt(u)'
      BY <2>0, <2>3, <3>0, <3>1 DEF LocAt, Small
    <3>3. GrowerAt(u)' /\ PoolWaiter(u)'
      BY <1>2, <2>0, <2>3, <3>0, <3>1 DEF GrowerAt, PoolWaiter, Want
    <3>4. BucketWaiter(u)'
      <4>1. CASE pc[u] \in {"bucket_wait", "bucket_sleep"} /\ loc[u].want = b
        <5>1. loc[u].old.end \in Nat /\ block[b].end \in Nat
          BY <1>0, <2>0, <4>1 DEF LocAt, PoolTyped, Words
        <5>2. loc[u].old.end <= block[b].end
          BY <2>0, <4>1 DEF BucketWaiter
        <5>3. block'[b].end \in Nat /\ loc[u].old.end < block'[b].end
          BY <1>1, <1>4, <1>15, <5>1, <5>2
        <5> QED
          BY <2>3, <3>0, <3>1, <4>1, <5>1, <5>3 DEF BucketWaiter
      <4>2. CASE pc[u] \in {"bucket_wait", "bucket_sleep"} /\ loc[u].want # b
        BY <1>4, <2>0, <2>3, <3>0, <3>1, <4>2 DEF BucketWaiter, LocAt
      <4>3. CASE pc[u] \notin {"bucket_wait", "bucket_sleep"}
        BY <2>3, <3>0, <4>3 DEF BucketWaiter
      <4> QED
        BY <4>1, <4>2, <4>3
    <3>5. GotAbove(u)'
      <4>1. CASE pc[u] \in {"pool_wake", "pool_got", "bucket_xchg"} /\ loc[u].side = Front
        <5>1. loc[u].want \in Buckets /\ pc[u] \in Fetching
          BY <2>0, <4>1, AnvAssumption DEF LocAt, Fetching
        <5>2. loc[u].want # b
          BY <1>11, <1>7, <2>3, <3>0, <3>1, <5>1 DEF Fetches
        <5>3. \A at : Got(u, at) => Got(u, at)'
          BY <1>4, <1>14, <3>1, <5>1, <5>2 DEF Got, Small
        <5> QED
          BY <2>0, <2>3, <3>0, <3>1, <5>3 DEF GotAbove
      <4>2. CASE ~(pc[u] \in {"pool_wake", "pool_got", "bucket_xchg"} /\ loc[u].side = Front)
        BY <2>0, <2>3, <3>0, <3>1, <4>2 DEF GotAbove, LocAt
      <4> QED
        BY <4>1, <4>2
    <3> QED
      BY <3>2, <3>3, <3>4, <3>5
  <2> QED
    BY <2>1, <2>3
<1> QED
  BY <1>6, <1>9, <1>12, <1>13, <1>16, <1>17 DEF SleepInv

\* Only thread t moves, and the counter of one end of the pool goes up.
LEMMA AddStep ==
    ASSUME SleepInv, NEW t \in Threads, UNCHANGED block, PoolTyped', OneGrower',
           \A s \in Sides : state'[s].end = state[s].end /\ state'[s].next >= state[s].next,
           \A u \in Threads : u # t => pc'[u] = pc[u] /\ loc'[u] = loc[u],
           LocAt(t)', GrowerAt(t)', PoolWaiter(t)', BucketWaiter(t)', GotAbove(t)',
           pc[t] \notin Growing,
           pc'[t] \in Growing /\ loc'[t].side = Front => loc'[t].old.next = state[Front].next,
           \A b \in Buckets : Small(b) => (Fetches(t, b)' <=> Fetches(t, b))
    PROVE  SleepInv'
<1>0. PoolTyped /\ Front \in Sides
  BY DEF SleepInv, Sides
<1>1. \A s \in Sides : state[s] \in Words /\ state'[s] \in Words
  BY <1>0 DEF PoolTyped
<1>2. OneFetcher'
  <2>1. \A u \in Threads, b \in Buckets : Small(b) => (Fetches(u, b)' <=> Fetches(u, b))
    BY DEF Fetches
  <2> QED
    BY <2>1 DEF SleepInv, OneFetcher, Small
<1>3. Whole'
  BY DEF SleepInv, Whole
<1>4. \A n \in Nat : Below(n) => Below(n)'
  BY <1>0, <1>1 DEF Below, Words
<1>5. BlocksBelow'
  BY <1>0, <1>4 DEF SleepInv, BlocksBelow, PoolTyped, Words
<1>6. ASSUME NEW u \in Threads, u # t
      PROVE  LocAt(u)' /\ GrowerAt(u)' /\ PoolWaiter(u)' /\ BucketWaiter(u)' /\ GotAbove(u)'
  <2>1. pc'[u] = pc[u] /\ loc'[u] = loc[u]
    BY <1>6
  <2>0. LocAt(u) /\ GrowerAt(u) /\ PoolWaiter(u) /\ BucketWaiter(u) /\ GotAbove(u)
    BY DEF SleepInv
  <2>2. LocAt(u)'
    BY <2>0, <2>1 DEF LocAt, Small
  <2>3. pc[u] \in Fetching => loc[u].side \in Sides /\ loc[u].want \in Buckets \cup {Back}
    BY <2>0 DEF LocAt, Sides
  <2>4. GrowerAt(u)'
    <3>1. CASE pc[u] \in Growing
      <4>1. loc[u].side \in Sides /\ loc[u].old \in Words /\ Want(u) \in Nat /\ Want(u)' = Want(u)
        BY <2>0, <2>1, <2>3, <3>1, WantFacts DEF LocAt, Fetching, Want
      <4>2. state[loc[u].side].next \in Nat /\ state'[loc[u].side].next \in Nat
            /\ state'[loc[u].side].next >= state[loc[u].side].next
            /\ state'[loc[u].side].end = state[loc[u].side].end
        BY <1>1, <4>1 DEF Words
      <4>3. loc[u].old.next \in Nat
        BY <4>1 DEF Words
      <4> QED
        BY <2>0, <2>1, <3>1, <4>1, <4>2, <4>3 DEF GrowerAt
    <3>2. CASE pc[u] \notin Growing
      BY <2>1, <3>2 DEF GrowerAt
    <3> QED
      BY <3>1, <3>2
  <2>5. PoolWaiter(u)'
    <3>1. CASE pc[u] \in {"pool_wait", "pool_sleep"}
      <4>1. loc[u].side \in Sides
        BY <2>3, <3>1 DEF Fetching
      <4> QED
        BY <1>1, <2>0, <2>1, <4>1 DEF PoolWaiter, Words
    <3>2. CASE pc[u] \notin {"pool_wait", "pool_sleep"}
      BY <2>1, <3>2 DEF PoolWaiter
    <3> QED
      BY <3>1, <3>2
  <2>6. BucketWaiter(u)'
    BY <2>0, <2>1 DEF BucketWaiter
  <2>7. GotAbove(u)'
    <3>1. pc[u] \in {"pool_wake", "pool_got"} => loc[u].old.next + BlockSize \in Nat
      BY <2>0, SizeFacts DEF LocAt, Words
    <3>2. pc[u] = "bucket_xchg" => loc[u].off + BlockSize \in Nat
      BY <2>0, SizeFacts DEF LocAt
    <3> QED
      BY <1>4, <2>0, <2>1, <3>1, <3>2 DEF GotAbove, Got, Small
  <2> QED
    BY <2>2, <2>4, <2>5, <2>6, <2>7
<1> QED
  BY <1>2, <1>3, <1>5, <1>6 DEF SleepInv

\* What a thread does with the block it got.
LEMMA GotBlockFacts ==
    ASSUME SleepInv, NEW t \in Threads, pc[t] \in {"pool", "pool_got"}, NEW at \in Nat, GotBlock(t, at)
    PROVE  /\ \E p \in {"idle", "bucket_xchg"} :
                 /\ pc' = [pc EXCEPT ![t] = p]
                 /\ p = "idle" => ~(loc[t].want \in Buckets /\ Small(loc[t].want))
                 /\ p = "bucket_xchg" => /\ Small(loc[t].want) /\ loc[t].side = Front
                                         /\ loc[t].want \in Buckets
                                         /\ loc'[t].want = loc[t].want /\ loc'[t].side = Front
                                         /\ loc'[t].off = at
           /\ DOMAIN loc' = Threads /\ DOMAIN loc'[t] = DOMAIN NoLocals
           /\ \A u \in Threads : u # t => loc'[u] = loc[u]
<1>0. PoolTyped /\ LocAt(t)
  BY DEF SleepInv
<1>1. /\ DOMAIN loc' = Threads /\ DOMAIN loc'[t] = DOMAIN NoLocals
      /\ \A u \in Threads : u # t => loc'[u] = loc[u]
  BY <1>0, LocFacts DEF GotBlock, Return
<1>2. \/ loc[t].side = Front /\ loc[t].want \in Buckets
      \/ loc[t].side = Back /\ loc[t].want = Back
  BY <1>0 DEF LocAt, Fetching
<1>3. CASE loc[t].side = Back
  BY <1>1, <1>2, <1>3, AnvAssumption DEF GotBlock, Return, Goto
<1>4. CASE loc[t].side = Front /\ ~Small(loc[t].want)
  BY <1>1, <1>2, <1>4, AnvAssumption DEF GotBlock, Return, Goto, Small
<1>5. CASE loc[t].side = Front /\ Small(loc[t].want)
  <2>1. loc' = [loc EXCEPT ![t].off = at] /\ pc' = [pc EXCEPT ![t] = "bucket_xchg"]
    <3>1. ~(Size(loc[t].want) >= BlockSize) /\ loc[t].want \in Buckets
      BY <1>2, <1>5, SizeFacts, AnvAssumption DEF Small
    <3> QED
      BY <1>5, <3>1, AnvAssumption DEF GotBlock, Goto
  <2>2. loc'[t].want = loc[t].want /\ loc'[t].side = loc[t].side /\ loc'[t].off = at
    BY <1>0, <2>1, LocFacts, Zenon
  <2> QED
    BY <1>1, <1>2, <1>5, <2>1, <2>2, AnvAssumption
<1> QED
  BY <1>2, <1>3, <1>4, <1>5

\* The fetch-and-add on one end of the pool.
LEMMA PoolAllocStep ==
    ASSUME SleepInv, NEW t \in Threads, PoolAlloc(t)
    PROVE  SleepInv'
<1>0. /\ PoolTyped /\ LocAt(t) /\ OneGrower /\ BlocksBelow /\ pc[t] = "pool"
      /\ UNCHANGED <<block, bo_size, center, asleep>>
      /\ \A u \in Threads : GrowerAt(u) /\ LocAt(u)
  BY DEF SleepInv, PoolAlloc
<1>1. \/ loc[t].side = Front /\ loc[t].want \in Buckets
      \/ loc[t].side = Back /\ loc[t].want = Back
  BY <1>0 DEF LocAt, Fetching
<1>a. PICK s \in Sides : s = loc[t].side
  BY <1>1 DEF Sides
<1>b. PICK old \in Words : old = state[s]
  BY <1>0 DEF PoolTyped
<1>c. PICK n \in Nat : n = Want(t) /\ n > 0 /\ (Small(loc[t].want) => n = BlockSize)
  BY <1>1, WantFacts
<1> USE <1>a, <1>b
<1>2. old.next \in Nat /\ old.end \in Nat
  BY DEF Words
<1>3. /\ state'[s] = [next |-> old.next + n, end |-> old.end]
      /\ \A r \in Sides : r # s => state'[r] = state[r]
      /\ state' \in [Sides -> Words]
  BY <1>0, <1>2, <1>c DEF PoolAlloc, PoolTyped, Words
<1>4. \A r \in Sides : state'[r].end = state[r].end /\ state'[r].next >= state[r].next
  <2>1. \A r \in Sides : state[r].next \in Nat
    BY <1>0 DEF PoolTyped, Words
  <2> QED
    BY <1>2, <1>3, <1>c, <2>1
<1>5. pc[t] \notin Growing /\ pc[t] \in Fetching
  BY <1>0 DEF Growing, Fetching
\* A thread that grows this end has moved next over it.
<1>6. ASSUME NEW u \in Threads, pc[u] \in Growing, loc[u].side = s
      PROVE  old.next > old.end
  <2>1. loc[u].old \in Words /\ loc[u].want \in Buckets \cup {Back}
    BY <1>0, <1>6 DEF LocAt, Fetching
  <2>2. Want(u) \in Nat /\ loc[u].old.next \in Nat /\ loc[u].old.end \in Nat
    BY <2>1, WantFacts DEF Words
  <2>3. /\ old.end = loc[u].old.end /\ loc[u].old.end < loc[u].old.next + Want(u)
        /\ old.next >= loc[u].old.next + Want(u)
    BY <1>0, <1>6 DEF GrowerAt
  <2> QED
    BY <1>2, <2>2, <2>3
<1>7. CASE old.next + n <= old.end
  <2>0. GotBlock(t, old.next)
    <3>1. ~(old.next + n > old.end)
      BY <1>2, <1>7
    <3> QED
      BY <1>c, <3>1 DEF PoolAlloc
  <2>1. PICK p \in {"idle", "bucket_xchg"} :
             /\ pc' = [pc EXCEPT ![t] = p]
             /\ p = "idle" => ~(loc[t].want \in Buckets /\ Small(loc[t].want))
             /\ p = "bucket_xchg" => /\ Small(loc[t].want) /\ loc[t].side = Front
                                     /\ loc[t].want \in Buckets
                                     /\ loc'[t].want = loc[t].want /\ loc'[t].side = Front
                                     /\ loc'[t].off = old.next
    BY <1>0, <1>2, <2>0, GotBlockFacts
  <2>2. /\ DOMAIN loc' = Threads /\ DOMAIN loc'[t] = DOMAIN NoLocals
        /\ \A u \in Threads : u # t => loc'[u] = loc[u]
    BY <1>0, <1>2, <2>0, GotBlockFacts
  <2>3. pc'[t] = p /\ \A u \in Threads : u # t => pc'[u] = pc[u]
    BY <1>0, <2>1 DEF PoolTyped
  <2>4. PoolTyped'
    <3>1. pc' \in [Threads -> Places]
      BY <1>0, <2>1 DEF PoolTyped, Places, Fetching
    <3>2. asleep' = {u \in Threads : pc'[u] \in {"bucket_sleep", "pool_sleep"}}
      BY <1>0, <2>3 DEF PoolTyped
    <3> QED
      BY <1>0, <1>3, <2>2, <3>1, <3>2 DEF PoolTyped
  <2>5. p \notin Growing /\ (p \in Fetching <=> p = "bucket_xchg")
    BY DEF Growing, Fetching
  <2>6. OneGrower'
    <3>1. \A u \in Threads : (pc'[u] \in Growing <=> pc[u] \in Growing) /\ (u # t => loc'[u] = loc[u])
      BY <1>5, <2>2, <2>3, <2>5
    <3>2. ~(state'[s].next > state'[s].end)
      BY <1>2, <1>3, <1>7
    <3> QED
      BY <1>0, <1>3, <1>5, <3>1, <3>2 DEF OneGrower
  <2>7. LocAt(t)'
    BY <1>2, <2>1, <2>3, <2>5 DEF LocAt, Growing, Small
  <2>8. GrowerAt(t)' /\ PoolWaiter(t)' /\ BucketWaiter(t)'
    BY <2>3, <2>5 DEF GrowerAt, PoolWaiter, BucketWaiter
  <2>9. GotAbove(t)'
    <3>1. CASE p = "idle"
      BY <2>3, <3>1 DEF GotAbove
    <3>2. CASE p = "bucket_xchg"
      <4>1. s = Front /\ n = BlockSize /\ loc[t].want \in Buckets
        BY <1>c, <2>1, <3>2
      <4>2. old.next >= block[loc[t].want].end
        BY <1>0, <1>2, <4>1 DEF BlocksBelow, Below, PoolTyped, Words
      <4>3. ASSUME NEW u \in Threads, pc'[u] \in Growing, loc'[u].side = Front PROVE FALSE
        <5>1. u # t /\ pc[u] \in Growing /\ loc[u].side = Front
          BY <2>2, <2>3, <2>5, <4>3
        <5> QED
          BY <1>2, <1>6, <1>7, <1>c, <4>1, <5>1
      <4>4. Below(old.next + BlockSize)'
        BY <1>2, <1>3, <4>1, <4>3 DEF Below
      <4> QED
        BY <1>0, <2>1, <2>3, <3>2, <4>2, <4>4 DEF GotAbove, Got
    <3> QED
      BY <3>1, <3>2
  <2>10. \A b \in Buckets : Small(b) => (Fetches(t, b)' <=> Fetches(t, b))
    BY <1>5, <2>1, <2>3, <2>5 DEF Fetches
  <2> QED
    BY <1>0, <1>4, <1>5, <2>2, <2>3, <2>4, <2>5, <2>6, <2>7, <2>8, <2>9, <2>10, AddStep
<1>8. CASE old.next + n > old.end
  <2> DEFINE p == IF old.next <= old.end THEN "grow" ELSE "pool_wait"
  <2>1. pc' = [pc EXCEPT ![t] = p] /\ loc' = [loc EXCEPT ![t].old = old]
    <3>1. ~(old.next + n <= old.end)
      BY <1>2, <1>8
    <3> QED
      BY <1>c, <3>1 DEF PoolAlloc, Goto
  <2>2. loc'[t].want = loc[t].want /\ loc'[t].side = loc[t].side /\ loc'[t].old = old
    BY <1>0, <2>1, LocFacts, Zenon
  <2>3. /\ DOMAIN loc' = Threads /\ DOMAIN loc'[t] = DOMAIN NoLocals
        /\ \A u \in Threads : u # t => loc'[u] = loc[u]
    BY <1>0, <2>1, LocFacts
  <2>4. pc'[t] = p /\ \A u \in Threads : u # t => pc'[u] = pc[u]
    BY <1>0, <2>1 DEF PoolTyped
  <2>5. PoolTyped'
    <3>1. pc' \in [Threads -> Places]
      BY <1>0, <2>1 DEF PoolTyped, Places, Fetching, Growing
    <3>2. asleep' = {u \in Threads : pc'[u] \in {"bucket_sleep", "pool_sleep"}}
      BY <1>0, <2>4 DEF PoolTyped
    <3> QED
      BY <1>0, <1>3, <2>3, <3>1, <3>2 DEF PoolTyped
  <2>6. p \in Fetching /\ (p \in Growing <=> old.next <= old.end)
    BY DEF Growing, Fetching
  <2>7. OneGrower'
    <3>1. \A u \in Threads : u # t => (pc'[u] \in Growing <=> pc[u] \in Growing) /\ loc'[u] = loc[u]
      BY <2>3, <2>4
    <3>2. CASE old.next <= old.end
      <4>1. \A u \in Threads : ~(pc[u] \in Growing /\ loc[u].side = s)
        BY <1>2, <1>6, <3>2
      <4>2. pc'[t] \in Growing /\ loc'[t].side = s
        BY <2>2, <2>4, <2>6, <3>2
      <4>3. \A u, v \in Threads : pc'[u] \in Growing /\ pc'[v] \in Growing /\ loc'[u].side = loc'[v].side => u = v
        BY <1>0, <3>1, <4>1, <4>2 DEF OneGrower
      <4>4. \A r \in Sides : state'[r].next > state'[r].end => \E u \in Threads : pc'[u] \in Growing /\ loc'[u].side = r
        <5>1. ASSUME NEW r \in Sides, r # s, state'[r].next > state'[r].end
              PROVE  \E u \in Threads : pc'[u] \in Growing /\ loc'[u].side = r
          <6>1. PICK u \in Threads : pc[u] \in Growing /\ loc[u].side = r
            BY <1>0, <1>3, <5>1 DEF OneGrower
          <6> QED
            BY <1>5, <3>1, <6>1
        <5> QED
          BY <4>2, <5>1
      <4> QED
        BY <4>3, <4>4 DEF OneGrower
    <3>3. CASE ~(old.next <= old.end)
      <4>1. pc'[t] \notin Growing /\ old.next > old.end
        BY <1>2, <2>4, <2>6, <3>3
      <4>2. \A r \in Sides : state'[r].next > state'[r].end => state[r].next > state[r].end
        BY <1>3, <4>1
      <4>3. \A u \in Threads : (pc'[u] \in Growing <=> pc[u] \in Growing) /\ (u # t => loc'[u] = loc[u])
        BY <1>5, <3>1, <4>1
      <4> QED
        BY <1>0, <1>5, <4>2, <4>3 DEF OneGrower
    <3> QED
      BY <3>2, <3>3
  <2>8. LocAt(t)'
    BY <1>1, <2>2, <2>4 DEF LocAt, Growing, Fetching
  <2>9. GrowerAt(t)'
    <3>1. Want(t)' = n
      BY <1>c, <2>2 DEF Want
    <3> QED
      BY <1>2, <1>3, <1>8, <2>2, <2>4, <2>6, <3>1 DEF GrowerAt
  <2>10. PoolWaiter(t)'
    BY <1>2, <1>3, <1>c, <2>2, <2>4 DEF PoolWaiter
  <2>11. BucketWaiter(t)' /\ GotAbove(t)'
    BY <2>4 DEF BucketWaiter, GotAbove
  <2>12. \A b \in Buckets : Small(b) => (Fetches(t, b)' <=> Fetches(t, b))
    BY <1>5, <2>2, <2>4, <2>6 DEF Fetches
  <2>13. loc'[t].side = Front => loc'[t].old.next = state[Front].next
    BY <2>2
  <2> HIDE DEF p
  <2> QED
    BY <1>0, <1>4, <1>5, <2>3, <2>4, <2>5, <2>7, <2>8, <2>9, <2>10, <2>11, <2>12, <2>13, AddStep
<1> QED
  BY <1>2, <1>7, <1>8

\* The test of futex_wait on the end of the pool.
LEMMA PoolWaitStep ==
    ASSUME SleepInv, NEW t \in Threads, PoolWait(t)
    PROVE  SleepInv'
<1>0. PoolTyped /\ LocAt(t) /\ PoolWaiter(t) /\ pc[t] = "pool_wait"
  BY DEF SleepInv, PoolWait
<1>1. UNCHANGED <<state, block, bo_size, center, loc>>
  BY DEF PoolWait, pool
<1>2. PICK p \in {"pool_sleep", "pool"} :
         /\ pc' = [pc EXCEPT ![t] = p]
         /\ p = "pool_sleep" => state[loc[t].side].end = loc[t].old.end /\ asleep' = asleep \cup {t}
         /\ p = "pool" => asleep' = asleep
  BY DEF PoolWait, Goto
<1>3. pc'[t] = p /\ \A u \in Threads : u # t => pc'[u] = pc[u]
  BY <1>0, <1>2 DEF PoolTyped
<1>4. PoolTyped'
  <2>1. pc' \in [Threads -> Places]
    BY <1>0, <1>2 DEF PoolTyped, Places, Fetching
  <2>2. asleep' = {u \in Threads : pc'[u] \in {"bucket_sleep", "pool_sleep"}}
    BY <1>0, <1>2, <1>3 DEF PoolTyped
  <2> QED
    BY <1>0, <1>1, <2>1, <2>2 DEF PoolTyped
<1>5. LocAt(t)'
  BY <1>0, <1>1, <1>3 DEF LocAt, Fetching, Growing, Small
<1>6. PoolWaiter(t)'
  BY <1>0, <1>1, <1>2, <1>3 DEF PoolWaiter
<1>7. pc[t] \in Fetching /\ p \in Fetching /\ pc[t] \notin Growing /\ p \notin Growing
  BY <1>0 DEF Fetching, Growing
<1>8. GrowerAt(t)' /\ BucketWaiter(t)' /\ GotAbove(t)'
  BY <1>3, <1>7 DEF GrowerAt, BucketWaiter, GotAbove
<1> QED
  BY <1>1, <1>3, <1>4, <1>5, <1>6, <1>7, <1>8, OwnStep DEF Fetches

\* A step of the thread that grows the pool, up to the exchange.
LEMMA GrowerStep ==
    ASSUME SleepInv, NEW t \in Threads, UNCHANGED <<state, block, asleep>>,
           pc[t] \in Growing, NEW p \in Growing, pc' = [pc EXCEPT ![t] = p],
           bo_size' \in Nat, center' \in Int,
           DOMAIN loc' = Threads, DOMAIN loc'[t] = DOMAIN NoLocals,
           \A u \in Threads : u # t => loc'[u] = loc[u],
           loc'[t].want = loc[t].want, loc'[t].side = loc[t].side, loc'[t].old = loc[t].old,
           p = "expand" => loc'[t].end \in Nat,
           p \in {"read_center", "read_size"} => loc'[t].end \in Int,
           p = "pool_xchg" => loc'[t].end \in Nat /\ loc'[t].end >= loc[t].old.next + Want(t)
    PROVE  SleepInv'
<1>0. PoolTyped /\ LocAt(t) /\ GrowerAt(t)
  BY DEF SleepInv
<1>1. pc'[t] = p /\ \A u \in Threads : u # t => pc'[u] = pc[u]
  BY <1>0 DEF PoolTyped
<1>2. /\ Growing \subseteq Fetching /\ Fetching \subseteq Places
      /\ \A q \in Growing : q \notin {"bucket_sleep", "pool_sleep", "pool_wait", "bucket_wait",
                                      "pool_wake", "pool_got", "bucket_xchg", "bucket_wake", "bucket", "pop", "pop_cas"}
  BY DEF Growing, Fetching, Places
<1>3. PoolTyped'
  <2>1. pc' \in [Threads -> Places]
    BY <1>0, <1>2 DEF PoolTyped
  <2>2. asleep' = {u \in Threads : pc'[u] \in {"bucket_sleep", "pool_sleep"}}
    BY <1>0, <1>1, <1>2 DEF PoolTyped
  <2> QED
    BY <1>0, <2>1, <2>2 DEF PoolTyped
<1>4. Want(t)' = Want(t)
  BY DEF Want
<1>5. LocAt(t)'
  BY <1>0, <1>1, <1>2 DEF LocAt
<1>6. GrowerAt(t)'
  BY <1>0, <1>1, <1>4 DEF GrowerAt
<1>7. PoolWaiter(t)' /\ BucketWaiter(t)' /\ GotAbove(t)'
  BY <1>1, <1>2 DEF PoolWaiter, BucketWaiter, GotAbove
<1> QED
  BY <1>1, <1>2, <1>3, <1>5, <1>6, <1>7, OwnStep DEF Fetches

\* The larger and the smaller of two integers.
LEMMA MaxMinFacts ==
    ASSUME NEW a \in Int, NEW b \in Int
    PROVE  Max({a, b}) \in {a, b} /\ Max({a, b}) >= a /\ Max({a, b}) >= b /\ Min({a, b}) \in {a, b}
<1>1. \E x \in {a, b} : \A y \in {a, b} : x >= y
  <2>1. CASE a >= b
    BY <2>1
  <2>2. CASE b >= a
    BY <2>2
  <2> QED
    BY <2>1, <2>2
<1>2. \E x \in {a, b} : \A y \in {a, b} : x =< y
  <2>1. CASE a =< b
    BY <2>1
  <2>2. CASE b =< a
    BY <2>2
  <2> QED
    BY <2>1, <2>2
<1> QED
  BY <1>1, <1>2 DEF Max, Min

\* anv_block_pool_grow computes a size and a center that are numbers.
LEMMA GrownFacts ==
    ASSUME PoolTyped, NEW g \in Grown
    PROVE  g.size \in Nat /\ g.center \in Int
<1>1. \A n \in Nat : AlignUp(n) \in Nat
  <2>1. ASSUME NEW n \in Nat PROVE AlignUp(n) \in Nat
    <3>1. (n + PageSize - 1) \in Nat /\ PageSize \in Nat \ {0}
      BY AnvAssumption
    <3>2. ((n + PageSize - 1) \div PageSize) \in Nat
      BY <3>1
    <3> QED
      BY <3>1, <3>2 DEF AlignUp
  <2> QED
    BY <2>1
<1>2. \A n \in Int : AlignDown(n) \in Int
  <2>1. ASSUME NEW n \in Int PROVE AlignDown(n) \in Int
    <3>1. PageSize \in Nat \ {0}
      BY AnvAssumption
    <3>2. (n \div PageSize) \in Int
      BY <3>1
    <3> QED
      BY <3>1, <3>2 DEF AlignDown
  <2> QED
    BY <2>1
<1>3. state[Back].next \in Nat /\ state[Front].next \in Nat /\ bo_size \in Nat /\ center \in Int
  BY DEF PoolTyped, Sides, Words
<1> DEFINE back_used == AlignUp(state[Back].next)
           front_used == AlignUp(state[Front].next)
           back_required == Max({back_used, center})
           front_required == Max({front_used, bo_size - center})
           ratio(size) == Max({AlignDown((size * back_used) \div (front_used + back_used)), back_required})
<1>4. back_used \in Nat /\ front_used \in Nat
  BY <1>1, <1>3
<1>5. back_required \in Int /\ front_required \in Int
  <2> HIDE DEF back_used, front_used
  <2>1. bo_size - center \in Int
    BY <1>3
  <2>4. back_used \in Int /\ front_used \in Int
    BY <1>4
  <2>2. back_required \in {back_used, center}
    BY <1>3, <2>4, MaxMinFacts, Zenon
  <2>3. front_required \in {front_used, bo_size - center}
    BY <2>1, <2>4, MaxMinFacts, Zenon
  <2> QED
    BY <1>3, <1>4, <2>1, <2>2, <2>3
<1>6. CASE g = [size |-> bo_size, center |-> center]
  BY <1>3, <1>6
<1>7. CASE \E size \in Doubled(back_required + front_required) :
             g = [size |-> size,
                  center |-> IF back_used = 0 THEN 0 ELSE Min({ratio(size), size - front_required})]
  <2> HIDE DEF back_used, front_used, back_required, front_required, ratio
  <2>1. PICK size \in Doubled(back_required + front_required) :
             g = [size |-> size,
                  center |-> IF back_used = 0 THEN 0 ELSE Min({ratio(size), size - front_required})]
    BY <1>7
  <2>2. size \in Nat
    <3>1. PICK k \in 1 .. MaxDoublings : size = bo_size * 2 ^ k
      BY DEF Doubled
    <3>2. 2 ^ k \in Nat
      BY PowersAssumption
    <3> QED
      BY <1>3, <3>1, <3>2
  <2>3. CASE back_used = 0
    BY <2>1, <2>2, <2>3
  <2>4. CASE back_used # 0
    <3>1. size * back_used \in Nat /\ front_used + back_used \in Nat \ {0}
      BY <1>4, <2>2, <2>4
    <3>2. ((size * back_used) \div (front_used + back_used)) \in Int
      <4> DEFINE x == size * back_used  y == front_used + back_used
      <4>1. x \in Nat /\ y \in Nat \ {0}
        BY <3>1
      <4> HIDE DEF x, y
      <4>2. (x \div y) \in Int
        BY <4>1
      <4> QED
        BY <4>2 DEF x, y
    <3>3. AlignDown((size * back_used) \div (front_used + back_used)) \in Int
      BY <1>2, <3>2
    <3>4. ratio(size) \in Int
      BY <1>5, <3>3, MaxMinFacts DEF ratio
    <3>5. size - front_required \in Int
      BY <1>5, <2>2
    <3>6. Min({ratio(size), size - front_required}) \in Int
      BY <3>4, <3>5, MaxMinFacts
    <3> QED
      BY <2>1, <2>2, <2>4, <3>6
  <2> QED
    BY <2>3, <2>4
<1> QED
  BY <1>6, <1>7 DEF Grown

\* The growth of the pool.
LEMMA GrowSteps ==
    ASSUME SleepInv, NEW t \in Threads, Grow(t) \/ Expand(t) \/ ReadFirst(t) \/ ReadEnd(t)
    PROVE  SleepInv'
<1>0. PoolTyped /\ LocAt(t) /\ GrowerAt(t) /\ bo_size \in Nat /\ center \in Int
  BY DEF SleepInv, PoolTyped
<1>1. /\ DOMAIN loc' = Threads /\ DOMAIN loc'[t] = DOMAIN NoLocals
      /\ \A u \in Threads : u # t => loc'[u] = loc[u]
      /\ loc'[t].want = loc[t].want /\ loc'[t].side = loc[t].side /\ loc'[t].old = loc[t].old
  BY <1>0, LocFacts, Zenon DEF Grow, Expand, ReadFirst, ReadEnd
<1>2. CASE Grow(t)
  <2>1. PICK g \in Grown : center' = g.center /\ loc' = [loc EXCEPT ![t].end = g.size]
    BY <1>2 DEF Grow
  <2>2. g.size \in Nat /\ g.center \in Int
    BY <1>0, GrownFacts
  <2>3. loc'[t].end = g.size
    BY <1>0, <2>1, LocFacts, Zenon
  <2>4. pc' = [pc EXCEPT ![t] = "expand"] /\ pc[t] = "grow" /\ UNCHANGED <<state, block, asleep, bo_size>>
    BY <1>2 DEF Grow, Goto
  <2>5. "expand" \in Growing /\ "grow" \in Growing
    BY DEF Growing
  <2>6. center' \in Int /\ bo_size' \in Nat /\ loc'[t].end \in Nat /\ pc[t] \in Growing
    BY <1>0, <2>1, <2>2, <2>3, <2>4, <2>5
  <2> QED
    BY <1>1, <2>4, <2>5, <2>6, GrowerStep
<1>3. CASE Expand(t)
  <2>1. /\ pc[t] = "expand" /\ UNCHANGED <<state, block, asleep, center, loc>> /\ bo_size' = loc[t].end
        /\ pc' = [pc EXCEPT ![t] = IF loc[t].side = Back THEN "read" ELSE "read_two"]
    BY <1>3 DEF Expand, Goto
  <2>2. bo_size' \in Nat
    BY <1>0, <2>1 DEF LocAt
  <2>3. "expand" \in Growing /\ "read" \in Growing /\ "read_two" \in Growing
    BY DEF Growing
  <2> QED
    BY <1>0, <1>1, <2>1, <2>2, <2>3, GrowerStep
<1>4. CASE ReadFirst(t)
  <2>1. pc[t] = "read_two" /\ UNCHANGED <<state, block, asleep, bo_size, center>>
    BY <1>4 DEF ReadFirst, pool
  <2>2. PICK p \in {"read_center", "read_size"} : pc' = [pc EXCEPT ![t] = p]
    BY <1>4 DEF ReadFirst, Goto
  <2>3. loc'[t].end = bo_size \/ loc'[t].end = center
    BY <1>0, <1>4, LocFacts, Zenon DEF ReadFirst
  <2>4. "read_two" \in Growing /\ p \in Growing
    BY DEF Growing
  <2>5. /\ center' \in Int /\ bo_size' \in Nat /\ loc'[t].end \in Int /\ pc[t] \in Growing
        /\ p # "expand" /\ p # "pool_xchg"
    BY <1>0, <2>1, <2>3, <2>4
  <2> QED
    BY <1>1, <2>1, <2>2, <2>4, <2>5, GrowerStep
<1>5. CASE ReadEnd(t)
  <2> DEFINE end == CASE pc[t] = "read_center" -> (loc[t].end - center) % Word
                      [] pc[t] = "read_size" -> (bo_size - loc[t].end) % Word
                      [] OTHER -> center
             p == IF end < loc[t].old.next + Want(t) THEN "grow" ELSE "pool_xchg"
  <2>1. /\ pc[t] \in {"read_center", "read_size", "read"} /\ pc' = [pc EXCEPT ![t] = p]
        /\ loc' = [loc EXCEPT ![t].end = end] /\ UNCHANGED <<state, block, asleep, bo_size, center>>
    BY <1>5 DEF ReadEnd, Goto, pool
  <2>2. end \in Int
    <3>1. Word \in Nat \ {0}
      BY AnvAssumption
    <3>2. pc[t] \in {"read_center", "read_size"} => loc[t].end \in Int
      BY <1>0 DEF LocAt
    <3> QED
      BY <1>0, <2>1, <3>1, <3>2
  <2> HIDE DEF end
  <2>3. loc'[t].end = end
    BY <1>0, <2>1, LocFacts, Zenon
  <2>4. pc[t] \in Growing /\ p \in Growing
    BY <2>1 DEF Growing
  <2>5. loc[t].old.next \in Nat /\ Want(t) \in Nat
    <3>1. loc[t].old \in Words /\ loc[t].want \in Buckets \cup {Back}
      BY <1>0, <2>4 DEF LocAt, Fetching
    <3> QED
      BY <3>1, WantFacts DEF Words
  <2>6. p = "pool_xchg" => end \in Nat /\ end >= loc[t].old.next + Want(t)
    BY <2>2, <2>5
  <2>7. p \notin {"expand", "read_center", "read_size"}
    OBVIOUS
  <2> HIDE DEF p
  <2>8. pc' = [pc EXCEPT ![t] = p] /\ UNCHANGED <<state, block, asleep>>
    BY <2>1
  <2>9. center' \in Int /\ bo_size' \in Nat
    BY <1>0, <2>1
  <2>10. /\ p = "expand" => loc'[t].end \in Nat
         /\ p \in {"read_center", "read_size"} => loc'[t].end \in Int
         /\ p = "pool_xchg" => loc'[t].end \in Nat /\ loc'[t].end >= loc[t].old.next + Want(t)
    BY <2>3, <2>6, <2>7
  <2> QED
    BY <1>1, <2>4, <2>8, <2>9, <2>10, GrowerStep
<1> QED
  BY <1>2, <1>3, <1>4, <1>5

\* The thread that grew the pool installs the new end; next has moved since, so the
\* sleepers are woken, and the ones that have not slept yet see a new end.
LEMMA PoolExchangeStep ==
    ASSUME SleepInv, NEW t \in Threads, PoolExchange(t)
    PROVE  SleepInv'
<1>0. /\ PoolTyped /\ LocAt(t) /\ GrowerAt(t) /\ OneGrower /\ OneFetcher /\ Whole /\ BlocksBelow
      /\ pc[t] = "pool_xchg" /\ UNCHANGED <<block, bo_size, center, loc>>
  BY DEF SleepInv, PoolExchange
<1>1. pc[t] \in Growing /\ pc[t] \in Fetching
  BY <1>0 DEF Growing, Fetching
<1>2. \/ loc[t].side = Front /\ loc[t].want \in Buckets
      \/ loc[t].side = Back /\ loc[t].want = Back
  BY <1>0, <1>1 DEF LocAt
<1>a. PICK s \in Sides : s = loc[t].side
  BY <1>2 DEF Sides
<1>b. PICK old \in Words : old = loc[t].old
  BY <1>0, <1>1 DEF LocAt
<1>c. PICK n \in Nat : n = Want(t) /\ n > 0 /\ (Small(loc[t].want) => n = BlockSize)
  BY <1>2, WantFacts
<1>d. PICK end \in Nat : end = loc[t].end
  BY <1>0, <1>1 DEF GrowerAt
<1> USE <1>a, <1>b, <1>d
<1>3. old.next \in Nat /\ old.end \in Nat /\ state[s].next \in Nat /\ state[s].end \in Nat
  BY <1>0 DEF Words, PoolTyped
<1>4. /\ state[s].end = old.end /\ old.end < old.next + n /\ state[s].next >= old.next + n
      /\ end >= old.next + n
  BY <1>0, <1>1, <1>c DEF GrowerAt
<1>5. state[s].next # loc[t].old.next
  BY <1>3, <1>4, <1>c
<1>6. /\ state' = [state EXCEPT ![s] = [next |-> old.next + n, end |-> end]]
      /\ pc' = [pc EXCEPT ![t] = "pool_wake"]
      /\ asleep' = asleep
  BY <1>5, <1>c DEF PoolExchange, Goto
<1>7. /\ state'[s] = [next |-> old.next + n, end |-> end]
      /\ \A r \in Sides : r # s => state'[r] = state[r]
      /\ state' \in [Sides -> Words]
  BY <1>0, <1>3, <1>6 DEF PoolTyped, Words
<1>8. pc'[t] = "pool_wake" /\ \A u \in Threads : u # t => pc'[u] = pc[u]
  BY <1>0, <1>6 DEF PoolTyped
<1>9. PoolTyped'
  <2>1. pc' \in [Threads -> Places]
    BY <1>0, <1>6 DEF PoolTyped, Places, Fetching
  <2>2. asleep' = {u \in Threads : pc'[u] \in {"bucket_sleep", "pool_sleep"}}
    BY <1>0, <1>6, <1>8 DEF PoolTyped
  <2> QED
    BY <1>0, <1>7, <2>1, <2>2 DEF PoolTyped
<1>10. /\ \A u \in Threads : pc'[u] \in Fetching <=> pc[u] \in Fetching
       /\ \A u \in Threads : u # t => (pc'[u] \in Growing <=> pc[u] \in Growing)
       /\ pc'[t] \notin Growing
  BY <1>1, <1>8 DEF Growing, Fetching
\* Nobody else grew this end.
<1>11. \A u \in Threads : ~(pc'[u] \in Growing /\ loc[u].side = s)
  BY <1>0, <1>1, <1>10 DEF OneGrower
<1>12. OneGrower'
  <2>1. ~(state'[s].next > state'[s].end)
    BY <1>3, <1>4, <1>7
  <2>2. \A r \in Sides : state'[r].next > state'[r].end => \E u \in Threads : pc'[u] \in Growing /\ loc'[u].side = r
    <3>1. ASSUME NEW r \in Sides, state'[r].next > state'[r].end
          PROVE  \E u \in Threads : pc'[u] \in Growing /\ loc'[u].side = r
      <4>1. r # s
        BY <2>1, <3>1
      <4>2. PICK u \in Threads : pc[u] \in Growing /\ loc[u].side = r
        BY <1>0, <1>7, <3>1, <4>1 DEF OneGrower
      <4> QED
        BY <1>0, <1>10, <4>1, <4>2
    <3> QED
      BY <3>1
  <2> QED
    BY <1>0, <1>10, <2>2 DEF OneGrower
<1>13. \A u \in Threads, b \in Buckets : Fetches(u, b)' <=> Fetches(u, b)
  BY <1>0, <1>10 DEF Fetches
<1>14. OneFetcher' /\ Whole'
  <2>1. OneFetcher'
    BY <1>0, <1>13 DEF OneFetcher, Small
  <2>2. Whole'
    BY <1>0 DEF Whole
  <2> QED
    BY <2>1, <2>2
<1>15. Front \in Sides
  BY DEF Sides
<1>16. \A m \in Nat : Below(m) => Below(m)'
  <2>1. CASE s = Front
    <3>1. \A m \in Nat : Below(m) => m <= old.next
      BY <1>1, <2>1 DEF Below
    <3> QED
      BY <1>0, <1>3, <1>7, <1>11, <2>1, <3>1 DEF Below
  <2>2. CASE s # Front
    BY <1>0, <1>7, <1>10, <1>15, <2>2 DEF Below
  <2> QED
    BY <2>1, <2>2
<1>17. BlocksBelow'
  BY <1>0, <1>16 DEF BlocksBelow, PoolTyped, Words
<1>18. ASSUME NEW u \in Threads
       PROVE  LocAt(u)' /\ GrowerAt(u)' /\ PoolWaiter(u)' /\ BucketWaiter(u)' /\ GotAbove(u)'
  <2>0. LocAt(u) /\ GrowerAt(u) /\ PoolWaiter(u) /\ BucketWaiter(u) /\ GotAbove(u)
    BY DEF SleepInv
  <2>1. CASE u = t
    <3>1. LocAt(t)'
      BY <1>0, <1>1, <1>2, <1>8, <1>10 DEF LocAt
    <3>2. GrowerAt(t)' /\ PoolWaiter(t)' /\ BucketWaiter(t)'
      BY <1>8, <1>10 DEF GrowerAt, PoolWaiter, BucketWaiter
    <3>3. GotAbove(t)'
      <4>1. CASE s = Front /\ Small(loc[t].want)
        <5>1. n = BlockSize /\ loc[t].want \in Buckets
          BY <1>2, <1>c, <4>1, AnvAssumption
        <5>2. old.next >= block[loc[t].want].end
          BY <1>0, <1>1, <1>3, <4>1, <5>1 DEF BlocksBelow, Below, PoolTyped, Words
        <5>3. Below(old.next + BlockSize)'
          BY <1>0, <1>3, <1>7, <1>11, <4>1, <5>1 DEF Below
        <5> QED
          BY <1>0, <1>8, <5>2, <5>3 DEF GotAbove, Got
      <4>2. CASE ~(s = Front /\ Small(loc[t].want))
        BY <1>0, <1>8, <4>2 DEF GotAbove, Got, Small
      <4> QED
        BY <4>1, <4>2
    <3> QED
      BY <2>1, <3>1, <3>2, <3>3
  <2>3. CASE u # t
    <3>0. pc'[u] = pc[u]
      BY <1>8, <2>3
    <3>1. loc'[u] = loc[u] /\ Want(u)' = Want(u)
      BY <1>0 DEF Want
    <3>2. LocAt(u)'
      BY <2>0, <2>3, <3>0, <3>1 DEF LocAt, Small
    <3>3. pc[u] \in Fetching => loc[u].side \in Sides
      BY <2>0 DEF LocAt, Sides
    <3>4. GrowerAt(u)'
      <4>1. CASE pc[u] \in Growing
        <5>1. loc[u].side \in Sides /\ loc[u].side # s
          BY <1>11, <2>3, <3>0, <3>3, <4>1 DEF Fetching
        <5> QED
          BY <1>7, <2>0, <2>3, <3>0, <3>1, <5>1 DEF GrowerAt
      <4>2. CASE pc[u] \notin Growing
        BY <2>3, <3>0, <4>2 DEF GrowerAt
      <4> QED
        BY <4>1, <4>2
    <3>5. PoolWaiter(u)'
      <4>1. CASE pc[u] \in {"pool_wait", "pool_sleep"} /\ loc[u].side = s
        <5>1. loc[u].old.end \in Nat /\ loc[u].old.end <= old.end
          BY <1>4, <2>0, <4>1 DEF LocAt, PoolWaiter, Words
        <5>2. state'[s].end = end /\ loc[u].old.end < end
          BY <1>3, <1>4, <1>7, <5>1
        <5> QED
          BY <2>3, <3>0, <3>1, <4>1, <5>1, <5>2 DEF PoolWaiter
      <4>2. CASE pc[u] \in {"pool_wait", "pool_sleep"} /\ loc[u].side # s
        <5>1. loc[u].side \in Sides
          BY <3>3, <4>2 DEF Fetching
        <5> QED
          BY <1>7, <2>0, <2>3, <3>0, <3>1, <4>2, <5>1 DEF PoolWaiter
      <4>3. CASE pc[u] \notin {"pool_wait", "pool_sleep"}
        BY <2>3, <3>0, <4>3 DEF PoolWaiter
      <4> QED
        BY <4>1, <4>2, <4>3
    <3>6. BucketWaiter(u)'
      BY <1>0, <2>0, <2>3, <3>0, <3>1 DEF BucketWaiter
    <3>7. GotAbove(u)'
      <4>1. pc[u] \in {"pool_wake", "pool_got"} => loc[u].old.next + BlockSize \in Nat
        BY <2>0, SizeFacts DEF LocAt, Words
      <4>2. pc[u] = "bucket_xchg" => loc[u].off + BlockSize \in Nat
        BY <2>0, SizeFacts DEF LocAt
      <4> QED
        BY <1>0, <1>16, <2>0, <2>3, <3>0, <3>1, <4>1, <4>2 DEF GotAbove, Got, Small
    <3> QED
      BY <3>2, <3>4, <3>5, <3>6, <3>7
  <2> QED
    BY <2>1, <2>3
<1> QED
  BY <1>9, <1>12, <1>14, <1>17, <1>18 DEF SleepInv

\* The thread that grew the pool takes the block it grew it for.
LEMMA PoolGotStep ==
    ASSUME SleepInv, NEW t \in Threads, PoolGot(t)
    PROVE  SleepInv'
<1>0. /\ PoolTyped /\ LocAt(t) /\ GotAbove(t) /\ pc[t] = "pool_got"
      /\ UNCHANGED <<state, block, bo_size, center, asleep>> /\ GotBlock(t, loc[t].old.next)
  BY DEF SleepInv, PoolGot, pool
<1>1. loc[t].old.next \in Nat
  BY <1>0 DEF LocAt, Words
<1>a. PICK at \in Nat : at = loc[t].old.next
  BY <1>1
<1>2. PICK p \in {"idle", "bucket_xchg"} :
           /\ pc' = [pc EXCEPT ![t] = p]
           /\ p = "idle" => ~(loc[t].want \in Buckets /\ Small(loc[t].want))
           /\ p = "bucket_xchg" => /\ Small(loc[t].want) /\ loc[t].side = Front
                                   /\ loc[t].want \in Buckets
                                   /\ loc'[t].want = loc[t].want /\ loc'[t].side = Front
                                   /\ loc'[t].off = at
  BY <1>0, <1>a, GotBlockFacts
<1>3. /\ DOMAIN loc' = Threads /\ DOMAIN loc'[t] = DOMAIN NoLocals
      /\ \A u \in Threads : u # t => loc'[u] = loc[u]
  BY <1>0, <1>a, GotBlockFacts
<1>4. pc'[t] = p /\ \A u \in Threads : u # t => pc'[u] = pc[u]
  BY <1>0, <1>2 DEF PoolTyped
<1>5. PoolTyped'
  <2>1. pc' \in [Threads -> Places]
    BY <1>0, <1>2 DEF PoolTyped, Places, Fetching
  <2>2. asleep' = {u \in Threads : pc'[u] \in {"bucket_sleep", "pool_sleep"}}
    BY <1>0, <1>4 DEF PoolTyped
  <2> QED
    BY <1>0, <1>3, <2>1, <2>2 DEF PoolTyped
<1>6. /\ p \notin Growing /\ (p \in Fetching <=> p = "bucket_xchg")
      /\ pc[t] \in Fetching /\ pc[t] \notin Growing
  BY <1>0 DEF Growing, Fetching
<1>7. LocAt(t)'
  BY <1>2, <1>4, <1>6 DEF LocAt, Growing, Small
<1>8. GrowerAt(t)' /\ PoolWaiter(t)' /\ BucketWaiter(t)'
  BY <1>4, <1>6 DEF GrowerAt, PoolWaiter, BucketWaiter
<1>9. GotAbove(t)'
  <2>1. CASE p = "idle"
    BY <1>4, <2>1 DEF GotAbove
  <2>2. CASE p = "bucket_xchg"
    <3>1. at >= block[loc[t].want].end /\ Below(at + BlockSize)
      BY <1>0, <1>2, <1>a, <2>2 DEF GotAbove, Got
    <3>2. Below(at + BlockSize)'
      BY <1>0, <1>3, <1>4, <1>6, <3>1 DEF Below
    <3> QED
      BY <1>0, <1>2, <1>4, <2>2, <3>1, <3>2 DEF GotAbove, Got
  <2> QED
    BY <2>1, <2>2
<1>10. \A b \in Buckets : Small(b) => (Fetches(t, b)' <=> Fetches(t, b))
  BY <1>2, <1>4, <1>6 DEF Fetches
<1> QED
  BY <1>0, <1>3, <1>4, <1>5, <1>6, <1>7, <1>8, <1>9, <1>10, OwnStep

\* Threads that leave a futex_wait, and one that returns from a futex_wake.
LeavesFutex(u) ==
    \/ pc'[u] = pc[u] /\ loc'[u] = loc[u]
    \/ /\ loc'[u] = loc[u]
       /\ \/ pc[u] = "bucket_sleep" /\ pc'[u] = "bucket"
          \/ pc[u] = "pool_sleep" /\ pc'[u] = "pool"
          \/ pc[u] = "pool_wake" /\ pc'[u] = "pool_got"
    \/ pc[u] = "bucket_wake" /\ pc'[u] = "idle"

\* Neither changes who fetches or grows.
LEMMA FutexStep ==
    ASSUME SleepInv, UNCHANGED <<state, block, bo_size, center>>, PoolTyped',
           \A u \in Threads : LeavesFutex(u)
    PROVE  SleepInv'
<1>1. \A u \in Threads : /\ pc'[u] \in Growing <=> pc[u] \in Growing
                         /\ pc'[u] \in Fetching <=> pc[u] \in Fetching
                         /\ pc[u] \in Fetching => loc'[u] = loc[u]
  BY DEF LeavesFutex, Growing, Fetching
<1>2. Growing \subseteq Fetching
  BY DEF Fetching
<1>3. OneGrower'
  BY <1>1, <1>2 DEF SleepInv, OneGrower
<1>4. OneFetcher'
  <2>1. \A u \in Threads, b \in Buckets : Fetches(u, b)' <=> Fetches(u, b)
    BY <1>1 DEF Fetches
  <2> QED
    BY <2>1 DEF SleepInv, OneFetcher, Small
<1>5. Whole'
  BY DEF SleepInv, Whole
<1>6. \A n : Below(n) => Below(n)'
  BY <1>1, <1>2 DEF Below
<1>7. BlocksBelow'
  BY <1>6 DEF SleepInv, BlocksBelow
<1>8. ASSUME NEW u \in Threads
      PROVE  LocAt(u)' /\ GrowerAt(u)' /\ PoolWaiter(u)' /\ BucketWaiter(u)' /\ GotAbove(u)'
  <2>0. LocAt(u) /\ GrowerAt(u) /\ PoolWaiter(u) /\ BucketWaiter(u) /\ GotAbove(u) /\ LeavesFutex(u)
    BY DEF SleepInv
  <2>1. CASE pc[u] = "bucket_wake" /\ pc'[u] = "idle"
    BY <2>1 DEF LocAt, GrowerAt, PoolWaiter, BucketWaiter, GotAbove, Fetching, Growing
  <2>2. CASE pc'[u] = pc[u] /\ loc'[u] = loc[u]
    <3>1. LocAt(u)' /\ PoolWaiter(u)' /\ BucketWaiter(u)'
      BY <2>0, <2>2 DEF LocAt, PoolWaiter, BucketWaiter, Small
    <3>2. GrowerAt(u)'
      BY <2>0, <2>2 DEF GrowerAt, Want
    <3>3. GotAbove(u)'
      BY <1>6, <2>0, <2>2 DEF GotAbove, Got, Small
    <3> QED
      BY <3>1, <3>2, <3>3
  <2>3. CASE /\ loc'[u] = loc[u]
             /\ \/ pc[u] = "bucket_sleep" /\ pc'[u] = "bucket"
                \/ pc[u] = "pool_sleep" /\ pc'[u] = "pool"
    BY <2>0, <2>3 DEF LocAt, GrowerAt, PoolWaiter, BucketWaiter, GotAbove, Fetching, Growing
  <2>4. CASE loc'[u] = loc[u] /\ pc[u] = "pool_wake" /\ pc'[u] = "pool_got"
    <3>1. LocAt(u)' /\ GrowerAt(u)' /\ PoolWaiter(u)' /\ BucketWaiter(u)'
      BY <2>0, <2>4 DEF LocAt, GrowerAt, PoolWaiter, BucketWaiter, Fetching, Growing
    <3>2. GotAbove(u)'
      BY <1>6, <2>0, <2>4 DEF GotAbove, Got, Small
    <3> QED
      BY <3>1, <3>2
  <2> QED
    BY <2>0, <2>1, <2>2, <2>3, <2>4 DEF LeavesFutex
<1> QED
  BY <1>3, <1>4, <1>5, <1>7, <1>8 DEF SleepInv

\* futex_wake on the end of a block or of the pool, and an interrupted futex_wait.
LEMMA FutexFacts ==
    ASSUME PoolTyped, NEW t \in Threads, BucketWake(t) \/ PoolWake(t) \/ Interrupt(t)
    PROVE  /\ UNCHANGED <<head, next, state, block, bo_size, center>> /\ PoolTyped'
           /\ \A u \in Threads : LeavesFutex(u)
<1>1. CASE BucketWake(t)
  <2>1. /\ pc[t] = "bucket_wake" /\ UNCHANGED <<head, next, state, block, bo_size, center>>
        /\ loc' = [loc EXCEPT ![t] = NoLocals]
        /\ pc' = [u \in Threads |-> IF u = t THEN "idle"
                                    ELSE IF u \in asleep /\ pc[u] = "bucket_sleep" /\ loc[u].want = loc[t].want
                                         THEN "bucket" ELSE pc[u]]
        /\ asleep' = asleep \ {u \in asleep : pc[u] = "bucket_sleep" /\ loc[u].want = loc[t].want}
    BY <1>1 DEF BucketWake, pool
  <2>2. /\ DOMAIN loc' = Threads /\ \A u \in Threads : DOMAIN loc'[u] = DOMAIN NoLocals
        /\ \A u \in Threads : u # t => loc'[u] = loc[u]
    BY <2>1, LocFacts DEF PoolTyped
  <2>3. pc' \in [Threads -> Places]
    BY <2>1 DEF PoolTyped, Places
  <2>4. asleep' = {u \in Threads : pc'[u] \in {"bucket_sleep", "pool_sleep"}}
    BY <2>1 DEF PoolTyped
  <2>5. PoolTyped'
    BY <2>1, <2>2, <2>3, <2>4 DEF PoolTyped
  <2> QED
    BY <2>1, <2>2, <2>5 DEF LeavesFutex
<1>2. CASE PoolWake(t)
  <2>1. /\ pc[t] = "pool_wake" /\ UNCHANGED <<head, next, state, block, bo_size, center, loc>>
        /\ pc' = [u \in Threads |-> IF u = t THEN "pool_got"
                                    ELSE IF u \in asleep /\ pc[u] = "pool_sleep" /\ loc[u].side = loc[t].side
                                         THEN "pool" ELSE pc[u]]
        /\ asleep' = asleep \ {u \in asleep : pc[u] = "pool_sleep" /\ loc[u].side = loc[t].side}
    BY <1>2 DEF PoolWake, pool
  <2>2. pc' \in [Threads -> Places]
    BY <2>1 DEF PoolTyped, Places, Fetching
  <2>3. asleep' = {u \in Threads : pc'[u] \in {"bucket_sleep", "pool_sleep"}}
    BY <2>1 DEF PoolTyped
  <2>4. PoolTyped'
    BY <2>1, <2>2, <2>3 DEF PoolTyped
  <2> QED
    BY <2>1, <2>4 DEF LeavesFutex
<1>3. CASE Interrupt(t)
  <2>1. t \in asleep /\ pc[t] \in {"bucket_sleep", "pool_sleep"}
    BY <1>3 DEF Interrupt, PoolTyped
  <2>2. PICK p \in {"bucket", "pool"} : /\ p = "bucket" <=> pc[t] = "bucket_sleep"
                                       /\ pc' = [pc EXCEPT ![t] = p]
    BY <1>3 DEF Interrupt, Goto
  <2>3. UNCHANGED <<head, next, state, block, bo_size, center, loc>> /\ asleep' = asleep \ {t}
    BY <1>3 DEF Interrupt, pool
  <2>4. pc'[t] = p /\ \A u \in Threads : u # t => pc'[u] = pc[u]
    BY <2>2 DEF PoolTyped
  <2>5. pc' \in [Threads -> Places]
    BY <2>2 DEF PoolTyped, Places, Fetching
  <2>6. asleep' = {u \in Threads : pc'[u] \in {"bucket_sleep", "pool_sleep"}}
    BY <2>3, <2>4 DEF PoolTyped
  <2>7. PoolTyped'
    BY <2>3, <2>5, <2>6 DEF PoolTyped
  <2> QED
    BY <2>1, <2>2, <2>3, <2>4, <2>7 DEF LeavesFutex
<1> QED
  BY <1>1, <1>2, <1>3
-----------------------------------------------------------------------------
\* At the beginning nobody sleeps, fetches or grows.
LEMMA InitSleepInv == Init => SleepInv
<1> SUFFICES ASSUME Init PROVE SleepInv
  OBVIOUS
<1>1. PoolTyped
  BY AnvAssumption DEF Init, PoolTyped, Words, Places, Sides
<1>2. \A t \in Threads : pc[t] = "idle" /\ pc[t] \notin Growing /\ pc[t] \notin Fetching
  BY DEF Init, Growing, Fetching
<1>3. \A s \in Sides : state[s].next = 0 /\ state[s].end = 0
  BY DEF Init
<1>4. \A b \in Buckets : block[b].next = 0 /\ block[b].end = 0
  BY DEF Init
<1>5. OneGrower
  BY <1>2, <1>3 DEF OneGrower
<1>6. OneFetcher
  BY <1>2, <1>4 DEF OneFetcher, Fetches
<1>7. Whole
  <2>1. \A b \in Buckets : block[b].end = block[b].next + 0 * Size(b)
    BY <1>4, SizeFacts
  <2> QED
    BY <2>1 DEF Whole
<1>8. BlocksBelow
  BY <1>2, <1>3, <1>4 DEF BlocksBelow, Below, Sides
<1>9. \A t \in Threads : LocAt(t) /\ GrowerAt(t) /\ PoolWaiter(t) /\ BucketWaiter(t) /\ GotAbove(t)
  BY <1>2 DEF LocAt, GrowerAt, PoolWaiter, BucketWaiter, GotAbove
<1> QED
  BY <1>1, <1>5, <1>6, <1>7, <1>8, <1>9 DEF SleepInv

\* Every step preserves the invariant.
LEMMA NextSleepInv == SleepInv /\ [Next]_vars => SleepInv'
<1> SUFFICES ASSUME SleepInv, [Next]_vars PROVE SleepInv'
  OBVIOUS
<1>1. ASSUME NEW t \in Threads, Pop(t) PROVE SleepInv'
  BY <1>1, PopSteps, PopBackStep
<1>a. ASSUME NEW t \in Threads, BucketWake(t) \/ PoolWake(t) \/ Interrupt(t) PROVE SleepInv'
  <2>1. PoolTyped
    BY DEF SleepInv
  <2> QED
    BY <1>a, <2>1, FutexFacts, FutexStep
<1>2. ASSUME NEW t \in Threads, Step(t) PROVE SleepInv'
  BY <1>1, <1>a, <1>2, PopSteps, ListSteps, BucketAllocStep, BucketWaitStep, BucketExchangeStep,
     PoolAllocStep, PoolWaitStep, GrowSteps, PoolExchangeStep, PoolGotStep DEF Step
<1>3. ASSUME NEW t \in Threads, (\E b \in Requests : Alloc(t, b)) \/ (\E h \in BagToSet(held) : Free(t, h))
      PROVE  SleepInv'
  BY <1>3, ListSteps
<1>4. CASE UNCHANGED vars
  <2>1. UNCHANGED <<state, block, bo_size, center, asleep, pc, loc>>
    BY <1>4 DEF vars, pool
  <2>2. PoolTyped' /\ OneGrower' /\ OneFetcher' /\ Whole' /\ BlocksBelow'
    BY <2>1 DEF SleepInv, PoolTyped, OneGrower, OneFetcher, Fetches, Whole, BlocksBelow, Below, Small
  <2>3. \A t \in Threads : LocAt(t)' /\ GrowerAt(t)' /\ PoolWaiter(t)' /\ BucketWaiter(t)' /\ GotAbove(t)'
    <3>1. ASSUME NEW t \in Threads PROVE LocAt(t)' /\ PoolWaiter(t)' /\ BucketWaiter(t)'
      BY <2>1 DEF SleepInv, LocAt, PoolWaiter, BucketWaiter, Small
    <3>2. ASSUME NEW t \in Threads PROVE GrowerAt(t)' /\ GotAbove(t)'
      BY <2>1 DEF SleepInv, GrowerAt, GotAbove, Got, Below, Small, Want
    <3> QED
      BY <3>1, <3>2
  <2> QED
    BY <2>2, <2>3 DEF SleepInv
<1> QED
  BY <1>2, <1>3, <1>4 DEF Next

\* Who sleeps on an end that has been exchanged is about to be woken.
BucketWoken(t) ==
    pc[t] = "bucket_sleep" /\ loc[t].old.end # block[loc[t].want].end =>
       \E u \in Threads : pc[u] = "bucket_wake" /\ loc[u].want = loc[t].want

PoolWoken(t) ==
    pc[t] = "pool_sleep" /\ loc[t].old.end # state[loc[t].side].end =>
       \E u \in Threads : pc[u] = "pool_wake" /\ loc[u].side = loc[t].side

Woken == \A t \in Threads : BucketWoken(t) /\ PoolWoken(t)

\* No end is exchanged, nobody wakes, and whoever falls asleep has compared the end.
LEMMA EndsKept ==
    ASSUME SleepInv, Woken, NEW t \in Threads,
           \A u \in Threads : u # t => pc'[u] = pc[u] /\ loc'[u] = loc[u],
           pc[t] \notin {"bucket_wake", "pool_wake"},
           \A b \in Buckets : block'[b].end = block[b].end,
           \A s \in Sides : state'[s].end = state[s].end,
           pc'[t] = "bucket_sleep" => loc'[t].old.end = block'[loc'[t].want].end,
           pc'[t] = "pool_sleep" => loc'[t].old.end = state'[loc'[t].side].end
    PROVE  Woken'
<1> SUFFICES ASSUME NEW v \in Threads PROVE BucketWoken(v)' /\ PoolWoken(v)'
  BY DEF Woken
<1>1. CASE v = t
  BY <1>1 DEF BucketWoken, PoolWoken
<1>2. CASE v # t
  <2>1. BucketWoken(v) /\ PoolWoken(v) /\ LocAt(v) /\ pc'[v] = pc[v] /\ loc'[v] = loc[v]
    BY <1>2 DEF Woken, SleepInv
  <2>2. pc[v] = "bucket_sleep" => loc[v].want \in Buckets
    BY <2>1 DEF LocAt
  <2>3. pc[v] = "pool_sleep" => loc[v].side \in Sides
    BY <2>1 DEF LocAt, Fetching, Sides
  <2>4. BucketWoken(v)'
    BY <2>1, <2>2 DEF BucketWoken
  <2>5. PoolWoken(v)'
    BY <2>1, <2>3 DEF PoolWoken
  <2> QED
    BY <2>4, <2>5
<1> QED
  BY <1>1, <1>2

\* The exchanges: whoever slept on the old end has the thread as its waker.
LEMMA ExchangeWoken ==
    ASSUME SleepInv, Woken, NEW t \in Threads, BucketExchange(t) \/ PoolExchange(t)
    PROVE  Woken'
<1>0. PoolTyped /\ LocAt(t) /\ GrowerAt(t)
  BY DEF SleepInv
<1>1. loc' = loc /\ \A u \in Threads : u # t => pc'[u] = pc[u]
  BY <1>0 DEF BucketExchange, PoolExchange, Goto, PoolTyped
<1> SUFFICES ASSUME NEW v \in Threads PROVE BucketWoken(v)' /\ PoolWoken(v)'
  BY DEF Woken
<1>2. BucketWoken(v) /\ PoolWoken(v) /\ LocAt(v)
  BY DEF Woken, SleepInv
<1>3. pc[v] = "bucket_sleep" => loc[v].want \in Buckets
  BY <1>2 DEF LocAt
<1>4. pc[v] = "pool_sleep" => loc[v].side \in Sides
  BY <1>2 DEF LocAt, Fetching, Sides
<1>5. CASE BucketExchange(t)
  <2>1. /\ pc[t] = "bucket_xchg" /\ pc'[t] = "bucket_wake" /\ state' = state
        /\ \A b \in Buckets : b # loc[t].want => block'[b] = block[b]
    BY <1>0, <1>5 DEF BucketExchange, Goto, PoolTyped, pool
  <2>2. BucketWoken(v)'
    <3>1. CASE loc[v].want = loc[t].want
      BY <1>1, <2>1, <3>1 DEF BucketWoken
    <3>2. CASE loc[v].want # loc[t].want
      BY <1>1, <1>2, <1>3, <2>1, <3>2 DEF BucketWoken
    <3> QED
      BY <3>1, <3>2
  <2>3. PoolWoken(v)'
    BY <1>1, <1>2, <2>1 DEF PoolWoken
  <2> QED
    BY <2>2, <2>3
<1>6. CASE PoolExchange(t)
  <2>1. pc[t] = "pool_xchg" /\ pc[t] \in Growing /\ pc[t] \in Fetching
    BY <1>6 DEF PoolExchange, Growing, Fetching
  <2>2. state[loc[t].side].next # loc[t].old.next
    <3>1. loc[t].side \in Sides /\ loc[t].want \in Buckets \cup {Back} /\ loc[t].old \in Words
      BY <1>0, <2>1 DEF LocAt, Sides
    <3>2. Want(t) \in Nat /\ Want(t) > 0
      BY <3>1, WantFacts
    <3>3. state[loc[t].side].next >= loc[t].old.next + Want(t)
      BY <1>0, <2>1 DEF GrowerAt
    <3> QED
      BY <1>0, <3>1, <3>2, <3>3 DEF PoolTyped, Words
  <2>3. /\ pc'[t] = "pool_wake" /\ block' = block
        /\ \A s \in Sides : s # loc[t].side => state'[s] = state[s]
    BY <1>0, <1>6, <2>2 DEF PoolExchange, Goto, PoolTyped
  <2>4. PoolWoken(v)'
    <3>1. CASE loc[v].side = loc[t].side
      BY <1>1, <2>3, <3>1 DEF PoolWoken
    <3>2. CASE loc[v].side # loc[t].side
      BY <1>1, <1>2, <1>4, <2>1, <2>3, <3>2 DEF PoolWoken
    <3> QED
      BY <3>1, <3>2
  <2>5. BucketWoken(v)'
    BY <1>1, <1>2, <2>1, <2>3 DEF BucketWoken
  <2> QED
    BY <2>4, <2>5
<1> QED
  BY <1>5, <1>6

\* futex_wake leaves nobody asleep on its word, and does not hinder the other wakers.
LEMMA WakeWoken ==
    ASSUME SleepInv, Woken, NEW t \in Threads, BucketWake(t) \/ PoolWake(t) \/ Interrupt(t)
    PROVE  Woken'
<1>0. PoolTyped
  BY DEF SleepInv
<1>1. UNCHANGED <<state, block>> /\ \A u \in Threads : LeavesFutex(u)
  BY <1>0, FutexFacts
<1> SUFFICES ASSUME NEW v \in Threads, pc'[v] \in {"bucket_sleep", "pool_sleep"}
             PROVE  BucketWoken(v)' /\ PoolWoken(v)'
  BY DEF Woken, BucketWoken, PoolWoken
<1>2. BucketWoken(v) /\ PoolWoken(v) /\ pc'[v] = pc[v] /\ loc'[v] = loc[v]
  BY <1>1 DEF Woken, LeavesFutex
<1>3. \/ \A u \in Threads : pc[u] \in {"bucket_wake", "pool_wake"} => pc'[u] = pc[u] /\ loc'[u] = loc[u]
      \/ /\ pc[t] = "bucket_wake" /\ ~(pc[v] = "bucket_sleep" /\ loc[v].want = loc[t].want)
         /\ \A u \in Threads : u # t /\ pc[u] \in {"bucket_wake", "pool_wake"} => pc'[u] = pc[u] /\ loc'[u] = loc[u]
      \/ /\ pc[t] = "pool_wake" /\ ~(pc[v] = "pool_sleep" /\ loc[v].side = loc[t].side)
         /\ \A u \in Threads : u # t /\ pc[u] \in {"bucket_wake", "pool_wake"} => pc'[u] = pc[u] /\ loc'[u] = loc[u]
  <2>1. CASE BucketWake(t)
    BY <1>0, <1>1, <1>2, <2>1, LocFacts DEF BucketWake, PoolTyped
  <2>2. CASE PoolWake(t)
    BY <1>0, <1>1, <1>2, <2>2 DEF PoolWake, PoolTyped
  <2>3. CASE Interrupt(t)
    BY <1>0, <2>3 DEF Interrupt, Goto, PoolTyped
  <2> QED
    BY <2>1, <2>2, <2>3
<1> QED
  BY <1>1, <1>2, <1>3 DEF BucketWoken, PoolWoken

\* Every step preserves it.
LEMMA NextWoken == SleepInv /\ Woken /\ [Next]_vars => Woken'
<1> SUFFICES ASSUME SleepInv, Woken, [Next]_vars PROVE Woken'
  OBVIOUS
<1>0. PoolTyped
  BY DEF SleepInv
<1> DEFINE Keeps(t) ==
             /\ \A u \in Threads : u # t => pc'[u] = pc[u] /\ loc'[u] = loc[u]
             /\ pc[t] \notin {"bucket_wake", "pool_wake"}
             /\ \A b \in Buckets : block'[b].end = block[b].end
             /\ \A s \in Sides : state'[s].end = state[s].end
             /\ pc'[t] = "bucket_sleep" => loc'[t].old.end = block'[loc'[t].want].end
             /\ pc'[t] = "pool_sleep" => loc'[t].old.end = state'[loc'[t].side].end
<1>1. ASSUME NEW t \in Threads, BucketWait(t) \/ PoolWait(t) PROVE Keeps(t)
  BY <1>0, <1>1 DEF BucketWait, PoolWait, Goto, PoolTyped, pool
<1>2. ASSUME NEW t \in Threads, Pop(t) \/ PopCas(t) PROVE Keeps(t)
  BY <1>0, <1>2 DEF Pop, PopCas, Return, Goto, PoolTyped, pool
<1>3. ASSUME NEW t \in Threads, Push(t) \/ PushCas(t) PROVE Keeps(t)
  BY <1>0, <1>3 DEF Push, PushCas, Goto, PoolTyped, pool
<1>4. ASSUME NEW t \in Threads, Grow(t) \/ Expand(t) \/ ReadFirst(t) \/ ReadEnd(t) PROVE Keeps(t)
  BY <1>0, <1>4 DEF Grow, Expand, ReadFirst, ReadEnd, Goto, PoolTyped, pool
<1>5. ASSUME NEW t \in Threads, BucketAlloc(t) PROVE Keeps(t)
  <2>1. pc[t] = "bucket" /\ UNCHANGED state /\ \A b \in Buckets : block'[b].end = block[b].end
    BY <1>0, <1>5 DEF BucketAlloc, PoolTyped, Words, pool
  <2>2. \A u \in Threads : u # t => loc'[u] = loc[u]
    BY <1>0, <1>5 DEF BucketAlloc, Return, PoolTyped
  <2>3. \E p \in {"idle", "pool", "bucket_wait"} : pc' = [pc EXCEPT ![t] = p]
    BY <1>5 DEF BucketAlloc, Return, Goto
  <2> QED
    BY <1>0, <2>1, <2>2, <2>3 DEF PoolTyped
<1>6. ASSUME NEW t \in Threads, PoolAlloc(t) PROVE Keeps(t)
  BY <1>0, <1>6 DEF PoolAlloc, GotBlock, Return, Goto, PoolTyped, Words
<1>7. ASSUME NEW t \in Threads, PoolGot(t) PROVE Keeps(t)
  BY <1>0, <1>7 DEF PoolGot, GotBlock, Return, Goto, PoolTyped, pool
<1>8. ASSUME NEW t \in Threads, (\E b \in Requests : Alloc(t, b)) \/ (\E h \in BagToSet(held) : Free(t, h))
      PROVE  Keeps(t)
  BY <1>0, <1>8 DEF Alloc, Free, Goto, PoolTyped, pool
<1>9. ASSUME NEW t \in Threads, Keeps(t) PROVE Woken'
  BY <1>9, EndsKept
<1>10. CASE UNCHANGED vars
  BY <1>10 DEF Woken, BucketWoken, PoolWoken, vars, pool
<1> HIDE DEF Keeps
<1>11. ASSUME NEW t \in Threads, Step(t) PROVE Woken'
  BY <1>1, <1>2, <1>3, <1>4, <1>5, <1>6, <1>7, <1>9, <1>11, ExchangeWoken, WakeWoken DEF Step
<1> QED
  BY <1>8, <1>9, <1>10, <1>11 DEF Next

\* For any number of threads, buckets and sizes, whoever sleeps in a futex_wait of the
\* block pool or of a bucket is about to be woken by a thread that has exchanged the
\* end, or sleeps on the current end and somebody who does not depend on it is on the
\* way to exchange that end and wake it.
THEOREM AnvSleeperHasWaker == Spec => []SleeperHasWaker
<1>1. SleepInv /\ Woken => SleeperHasWaker
  <2> SUFFICES ASSUME SleepInv, Woken, NEW t \in asleep
               PROVE  \E u \in Threads :
                         \/ /\ pc[t] = "bucket_sleep" /\ loc[u].want = loc[t].want
                            /\ \/ pc[u] = "bucket_wake"
                               \/ pc[u] \in Fetching /\ block[loc[t].want].end = loc[t].old.end
                         \/ /\ pc[t] = "pool_sleep" /\ loc[u].side = loc[t].side
                            /\ \/ pc[u] = "pool_wake"
                               \/ pc[u] \in Growing /\ state[loc[t].side].end = loc[t].old.end
    BY DEF SleeperHasWaker
  <2>1. t \in Threads /\ pc[t] \in {"bucket_sleep", "pool_sleep"}
    BY DEF SleepInv, PoolTyped
  <2>2. LocAt(t) /\ PoolWaiter(t) /\ BucketWaiter(t) /\ OneGrower /\ OneFetcher
        /\ BucketWoken(t) /\ PoolWoken(t)
    BY <2>1 DEF SleepInv, Woken
  <2>3. CASE pc[t] = "bucket_sleep"
    <3>1. loc[t].want \in Buckets /\ Small(loc[t].want)
      BY <2>2, <2>3 DEF LocAt
    <3>2. CASE block[loc[t].want].end = loc[t].old.end
      <4>1. block[loc[t].want].next > block[loc[t].want].end
        BY <2>2, <2>3, <3>2 DEF BucketWaiter
      <4>2. PICK u \in Threads : Fetches(u, loc[t].want)
        BY <2>2, <3>1, <4>1 DEF OneFetcher
      <4> QED
        BY <2>3, <3>2, <4>2 DEF Fetches
    <3>3. CASE block[loc[t].want].end # loc[t].old.end
      BY <2>2, <2>3, <3>3 DEF BucketWoken
    <3> QED
      BY <3>2, <3>3
  <2>4. CASE pc[t] = "pool_sleep"
    <3>1. loc[t].side \in Sides
      BY <2>2, <2>4 DEF LocAt, Fetching, Sides
    <3>2. CASE state[loc[t].side].end = loc[t].old.end
      <4>1. state[loc[t].side].next > state[loc[t].side].end
        BY <2>2, <2>4, <3>2 DEF PoolWaiter
      <4> QED
        BY <2>2, <2>4, <3>1, <3>2, <4>1 DEF OneGrower
    <3>3. CASE state[loc[t].side].end # loc[t].old.end
      BY <2>2, <2>4, <3>3 DEF PoolWoken
    <3> QED
      BY <3>2, <3>3
  <2> QED
    BY <2>1, <2>3, <2>4
<1>2. Init => Woken
  BY DEF Init, Woken, BucketWoken, PoolWoken
<1>3. Spec => [](SleepInv /\ Woken)
  BY <1>2, InitSleepInv, NextSleepInv, NextWoken, PTL DEF Spec
<1> QED
  BY <1>1, <1>3, PTL
-----------------------------------------------------------------------------
(***************************************************************************)
(* Who has which memory.  Every unit of memory, used or not yet used, has  *)
(* exactly one owner: an end of the pool, the application, a place on a    *)
(* free list, the block of a bucket, or a thread inside the allocator.     *)
(***************************************************************************)
PoolOf(s) == <<"pool", s, 0>>
HeldAs(h) == <<"held", h, 0>>
PlaceOn(l, i) == <<"list", l, i>>
RestOf(b) == <<"rest", b, 0>>
KeptBy(t) == <<"kept", t, 0>>
ItemOf(t, l) == <<"item", t, l>>

States == Int \X Nat
Ranks == Nat \ {0}

Owners ==
    {PoolOf(s) : s \in Sides} \cup {HeldAs(h) : h \in States}
    \cup {PlaceOn(l, i) : l \in Lists, i \in Ranks} \cup {RestOf(b) : b \in Buckets}
    \cup {KeptBy(t) : t \in Threads} \cup {ItemOf(t, l) : t \in Threads, l \in Lists}

\* own maps the owners to what they have.
Apart(own) == \A x, y \in Owners : x # y => own[x] \cap own[y] = {}
Cover(own) == \A u \in Int : \E x \in Owners : u \in own[x]

\* The end s of the pool from m on, and n units of it.
Beyond(s, m) == IF s = Front THEN {u \in Int : u >= m} ELSE {u \in Int : u < -m}
Piece(s, m, n) == IF s = Front THEN Extent(m, n) ELSE Extent(-(m + n), n)

Pushing == {"push", "push_cas"}

HeldUnits(h) == IF h \in DOMAIN held THEN Extent(h[1], h[2]) ELSE {}
RestUnits(b) == block[b].next .. block[b].end - 1

\* What a thread is about to return, and what it still has to push on list l.
KeptUnits(t) ==
    IF pc[t] \in {"pool_wake", "pool_got"} THEN Piece(loc[t].side, loc[t].old.next, Want(t))
    ELSE IF pc[t] = "bucket_xchg" THEN Extent(loc[t].off, BlockSize)
    ELSE IF pc[t] = "bucket_wake" THEN Extent(loc[t].off, Size(loc[t].want))
    ELSE IF pc[t] \in Pushing /\ loc[t].want # NULL THEN Extent(loc[t].off, Size(loc[t].want))
    ELSE {}

Chunk(p) == Extent(p.off, p.n * Size(p.list))

ItemUnits(t, l) ==
    IF pc[t] \in Pushing
    THEN {u \in Int : \E j \in 1 .. Len(loc[t].push) :
                         loc[t].push[j].list = l /\ u \in Chunk(loc[t].push[j])}
    ELSE {}

\* List l is a stack of n[l] states, at[l][1] at the bottom; fresh[s] units of end s of
\* the pool have been handed out.
PlaceUnits(n, at, l, i) == IF i <= n[l] THEN Extent(at[l][i], Size(l)) ELSE {}

Owned(own, n, at, fresh) ==
    /\ own \in [Owners -> SUBSET Int]
    /\ \A s \in Sides : own[PoolOf(s)] = Beyond(s, fresh[s])
    /\ \A h \in States : own[HeldAs(h)] = HeldUnits(h)
    /\ \A l \in Lists, i \in Ranks : own[PlaceOn(l, i)] = PlaceUnits(n, at, l, i)
    /\ \A b \in Buckets : own[RestOf(b)] = RestUnits(b)
    /\ \A t \in Threads : own[KeptBy(t)] = KeptUnits(t)
    /\ \A t \in Threads, l \in Lists : own[ItemOf(t, l)] = ItemUnits(t, l)

\* Back states are below 0, the others not.
OnSide(l, o, m) == IF l = Back THEN o + m <= 0 ELSE o >= 0

Heads == [offset : Int \cup {EMPTY}, count : Nat]

\* The links of the free states lead down the stack.
Stacks(n, at) ==
    /\ n \in [Lists -> Nat] /\ at \in [Lists -> [Nat -> Int]]
    /\ DOMAIN head = Lists
    /\ \A l \in Lists :
          /\ head[l] \in Heads
          /\ head[l].offset = IF n[l] = 0 THEN EMPTY ELSE at[l][n[l]]
          /\ \A i \in 1 .. n[l] :
                /\ at[l][i] \in DOMAIN next
                /\ next[at[l][i]] = IF i = 1 THEN EMPTY ELSE at[l][i - 1]
                /\ OnSide(l, at[l][i], Size(l))

Fresh(fresh) ==
    /\ fresh \in [Sides -> Nat]
    /\ \A t \in Threads : pc[t] \in Growing => fresh[loc[t].side] = loc[t].old.next
    /\ \A s \in Sides : (\A t \in Threads : pc[t] \in Growing => loc[t].side # s)
                           => fresh[s] = state[s].next

\* The application has states of the sizes of the buckets, or back blocks, once each.
HeldOnce ==
    \A h \in DOMAIN held :
       /\ h \in States /\ held[h] = 1
       /\ IF h[1] < 0 THEN h[2] = BlockSize /\ h[1] + h[2] <= 0
          ELSE \E b \in Buckets : h[2] = Size(b)

\* A pop has read a head that is old or the present one, and then its link is the
\* present one too: the count tells them apart.
Popper(t) ==
    pc[t] \in {"pop", "pop_cas"} =>
       LET l == loc[t].list  cur == loc[t].cur IN
       /\ cur \in Heads /\ cur.count <= head[l].count
       /\ cur.count = head[l].count => cur = head[l]
       /\ l # Back => loc[t].want <= l
       /\ pc[t] = "pop_cas" => cur.offset # EMPTY /\ (cur = head[l] => loc[t].link = Read(cur.offset))

Items == [list : Lists, off : Int, n : Nat \ {0}]

\* A push has a chunk, or two for two lists, and links them in its own memory.
Pusher(t) ==
    /\ pc[t] \in Pushing =>
          LET push == loc[t].push IN
          /\ push \in Seq(Items) /\ Len(push) \in {1, 2}
          /\ Len(push) = 2 => push[1].list # push[2].list
          /\ \A j \in 1 .. Len(push) : OnSide(push[j].list, push[j].off, push[j].n * Size(push[j].list))
          /\ loc[t].want # NULL => loc[t].want \in Buckets /\ loc[t].off \in Nat
    /\ pc[t] = "push_cas" =>
          LET p == loc[t].push[1] IN
          \A i \in 0 .. p.n - 2 : Nth(p, i) \in DOMAIN next /\ next[Nth(p, i)] = Nth(p, i + 1)
    /\ pc[t] = "idle" => loc[t] = NoLocals

Memory(own, n, at, fresh) ==
    /\ Owned(own, n, at, fresh) /\ Apart(own) /\ Cover(own)
    /\ Stacks(n, at) /\ Fresh(fresh) /\ HeldOnce
    /\ \A t \in Threads : Popper(t) /\ Pusher(t)
    /\ IsFiniteSet(DOMAIN next)

MemInv == \E own, n, at, fresh : Memory(own, n, at, fresh)
-----------------------------------------------------------------------------
(***************************************************************************)
(* Preliminaries: induction, the owners, the sizes.                        *)
(***************************************************************************)
\* Every set of natural numbers has a least element.
LEMMA LeastOf ==
    ASSUME NEW S, S \subseteq Nat, S # {}
    PROVE  \E n \in S : \A m \in S : n <= m
<1> DEFINE R == OpToRel(<, Nat)
<1>1. IsWellFoundedOn(R, Nat)
  BY NatLessThanWellFounded
<1>2. \A a, b \in Nat : a < b => <<a, b>> \in R
  BY DEF OpToRel
<1> HIDE DEF R
<1>3. PICK n \in S : \A m \in S : ~(<<m, n>> \in R)
  BY <1>1, WFMin
<1>4. ASSUME NEW m \in S PROVE n <= m
  <2>1. n \in Nat /\ m \in Nat /\ ~(m < n)
    BY <1>2, <1>3
  <2> QED
    BY <2>1
<1> QED
  BY <1>3, <1>4

\* Induction: a set with 0 that is closed under the successor has all numbers.
LEMMA NatSetInduction ==
    ASSUME NEW S, 0 \in S, \A k \in Nat : k \in S => k + 1 \in S
    PROVE  Nat \subseteq S
<1> DEFINE T == Nat \ S
<1>1. SUFFICES ASSUME T # {} PROVE FALSE
  OBVIOUS
<1>2. T \subseteq Nat
  OBVIOUS
<1>3. PICK k \in T : \A m \in T : k <= m
  <2> HIDE DEF T
  <2> QED
    BY <1>1, <1>2, LeastOf
<1>4. k # 0 /\ k - 1 \in Nat /\ (k - 1) + 1 = k
  BY <1>3
<1>5. k - 1 \in S
  BY <1>3, <1>4
<1> QED
  BY <1>3, <1>4, <1>5

\* The owners are distinct values.
LEMMA OwnerNames ==
    /\ \A s, r : PoolOf(s) = PoolOf(r) => s = r
    /\ \A h, g : HeldAs(h) = HeldAs(g) => h = g
    /\ \A l, i, m, j : PlaceOn(l, i) = PlaceOn(m, j) => l = m /\ i = j
    /\ \A b, c : RestOf(b) = RestOf(c) => b = c
    /\ \A t, u : KeptBy(t) = KeptBy(u) => t = u
    /\ \A t, l, u, m : ItemOf(t, l) = ItemOf(u, m) => t = u /\ l = m
    /\ \A s, h : PoolOf(s) # HeldAs(h)
    /\ \A s, l, i : PoolOf(s) # PlaceOn(l, i)
    /\ \A s, b : PoolOf(s) # RestOf(b)
    /\ \A s, t : PoolOf(s) # KeptBy(t)
    /\ \A s, t, l : PoolOf(s) # ItemOf(t, l)
    /\ \A h, l, i : HeldAs(h) # PlaceOn(l, i)
    /\ \A h, b : HeldAs(h) # RestOf(b)
    /\ \A h, t : HeldAs(h) # KeptBy(t)
    /\ \A h, t, l : HeldAs(h) # ItemOf(t, l)
    /\ \A l, i, b : PlaceOn(l, i) # RestOf(b)
    /\ \A l, i, t : PlaceOn(l, i) # KeptBy(t)
    /\ \A l, i, t, m : PlaceOn(l, i) # ItemOf(t, m)
    /\ \A b, t : RestOf(b) # KeptBy(t)
    /\ \A b, t, l : RestOf(b) # ItemOf(t, l)
    /\ \A t, u, l : KeptBy(t) # ItemOf(u, l)
  BY DEF PoolOf, HeldAs, PlaceOn, RestOf, KeptBy, ItemOf

\* The owners, kind by kind.
LEMMA OwnerSet ==
    /\ \A s \in Sides : PoolOf(s) \in Owners
    /\ \A h \in States : HeldAs(h) \in Owners
    /\ \A l \in Lists, i \in Ranks : PlaceOn(l, i) \in Owners
    /\ \A b \in Buckets : RestOf(b) \in Owners
    /\ \A t \in Threads : KeptBy(t) \in Owners
    /\ \A t \in Threads, l \in Lists : ItemOf(t, l) \in Owners
    /\ \A x \in Owners : \/ \E s \in Sides : x = PoolOf(s)
                         \/ \E h \in States : x = HeldAs(h)
                         \/ \E l \in Lists, i \in Ranks : x = PlaceOn(l, i)
                         \/ \E b \in Buckets : x = RestOf(b)
                         \/ \E t \in Threads : x = KeptBy(t)
                         \/ \E t \in Threads, l \in Lists : x = ItemOf(t, l)
  BY DEF Owners

\* Memory that moves between the owners in S stays with one owner.
LEMMA Rearrange ==
    ASSUME NEW own \in [Owners -> SUBSET Int], Apart(own), Cover(own),
           NEW own2 \in [Owners -> SUBSET Int], NEW S, S \subseteq Owners,
           \A x \in Owners \ S : own2[x] = own[x],
           \A x, y \in S : x # y => own2[x] \cap own2[y] = {},
           \A u \in Int : (\E x \in S : u \in own2[x]) <=> (\E x \in S : u \in own[x])
    PROVE  Apart(own2) /\ Cover(own2)
<1>1. Apart(own2)
  <2> SUFFICES ASSUME NEW x \in Owners, NEW y \in Owners, x # y, NEW u \in own2[x], u \in own2[y]
               PROVE  FALSE
    BY DEF Apart
  <2>0. u \in Int
    OBVIOUS
  <2>1. CASE x \in S /\ y \in S
    BY <2>1
  <2>2. CASE x \notin S /\ y \notin S
    BY <2>2 DEF Apart
  <2>3. CASE x \in S /\ y \notin S
    <3>1. PICK z \in S : u \in own[z]
      BY <2>0, <2>3
    <3> QED
      BY <2>3, <3>1 DEF Apart
  <2>4. CASE x \notin S /\ y \in S
    <3>1. PICK z \in S : u \in own[z]
      BY <2>0, <2>4
    <3> QED
      BY <2>4, <3>1 DEF Apart
  <2> QED
    BY <2>1, <2>2, <2>3, <2>4
<1>2. Cover(own2)
  <2> SUFFICES ASSUME NEW u \in Int PROVE \E x \in Owners : u \in own2[x]
    BY DEF Cover
  <2>1. PICK x \in Owners : u \in own[x]
    BY DEF Cover
  <2> QED
    BY <2>1
<1> QED
  BY <1>1, <1>2

\* From one owner to another.
LEMMA Handover ==
    ASSUME NEW own \in [Owners -> SUBSET Int], Apart(own), Cover(own),
           NEW own2 \in [Owners -> SUBSET Int], NEW a \in Owners, NEW b \in Owners, a # b,
           \A x \in Owners \ {a, b} : own2[x] = own[x],
           own2[a] \cap own2[b] = {},
           own2[a] \cup own2[b] = own[a] \cup own[b]
    PROVE  Apart(own2) /\ Cover(own2)
<1> DEFINE S == {a, b}
<1>1. S \subseteq Owners /\ \A x \in Owners \ S : own2[x] = own[x]
  OBVIOUS
<1>2. \A x, y \in S : x # y => own2[x] \cap own2[y] = {}
  OBVIOUS
<1>3. \A u \in Int : (\E x \in S : u \in own2[x]) <=> (\E x \in S : u \in own[x])
  OBVIOUS
<1> HIDE DEF S
<1> QED
  BY <1>1, <1>2, <1>3, Rearrange

\* From one owner to two.
LEMMA Division ==
    ASSUME NEW own \in [Owners -> SUBSET Int], Apart(own), Cover(own),
           NEW own2 \in [Owners -> SUBSET Int],
           NEW a \in Owners, NEW b \in Owners, NEW c \in Owners, a # b, a # c, b # c,
           \A x \in Owners \ {a, b, c} : own2[x] = own[x],
           own2[a] \cap own2[b] = {}, own2[a] \cap own2[c] = {}, own2[b] \cap own2[c] = {},
           own2[a] \cup own2[b] \cup own2[c] = own[a] \cup own[b] \cup own[c]
    PROVE  Apart(own2) /\ Cover(own2)
<1> DEFINE S == {a, b, c}
<1>1. S \subseteq Owners /\ \A x \in Owners \ S : own2[x] = own[x]
  OBVIOUS
<1>2. \A x, y \in S : x # y => own2[x] \cap own2[y] = {}
  OBVIOUS
<1>3. \A u \in Int : (\E x \in S : u \in own2[x]) <=> (\E x \in S : u \in own[x])
  OBVIOUS
<1> HIDE DEF S
<1> QED
  BY <1>1, <1>2, <1>3, Rearrange

\* A state is put into the bag of the application, and taken out.
Gains(h) == held' = held (+) SetToBag({h})
Loses(h) == held' = held (-) SetToBag({h})

\* A state that was not in the bag is in it once.
LEMMA BagAdd ==
    ASSUME NEW h, Gains(h), h \notin DOMAIN held, \A g \in DOMAIN held : held[g] = 1
    PROVE  DOMAIN held' = DOMAIN held \cup {h} /\ \A g \in DOMAIN held' : held'[g] = 1
  BY DEF Gains, (+), SetToBag

\* A state that was in the bag once is not in it any more.
LEMMA BagRemove ==
    ASSUME NEW h \in DOMAIN held, Loses(h), \A g \in DOMAIN held : held[g] = 1
    PROVE  DOMAIN held' = DOMAIN held \ {h} /\ \A g \in DOMAIN held' : held'[g] = 1
  BY DEF Loses, (-), SetToBag

\* What a bucket's states add up to in a state of a larger bucket.
LEMMA SizesDivide ==
    /\ BlockBucket \in Buckets /\ BlockSize = Size(BlockBucket) /\ Size(Back) = BlockSize
    /\ \A l \in Lists : Size(l) \in Nat /\ Size(l) > 0
    /\ \A b, c \in Buckets : b < c => \E k \in Nat \ {0} : Size(c) = Size(b) + k * Size(b)
    /\ \A b, c \in Buckets : Size(b) < Size(c) <=> b < c
<1>1. BlockBucket \in Buckets /\ BlockSize = Size(BlockBucket) /\ Size(Back) = BlockSize
  BY AnvAssumption DEF Size, BlockSize
<1>2. \A l \in Lists : Size(l) \in Nat /\ Size(l) > 0
  BY <1>1, SizeFacts DEF Lists
<1>3. ASSUME NEW b \in Buckets, NEW c \in Buckets, b < c
      PROVE  (\E k \in Nat \ {0} : Size(c) = Size(b) + k * Size(b)) /\ Size(b) < Size(c)
  <2>1. PICK k \in 2 .. Size(c) : Size(c) = k * Size(b)
    BY <1>3, PowersAssumption
  <2>2. Size(b) \in Nat /\ Size(b) > 0 /\ Size(c) \in Nat
    BY SizeFacts
  <2>3. k - 1 \in Nat \ {0} /\ Size(c) = Size(b) + (k - 1) * Size(b)
    BY <2>1, <2>2
  <2>4. (k - 1) * Size(b) > 0
    BY <2>2, <2>3
  <2>5. (k - 1) * Size(b) \in Nat
    BY <2>2, <2>3
  <2> HIDE DEF Size
  <2> QED
    BY <2>2, <2>3, <2>4, <2>5
<1>4. \A b, c \in Buckets : b \in Int /\ c \in Int /\ Size(b) \in Nat /\ Size(c) \in Nat
  BY SizeFacts DEF Buckets
<1>5. ASSUME NEW b \in Buckets, NEW c \in Buckets, Size(b) < Size(c) PROVE b < c
  <2>1. b < c \/ b = c \/ c < b
    BY <1>4
  <2>2. b # c /\ ~(c < b)
    BY <1>3, <1>4, <1>5
  <2> QED
    BY <2>1, <2>2
<1> QED
  BY <1>1, <1>2, <1>3, <1>5

\* The chunks a thread has to push, one or two of them.
LEMMA ItemSeq ==
    ASSUME NEW q, q \in Seq(Items), Len(q) \in {1, 2}
    PROVE  /\ 1 \in 1 .. Len(q) /\ Head(q) = q[1]
           /\ \A j \in 1 .. Len(q) : q[j] \in Items
           /\ Len(q) = 2 => /\ Tail(q) \in Seq(Items) /\ Len(Tail(q)) = 1 /\ Tail(q)[1] = q[2]
                            /\ 1 .. Len(q) = {1, 2} /\ 1 .. Len(Tail(q)) = {1}
           /\ Len(q) = 1 => 1 .. Len(q) = {1}
<1> HIDE DEF Items
<1>1. 1 \in 1 .. Len(q) /\ \A j \in 1 .. Len(q) : q[j] \in Items
  OBVIOUS
<1>2. Head(q) = q[1]
  BY <1>1
<1>3. Len(q) = 1 => 1 .. Len(q) = {1}
  OBVIOUS
<1>4. ASSUME Len(q) = 2
      PROVE  /\ Tail(q) \in Seq(Items) /\ Len(Tail(q)) = 1 /\ Tail(q)[1] = q[2]
             /\ 1 .. Len(q) = {1, 2} /\ 1 .. Len(Tail(q)) = {1}
  <2>1. q # <<>> /\ Tail(q) \in Seq(Items)
    BY <1>4
  <2>2. Len(Tail(q)) = 1
    BY <1>4, <2>1
  <2>3. Tail(q)[1] = q[2]
    BY <1>4, <2>1, <2>2
  <2>4. 1 .. 2 = {1, 2} /\ 1 .. 1 = {1}
    OBVIOUS
  <2> QED
    BY <1>4, <2>1, <2>2, <2>3, <2>4
<1> QED
  BY <1>1, <1>2, <1>3, <1>4
-----------------------------------------------------------------------------
(***************************************************************************)
(* What a step of one thread leaves to the others.                         *)
(***************************************************************************)
\* The states of a chunk lie one after the other, and the chunk is made of them.
LEMMA NthFacts ==
    ASSUME NEW p \in Items
    PROVE  /\ Nth(p, 0) = p.off
           /\ \A i \in Int : Nth(p, i) \in Int /\ Nth(p, i + 1) = Nth(p, i) + Size(p.list)
           /\ \A i, j \in Int : i < j => Nth(p, i) + Size(p.list) <= Nth(p, j)
           /\ Chunk(p) = p.off .. Nth(p, p.n) - 1 /\ Chunk(p) \subseteq Int
           /\ \A i \in 0 .. p.n - 1 : Extent(Nth(p, i), Size(p.list)) \subseteq Chunk(p)
           /\ \A u \in Chunk(p) : \E i \in 0 .. p.n - 1 : u \in Extent(Nth(p, i), Size(p.list))
<1> DEFINE s == Size(p.list)
<1>0. s \in Nat /\ s > 0 /\ p.off \in Int /\ p.n \in Nat /\ p.n > 0
  BY SizesDivide DEF Items
<1>1. \A i \in Int : Nth(p, i) = p.off + i * s
  BY DEF Nth
<1> HIDE DEF s
<1>2. Nth(p, 0) = p.off
  BY <1>0, <1>1
<1>3. ASSUME NEW i \in Int PROVE Nth(p, i) \in Int /\ Nth(p, i + 1) = Nth(p, i) + s
  <2>1. Nth(p, i) = p.off + i * s /\ Nth(p, i + 1) = p.off + (i + 1) * s
    BY <1>1
  <2>2. (i + 1) * s = i * s + s /\ i * s \in Int
    BY <1>0
  <2> QED
    BY <1>0, <2>1, <2>2
<1>4. ASSUME NEW i \in Int, NEW j \in Int, i < j PROVE Nth(p, i) + s <= Nth(p, j)
  <2>1. (j - i) * s >= s
    <3>1. j - i >= 1
      BY <1>4
    <3> QED
      BY <1>0, <3>1
  <2>2. j * s = i * s + (j - i) * s /\ i * s \in Int /\ j * s \in Int /\ (j - i) * s \in Int
    BY <1>0
  <2>3. Nth(p, i) = p.off + i * s /\ Nth(p, j) = p.off + j * s
    BY <1>1
  <2> DEFINE a == i * s  b == j * s  d == (j - i) * s
  <2>4. /\ d >= s /\ b = a + d /\ a \in Int /\ b \in Int /\ d \in Int
        /\ Nth(p, i) = p.off + a /\ Nth(p, j) = p.off + b
    BY <2>1, <2>2, <2>3
  <2> HIDE DEF a, b, d
  <2> QED
    BY <1>0, <2>4
<1>5. Chunk(p) = p.off .. Nth(p, p.n) - 1 /\ Chunk(p) \subseteq Int
  <2>1. Nth(p, p.n) = p.off + p.n * s
    BY <1>0, <1>1
  <2>2. Chunk(p) = p.off .. p.off + p.n * s - 1
    BY DEF Chunk, Extent, s
  <2> QED
    BY <1>0, <2>1, <2>2
<1>6. ASSUME NEW i \in 0 .. p.n - 1 PROVE Extent(Nth(p, i), s) \subseteq Chunk(p)
  <2>1. Nth(p, i) + s <= Nth(p, p.n)
    BY <1>0, <1>4
  <2>2. Nth(p, i) >= p.off
    <3>1. CASE i = 0
      BY <1>0, <1>2, <3>1
    <3>2. CASE i # 0
      <4>1. Nth(p, 0) + s <= Nth(p, i)
        BY <1>0, <1>4, <3>2
      <4> QED
        BY <1>0, <1>2, <1>3, <4>1
    <3> QED
      BY <3>1, <3>2
  <2>3. Nth(p, i) \in Int /\ Nth(p, p.n) \in Int
    BY <1>0, <1>3
  <2> QED
    BY <1>0, <1>5, <2>1, <2>2, <2>3 DEF Extent
<1>7. ASSUME NEW u \in Chunk(p) PROVE \E i \in 0 .. p.n - 1 : u \in Extent(Nth(p, i), s)
  <2> DEFINE S == {i \in Nat : u < Nth(p, i)}
  <2>1. u \in Int /\ p.off <= u /\ u < Nth(p, p.n) /\ Nth(p, p.n) \in Int
    <3>1. Nth(p, p.n) \in Int
      BY <1>0, <1>3
    <3>2. u \in p.off .. Nth(p, p.n) - 1
      BY <1>5
    <3> QED
      BY <1>0, <3>1, <3>2
  <2>2. p.n \in S
    BY <1>0, <2>1
  <2>3. PICK i \in S : \A j \in S : i <= j
    <3>1. S \subseteq Nat /\ S # {}
      BY <2>2
    <3> HIDE DEF S
    <3> QED
      BY <3>1, LeastOf
  <2>4. i \in Nat /\ u < Nth(p, i) /\ i <= p.n
    BY <2>2, <2>3
  <2>5. i # 0
    BY <1>0, <1>2, <2>1, <2>4
  <2>6. i - 1 \in Nat /\ i - 1 \notin S
    BY <2>3, <2>4, <2>5
  <2>7. ~(u < Nth(p, i - 1))
    BY <2>6
  <2>8. Nth(p, i) = Nth(p, i - 1) + s /\ Nth(p, i - 1) \in Int
    <3>1. Nth(p, (i - 1) + 1) = Nth(p, i - 1) + s /\ Nth(p, i - 1) \in Int
      BY <1>3, <2>6
    <3>2. (i - 1) + 1 = i
      BY <2>4
    <3> QED
      BY <3>1, <3>2
  <2>9. u \in Extent(Nth(p, i - 1), s)
    BY <1>0, <2>1, <2>4, <2>7, <2>8 DEF Extent
  <2>10. i - 1 \in 0 .. p.n - 1
    BY <1>0, <2>4, <2>6
  <2> QED
    BY <2>9, <2>10
<1> QED
  BY <1>2, <1>3, <1>4, <1>5, <1>6, <1>7 DEF s

\* What the other threads have to do with a step of thread t: nothing, or they are woken.
Others(t) ==
    \A u \in Threads : u # t =>
       /\ loc'[u] = loc[u]
       /\ \/ pc'[u] = pc[u]
          \/ pc[u] \in {"bucket_sleep", "pool_sleep"} /\ pc'[u] \in {"bucket", "pool"}

\* The other threads keep what they have.
LEMMA OthersUnits ==
    ASSUME NEW t \in Threads, NEW u \in Threads, u # t, Others(t)
    PROVE  KeptUnits(u)' = KeptUnits(u) /\ \A l \in Lists : ItemUnits(u, l)' = ItemUnits(u, l)
<1>1. CASE pc'[u] = pc[u] /\ loc'[u] = loc[u]
  <2>1. KeptUnits(u)' = KeptUnits(u)
    BY <1>1 DEF KeptUnits, Want
  <2>2. \A l \in Lists : ItemUnits(u, l)' = ItemUnits(u, l)
    BY <1>1 DEF ItemUnits
  <2> QED
    BY <2>1, <2>2
<1>2. CASE pc[u] \in {"bucket_sleep", "pool_sleep"} /\ pc'[u] \in {"bucket", "pool"}
  BY <1>2 DEF KeptUnits, ItemUnits, Pushing
<1> QED
  BY <1>1, <1>2 DEF Others

\* The links outside W are not written.
WritesOnly(W) ==
    \A o : o \notin W => /\ o \in DOMAIN next' <=> o \in DOMAIN next
                         /\ o \in DOMAIN next => next'[o] = next[o]

\* A list that is not changed keeps its count, one that is changed gets another one.
CountsGrow == \A l \in Lists : head'[l] = head[l] \/ head'[l].count > head[l].count

\* The first state of list l.
Top(n, at, l) == at[l][n[l]]

\* The other threads still pop with an outdated head or a link that is still right, and
\* their chains are still linked.
LEMMA OthersStep ==
    ASSUME NEW own, NEW n, NEW at, NEW fresh, Memory(own, n, at, fresh), SleepInv,
           NEW t \in Threads, Others(t), NEW W, WritesOnly(W), CountsGrow,
           DOMAIN head' = Lists, \A l \in Lists : head'[l] \in Heads,
           \A u \in Threads, l \in Lists : u # t => W \cap own[ItemOf(u, l)] = {},
           \A l \in Lists : head'[l] = head[l] /\ n[l] # 0 => Top(n, at, l) \notin W
    PROVE  \A u \in Threads : u # t => Popper(u)' /\ Pusher(u)'
<1> SUFFICES ASSUME NEW u \in Threads, u # t PROVE Popper(u)' /\ Pusher(u)'
  OBVIOUS
<1>0. Popper(u) /\ Pusher(u) /\ LocAt(u) /\ PoolTyped /\ Stacks(n, at) /\ Owned(own, n, at, fresh)
  BY DEF Memory, SleepInv
<1>1. CASE pc'[u] \in {"bucket", "pool"}
  BY <1>1 DEF Popper, Pusher, Pushing
<1>2. CASE pc'[u] = pc[u] /\ loc'[u] = loc[u]
  <2>1. Popper(u)'
    <3>1. CASE pc[u] \in {"pop", "pop_cas"}
      <4> DEFINE l == loc[u].list  cur == loc[u].cur
      <4>1. l \in Lists
        BY <1>0, <3>1 DEF LocAt, Lists
      <4>2. /\ cur \in Heads /\ cur.count <= head[l].count
            /\ cur.count = head[l].count => cur = head[l]
            /\ l # Back => loc[u].want <= l
            /\ pc[u] = "pop_cas" => cur.offset # EMPTY /\ (cur = head[l] => loc[u].link = Read(cur.offset))
        BY <1>0, <3>1 DEF Popper
      <4>3. head[l] \in Heads /\ head'[l] \in Heads
        BY <1>0, <4>1 DEF Stacks
      <4>4. head'[l] = head[l] \/ head'[l].count > head[l].count
        BY <4>1 DEF CountsGrow
      <4>5. cur.count \in Nat /\ head[l].count \in Nat /\ head'[l].count \in Nat
        BY <4>2, <4>3 DEF Heads
      <4>6. cur.count <= head'[l].count /\ (cur.count = head'[l].count => cur = head'[l] /\ head'[l] = head[l])
        BY <4>2, <4>4, <4>5
      <4>7. ASSUME pc[u] = "pop_cas", cur = head'[l]
            PROVE  loc[u].link = Read(cur.offset)'
        <5>1. head'[l] = head[l]
          BY <4>6, <4>7
        <5>2. cur.offset = head[l].offset /\ cur.offset # EMPTY /\ loc[u].link = Read(cur.offset)
          BY <4>2, <4>7, <5>1
        <5>3. n[l] # 0 /\ cur.offset = Top(n, at, l)
          BY <1>0, <4>1, <5>2 DEF Stacks, Top
        <5>4. cur.offset \notin W
          BY <4>1, <5>1, <5>3
        <5>5. Read(cur.offset)' = IF cur.offset \in DOMAIN next' THEN next'[cur.offset] ELSE GARBAGE
          BY <1>2 DEF Read
        <5> QED
          BY <5>2, <5>4, <5>5 DEF WritesOnly, Read
      <4> HIDE DEF l, cur
      <4>8. /\ cur \in Heads /\ cur.count <= head'[l].count
            /\ cur.count = head'[l].count => cur = head'[l]
            /\ l # Back => loc[u].want <= l
            /\ pc[u] = "pop_cas" => cur.offset # EMPTY /\ (cur = head'[l] => loc[u].link = Read(cur.offset)')
        BY <4>2, <4>6, <4>7
      <4> QED
        BY <1>2, <4>8 DEF Popper, l, cur, Read
    <3>2. CASE pc[u] \notin {"pop", "pop_cas"}
      BY <1>2, <3>2 DEF Popper
    <3> QED
      BY <3>1, <3>2
  <2>2. Pusher(u)'
    <3>1. CASE pc[u] = "push_cas"
      <4> DEFINE push == loc[u].push  p == loc[u].push[1]
      <4>1. push \in Seq(Items) /\ Len(push) \in {1, 2}
        BY <1>0, <3>1 DEF Pusher, Pushing
      <4>2. p \in Items /\ 1 \in 1 .. Len(push)
        BY <4>1, ItemSeq
      <4>3. Chunk(p) \subseteq own[ItemOf(u, p.list)]
        <5>1. own[ItemOf(u, p.list)] = ItemUnits(u, p.list)
          BY <1>0, <4>2 DEF Owned, Items
        <5>2. Chunk(p) \subseteq Int
          BY <4>2, NthFacts
        <5> QED
          BY <3>1, <4>2, <5>1, <5>2 DEF ItemUnits, Pushing
      <4>4. W \cap own[ItemOf(u, p.list)] = {}
        BY <4>2 DEF Items
      <4>5. ASSUME NEW i \in 0 .. p.n - 2
            PROVE  Nth(p, i) \in DOMAIN next' /\ next'[Nth(p, i)] = Nth(p, i + 1)
        <5>1. Nth(p, i) \in DOMAIN next /\ next[Nth(p, i)] = Nth(p, i + 1)
          BY <1>0, <3>1 DEF Pusher
        <5>2. p.n \in Nat /\ p.list \in Lists
          BY <4>2 DEF Items
        <5>3. i \in 0 .. p.n - 1 /\ i \in Int
          BY <5>2
        <5>4. Extent(Nth(p, i), Size(p.list)) \subseteq Chunk(p) /\ Nth(p, i) \in Int
          BY <4>2, <5>3, NthFacts
        <5>5. Size(p.list) \in Nat /\ Size(p.list) > 0
          BY <5>2, SizesDivide
        <5>6. Nth(p, i) \in Extent(Nth(p, i), Size(p.list))
          BY <5>4, <5>5 DEF Extent
        <5>7. Nth(p, i) \notin W
          BY <4>3, <4>4, <5>4, <5>6
        <5> QED
          BY <5>1, <5>7 DEF WritesOnly
      <4> HIDE DEF p
      <4>6. loc'[u].push[1] = p
        BY <1>2 DEF p
      <4> QED
        BY <1>0, <1>2, <3>1, <4>5, <4>6 DEF Pusher, Nth, Pushing, OnSide
    <3>2. CASE pc[u] # "push_cas"
      BY <1>0, <1>2, <3>2 DEF Pusher, OnSide
    <3> QED
      BY <3>1, <3>2
  <2> QED
    BY <2>1, <2>2
<1> QED
  BY <1>1, <1>2 DEF Others

\* The parts of the invariant after a step of thread t that writes in W.
LEMMA MemoryStep ==
    ASSUME NEW own, NEW n, NEW at, NEW fresh, Memory(own, n, at, fresh), SleepInv,
           NEW t \in Threads, Others(t), NEW W, WritesOnly(W), CountsGrow,
           \A u \in Threads, l \in Lists : u # t => W \cap own[ItemOf(u, l)] = {},
           \A l \in Lists : head'[l] = head[l] /\ n[l] # 0 => Top(n, at, l) \notin W,
           NEW own2, NEW n2, NEW at2, NEW fresh2,
           own2 \in [Owners -> SUBSET Int], Apart(own2), Cover(own2),
           \A u \in Threads : u # t => /\ own2[KeptBy(u)] = own[KeptBy(u)]
                                       /\ \A l \in Lists : own2[ItemOf(u, l)] = own[ItemOf(u, l)],
           \A s \in Sides : own2[PoolOf(s)] = Beyond(s, fresh2[s]),
           \A h \in States : own2[HeldAs(h)] = HeldUnits(h)',
           \A l \in Lists, i \in Ranks : own2[PlaceOn(l, i)] = PlaceUnits(n2, at2, l, i),
           \A b \in Buckets : own2[RestOf(b)] = RestUnits(b)',
           own2[KeptBy(t)] = KeptUnits(t)',
           \A l \in Lists : own2[ItemOf(t, l)] = ItemUnits(t, l)',
           Stacks(n2, at2)', Fresh(fresh2)', HeldOnce', Popper(t)', Pusher(t)',
           IsFiniteSet(DOMAIN next')
    PROVE  MemInv'
<1>0. Owned(own, n, at, fresh)
  BY DEF Memory
<1>1. \A u \in Threads : u # t => Popper(u)' /\ Pusher(u)'
  BY OthersStep DEF Stacks
<1>2. \A u \in Threads : own2[KeptBy(u)] = KeptUnits(u)'
  BY <1>0, OthersUnits DEF Owned
<1>3. \A u \in Threads, l \in Lists : own2[ItemOf(u, l)] = ItemUnits(u, l)'
  BY <1>0, OthersUnits DEF Owned
<1>4. \A s \in Sides : Beyond(s, fresh2[s])' = Beyond(s, fresh2[s])
  BY DEF Beyond
<1>5. \A l \in Lists, i \in Ranks : PlaceUnits(n2, at2, l, i)' = PlaceUnits(n2, at2, l, i)
  BY DEF PlaceUnits
<1>6. Owned(own2, n2, at2, fresh2)'
  BY <1>2, <1>3, <1>4, <1>5 DEF Owned
<1>7. Memory(own2, n2, at2, fresh2)'
  BY <1>1, <1>6 DEF Memory, Apart, Cover
<1> QED
  BY <1>7 DEF MemInv

\* A step that leaves the memory alone.
LEMMA Quiet ==
    ASSUME NEW own, NEW n, NEW at, NEW fresh, Memory(own, n, at, fresh), SleepInv,
           NEW t \in Threads, Others(t), UNCHANGED <<head, next, held>>,
           \A b \in Buckets : RestUnits(b)' = RestUnits(b),
           Fresh(fresh)', Popper(t)', Pusher(t)',
           KeptUnits(t)' = KeptUnits(t),
           \A l \in Lists : ItemUnits(t, l)' = ItemUnits(t, l)
    PROVE  MemInv'
<1>0. /\ Owned(own, n, at, fresh) /\ Apart(own) /\ Cover(own) /\ Stacks(n, at) /\ HeldOnce
      /\ IsFiniteSet(DOMAIN next)
  BY DEF Memory
<1>1. WritesOnly({}) /\ CountsGrow
  BY DEF WritesOnly, CountsGrow
<1>2. Stacks(n, at)'
  BY <1>0 DEF Stacks
<1>3. HeldOnce'
  BY <1>0 DEF HeldOnce
<1>4. /\ own \in [Owners -> SUBSET Int]
      /\ \A s \in Sides : own[PoolOf(s)] = Beyond(s, fresh[s])
      /\ \A l \in Lists, i \in Ranks : own[PlaceOn(l, i)] = PlaceUnits(n, at, l, i)
  BY <1>0 DEF Owned
<1>5. \A h \in States : own[HeldAs(h)] = HeldUnits(h)'
  BY <1>0 DEF Owned, HeldUnits
<1>6. /\ \A b \in Buckets : own[RestOf(b)] = RestUnits(b)'
      /\ own[KeptBy(t)] = KeptUnits(t)'
      /\ \A l \in Lists : own[ItemOf(t, l)] = ItemUnits(t, l)'
  BY <1>0 DEF Owned
<1>7. IsFiniteSet(DOMAIN next')
  BY <1>0
<1> DEFINE W == {}
<1>8. /\ WritesOnly(W)
      /\ \A u \in Threads, l \in Lists : u # t => W \cap own[ItemOf(u, l)] = {}
      /\ \A l \in Lists : head'[l] = head[l] /\ n[l] # 0 => Top(n, at, l) \notin W
  BY <1>1
<1> HIDE DEF W
<1> QED
  BY <1>0, <1>1, <1>2, <1>3, <1>4, <1>5, <1>6, <1>7, <1>8, MemoryStep

\* The pool does not change, nor who grows it.
LEMMA FreshSame ==
    ASSUME NEW fresh, Fresh(fresh), NEW t \in Threads, Others(t), UNCHANGED state,
           pc'[t] \in Growing <=> pc[t] \in Growing,
           pc[t] \in Growing => loc'[t].side = loc[t].side /\ loc'[t].old = loc[t].old
    PROVE  Fresh(fresh)'
<1>1. \A u \in Threads : /\ pc'[u] \in Growing <=> pc[u] \in Growing
                         /\ pc[u] \in Growing => loc'[u].side = loc[u].side /\ loc'[u].old = loc[u].old
  BY DEF Others, Growing
<1> QED
  BY <1>1 DEF Fresh
-----------------------------------------------------------------------------
(***************************************************************************)
(* Steps that move no memory.                                              *)
(***************************************************************************)
\* The places of a thread that has memory.
Having == Pushing \cup {"pool_wake", "pool_got", "bucket_xchg", "bucket_wake"}

\* A thread has memory only while it pushes or returns from the pool.
LEMMA NoUnits ==
    ASSUME NEW t
    PROVE  /\ pc[t] \notin Having => KeptUnits(t) = {} /\ \A l \in Lists : ItemUnits(t, l) = {}
           /\ pc'[t] \notin Having => KeptUnits(t)' = {} /\ \A l \in Lists : ItemUnits(t, l)' = {}
  BY DEF Having, KeptUnits, ItemUnits

\* A step of thread t that moves only thread t.
LEMMA OthersOwn ==
    ASSUME PoolTyped, NEW t \in Threads, NEW x, pc' = [pc EXCEPT ![t] = x],
           \A u \in Threads : u # t => loc'[u] = loc[u]
    PROVE  Others(t) /\ pc'[t] = x
  BY DEF PoolTyped, Others

\* A step between places where a thread has nothing.
LEMMA QuietMove ==
    ASSUME NEW own, NEW n, NEW at, NEW fresh, Memory(own, n, at, fresh), SleepInv,
           NEW t \in Threads, Others(t), UNCHANGED <<head, next, held>>,
           \A b \in Buckets : RestUnits(b)' = RestUnits(b),
           Fresh(fresh)', Popper(t)', pc[t] \notin Having, pc'[t] \notin Having, pc'[t] # "idle"
    PROVE  MemInv'
<1>1. Pusher(t)'
  BY DEF Pusher, Having, Pushing
<1>2. KeptUnits(t)' = KeptUnits(t) /\ \A l \in Lists : ItemUnits(t, l)' = ItemUnits(t, l)
  BY NoUnits
<1> QED
  BY <1>1, <1>2, Quiet

\* The beginning of an allocation, and the search for a list with a state on it.
LEMMA SearchSteps ==
    ASSUME NEW own, NEW n, NEW at, NEW fresh, Memory(own, n, at, fresh), SleepInv,
           NEW t \in Threads,
           (\E b \in Requests : Alloc(t, b)) \/ Pop(t) \/ (PopCas(t) /\ head[loc[t].list] # loc[t].cur)
    PROVE  MemInv'
<1> USE AnvAssumption
<1>0. PoolTyped /\ LocAt(t) /\ Popper(t) /\ Stacks(n, at) /\ Fresh(fresh)
  BY DEF SleepInv, Memory
<1>1. UNCHANGED <<head, next, held, block, state>>
  BY DEF Alloc, Pop, PopCas, pool
<1>2. \A b \in Buckets : RestUnits(b)' = RestUnits(b)
  BY <1>1 DEF RestUnits
<1>3. \A u \in Threads : u # t => loc'[u] = loc[u]
  BY <1>0, LocFacts DEF Alloc, Pop, PopCas
<1>4. pc[t] \in {"idle", "pop", "pop_cas"}
  BY DEF Alloc, Pop, PopCas
<1>5. ASSUME NEW x \in {"pop", "pop_cas", "bucket", "pool"}, pc' = [pc EXCEPT ![t] = x], Popper(t)'
      PROVE  MemInv'
  <2>1. Others(t) /\ pc'[t] = x
    BY <1>0, <1>3, <1>5, OthersOwn
  <2>2. pc[t] \notin Having /\ x \notin Having /\ x # "idle" /\ pc[t] \notin Growing /\ x \notin Growing
    BY <1>4 DEF Having, Pushing, Growing
  <2>3. Fresh(fresh)'
    BY <1>0, <1>1, <2>1, <2>2, FreshSame
  <2> QED
    BY <1>1, <1>2, <1>5, <2>1, <2>2, <2>3, QuietMove
<1>6. \A l \in Lists : head[l] \in Heads /\ head[l].count \in Nat
  BY <1>0 DEF Stacks, Heads
\* The head of list l has just been read.
<1>7. ASSUME NEW l \in Lists, pc' = [pc EXCEPT ![t] = "pop"],
             loc'[t].list = l, loc'[t].cur = head[l], l # Back => loc'[t].want <= l
      PROVE  MemInv'
  <2>1. pc'[t] = "pop"
    BY <1>0, <1>7 DEF PoolTyped
  <2>2. Popper(t)'
    BY <1>1, <1>6, <1>7, <2>1 DEF Popper
  <2> QED
    BY <1>5, <1>7, <2>2
<1>8. ASSUME NEW b \in Requests, Alloc(t, b) PROVE MemInv'
  <2>1. b \in Lists
    OBVIOUS
  <2>2. pc' = [pc EXCEPT ![t] = "pop"]
    BY <1>8 DEF Alloc, Goto
  <2>3. loc'[t].list = b /\ loc'[t].cur = head[b] /\ loc'[t].want = b
    BY <1>0, <1>8, LocFacts DEF Alloc
  <2>4. b # Back => b <= b
    BY <2>1 DEF Lists, Buckets
  <2> QED
    BY <1>7, <2>1, <2>2, <2>3, <2>4
<1>9. CASE PopCas(t) /\ head[loc[t].list] # loc[t].cur
  <2>0. pc[t] = "pop_cas"
    BY <1>9 DEF PopCas
  <2>1. loc[t].list \in Lists /\ (loc[t].list # Back => loc[t].want <= loc[t].list)
    BY <1>0, <2>0 DEF LocAt, Lists, Popper
  <2>2. pc' = [pc EXCEPT ![t] = "pop"]
    BY <1>9 DEF PopCas, Goto
  <2>3. loc' = [loc EXCEPT ![t].cur = head[loc[t].list]]
    BY <1>9 DEF PopCas
  <2>4. loc'[t].list = loc[t].list /\ loc'[t].cur = head[loc[t].list] /\ loc'[t].want = loc[t].want
    BY <1>0, <2>3, LocFacts
  <2> QED
    BY <1>7, <2>1, <2>2, <2>4
<1>10. CASE Pop(t)
  <2> DEFINE l == loc[t].list
  <2>0. pc[t] = "pop"
    BY <1>10 DEF Pop
  <2>1. /\ l \in Lists /\ (l # Back => loc[t].want <= l)
        /\ loc[t].cur \in Heads /\ loc[t].cur.count <= head[l].count
        /\ loc[t].cur.count = head[l].count => loc[t].cur = head[l]
        /\ l \in Buckets => loc[t].want \in Buckets
    BY <1>0, <2>0 DEF LocAt, Lists, Popper
  <2>2. CASE loc[t].cur.offset # EMPTY
    <3>1. pc' = [pc EXCEPT ![t] = "pop_cas"] /\ loc' = [loc EXCEPT ![t].link = Read(loc[t].cur.offset)]
      BY <1>10, <2>2 DEF Pop, Goto
    <3>2. /\ loc'[t].list = l /\ loc'[t].cur = loc[t].cur /\ loc'[t].want = loc[t].want
          /\ loc'[t].link = Read(loc[t].cur.offset)
      BY <1>0, <3>1, LocFacts
    <3>3. pc'[t] = "pop_cas"
      BY <1>0, <3>1 DEF PoolTyped
    <3>4. Popper(t)'
      BY <1>1, <2>1, <2>2, <3>2, <3>3 DEF Popper, Read
    <3> QED
      BY <1>5, <3>1, <3>4
  <2>3. CASE loc[t].cur.offset = EMPTY /\ l \in Buckets \ {MaxBucket}
    <3>1. loc' = [loc EXCEPT ![t].list = l + 1, ![t].cur = head[l + 1]] /\ pc' = pc
      BY <1>10, <2>3 DEF Pop
    <3>2. pc' = [pc EXCEPT ![t] = "pop"]
      BY <1>0, <2>0, <3>1 DEF PoolTyped
    <3>3. loc'[t].list = l + 1 /\ loc'[t].cur = head[l + 1] /\ loc'[t].want = loc[t].want
      BY <1>0, <3>1, LocFacts
    <3>4. l + 1 \in Buckets /\ loc[t].want <= l + 1
      BY <2>1, <2>3 DEF Buckets
    <3> QED
      BY <1>7, <3>2, <3>3, <3>4 DEF Lists
  <2>4. CASE loc[t].cur.offset = EMPTY /\ l \notin Buckets \ {MaxBucket}
    <3>1. PICK x \in {"bucket", "pool"} : pc' = [pc EXCEPT ![t] = x]
      BY <1>10, <2>4 DEF Pop, Goto
    <3>2. pc'[t] = x
      BY <1>0, <3>1 DEF PoolTyped
    <3>3. Popper(t)'
      BY <3>2 DEF Popper
    <3> QED
      BY <1>5, <3>1, <3>3
  <2> QED
    BY <2>2, <2>3, <2>4
<1> QED
  BY <1>8, <1>9, <1>10

\* The places of a thread that waits for memory.
Waiting == {"bucket", "bucket_wait", "bucket_sleep", "pool", "pool_wait", "pool_sleep"} \cup Growing

\* A step between such places.
LEMMA WaitingMove ==
    ASSUME NEW own, NEW n, NEW at, NEW fresh, Memory(own, n, at, fresh), SleepInv,
           NEW t \in Threads, NEW x \in Waiting, pc' = [pc EXCEPT ![t] = x], pc[t] \in Waiting,
           \A u \in Threads : u # t => loc'[u] = loc[u],
           UNCHANGED <<head, next, held>>, \A b \in Buckets : RestUnits(b)' = RestUnits(b),
           Others(t) /\ pc'[t] = x => Fresh(fresh)'
    PROVE  MemInv'
<1>0. PoolTyped
  BY DEF SleepInv
<1>1. Others(t) /\ pc'[t] = x
  BY <1>0, OthersOwn
<1>2. Popper(t)'
  BY <1>1 DEF Popper, Waiting, Growing
<1>3. pc[t] \notin Having /\ x \notin Having /\ x # "idle"
  BY DEF Having, Pushing, Waiting, Growing
<1> QED
  BY <1>1, <1>2, <1>3, QuietMove

\* Waiting, growing the pool, and going on from a bucket to the pool.
LEMMA WaitSteps ==
    ASSUME NEW own, NEW n, NEW at, NEW fresh, Memory(own, n, at, fresh), SleepInv, NEW t \in Threads,
           \/ BucketWait(t) \/ PoolWait(t) \/ Grow(t) \/ Expand(t) \/ ReadFirst(t) \/ ReadEnd(t)
           \/ BucketAlloc(t) /\ Size(loc[t].want) >= BlockSize
    PROVE  MemInv'
<1>0. PoolTyped /\ Fresh(fresh) /\ LocAt(t)
  BY DEF SleepInv, Memory
<1>1. UNCHANGED <<head, next, held, block, state>>
  <2>1. CASE BucketAlloc(t) /\ Size(loc[t].want) >= BlockSize
    <3>1. loc[t].want \in Buckets
      BY <1>0, <2>1 DEF BucketAlloc, LocAt
    <3>2. ~(Size(loc[t].want) < BlockSize)
      BY <2>1, <3>1, SizeFacts
    <3> QED
      BY <2>1, <3>2 DEF BucketAlloc, pool
  <2> QED
    BY <2>1 DEF BucketWait, PoolWait, Grow, Expand, ReadFirst, ReadEnd, pool
<1>2. \A b \in Buckets : RestUnits(b)' = RestUnits(b)
  BY <1>1 DEF RestUnits
<1>3. ASSUME NEW x \in Waiting, pc' = [pc EXCEPT ![t] = x], pc[t] \in Waiting,
             \A u \in Threads : u # t => loc'[u] = loc[u],
             x \in Growing <=> pc[t] \in Growing,
             pc[t] \in Growing => loc'[t].side = loc[t].side /\ loc'[t].old = loc[t].old
      PROVE  MemInv'
  <2>1. Others(t) /\ pc'[t] = x => Fresh(fresh)'
    BY <1>0, <1>1, <1>3, FreshSame
  <2> QED
    BY <1>1, <1>2, <1>3, <2>1, WaitingMove
<1>4. CASE BucketWait(t) \/ PoolWait(t)
  <2>1. loc' = loc /\ pc[t] \in Waiting \ Growing
    BY <1>4 DEF BucketWait, PoolWait, Waiting, Growing
  <2>2. \E x \in {"bucket", "bucket_sleep", "pool", "pool_sleep"} : pc' = [pc EXCEPT ![t] = x]
    BY <1>4 DEF BucketWait, PoolWait, Goto
  <2>3. PICK x \in Waiting \ Growing : pc' = [pc EXCEPT ![t] = x]
    BY <2>2 DEF Waiting, Growing
  <2> QED
    BY <1>3, <2>1, <2>3
<1>5. CASE Expand(t)
  <2>1. loc' = loc /\ pc[t] = "expand" /\ \E x \in {"read", "read_two"} : pc' = [pc EXCEPT ![t] = x]
    BY <1>5 DEF Expand, Goto
  <2> QED
    BY <1>3, <2>1 DEF Waiting, Growing
<1>6. CASE Grow(t) \/ ReadFirst(t) \/ ReadEnd(t)
  <2>1. PICK e : loc' = [loc EXCEPT ![t].end = e]
    BY <1>6 DEF Grow, ReadFirst, ReadEnd
  <2>2. /\ \A u \in Threads : u # t => loc'[u] = loc[u]
        /\ loc'[t].side = loc[t].side /\ loc'[t].old = loc[t].old
    BY <1>0, <2>1, LocFacts
  <2>3. pc[t] \in Growing
    BY <1>6 DEF Grow, ReadFirst, ReadEnd, Growing
  <2>4. \E x \in {"expand", "read_center", "read_size", "grow", "pool_xchg"} : pc' = [pc EXCEPT ![t] = x]
    BY <1>6 DEF Grow, ReadFirst, ReadEnd, Goto
  <2>5. PICK x \in Growing : pc' = [pc EXCEPT ![t] = x]
    BY <2>4 DEF Growing
  <2> QED
    BY <1>3, <2>2, <2>3, <2>5 DEF Waiting
<1>7. CASE BucketAlloc(t) /\ Size(loc[t].want) >= BlockSize
  <2>1. loc[t].want \in Buckets /\ pc[t] = "bucket"
    BY <1>0, <1>7 DEF BucketAlloc, LocAt
  <2>2. ~(Size(loc[t].want) < BlockSize)
    BY <1>7, <2>1, SizeFacts
  <2>3. loc' = [loc EXCEPT ![t].side = Front] /\ pc' = [pc EXCEPT ![t] = "pool"]
    BY <1>7, <2>2 DEF BucketAlloc, Goto
  <2>4. \A u \in Threads : u # t => loc'[u] = loc[u]
    BY <1>0, <2>3, LocFacts
  <2> QED
    BY <1>3, <2>1, <2>3, <2>4 DEF Waiting, Growing
<1> QED
  BY <1>4, <1>5, <1>6, <1>7

\* The block of the bucket is used up.
LEMMA BucketEndStep ==
    ASSUME NEW own, NEW n, NEW at, NEW fresh, Memory(own, n, at, fresh), SleepInv, NEW t \in Threads,
           BucketAlloc(t), Size(loc[t].want) < BlockSize, block[loc[t].want].next >= block[loc[t].want].end
    PROVE  MemInv'
<1> DEFINE b == loc[t].want  old == block[b]
<1>0. PoolTyped /\ Fresh(fresh) /\ LocAt(t) /\ pc[t] = "bucket"
  BY DEF SleepInv, Memory, BucketAlloc
<1>1. b \in Buckets /\ Size(b) \in Nat /\ BlockSize \in Nat
  BY <1>0, SizeFacts DEF LocAt
<1>2. old \in Words /\ old.next \in Nat /\ old.end \in Nat
  BY <1>0, <1>1 DEF PoolTyped, Words
<1>3. ~(Size(b) >= BlockSize) /\ ~(old.next < old.end)
  BY <1>1, <1>2
<1>4. block' = [block EXCEPT ![b].next = @ + Size(b)] /\ UNCHANGED <<head, next, held, state>>
  BY <1>3 DEF BucketAlloc, pool
<1>5. loc' = [loc EXCEPT ![t].side = Front, ![t].old = old]
  BY <1>3 DEF BucketAlloc
<1>6. \E x \in {"pool", "bucket_wait"} : pc' = [pc EXCEPT ![t] = x]
  BY <1>3 DEF BucketAlloc, Goto
<1>7. \A u \in Threads : u # t => loc'[u] = loc[u]
  BY <1>0, <1>5, LocFacts
<1>8. ASSUME NEW c \in Buckets PROVE RestUnits(c)' = RestUnits(c)
  <2>1. CASE c # b
    BY <1>0, <1>1, <1>4, <2>1 DEF RestUnits, PoolTyped
  <2>2. CASE c = b
    <3>1. block'[c].next = old.next + Size(b) /\ block'[c].end = old.end
      BY <1>0, <1>1, <1>4, <2>2 DEF PoolTyped, Words
    <3>2. old.next .. old.end - 1 = {} /\ old.next + Size(b) .. old.end - 1 = {}
      BY <1>1, <1>2
    <3> QED
      BY <2>2, <3>1, <3>2 DEF RestUnits
  <2> QED
    BY <2>1, <2>2
<1>9. PICK x \in {"pool", "bucket_wait"} : pc' = [pc EXCEPT ![t] = x]
  BY <1>6
<1>10. x \in Waiting /\ x \notin Growing /\ pc[t] \in Waiting /\ pc[t] \notin Growing
  BY <1>0 DEF Waiting, Growing
<1>11. Others(t) /\ pc'[t] = x => Fresh(fresh)'
  BY <1>0, <1>4, <1>10, FreshSame
<1> HIDE DEF b, old
<1> QED
  BY <1>4, <1>7, <1>8, <1>9, <1>10, <1>11, WaitingMove

\* The end of the pool has been reached: the counter is past it until the pool has grown.
LEMMA PoolEndStep ==
    ASSUME NEW own, NEW n, NEW at, NEW fresh, Memory(own, n, at, fresh), SleepInv, NEW t \in Threads,
           PoolAlloc(t), state[loc[t].side].next + Want(t) > state[loc[t].side].end
    PROVE  MemInv'
<1> DEFINE s == loc[t].side  old == state[s]
<1>0. PoolTyped /\ Fresh(fresh) /\ LocAt(t) /\ OneGrower /\ pc[t] = "pool"
  BY DEF SleepInv, Memory, PoolAlloc
<1>1. s \in Sides /\ loc[t].want \in Lists
  BY <1>0 DEF LocAt, Fetching, Sides, Lists
<1>2. old \in Words /\ old.next \in Nat /\ old.end \in Nat /\ Want(t) \in Nat /\ Want(t) > 0
  BY <1>0, <1>1, WantFacts DEF PoolTyped, Words, Lists
<1>3. ~(old.next + Want(t) <= old.end)
  BY <1>2
<1>4. state' = [state EXCEPT ![s].next = @ + Want(t)] /\ UNCHANGED <<head, next, held, block>>
  BY <1>3 DEF PoolAlloc
<1>5. loc' = [loc EXCEPT ![t].old = old] /\ pc' = [pc EXCEPT ![t] = IF old.next <= old.end THEN "grow" ELSE "pool_wait"]
  BY <1>3 DEF PoolAlloc, Goto
<1>6. (\A u \in Threads : u # t => loc'[u] = loc[u]) /\ loc'[t].side = s /\ loc'[t].old = old
  BY <1>0, <1>5, LocFacts
<1>7. \A b \in Buckets : RestUnits(b)' = RestUnits(b)
  BY <1>4 DEF RestUnits
<1>8. \A r \in Sides : r # s => state'[r] = state[r]
  BY <1>0, <1>4 DEF PoolTyped
<1> DEFINE x == IF old.next <= old.end THEN "grow" ELSE "pool_wait"
<1>9. ASSUME Others(t), pc'[t] = x PROVE Fresh(fresh)'
  <2>1. \A u \in Threads : u # t => /\ pc'[u] \in Growing <=> pc[u] \in Growing
                                    /\ loc'[u] = loc[u]
    BY <1>9 DEF Others, Growing
  <2>2. pc[t] \notin Growing
    BY <1>0 DEF Growing
  <2>3. CASE old.next <= old.end
    <3>1. \A u \in Threads : pc[u] \in Growing => loc[u].side # s
      <4> SUFFICES ASSUME NEW u \in Threads, pc[u] \in Growing, loc[u].side = s PROVE FALSE
        OBVIOUS
      <4>1. GrowerAt(u) /\ LocAt(u)
        BY DEF SleepInv
      <4>2. loc[u].old \in Words /\ loc[u].want \in Lists
        BY <4>1 DEF LocAt, Fetching, Lists
      <4>3. Want(u) \in Nat
        BY <4>2, WantFacts DEF Lists
      <4>4. /\ old.end = loc[u].old.end /\ loc[u].old.end < loc[u].old.next + Want(u)
            /\ old.next >= loc[u].old.next + Want(u)
        BY <4>1 DEF GrowerAt
      <4> HIDE DEF old, s
      <4> QED
        BY <1>2, <2>3, <4>2, <4>3, <4>4 DEF Words
    <3>2. fresh[s] = old.next
      BY <1>0, <1>1, <3>1 DEF Fresh
    <3>3. pc'[t] = "grow" /\ "grow" \in Growing
      BY <1>9, <2>3 DEF Growing
    <3>4. \A u \in Threads : pc'[u] \in Growing => fresh[loc'[u].side] = loc'[u].old.next
      BY <1>0, <1>6, <2>1, <3>2 DEF Fresh
    <3>5. ASSUME NEW r \in Sides, \A u \in Threads : pc'[u] \in Growing => loc'[u].side # r
          PROVE  fresh[r] = state'[r].next
      <4>1. r # s
        BY <1>6, <3>3, <3>5
      <4>2. \A u \in Threads : pc[u] \in Growing => loc[u].side # r
        BY <2>1, <2>2, <3>5
      <4> QED
        BY <1>0, <1>8, <4>1, <4>2 DEF Fresh
    <3> QED
      BY <1>0, <3>4, <3>5 DEF Fresh
  <2>4. CASE ~(old.next <= old.end)
    <3>1. PICK g \in Threads : pc[g] \in Growing /\ loc[g].side = s
      <4>1. old.next > old.end
        BY <1>2, <2>4
      <4> QED
        BY <1>0, <1>1, <4>1 DEF OneGrower
    <3>2. pc'[t] = "pool_wait" /\ "pool_wait" \notin Growing /\ g # t
      BY <1>9, <2>2, <2>4, <3>1 DEF Growing
    <3>3. \A u \in Threads : pc'[u] \in Growing <=> pc[u] \in Growing
      BY <2>1, <2>2, <3>2
    <3>4. \A u \in Threads : pc'[u] \in Growing => fresh[loc'[u].side] = loc'[u].old.next
      BY <1>0, <2>1, <3>2, <3>3 DEF Fresh
    <3>5. ASSUME NEW r \in Sides, \A u \in Threads : pc'[u] \in Growing => loc'[u].side # r
          PROVE  fresh[r] = state'[r].next
      <4>1. r # s
        BY <2>1, <3>1, <3>2, <3>3, <3>5
      <4>2. \A u \in Threads : pc[u] \in Growing => loc[u].side # r
        BY <2>1, <2>2, <3>3, <3>5
      <4> QED
        BY <1>0, <1>8, <4>1, <4>2 DEF Fresh
    <3> QED
      BY <1>0, <3>4, <3>5 DEF Fresh
  <2> QED
    BY <2>3, <2>4
<1>10. x \in Waiting /\ pc[t] \in Waiting
  BY <1>0 DEF Waiting, Growing
<1> HIDE DEF s, old
<1>11. pc' = [pc EXCEPT ![t] = x]
  BY <1>5
<1> HIDE DEF x
<1> QED
  BY <1>4, <1>6, <1>7, <1>9, <1>10, <1>11, WaitingMove
-----------------------------------------------------------------------------
(***************************************************************************)
(* Memory from the pool and from the blocks.                               *)
(***************************************************************************)
\* The lists are as they were when nothing is written in their states.
LEMMA ListsKept ==
    ASSUME NEW own, NEW n, NEW at, NEW fresh, Owned(own, n, at, fresh), Stacks(n, at),
           UNCHANGED head, NEW W, WritesOnly(W),
           \A l \in Lists, i \in Ranks : W \cap own[PlaceOn(l, i)] = {}
    PROVE  Stacks(n, at)' /\ \A l \in Lists : n[l] # 0 => Top(n, at, l) \notin W
<1>1. ASSUME NEW l \in Lists, NEW i \in 1 .. n[l] PROVE at[l][i] \notin W
  <2>1. n[l] \in Nat /\ i \in Ranks /\ i <= n[l] /\ at[l][i] \in Int
    BY DEF Stacks, Ranks
  <2>2. own[PlaceOn(l, i)] = Extent(at[l][i], Size(l))
    BY <2>1 DEF Owned, PlaceUnits
  <2>3. at[l][i] \in Extent(at[l][i], Size(l))
    BY <2>1, SizesDivide DEF Extent
  <2> QED
    BY <2>1, <2>2, <2>3
<1>2. \A l \in Lists : \A i \in 1 .. n[l] : at[l][i] \in DOMAIN next' /\ next'[at[l][i]] = next[at[l][i]]
  BY <1>1 DEF Stacks, WritesOnly
<1>3. Stacks(n, at)'
  BY <1>2 DEF Stacks, OnSide
<1>4. ASSUME NEW l \in Lists, n[l] # 0 PROVE Top(n, at, l) \notin W
  <2>1. n[l] \in 1 .. n[l]
    BY <1>4 DEF Stacks
  <2> QED
    BY <1>1, <2>1 DEF Top
<1> QED
  BY <1>3, <1>4

\* Memory moves between the pool, the blocks, a thread and the application.
LEMMA PoolMove ==
    ASSUME NEW own, NEW n, NEW at, NEW fresh, Memory(own, n, at, fresh), SleepInv,
           NEW t \in Threads, Others(t), UNCHANGED head,
           pc[t] \notin Pushing, pc'[t] \notin Pushing \cup {"pop", "pop_cas"},
           pc'[t] = "idle" => loc'[t] = NoLocals,
           NEW W, WritesOnly(W), IsFiniteSet(DOMAIN next'),
           \A l \in Lists, i \in Ranks : W \cap own[PlaceOn(l, i)] = {},
           \A u \in Threads, l \in Lists : W \cap own[ItemOf(u, l)] = {},
           NEW own2, NEW fresh2, own2 \in [Owners -> SUBSET Int], Apart(own2), Cover(own2),
           \A l \in Lists, i \in Ranks : own2[PlaceOn(l, i)] = own[PlaceOn(l, i)],
           \A u \in Threads, l \in Lists : own2[ItemOf(u, l)] = own[ItemOf(u, l)],
           \A u \in Threads : u # t => own2[KeptBy(u)] = own[KeptBy(u)],
           \A s \in Sides : own2[PoolOf(s)] = Beyond(s, fresh2[s]),
           \A h \in States : own2[HeldAs(h)] = HeldUnits(h)',
           \A b \in Buckets : own2[RestOf(b)] = RestUnits(b)',
           own2[KeptBy(t)] = KeptUnits(t)',
           Fresh(fresh2)', HeldOnce'
    PROVE  MemInv'
<1>0. Owned(own, n, at, fresh) /\ Stacks(n, at)
  BY DEF Memory
<1>1. Stacks(n, at)' /\ \A l \in Lists : n[l] # 0 => Top(n, at, l) \notin W
  BY <1>0, ListsKept
<1>2. Popper(t)' /\ Pusher(t)'
  BY DEF Popper, Pusher, Pushing
<1>3. \A l \in Lists : own2[ItemOf(t, l)] = ItemUnits(t, l)'
  BY <1>0 DEF Owned, ItemUnits
<1>4. \A l \in Lists, i \in Ranks : own2[PlaceOn(l, i)] = PlaceUnits(n, at, l, i)
  BY <1>0 DEF Owned
<1>5. CountsGrow
  BY DEF CountsGrow
<1>6. \A u \in Threads : u # t => /\ own2[KeptBy(u)] = own[KeptBy(u)]
                                  /\ \A l \in Lists : own2[ItemOf(u, l)] = own[ItemOf(u, l)]
  OBVIOUS
<1> QED
  BY <1>1, <1>2, <1>3, <1>4, <1>5, <1>6, MemoryStep

\* The owners that are neither places on a list, nor chunks to be pushed, nor states in use.
Inner == {PoolOf(s) : s \in Sides} \cup {RestOf(b) : b \in Buckets} \cup {KeptBy(t) : t \in Threads}

\* They are different from the other owners.
LEMMA InnerNames ==
    /\ Inner \subseteq Owners
    /\ \A x \in Inner : \A l, i : x # PlaceOn(l, i)
    /\ \A x \in Inner : \A u, l : x # ItemOf(u, l)
    /\ \A x \in Inner : \A h : x # HeldAs(h)
<1>1. \A x \in Inner : \/ \E s \in Sides : x = PoolOf(s)
                       \/ \E b \in Buckets : x = RestOf(b)
                       \/ \E t \in Threads : x = KeptBy(t)
  BY DEF Inner
<1> QED
  BY <1>1, OwnerNames, OwnerSet

\* The application has the sizes of the buckets at the front, and blocks at the back.
Proper(h) == IF h[1] < 0 THEN h[2] = BlockSize /\ h[1] + h[2] <= 0 ELSE \E b \in Buckets : h[2] = Size(b)

\* A state is added to what the application has.
LEMMA HeldMore ==
    ASSUME NEW own, NEW n, NEW at, NEW fresh, Owned(own, n, at, fresh), Apart(own), HeldOnce,
           NEW h \in States, h[2] > 0, Proper(h), Gains(h),
           NEW x \in Owners, x # HeldAs(h), Extent(h[1], h[2]) \subseteq own[x]
    PROVE  /\ HeldOnce' /\ HeldUnits(h)' = Extent(h[1], h[2]) /\ HeldUnits(h) = {}
           /\ \A g \in States : g # h => HeldUnits(g)' = HeldUnits(g)
<1>1. h \notin DOMAIN held
  <2> SUFFICES ASSUME h \in DOMAIN held PROVE FALSE
    OBVIOUS
  <2>1. own[HeldAs(h)] = Extent(h[1], h[2])
    BY DEF Owned, HeldUnits
  <2>2. HeldAs(h) \in Owners
    BY OwnerSet
  <2>3. h[1] \in Extent(h[1], h[2])
    BY DEF Extent, States
  <2> QED
    BY <2>1, <2>2, <2>3 DEF Apart
<1>2. \A g \in DOMAIN held : held[g] = 1
  BY DEF HeldOnce
<1>3. DOMAIN held' = DOMAIN held \cup {h} /\ \A g \in DOMAIN held' : held'[g] = 1
  BY <1>1, <1>2, BagAdd
<1>4. HeldOnce'
  BY <1>3 DEF HeldOnce, Proper
<1> QED
  BY <1>1, <1>3, <1>4 DEF HeldUnits

\* What the application writes into a state.
LEMMA UsedFacts ==
    ASSUME NEW off, NEW m, next' = next \/ next' = Used(next, off, m), IsFiniteSet(DOMAIN next)
    PROVE  WritesOnly(Extent(off, m)) /\ IsFiniteSet(DOMAIN next')
<1>1. WritesOnly(Extent(off, m)) /\ DOMAIN next' \subseteq DOMAIN next
  BY DEF Used, WritesOnly
<1> QED
  BY <1>1, FS_Subset

\* A thread returns a state that was inside.
LEMMA GiveOut ==
    ASSUME NEW own, NEW n, NEW at, NEW fresh, Memory(own, n, at, fresh), SleepInv,
           NEW t \in Threads, Others(t), UNCHANGED head,
           pc[t] \notin Pushing, pc'[t] = "idle", loc'[t] = NoLocals,
           NEW h \in States, h[2] > 0, Proper(h), Gains(h),
           next' = next \/ next' = Used(next, h[1], h[2]),
           NEW x \in Inner, NEW y \in Inner, Extent(h[1], h[2]) \subseteq own[x],
           NEW own2, NEW fresh2, own2 \in [Owners -> SUBSET Int], Apart(own2), Cover(own2),
           own2[HeldAs(h)] = Extent(h[1], h[2]),
           \A z \in Owners \ {HeldAs(h), x, y} : own2[z] = own[z],
           \A u \in Threads : u # t => own2[KeptBy(u)] = own[KeptBy(u)],
           \A s \in Sides : own2[PoolOf(s)] = Beyond(s, fresh2[s]),
           \A b \in Buckets : own2[RestOf(b)] = RestUnits(b)',
           own2[KeptBy(t)] = {},
           Fresh(fresh2)'
    PROVE  MemInv'
<1>0. Owned(own, n, at, fresh) /\ Apart(own) /\ HeldOnce /\ IsFiniteSet(DOMAIN next)
  BY DEF Memory
<1> DEFINE W == Extent(h[1], h[2])
<1>1. WritesOnly(W) /\ IsFiniteSet(DOMAIN next')
  BY <1>0, UsedFacts
<1> HIDE DEF W
<1>2. x \in Owners /\ x # HeldAs(h)
  BY InnerNames
<1>3. /\ HeldOnce' /\ HeldUnits(h)' = W /\ \A g \in States : g # h => HeldUnits(g)' = HeldUnits(g)
  BY <1>0, <1>2, HeldMore DEF W
<1>4. \A g \in States : own2[HeldAs(g)] = HeldUnits(g)'
  <2>1. \A g \in States : g # h => HeldAs(g) \in Owners \ {HeldAs(h), x, y}
    BY InnerNames, OwnerNames, OwnerSet
  <2> QED
    BY <1>0, <1>3, <2>1 DEF Owned, W
<1>5. \A l \in Lists, i \in Ranks : PlaceOn(l, i) \in Owners \ {HeldAs(h), x, y}
  BY InnerNames, OwnerNames, OwnerSet
<1>6. \A u \in Threads, l \in Lists : ItemOf(u, l) \in Owners \ {HeldAs(h), x, y}
  BY InnerNames, OwnerNames, OwnerSet
<1>7. W \subseteq own[x] /\ x \in Owners
  BY <1>2 DEF W
<1>8. \A l \in Lists, i \in Ranks : W \cap own[PlaceOn(l, i)] = {} /\ own2[PlaceOn(l, i)] = own[PlaceOn(l, i)]
  BY <1>0, <1>5, <1>7 DEF Apart
<1>9. \A u \in Threads, l \in Lists : W \cap own[ItemOf(u, l)] = {} /\ own2[ItemOf(u, l)] = own[ItemOf(u, l)]
  BY <1>0, <1>6, <1>7 DEF Apart
<1>10. own2[KeptBy(t)] = KeptUnits(t)'
  BY NoUnits DEF Having, Pushing
<1>11. pc'[t] \notin Pushing \cup {"pop", "pop_cas"}
  BY DEF Pushing
<1> QED
  BY <1>1, <1>3, <1>4, <1>8, <1>9, <1>10, <1>11, PoolMove

\* A thread takes memory that was inside, and keeps it.
LEMMA Take ==
    ASSUME NEW own, NEW n, NEW at, NEW fresh, Memory(own, n, at, fresh), SleepInv,
           NEW t \in Threads, Others(t), UNCHANGED <<head, next, held>>,
           pc[t] \notin Pushing, pc'[t] \in {"pool_wake", "pool_got", "bucket_xchg", "bucket_wake"},
           NEW x \in Inner, NEW y \in Inner,
           NEW own2, NEW fresh2, own2 \in [Owners -> SUBSET Int], Apart(own2), Cover(own2),
           \A z \in Owners \ {x, y} : own2[z] = own[z],
           \A u \in Threads : u # t => own2[KeptBy(u)] = own[KeptBy(u)],
           \A s \in Sides : own2[PoolOf(s)] = Beyond(s, fresh2[s]),
           \A b \in Buckets : own2[RestOf(b)] = RestUnits(b)',
           own2[KeptBy(t)] = KeptUnits(t)',
           Fresh(fresh2)'
    PROVE  MemInv'
<1>0. Owned(own, n, at, fresh) /\ HeldOnce /\ IsFiniteSet(DOMAIN next)
  BY DEF Memory
<1> DEFINE W == {}
<1>1. WritesOnly(W) /\ IsFiniteSet(DOMAIN next')
  BY <1>0 DEF WritesOnly
<1>2. \A g \in States : own2[HeldAs(g)] = HeldUnits(g)'
  <2>1. \A g \in States : HeldAs(g) \in Owners \ {x, y}
    BY InnerNames, OwnerSet
  <2> QED
    BY <1>0, <2>1 DEF Owned, HeldUnits
<1>3. \A l \in Lists, i \in Ranks : W \cap own[PlaceOn(l, i)] = {} /\ own2[PlaceOn(l, i)] = own[PlaceOn(l, i)]
  BY InnerNames, OwnerSet
<1>4. \A u \in Threads, l \in Lists : W \cap own[ItemOf(u, l)] = {} /\ own2[ItemOf(u, l)] = own[ItemOf(u, l)]
  BY InnerNames, OwnerSet
<1>5. HeldOnce'
  BY <1>0 DEF HeldOnce
<1>6. pc'[t] \notin Pushing \cup {"pop", "pop_cas"} /\ pc'[t] # "idle"
  BY DEF Pushing
<1> HIDE DEF W
<1> QED
  BY <1>1, <1>2, <1>3, <1>4, <1>5, <1>6, PoolMove

\* The end of the pool after a piece of it has been taken.
LEMMA PieceFacts ==
    ASSUME NEW s \in Sides, NEW m \in Nat, NEW k \in Nat
    PROVE  /\ Piece(s, m, k) \subseteq Beyond(s, m) /\ Beyond(s, m) \subseteq Int
           /\ Beyond(s, m + k) = Beyond(s, m) \ Piece(s, m, k)
  BY DEF Piece, Beyond, Extent

\* Return, without the notation for bags.
LEMMA ReturnFacts ==
    ASSUME NEW t, NEW off, NEW m, Return(t, off, m)
    PROVE  /\ Gains(<<off, m>>) /\ next' = Used(next, off, m)
           /\ pc' = [pc EXCEPT ![t] = "idle"] /\ loc' = [loc EXCEPT ![t] = NoLocals]
  BY Zenon DEF Return, Gains, Goto

\* What becomes of a block from the pool.
LEMMA GotBlockUnits ==
    ASSUME SleepInv, NEW t \in Threads, pc[t] \in {"pool", "pool_got"}, NEW m \in Nat, GotBlock(t, m)
    PROVE  \/ /\ pc' = [pc EXCEPT ![t] = "idle"] /\ loc' = [loc EXCEPT ![t] = NoLocals]
              /\ \E h \in States : /\ h[2] > 0 /\ Proper(h) /\ Gains(h) /\ next' = Used(next, h[1], h[2])
                                   /\ Extent(h[1], h[2]) = Piece(loc[t].side, m, Want(t))
           \/ /\ pc' = [pc EXCEPT ![t] = "bucket_xchg"] /\ loc' = [loc EXCEPT ![t].off = m]
              /\ UNCHANGED <<next, held>>
              /\ Extent(m, BlockSize) = Piece(loc[t].side, m, Want(t))
<1> USE AnvAssumption
<1>0. PoolTyped /\ LocAt(t)
  BY DEF SleepInv
<1>1. \/ loc[t].side = Front /\ loc[t].want \in Buckets
      \/ loc[t].side = Back /\ loc[t].want = Back
  BY <1>0 DEF LocAt, Fetching
<1>2. BlockSize \in Nat /\ BlockSize > 0 /\ \A b \in Buckets : Size(b) \in Nat /\ Size(b) > 0
  BY SizeFacts
<1>3. CASE loc[t].side = Back /\ loc[t].want = Back
  <2>1. Return(t, -(m + BlockSize), BlockSize)
    BY <1>3 DEF GotBlock
  <2> DEFINE h == <<-(m + BlockSize), BlockSize>>
  <2>2. /\ Gains(h) /\ next' = Used(next, h[1], h[2])
        /\ pc' = [pc EXCEPT ![t] = "idle"] /\ loc' = [loc EXCEPT ![t] = NoLocals]
    BY <2>1, ReturnFacts
  <2>3. h \in States /\ h[2] > 0 /\ Proper(h)
    BY <1>2 DEF States, Proper
  <2>4. Extent(h[1], h[2]) = Piece(loc[t].side, m, Want(t))
    BY <1>3 DEF Piece, Want
  <2> HIDE DEF h
  <2> QED
    BY <2>2, <2>3, <2>4
<1>4. CASE loc[t].side = Front /\ loc[t].want \in Buckets /\ Size(loc[t].want) >= BlockSize
  <2>1. Return(t, m, Size(loc[t].want))
    <3>1. ~(Size(loc[t].want) < BlockSize)
      BY <1>2, <1>4
    <3> QED
      BY <1>4, <3>1 DEF GotBlock
  <2> DEFINE h == <<m, Size(loc[t].want)>>
  <2>2. /\ Gains(h) /\ next' = Used(next, h[1], h[2])
        /\ pc' = [pc EXCEPT ![t] = "idle"] /\ loc' = [loc EXCEPT ![t] = NoLocals]
    BY <2>1, ReturnFacts
  <2>3. h \in States /\ h[2] > 0 /\ Proper(h)
    BY <1>2, <1>4 DEF States, Proper
  <2>4. Want(t) = Size(loc[t].want)
    BY <1>2, <1>4 DEF Want
  <2>5. Extent(h[1], h[2]) = Piece(loc[t].side, m, Want(t))
    BY <1>4, <2>4 DEF Piece
  <2> HIDE DEF h
  <2> QED
    BY <2>2, <2>3, <2>5
<1>5. CASE loc[t].side = Front /\ loc[t].want \in Buckets /\ Size(loc[t].want) < BlockSize
  <2>1. ~(Size(loc[t].want) >= BlockSize) /\ ~(Size(loc[t].want) > BlockSize)
    BY <1>2, <1>5
  <2>2. /\ pc' = [pc EXCEPT ![t] = "bucket_xchg"] /\ loc' = [loc EXCEPT ![t].off = m]
        /\ UNCHANGED <<next, held>>
    BY <1>5, <2>1 DEF GotBlock, Goto
  <2>3. Want(t) = BlockSize
    BY <2>1 DEF Want
  <2> QED
    BY <1>5, <2>2, <2>3 DEF Piece
<1>6. loc[t].want \in Buckets => Size(loc[t].want) < BlockSize \/ Size(loc[t].want) >= BlockSize
  BY <1>2
<1> QED
  BY <1>1, <1>3, <1>4, <1>5, <1>6

\* A thread takes a block from the owner x, and returns it or keeps it for the bucket.
LEMMA GotUnits ==
    ASSUME NEW own, NEW n, NEW at, NEW fresh, Memory(own, n, at, fresh), SleepInv, NEW t \in Threads,
           pc[t] \in {"pool", "pool_got"}, NEW m \in Nat, GotBlock(t, m), UNCHANGED <<head, block>>,
           NEW x \in Inner, NEW P, P = Piece(loc[t].side, m, Want(t)), P \subseteq own[x],
           \A b \in Buckets : x # RestOf(b), \A u \in Threads : u # t => x # KeptBy(u),
           NEW fresh2, \A r \in Sides : Beyond(r, fresh2[r]) = IF x = PoolOf(r) THEN own[x] \ P
                                                               ELSE own[PoolOf(r)],
           own[KeptBy(t)] = IF x = KeptBy(t) THEN P ELSE {},
           Others(t) /\ pc'[t] \notin Growing => Fresh(fresh2)'
    PROVE  MemInv'
<1>0. /\ Owned(own, n, at, fresh) /\ Apart(own) /\ Cover(own) /\ HeldOnce
      /\ PoolTyped /\ pc[t] \notin Pushing
  BY DEF Memory, SleepInv, Pushing
<1>a. own \in [Owners -> SUBSET Int] /\ \A b \in Buckets : own[RestOf(b)] = RestUnits(b)'
  BY <1>0 DEF Owned, RestUnits
<1>1. \A u \in Threads : u # t => loc'[u] = loc[u]
  <2>1. loc' = [loc EXCEPT ![t] = NoLocals] \/ loc' = [loc EXCEPT ![t].off = m]
    BY GotBlockUnits
  <2> QED
    BY <1>0, <2>1, LocFacts
<1>2. ASSUME pc' = [pc EXCEPT ![t] = "idle"], loc' = [loc EXCEPT ![t] = NoLocals],
             NEW h \in States, h[2] > 0, Proper(h), Gains(h), next' = Used(next, h[1], h[2]),
             Extent(h[1], h[2]) = P
      PROVE  MemInv'
  <2>1. Others(t) /\ pc'[t] = "idle" /\ pc'[t] \notin Growing /\ loc'[t] = NoLocals
    BY <1>0, <1>1, <1>2, OthersOwn, LocFacts DEF Growing
  <2>2. x \in Owners /\ x # HeldAs(h) /\ HeldAs(h) \in Owners
    BY InnerNames, OwnerSet
  <2>3. own[HeldAs(h)] = {}
    <3>1. HeldUnits(h) = {}
      BY <1>0, <1>2, <2>2, HeldMore
    <3> QED
      BY <1>0, <3>1 DEF Owned
  <2>4. PICK own2 : own2 = [z \in Owners |-> IF z = HeldAs(h) THEN P ELSE IF z = x THEN own[x] \ P
                                            ELSE own[z]]
    OBVIOUS
  <2>5. /\ own2 \in [Owners -> SUBSET Int] /\ own2[HeldAs(h)] = P /\ own2[x] = own[x] \ P
        /\ \A z \in Owners \ {HeldAs(h), x} : own2[z] = own[z]
    BY <1>a, <2>2, <2>4
  <2>6. Apart(own2) /\ Cover(own2)
    <3>1. own2[HeldAs(h)] \cap own2[x] = {} /\ own2[HeldAs(h)] \cup own2[x] = own[HeldAs(h)] \cup own[x]
      BY <2>3, <2>5
    <3> QED
      BY <1>0, <1>a, <2>2, <2>5, <3>1, Handover
  <2>7. \A s \in Sides : own2[PoolOf(s)] = Beyond(s, fresh2[s])
    <3>1. \A s \in Sides : PoolOf(s) \in Owners /\ PoolOf(s) # HeldAs(h)
      BY OwnerSet, OwnerNames
    <3> QED
      BY <2>5, <3>1
  <2>8. \A b \in Buckets : own2[RestOf(b)] = RestUnits(b)'
    <3>1. \A b \in Buckets : RestOf(b) \in Owners \ {HeldAs(h), x}
      BY OwnerSet, OwnerNames
    <3> QED
      BY <1>a, <2>5, <3>1
  <2>9. \A u \in Threads : u # t => own2[KeptBy(u)] = own[KeptBy(u)]
    <3>1. \A u \in Threads : u # t => KeptBy(u) \in Owners \ {HeldAs(h), x}
      BY OwnerSet, OwnerNames
    <3> QED
      BY <2>5, <3>1
  <2>10. own2[KeptBy(t)] = {}
    <3>1. KeptBy(t) \in Owners \ {HeldAs(h)}
      BY OwnerSet, OwnerNames
    <3> QED
      BY <2>5, <3>1
  <2>11. \A z \in Owners \ {HeldAs(h), x, x} : own2[z] = own[z]
    BY <2>5
  <2>12. Fresh(fresh2)'
    BY <2>1
  <2> QED
    BY <1>0, <1>2, <2>1, <2>5, <2>6, <2>7, <2>8, <2>9, <2>10, <2>11, <2>12, GiveOut
<1>3. ASSUME pc' = [pc EXCEPT ![t] = "bucket_xchg"], loc' = [loc EXCEPT ![t].off = m],
             UNCHANGED <<next, held>>, Extent(m, BlockSize) = P
      PROVE  MemInv'
  <2>1. Others(t) /\ pc'[t] = "bucket_xchg" /\ pc'[t] \notin Growing
    BY <1>0, <1>1, <1>3, OthersOwn DEF Growing
  <2>2. loc'[t].off = m
    BY <1>0, <1>3, LocFacts
  <2>3. KeptUnits(t)' = P
    BY <1>3, <2>1, <2>2 DEF KeptUnits
  <2>4. x \in Owners /\ KeptBy(t) \in Inner /\ KeptBy(t) \in Owners
    BY InnerNames, OwnerSet DEF Inner
  <2>5. PICK own2 : own2 = [z \in Owners |-> IF z = KeptBy(t) THEN P ELSE IF z = x THEN own[x] \ P
                                            ELSE own[z]]
    OBVIOUS
  <2>6. /\ own2 \in [Owners -> SUBSET Int] /\ own2[KeptBy(t)] = P /\ (x # KeptBy(t) => own2[x] = own[x] \ P)
        /\ \A z \in Owners \ {KeptBy(t), x} : own2[z] = own[z]
    BY <1>a, <2>4, <2>5
  <2>7. Apart(own2) /\ Cover(own2)
    <3>1. CASE x = KeptBy(t)
      <4>1. \A z \in Owners : own2[z] = own[z]
        BY <2>6, <3>1
      <4> QED
        BY <1>0, <4>1 DEF Apart, Cover
    <3>2. CASE x # KeptBy(t)
      <4>1. /\ own2[KeptBy(t)] \cap own2[x] = {}
            /\ own2[KeptBy(t)] \cup own2[x] = own[KeptBy(t)] \cup own[x]
        BY <2>6, <3>2
      <4> QED
        BY <1>0, <1>a, <2>4, <2>6, <3>2, <4>1, Handover
    <3> QED
      BY <3>1, <3>2
  <2>8. \A s \in Sides : own2[PoolOf(s)] = Beyond(s, fresh2[s])
    <3>1. \A s \in Sides : PoolOf(s) \in Owners /\ PoolOf(s) # KeptBy(t)
      BY OwnerSet, OwnerNames
    <3> QED
      BY <2>6, <3>1
  <2>9. \A b \in Buckets : own2[RestOf(b)] = RestUnits(b)'
    <3>1. \A b \in Buckets : RestOf(b) \in Owners \ {KeptBy(t), x}
      BY OwnerSet, OwnerNames
    <3> QED
      BY <1>a, <2>6, <3>1
  <2>10. \A u \in Threads : u # t => own2[KeptBy(u)] = own[KeptBy(u)]
    <3>1. \A u \in Threads : u # t => KeptBy(u) \in Owners \ {KeptBy(t), x}
      BY OwnerSet, OwnerNames
    <3> QED
      BY <2>6, <3>1
  <2>11. Fresh(fresh2)' /\ own2[KeptBy(t)] = KeptUnits(t)'
    BY <2>1, <2>3, <2>6
  <2> QED
    BY <1>0, <1>3, <2>1, <2>4, <2>6, <2>7, <2>8, <2>9, <2>10, <2>11, Take
<1> QED
  BY <1>2, <1>3, GotBlockUnits

\* A state from the block of the bucket.
LEMMA BucketStateStep ==
    ASSUME NEW own, NEW n, NEW at, NEW fresh, Memory(own, n, at, fresh), SleepInv, NEW t \in Threads,
           BucketAlloc(t), Size(loc[t].want) < BlockSize, block[loc[t].want].next < block[loc[t].want].end
    PROVE  MemInv'
<1>b. PICK b, old, h : b = loc[t].want /\ old = block[b] /\ h = <<old.next, Size(b)>>
  OBVIOUS
<1>c. h[1] = old.next /\ h[2] = Size(b)
  BY <1>b
<1>0. /\ PoolTyped /\ Fresh(fresh) /\ LocAt(t) /\ Whole /\ pc[t] = "bucket"
      /\ Owned(own, n, at, fresh) /\ Apart(own) /\ Cover(own) /\ HeldOnce
  BY DEF SleepInv, Memory, BucketAlloc
<1>1. b \in Buckets /\ Size(b) \in Nat /\ Size(b) > 0 /\ BlockSize \in Nat
  BY <1>b, <1>0, SizeFacts DEF LocAt
<1>2. old \in Words /\ old.next \in Nat /\ old.end \in Nat
  BY <1>b, <1>0, <1>1 DEF PoolTyped, Words
<1>3. ~(Size(b) >= BlockSize) /\ ~(old.next >= old.end)
  BY <1>b, <1>1, <1>2
<1>4. /\ block' = [block EXCEPT ![b].next = @ + Size(b)] /\ Return(t, old.next, Size(b))
      /\ UNCHANGED <<head, state>>
  BY <1>b, <1>3 DEF BucketAlloc, pool
<1>5. /\ Gains(h) /\ next' = Used(next, h[1], h[2])
      /\ pc' = [pc EXCEPT ![t] = "idle"] /\ loc' = [loc EXCEPT ![t] = NoLocals]
  BY <1>b, <1>c, <1>4, ReturnFacts
<1>6. \A u \in Threads : u # t => loc'[u] = loc[u]
  BY <1>0, <1>5, LocFacts
<1>7. Others(t) /\ pc'[t] = "idle" /\ loc'[t] = NoLocals
  BY <1>0, <1>5, <1>6, OthersOwn, LocFacts
<1>8. pc[t] \notin Growing /\ pc'[t] \notin Growing /\ pc[t] \notin Pushing /\ pc[t] \notin Having
  BY <1>0, <1>7 DEF Growing, Pushing, Having
<1>9. Fresh(fresh)'
  BY <1>0, <1>4, <1>7, <1>8, FreshSame
<1>10. h \in States /\ h[2] > 0 /\ Proper(h)
  BY <1>b, <1>c, <1>1, <1>2 DEF States, Proper
\* The block is used up without rest.
<1>11. old.next + Size(b) <= old.end
  <2>1. PICK k \in Nat : old.end = old.next + k * Size(b)
    BY <1>b, <1>0, <1>1, <1>2 DEF Whole
  <2>2. k # 0
    BY <1>b, <1>1, <1>2, <2>1
  <2>3. k * Size(b) >= Size(b) /\ k * Size(b) \in Nat
    BY <1>1, <2>2
  <2> QED
    BY <1>1, <1>2, <2>1, <2>3
<1>12. own \in [Owners -> SUBSET Int] /\ own[RestOf(b)] = old.next .. old.end - 1
  BY <1>b, <1>0, <1>1 DEF Owned, RestUnits
<1> DEFINE P == Extent(h[1], h[2])
<1>13. P \subseteq own[RestOf(b)] /\ own[RestOf(b)] \ P = old.next + Size(b) .. old.end - 1
  BY <1>c, <1>1, <1>2, <1>11, <1>12 DEF Extent
<1>14. /\ \A c \in Buckets : c # b => RestUnits(c)' = RestUnits(c)
       /\ RestUnits(b)' = own[RestOf(b)] \ P
  <2>1. block'[b].next = old.next + Size(b) /\ block'[b].end = old.end
    BY <1>b, <1>0, <1>1, <1>4 DEF PoolTyped, Words
  <2>2. \A c \in Buckets : c # b => block'[c] = block[c]
    BY <1>0, <1>4 DEF PoolTyped
  <2> HIDE DEF P
  <2> QED
    BY <1>13, <2>1, <2>2 DEF RestUnits
<1> HIDE DEF P
<1>15. RestOf(b) \in Inner /\ RestOf(b) \in Owners /\ HeldAs(h) \in Owners /\ RestOf(b) # HeldAs(h)
  BY <1>1, <1>10, OwnerSet, OwnerNames DEF Inner
<1>16. own[HeldAs(h)] = {}
  <2>1. HeldUnits(h) = {}
    BY <1>0, <1>5, <1>10, <1>13, <1>15, HeldMore DEF P
  <2> QED
    BY <1>0, <1>10, <2>1 DEF Owned
<1>17. PICK own2 : own2 = [z \in Owners |-> IF z = HeldAs(h) THEN P ELSE IF z = RestOf(b) THEN own[RestOf(b)] \ P
                                           ELSE own[z]]
  OBVIOUS
<1>18. /\ own2 \in [Owners -> SUBSET Int] /\ own2[HeldAs(h)] = P /\ own2[RestOf(b)] = own[RestOf(b)] \ P
       /\ \A z \in Owners \ {HeldAs(h), RestOf(b)} : own2[z] = own[z]
  BY <1>12, <1>13, <1>15, <1>17
<1>19. Apart(own2) /\ Cover(own2)
  <2>1. /\ own2[HeldAs(h)] \cap own2[RestOf(b)] = {}
        /\ own2[HeldAs(h)] \cup own2[RestOf(b)] = own[HeldAs(h)] \cup own[RestOf(b)]
    BY <1>13, <1>16, <1>18
  <2> QED
    BY <1>0, <1>12, <1>15, <1>18, <2>1, Handover
<1>20. \A s \in Sides : own2[PoolOf(s)] = Beyond(s, fresh[s])
  <2>1. \A s \in Sides : PoolOf(s) \in Owners \ {HeldAs(h), RestOf(b)}
    BY OwnerSet, OwnerNames
  <2> QED
    BY <1>0, <1>18, <2>1 DEF Owned
<1>21. \A c \in Buckets : own2[RestOf(c)] = RestUnits(c)'
  <2>1. \A c \in Buckets : c # b => RestOf(c) \in Owners \ {HeldAs(h), RestOf(b)}
    BY OwnerSet, OwnerNames
  <2> QED
    BY <1>0, <1>14, <1>18, <2>1 DEF Owned
<1>22. \A u \in Threads : own2[KeptBy(u)] = own[KeptBy(u)]
  <2>1. \A u \in Threads : KeptBy(u) \in Owners \ {HeldAs(h), RestOf(b)}
    BY OwnerSet, OwnerNames
  <2> QED
    BY <1>18, <2>1
<1>23. own2[KeptBy(t)] = {}
  BY <1>0, <1>8, <1>22, NoUnits DEF Owned
<1>24. \A z \in Owners \ {HeldAs(h), RestOf(b), RestOf(b)} : own2[z] = own[z]
  BY <1>18
<1>25. P = Extent(h[1], h[2])
  BY DEF P
<1> QED
  BY <1>4, <1>5, <1>7, <1>8, <1>9, <1>10, <1>13, <1>15, <1>18, <1>19, <1>20, <1>21, <1>22, <1>23, <1>24,
     <1>25, GiveOut

\* The block of the bucket is exchanged: the old one is used up, and the thread
\* keeps the first state of the new one.
LEMMA BucketExchangeUnits ==
    ASSUME NEW own, NEW n, NEW at, NEW fresh, Memory(own, n, at, fresh), SleepInv, NEW t \in Threads,
           BucketExchange(t)
    PROVE  MemInv'
<1>b. PICK b, off, h : b = loc[t].want /\ off = loc[t].off /\ h = <<off, Size(b)>>
  OBVIOUS
<1>c. h[1] = off /\ h[2] = Size(b)
  BY <1>b
<1>0. /\ PoolTyped /\ Fresh(fresh) /\ LocAt(t) /\ OneFetcher /\ pc[t] = "bucket_xchg"
      /\ Owned(own, n, at, fresh) /\ Apart(own) /\ Cover(own) /\ HeldOnce
  BY DEF SleepInv, Memory, BucketExchange
<1>1. /\ b \in Buckets /\ Size(b) \in Nat /\ Size(b) > 0 /\ BlockSize \in Nat
      /\ Small(b) /\ Size(b) < BlockSize /\ off \in Nat
  BY <1>b, <1>0, SizeFacts DEF LocAt, Small
<1>2. block[b] \in Words /\ block[b].next \in Nat /\ block[b].end \in Nat /\ block[b].next > block[b].end
  <2>1. Fetches(t, b)
    BY <1>b, <1>0 DEF Fetches, Fetching
  <2> QED
    BY <1>0, <1>1, <2>1 DEF PoolTyped, Words, OneFetcher
<1>3. /\ block' = [block EXCEPT ![b] = [next |-> off + Size(b), end |-> off + BlockSize]]
      /\ UNCHANGED <<head, next, state, loc, held>> /\ pc' = [pc EXCEPT ![t] = "bucket_wake"]
  BY <1>b DEF BucketExchange, pool, Goto
<1>6. Others(t) /\ pc'[t] = "bucket_wake"
  BY <1>0, <1>3, OthersOwn
<1>7. pc[t] \notin Growing /\ pc'[t] \notin Growing /\ pc[t] \notin Pushing
  BY <1>0, <1>6 DEF Growing, Pushing
<1>8. Fresh(fresh)'
  BY <1>0, <1>3, <1>6, <1>7, FreshSame
<1>10. own \in [Owners -> SUBSET Int] /\ own[KeptBy(t)] = Extent(off, BlockSize) /\ own[RestOf(b)] = {}
  <2>1. own[KeptBy(t)] = KeptUnits(t) /\ own[RestOf(b)] = RestUnits(b)
    BY <1>0, <1>1 DEF Owned
  <2>2. KeptUnits(t) = Extent(off, BlockSize)
    BY <1>b, <1>0 DEF KeptUnits
  <2>3. RestUnits(b) = {}
    BY <1>2 DEF RestUnits
  <2> QED
    BY <1>0, <2>1, <2>2, <2>3 DEF Owned
<1> DEFINE P == Extent(off, Size(b))  R == off + Size(b) .. off + BlockSize - 1
<1>11. P \cup R = own[KeptBy(t)] /\ P \cap R = {}
  BY <1>1, <1>10 DEF Extent
<1>12. RestUnits(b)' = R /\ \A c \in Buckets : c # b => RestUnits(c)' = RestUnits(c)
  <2>1. block'[b].next = off + Size(b) /\ block'[b].end = off + BlockSize
    BY <1>0, <1>1, <1>3 DEF PoolTyped
  <2>2. \A c \in Buckets : c # b => block'[c] = block[c]
    BY <1>0, <1>3 DEF PoolTyped
  <2>3. RestUnits(b)' = block'[b].next .. block'[b].end - 1
    BY DEF RestUnits
  <2>4. \A c \in Buckets : c # b => RestUnits(c)' = RestUnits(c)
    BY <2>2 DEF RestUnits
  <2> QED
    BY <1>1, <2>1, <2>3, <2>4
<1> HIDE DEF P, R
<1>13. /\ KeptBy(t) \in Inner /\ RestOf(b) \in Inner
       /\ KeptBy(t) \in Owners /\ RestOf(b) \in Owners /\ KeptBy(t) # RestOf(b)
  BY <1>1, OwnerSet, OwnerNames DEF Inner
<1>14. PICK own2 : own2 = [z \in Owners |-> IF z = KeptBy(t) THEN P ELSE IF z = RestOf(b) THEN R ELSE own[z]]
  OBVIOUS
<1>15. P \in SUBSET Int /\ R \in SUBSET Int
  BY <1>10, <1>11, <1>13
<1>16. /\ own2 \in [Owners -> SUBSET Int] /\ own2[KeptBy(t)] = P /\ own2[RestOf(b)] = R
       /\ \A z \in Owners \ {KeptBy(t), RestOf(b)} : own2[z] = own[z]
  BY <1>10, <1>13, <1>14, <1>15
<1>17. Apart(own2) /\ Cover(own2)
  <2>1. /\ own2[KeptBy(t)] \cap own2[RestOf(b)] = {}
        /\ own2[KeptBy(t)] \cup own2[RestOf(b)] = own[KeptBy(t)] \cup own[RestOf(b)]
    BY <1>10, <1>11, <1>16
  <2> QED
    BY <1>0, <1>10, <1>13, <1>16, <2>1, Handover
<1>18. \A s \in Sides : own2[PoolOf(s)] = Beyond(s, fresh[s])
  <2>1. \A s \in Sides : PoolOf(s) \in Owners \ {KeptBy(t), RestOf(b)}
    BY OwnerSet, OwnerNames
  <2> QED
    BY <1>0, <1>16, <2>1 DEF Owned
<1>19. \A c \in Buckets : own2[RestOf(c)] = RestUnits(c)'
  <2>1. \A c \in Buckets : c # b => RestOf(c) \in Owners \ {KeptBy(t), RestOf(b)}
    BY OwnerSet, OwnerNames
  <2> QED
    BY <1>0, <1>12, <1>16, <2>1 DEF Owned
<1>20. \A u \in Threads : u # t => own2[KeptBy(u)] = own[KeptBy(u)]
  <2>1. \A u \in Threads : u # t => KeptBy(u) \in Owners \ {KeptBy(t), RestOf(b)}
    BY OwnerSet, OwnerNames
  <2> QED
    BY <1>16, <2>1
<1>21. KeptUnits(t)' = P
  BY <1>b, <1>3, <1>6 DEF KeptUnits, P
<1>22. own2[KeptBy(t)] = KeptUnits(t)'
  BY <1>16, <1>21
<1> QED
  BY <1>3, <1>6, <1>7, <1>8, <1>13, <1>16, <1>17, <1>18, <1>19, <1>20, <1>22, Take

\* After waking the waiters the thread returns that state.
LEMMA BucketWakeUnits ==
    ASSUME NEW own, NEW n, NEW at, NEW fresh, Memory(own, n, at, fresh), SleepInv, NEW t \in Threads,
           BucketWake(t)
    PROVE  MemInv'
<1>b. PICK b, off, h : b = loc[t].want /\ off = loc[t].off /\ h = <<off, Size(b)>>
  OBVIOUS
<1>c. h[1] = off /\ h[2] = Size(b)
  BY <1>b
<1>0. /\ PoolTyped /\ Fresh(fresh) /\ LocAt(t) /\ pc[t] = "bucket_wake"
      /\ Owned(own, n, at, fresh) /\ Apart(own) /\ Cover(own) /\ HeldOnce
  BY DEF SleepInv, Memory, BucketWake
<1>1. b \in Buckets /\ Size(b) \in Nat /\ Size(b) > 0 /\ off \in Nat
  BY <1>b, <1>0, SizeFacts DEF LocAt
<1>3. UNCHANGED <<head, next, state, block>> /\ loc' = [loc EXCEPT ![t] = NoLocals]
  BY DEF BucketWake, pool
<1>4. Gains(h)
  BY <1>b, Zenon DEF BucketWake, Gains
<1>5. (\A u \in Threads : u # t => loc'[u] = loc[u]) /\ loc'[t] = NoLocals
  BY <1>0, <1>3, LocFacts
<1>6. Others(t) /\ pc'[t] = "idle"
  <2>1. pc'[t] = "idle" /\ \A u \in Threads : u # t => pc'[u] = pc[u] \/ (pc[u] = "bucket_sleep" /\ pc'[u] = "bucket")
    BY DEF BucketWake
  <2> QED
    BY <1>5, <2>1 DEF Others
<1>7. pc[t] \notin Growing /\ pc'[t] \notin Growing /\ pc[t] \notin Pushing
  BY <1>0, <1>6 DEF Growing, Pushing
<1>8. Fresh(fresh)'
  BY <1>0, <1>3, <1>6, <1>7, FreshSame
<1>9. h \in States /\ h[2] > 0 /\ Proper(h)
  BY <1>b, <1>c, <1>1 DEF States, Proper
<1>10. own \in [Owners -> SUBSET Int] /\ own[KeptBy(t)] = Extent(h[1], h[2])
  <2>1. own[KeptBy(t)] = KeptUnits(t)
    BY <1>0, <1>1 DEF Owned
  <2>2. KeptUnits(t) = Extent(off, Size(b))
    BY <1>b, <1>0 DEF KeptUnits, Pushing
  <2> QED
    BY <1>0, <1>c, <2>1, <2>2 DEF Owned
<1>13. /\ KeptBy(t) \in Inner /\ KeptBy(t) \in Owners /\ HeldAs(h) \in Owners /\ HeldAs(h) # KeptBy(t)
  BY <1>9, OwnerSet, OwnerNames DEF Inner
<1>14. own[HeldAs(h)] = {}
  <2>1. HeldUnits(h) = {}
    BY <1>0, <1>4, <1>9, <1>10, <1>13, HeldMore
  <2> QED
    BY <1>0, <1>9, <2>1 DEF Owned
<1>15. PICK own2 : own2 = [z \in Owners |-> IF z = HeldAs(h) THEN own[KeptBy(t)]
                                           ELSE IF z = KeptBy(t) THEN {} ELSE own[z]]
  OBVIOUS
<1>16. /\ own2 \in [Owners -> SUBSET Int] /\ own2[HeldAs(h)] = own[KeptBy(t)] /\ own2[KeptBy(t)] = {}
       /\ \A z \in Owners \ {HeldAs(h), KeptBy(t)} : own2[z] = own[z]
  BY <1>10, <1>13, <1>15
<1>17. Apart(own2) /\ Cover(own2)
  <2>1. /\ own2[HeldAs(h)] \cap own2[KeptBy(t)] = {}
        /\ own2[HeldAs(h)] \cup own2[KeptBy(t)] = own[HeldAs(h)] \cup own[KeptBy(t)]
    BY <1>14, <1>16
  <2> QED
    BY <1>0, <1>10, <1>13, <1>16, <2>1, Handover
<1>18. \A s \in Sides : own2[PoolOf(s)] = Beyond(s, fresh[s])
  <2>1. \A s \in Sides : PoolOf(s) \in Owners \ {HeldAs(h), KeptBy(t)}
    BY OwnerSet, OwnerNames
  <2> QED
    BY <1>0, <1>16, <2>1 DEF Owned
<1>19. \A c \in Buckets : own2[RestOf(c)] = RestUnits(c)'
  <2>1. \A c \in Buckets : RestOf(c) \in Owners \ {HeldAs(h), KeptBy(t)}
    BY OwnerSet, OwnerNames
  <2>2. \A c \in Buckets : RestUnits(c)' = RestUnits(c)
    BY <1>3 DEF RestUnits
  <2> QED
    BY <1>0, <1>16, <2>1, <2>2 DEF Owned
<1>20. \A u \in Threads : u # t => own2[KeptBy(u)] = own[KeptBy(u)]
  <2>1. \A u \in Threads : u # t => KeptBy(u) \in Owners \ {HeldAs(h), KeptBy(t)}
    BY OwnerSet, OwnerNames
  <2> QED
    BY <1>16, <2>1
<1>21. PICK x \in Inner : x = KeptBy(t)
  BY <1>13
<1>22. /\ Extent(h[1], h[2]) \subseteq own[x] /\ own2[HeldAs(h)] = Extent(h[1], h[2])
       /\ \A z \in Owners \ {HeldAs(h), x, x} : own2[z] = own[z]
  BY <1>10, <1>16, <1>21
<1>23. head' = head /\ next' = next /\ pc[t] \notin Pushing /\ own2[KeptBy(t)] = {}
  BY <1>3, <1>7, <1>16
<1>24. own2 \in [Owners -> SUBSET Int]
  BY <1>16
<1> QED
  BY <1>4, <1>5, <1>6, <1>8, <1>9, <1>17, <1>18, <1>19, <1>20, <1>22, <1>23, <1>24, GiveOut

\* Waking the waiters of the pool, and being interrupted, moves no memory.
LEMMA WakeUnits ==
    ASSUME NEW own, NEW n, NEW at, NEW fresh, Memory(own, n, at, fresh), SleepInv, NEW t \in Threads,
           PoolWake(t) \/ Interrupt(t)
    PROVE  MemInv'
<1>0. PoolTyped /\ Fresh(fresh)
  BY DEF SleepInv, Memory
<1>1. UNCHANGED <<head, next, state, block, loc, held>>
  BY DEF PoolWake, Interrupt, pool
<1>2. /\ \/ pc[t] = "pool_wake" /\ pc'[t] = "pool_got"
         \/ pc[t] \in {"bucket_sleep", "pool_sleep"} /\ pc'[t] \in {"bucket", "pool"}
      /\ Others(t)
  <2>1. CASE PoolWake(t)
    BY <1>0, <1>1, <2>1 DEF PoolWake, PoolTyped, Others
  <2>2. CASE Interrupt(t)
    BY <1>0, <1>1, <2>2 DEF Interrupt, Goto, PoolTyped, Others
  <2> QED
    BY <2>1, <2>2
<1>3. \A b \in Buckets : RestUnits(b)' = RestUnits(b)
  BY <1>1 DEF RestUnits
<1>4. Fresh(fresh)'
  <2>1. pc[t] \notin Growing /\ pc'[t] \notin Growing
    BY <1>2 DEF Growing
  <2> QED
    BY <1>0, <1>1, <1>2, <2>1, FreshSame
<1>5. Popper(t)' /\ Pusher(t)'
  BY <1>2 DEF Popper, Pusher, Pushing
<1>6. KeptUnits(t)' = KeptUnits(t) /\ \A l \in Lists : ItemUnits(t, l)' = ItemUnits(t, l)
  <2>1. KeptUnits(t)' = KeptUnits(t)
    BY <1>1, <1>2 DEF KeptUnits, Want, Pushing
  <2>2. \A l \in Lists : ItemUnits(t, l)' = ItemUnits(t, l)
    BY <1>2 DEF ItemUnits, Pushing
  <2> QED
    BY <2>1, <2>2
<1> QED
  BY <1>1, <1>2, <1>3, <1>4, <1>5, <1>6, Quiet

\* A block from the pool: nobody is growing that end.
LEMMA PoolBlockStep ==
    ASSUME NEW own, NEW n, NEW at, NEW fresh, Memory(own, n, at, fresh), SleepInv, NEW t \in Threads,
           PoolAlloc(t), state[loc[t].side].next + Want(t) <= state[loc[t].side].end
    PROVE  MemInv'
<1>a. PICK s, m, w : s = loc[t].side /\ m = state[s].next /\ w = Want(t)
  OBVIOUS
<1>0. /\ PoolTyped /\ Fresh(fresh) /\ LocAt(t) /\ OneGrower /\ pc[t] = "pool" /\ Owned(own, n, at, fresh)
  BY DEF SleepInv, Memory, PoolAlloc
<1>1. s \in Sides /\ loc[t].want \in Lists
  BY <1>a, <1>0 DEF LocAt, Fetching, Sides, Lists
<1>2. m \in Nat /\ state[s].end \in Nat /\ w \in Nat /\ w > 0
  BY <1>a, <1>0, <1>1, WantFacts DEF PoolTyped, Words, Lists
<1>3. ~(m + w > state[s].end)
  BY <1>a, <1>2
<1>4. state' = [state EXCEPT ![s].next = @ + w] /\ GotBlock(t, m) /\ UNCHANGED <<head, block>>
  BY <1>a, <1>3 DEF PoolAlloc
<1>5. \A u \in Threads : pc[u] \in Growing => loc[u].side # s
  <2> SUFFICES ASSUME NEW u \in Threads, pc[u] \in Growing, loc[u].side = s PROVE FALSE
    OBVIOUS
  <2>1. GrowerAt(u) /\ LocAt(u)
    BY DEF SleepInv
  <2>2. loc[u].old \in Words /\ loc[u].want \in Lists
    BY <2>1 DEF LocAt, Fetching, Lists
  <2>3. Want(u) \in Nat
    BY <2>2, WantFacts DEF Lists
  <2>4. /\ state[s].end = loc[u].old.end /\ loc[u].old.end < loc[u].old.next + Want(u)
        /\ m >= loc[u].old.next + Want(u)
    BY <1>a, <2>1 DEF GrowerAt
  <2> QED
    BY <1>2, <1>3, <2>2, <2>3, <2>4 DEF Words
<1>6. fresh \in [Sides -> Nat] /\ fresh[s] = m
  BY <1>a, <1>0, <1>1, <1>5 DEF Fresh
<1>7. state'[s].next = m + w /\ \A r \in Sides : r # s => state'[r] = state[r]
  BY <1>a, <1>0, <1>1, <1>4 DEF PoolTyped, Words
<1>8. PICK fresh2 : fresh2 = [fresh EXCEPT ![s] = m + w]
  OBVIOUS
<1>9. fresh2 \in [Sides -> Nat] /\ fresh2[s] = m + w /\ \A r \in Sides : r # s => fresh2[r] = fresh[r]
  BY <1>1, <1>2, <1>6, <1>8
<1>10. ASSUME Others(t), pc'[t] \notin Growing PROVE Fresh(fresh2)'
  <2>1. pc[t] \notin Growing
    BY <1>0 DEF Growing
  <2>2. \A u \in Threads : /\ pc'[u] \in Growing <=> pc[u] \in Growing
                           /\ pc[u] \in Growing => loc'[u] = loc[u] /\ loc[u].side \in Sides
    <3>1. \A u \in Threads : pc[u] \in Growing => loc[u].side \in Sides
      BY DEF SleepInv, LocAt, Fetching, Sides
    <3> QED
      BY <1>10, <2>1, <3>1 DEF Others, Growing
  <2>3. \A u \in Threads : pc'[u] \in Growing => fresh2[loc'[u].side] = loc'[u].old.next
    BY <1>0, <1>5, <1>9, <2>2 DEF Fresh
  <2>4. ASSUME NEW r \in Sides, \A u \in Threads : pc'[u] \in Growing => loc'[u].side # r
        PROVE  fresh2[r] = state'[r].next
    <3>1. CASE r = s
      BY <1>7, <1>9, <3>1
    <3>2. CASE r # s
      <4>1. \A u \in Threads : pc[u] \in Growing => loc[u].side # r
        BY <2>2, <2>4
      <4> QED
        BY <1>0, <1>7, <1>9, <3>2, <4>1 DEF Fresh
    <3> QED
      BY <3>1, <3>2
  <2> QED
    BY <1>9, <2>3, <2>4 DEF Fresh
<1>11. PICK P : P = Piece(s, m, w)
  OBVIOUS
<1>12. /\ own[PoolOf(s)] = Beyond(s, m) /\ P \subseteq own[PoolOf(s)]
       /\ Beyond(s, m + w) = own[PoolOf(s)] \ P
  <2>1. own[PoolOf(s)] = Beyond(s, m)
    BY <1>0, <1>1, <1>6 DEF Owned
  <2> QED
    BY <1>1, <1>2, <1>11, <2>1, PieceFacts
<1>x. PICK x : x = PoolOf(s)
  OBVIOUS
<1>13. /\ x \in Inner /\ (\A b \in Buckets : x # RestOf(b)) /\ (\A u \in Threads : x # KeptBy(u))
  BY <1>x, <1>1, OwnerNames DEF Inner
<1>14. \A r \in Sides : Beyond(r, fresh2[r]) = IF x = PoolOf(r) THEN own[x] \ P ELSE own[PoolOf(r)]
  <2>1. \A r \in Sides : x = PoolOf(r) => r = s
    BY <1>x, OwnerNames
  <2>2. \A r \in Sides : r # s => Beyond(r, fresh2[r]) = own[PoolOf(r)]
    BY <1>0, <1>9 DEF Owned
  <2> QED
    BY <1>x, <1>9, <1>12, <2>1, <2>2
<1>15. own[KeptBy(t)] = {}
  BY <1>0, NoUnits DEF Owned, Having, Pushing
<1>16. own[KeptBy(t)] = IF x = KeptBy(t) THEN P ELSE {}
  BY <1>x, <1>13, <1>15
<1>17. P \subseteq own[x] /\ P = Piece(loc[t].side, m, Want(t))
  BY <1>a, <1>11, <1>12, <1>x
<1>18. /\ pc[t] \in {"pool", "pool_got"} /\ (\A u \in Threads : u # t => x # KeptBy(u))
       /\ (Others(t) /\ pc'[t] \notin Growing => Fresh(fresh2)')
  BY <1>0, <1>10, <1>13
<1> QED
  BY <1>2, <1>4, <1>13, <1>14, <1>16, <1>17, <1>18, GotUnits

\* The thread that has grown the pool takes its block.
LEMMA PoolGotUnits ==
    ASSUME NEW own, NEW n, NEW at, NEW fresh, Memory(own, n, at, fresh), SleepInv, NEW t \in Threads,
           PoolGot(t)
    PROVE  MemInv'
<1>a. PICK m : m = loc[t].old.next
  OBVIOUS
<1>0. /\ PoolTyped /\ Fresh(fresh) /\ LocAt(t) /\ pc[t] = "pool_got" /\ Owned(own, n, at, fresh)
      /\ UNCHANGED <<head, block, state>> /\ GotBlock(t, m)
  BY <1>a DEF SleepInv, Memory, PoolGot, pool
<1>1. m \in Nat
  BY <1>a, <1>0 DEF LocAt, Words
<1>2. PICK P : P = Piece(loc[t].side, m, Want(t))
  OBVIOUS
<1>3. own[KeptBy(t)] = P
  BY <1>a, <1>0, <1>2 DEF Owned, KeptUnits
<1>f. PICK fresh2 : fresh2 = fresh
  OBVIOUS
<1>4. ASSUME Others(t), pc'[t] \notin Growing PROVE Fresh(fresh2)'
  <2>1. pc[t] \notin Growing
    BY <1>0 DEF Growing
  <2> QED
    BY <1>f, <1>0, <1>4, <2>1, FreshSame
<1>x. PICK x : x = KeptBy(t)
  OBVIOUS
<1>5. x \in Inner /\ (\A b \in Buckets : x # RestOf(b)) /\ (\A u \in Threads : u # t => x # KeptBy(u))
  BY <1>x, OwnerNames DEF Inner
<1>10. \A r \in Sides : x # PoolOf(r)
  BY <1>x, OwnerNames
<1>6. \A r \in Sides : Beyond(r, fresh2[r]) = IF x = PoolOf(r) THEN own[x] \ P ELSE own[PoolOf(r)]
  BY <1>f, <1>0, <1>10 DEF Owned
<1>7. P \subseteq own[x] /\ own[KeptBy(t)] = IF x = KeptBy(t) THEN P ELSE {}
  BY <1>x, <1>3
<1>8. P = Piece(loc[t].side, m, Want(t)) /\ GotBlock(t, m) /\ m \in Nat
  BY <1>0, <1>1, <1>2
<1>9. /\ pc[t] \in {"pool", "pool_got"} /\ UNCHANGED <<head, block>>
      /\ (Others(t) /\ pc'[t] \notin Growing => Fresh(fresh2)')
  BY <1>0, <1>4
<1> QED
  BY <1>5, <1>6, <1>7, <1>8, <1>9, GotUnits, SMTT(60)

\* The new end of the pool is there: the thread that grew it has the block it grew it for.
LEMMA PoolExchangeUnits ==
    ASSUME NEW own, NEW n, NEW at, NEW fresh, Memory(own, n, at, fresh), SleepInv, NEW t \in Threads,
           PoolExchange(t)
    PROVE  MemInv'
<1>a. PICK s, m, w : s = loc[t].side /\ m = loc[t].old.next /\ w = Want(t)
  OBVIOUS
<1>0. /\ PoolTyped /\ Fresh(fresh) /\ LocAt(t) /\ OneGrower /\ pc[t] = "pool_xchg"
      /\ Owned(own, n, at, fresh) /\ Apart(own) /\ Cover(own)
      /\ UNCHANGED <<head, next, block, loc, held>>
  BY DEF SleepInv, Memory, PoolExchange
<1>1. s \in Sides /\ loc[t].want \in Lists /\ m \in Nat
  BY <1>a, <1>0 DEF LocAt, Fetching, Growing, Sides, Lists, Words
<1>2. w \in Nat /\ w > 0
  BY <1>a, <1>1, WantFacts DEF Lists
<1>3. state'[s].next = m + w /\ \A r \in Sides : r # s => state'[r] = state[r]
  BY <1>a, <1>0, <1>1 DEF PoolExchange, PoolTyped
<1>b. state[loc[t].side].next # loc[t].old.next
  <2>1. GrowerAt(t) /\ pc[t] \in Growing
    BY <1>0 DEF SleepInv, Growing
  <2> QED
    BY <1>a, <1>0, <1>1, <1>2, <2>1 DEF GrowerAt, PoolTyped, Words
<1>4. Others(t) /\ pc'[t] = "pool_wake"
  <2>1. pc' = [pc EXCEPT ![t] = "pool_wake"]
    BY <1>b DEF PoolExchange, Goto
  <2> QED
    BY <1>0, <2>1, OthersOwn
<1>5. pc[t] \in Growing /\ pc'[t] \notin Growing /\ pc[t] \notin Pushing /\ pc[t] \notin Having
  BY <1>0, <1>4 DEF Growing, Pushing, Having
<1>6. fresh \in [Sides -> Nat] /\ fresh[s] = m
  BY <1>a, <1>0, <1>5 DEF Fresh
<1>7. KeptUnits(t)' = Piece(s, m, w)
  <2>1. Want(t)' = w /\ loc'[t] = loc[t]
    BY <1>a, <1>0 DEF Want
  <2> QED
    BY <1>a, <1>4, <2>1 DEF KeptUnits
<1>8. PICK fresh2 : fresh2 = [fresh EXCEPT ![s] = m + w]
  OBVIOUS
<1>9. fresh2 \in [Sides -> Nat] /\ fresh2[s] = m + w /\ \A r \in Sides : r # s => fresh2[r] = fresh[r]
  BY <1>1, <1>2, <1>6, <1>8
<1>10. Fresh(fresh2)'
  <2>1. \A u \in Threads : u # t => (pc'[u] \in Growing <=> pc[u] \in Growing)
    BY <1>4 DEF Others, Growing
  <2>2. \A u \in Threads : pc[u] \in Growing => loc[u].side \in Sides
    BY DEF SleepInv, LocAt, Fetching, Sides
  <2>3. \A u \in Threads : pc[u] \in Growing /\ u # t => loc[u].side # s
    BY <1>a, <1>0, <1>5 DEF OneGrower
  <2>4. \A u \in Threads : pc'[u] \in Growing => fresh2[loc'[u].side] = loc'[u].old.next
    BY <1>0, <1>5, <1>9, <2>1, <2>2, <2>3 DEF Fresh
  <2>5. ASSUME NEW r \in Sides, \A u \in Threads : pc'[u] \in Growing => loc'[u].side # r
        PROVE  fresh2[r] = state'[r].next
    <3>1. CASE r = s
      BY <1>3, <1>9, <3>1
    <3>2. CASE r # s
      <4>1. \A u \in Threads : pc[u] \in Growing => loc[u].side # r
        BY <1>a, <1>0, <2>1, <2>5, <3>2
      <4> QED
        BY <1>0, <1>3, <1>9, <3>2, <4>1 DEF Fresh
    <3> QED
      BY <3>1, <3>2
  <2> QED
    BY <1>9, <2>4, <2>5 DEF Fresh
<1>11. PICK P : P = Piece(s, m, w)
  OBVIOUS
<1>12. /\ own \in [Owners -> SUBSET Int] /\ P \subseteq own[PoolOf(s)] /\ own[KeptBy(t)] = {}
       /\ Beyond(s, m + w) = own[PoolOf(s)] \ P
  <2>1. own[PoolOf(s)] = Beyond(s, m) /\ own[KeptBy(t)] = KeptUnits(t) /\ own \in [Owners -> SUBSET Int]
    BY <1>0, <1>1, <1>6 DEF Owned
  <2>2. KeptUnits(t) = {}
    BY <1>5, NoUnits
  <2> QED
    BY <1>1, <1>2, <1>6, <1>11, <2>1, <2>2, PieceFacts
<1>13. /\ KeptBy(t) \in Inner /\ PoolOf(s) \in Inner /\ KeptBy(t) \in Owners /\ PoolOf(s) \in Owners
       /\ KeptBy(t) # PoolOf(s)
  BY <1>1, OwnerNames, OwnerSet DEF Inner
<1>14. PICK own2 : own2 = [z \in Owners |-> IF z = KeptBy(t) THEN P ELSE IF z = PoolOf(s) THEN own[PoolOf(s)] \ P
                                           ELSE own[z]]
  OBVIOUS
<1>15. /\ own2 \in [Owners -> SUBSET Int] /\ own2[KeptBy(t)] = P /\ own2[PoolOf(s)] = own[PoolOf(s)] \ P
       /\ \A z \in Owners \ {KeptBy(t), PoolOf(s)} : own2[z] = own[z]
  BY <1>12, <1>13, <1>14
<1>16. Apart(own2) /\ Cover(own2)
  <2>1. /\ own2[KeptBy(t)] \cap own2[PoolOf(s)] = {}
        /\ own2[KeptBy(t)] \cup own2[PoolOf(s)] = own[KeptBy(t)] \cup own[PoolOf(s)]
    BY <1>12, <1>15
  <2> QED
    BY <1>0, <1>12, <1>13, <1>15, <2>1, Handover
<1>17. \A r \in Sides : own2[PoolOf(r)] = Beyond(r, fresh2[r])
  <2>1. \A r \in Sides : r # s => PoolOf(r) \in Owners \ {KeptBy(t), PoolOf(s)}
    BY OwnerSet, OwnerNames
  <2> QED
    BY <1>0, <1>9, <1>12, <1>15, <2>1 DEF Owned
<1>18. \A b \in Buckets : own2[RestOf(b)] = RestUnits(b)'
  <2>1. \A b \in Buckets : RestOf(b) \in Owners \ {KeptBy(t), PoolOf(s)}
    BY OwnerSet, OwnerNames
  <2> QED
    BY <1>0, <1>15, <2>1 DEF Owned, RestUnits
<1>19. \A u \in Threads : u # t => own2[KeptBy(u)] = own[KeptBy(u)]
  <2>1. \A u \in Threads : u # t => KeptBy(u) \in Owners \ {KeptBy(t), PoolOf(s)}
    BY OwnerSet, OwnerNames
  <2> QED
    BY <1>15, <2>1
<1>20. own2[KeptBy(t)] = KeptUnits(t)'
  BY <1>7, <1>11, <1>15
<1> QED
  BY <1>0, <1>4, <1>5, <1>10, <1>13, <1>15, <1>16, <1>17, <1>18, <1>19, <1>20, Take
-----------------------------------------------------------------------------
(***************************************************************************)
(* Memory to and from the free lists.                                      *)
(***************************************************************************)
\* What a thread that pushes has: a chunk for each list.
LEMMA PusherOwns ==
    ASSUME NEW own, NEW n, NEW at, NEW fresh, Memory(own, n, at, fresh), NEW t \in Threads,
           pc[t] \in Pushing, NEW p, p = Head(loc[t].push)
    PROVE  /\ p \in Items /\ p.list \in Lists /\ loc[t].push[1] = p
           /\ own[ItemOf(t, p.list)] = Chunk(p) /\ ItemOf(t, p.list) \in Owners
           /\ \A l \in Lists \ {p.list} : own[ItemOf(t, l)] =
                 IF Len(loc[t].push) = 2 /\ l = loc[t].push[2].list THEN Chunk(loc[t].push[2]) ELSE {}
<1> DEFINE q == loc[t].push
<1>0. Owned(own, n, at, fresh) /\ Pusher(t)
  BY DEF Memory
<1>1. /\ q \in Seq(Items) /\ Len(q) \in {1, 2} /\ (Len(q) = 2 => q[1].list # q[2].list)
  BY <1>0 DEF Pusher
<1>2. /\ p = q[1] /\ \A j \in 1 .. Len(q) : q[j] \in Items
      /\ 1 \in 1 .. Len(q) /\ (Len(q) = 2 => 1 .. Len(q) = {1, 2}) /\ (Len(q) = 1 => 1 .. Len(q) = {1})
  BY <1>1, ItemSeq
<1>3. p \in Items /\ p.list \in Lists
  BY <1>2 DEF Items
<1>4. \A j \in 1 .. Len(q) : Chunk(q[j]) \subseteq Int
  BY <1>2, NthFacts
<1>5. \A l \in Lists : own[ItemOf(t, l)] =
         {u \in Int : \E j \in 1 .. Len(q) : q[j].list = l /\ u \in Chunk(q[j])}
  BY <1>0 DEF Owned, ItemUnits
<1>6. ItemOf(t, p.list) \in Owners
  BY <1>3, OwnerSet
<1> HIDE DEF q
<1>7. own[ItemOf(t, p.list)] = Chunk(p)
  <2>1. \A u \in Int : (\E j \in 1 .. Len(q) : q[j].list = p.list /\ u \in Chunk(q[j])) <=> u \in Chunk(p)
    BY <1>1, <1>2
  <2>2. Chunk(p) \subseteq Int
    BY <1>2, <1>4
  <2> QED
    BY <1>3, <1>5, <2>1, <2>2
<1>8. ASSUME NEW l \in Lists \ {p.list}
      PROVE  own[ItemOf(t, l)] = IF Len(q) = 2 /\ l = q[2].list THEN Chunk(q[2]) ELSE {}
  <2>1. \A u \in Int : (\E j \in 1 .. Len(q) : q[j].list = l /\ u \in Chunk(q[j]))
                          <=> Len(q) = 2 /\ l = q[2].list /\ u \in Chunk(q[2])
    BY <1>1, <1>2
  <2>2. Len(q) = 2 => Chunk(q[2]) \subseteq Int
    BY <1>2, <1>4
  <2> QED
    BY <1>5, <2>1, <2>2
<1> QED
  BY <1>2, <1>3, <1>6, <1>7, <1>8 DEF q

\* A thread writes links into the chunk it is about to push.
LEMMA OwnWrites ==
    ASSUME NEW own, NEW n, NEW at, NEW fresh, Memory(own, n, at, fresh), SleepInv, NEW t \in Threads,
           pc[t] \in Pushing, pc' = [pc EXCEPT ![t] = "push_cas"], NEW c, loc' = [loc EXCEPT ![t].cur = c],
           UNCHANGED <<head, held, block, state>>,
           NEW W, WritesOnly(W), DOMAIN next' \subseteq DOMAIN next \cup W,
           NEW p, p = Head(loc[t].push), W \subseteq Chunk(p),
           \A i \in 0 .. p.n - 2 : Nth(p, i) \in DOMAIN next' /\ next'[Nth(p, i)] = Nth(p, i + 1)
    PROVE  MemInv'
<1>0. /\ Owned(own, n, at, fresh) /\ Stacks(n, at) /\ Apart(own) /\ Cover(own) /\ Fresh(fresh)
      /\ HeldOnce /\ Pusher(t) /\ IsFiniteSet(DOMAIN next) /\ PoolTyped
  BY DEF Memory, SleepInv
<1>1. /\ \A u \in Threads : u # t => loc'[u] = loc[u]
      /\ loc'[t].push = loc[t].push /\ loc'[t].want = loc[t].want /\ loc'[t].off = loc[t].off
  BY <1>0, LocFacts
<1>2. Others(t) /\ pc'[t] = "push_cas"
  BY <1>0, <1>1, OthersOwn
<1>3. Fresh(fresh)'
  <2>1. pc[t] \notin Growing /\ pc'[t] \notin Growing
    BY <1>2 DEF Growing, Pushing
  <2> QED
    BY <1>0, <1>2, <2>1, FreshSame
<1>4. /\ p \in Items /\ p.list \in Lists /\ loc[t].push[1] = p
      /\ own[ItemOf(t, p.list)] = Chunk(p) /\ ItemOf(t, p.list) \in Owners
  BY PusherOwns
<1>5. IsFiniteSet(DOMAIN next')
  <2>1. Chunk(p) = p.off .. Nth(p, p.n) - 1
    BY <1>4, NthFacts
  <2>2. p.off \in Int /\ Nth(p, p.n) - 1 \in Int
    <3>1. p.off \in Int /\ p.n \in Int
      BY <1>4 DEF Items
    <3> QED
      BY <1>4, <3>1, NthFacts
  <2>3. IsFiniteSet(Chunk(p))
    BY <2>1, <2>2, FS_Interval
  <2>4. IsFiniteSet(DOMAIN next \cup Chunk(p))
    BY <1>0, <2>3, FS_Union
  <2> QED
    BY <2>4, FS_Subset
<1>6. \A l \in Lists, i \in Ranks : W \cap own[PlaceOn(l, i)] = {}
  BY <1>0, <1>4, OwnerSet, OwnerNames DEF Apart
<1>7. \A u \in Threads, l \in Lists : u # t => W \cap own[ItemOf(u, l)] = {}
  BY <1>0, <1>4, OwnerSet, OwnerNames DEF Apart
<1>8. Stacks(n, at)' /\ \A l \in Lists : n[l] # 0 => Top(n, at, l) \notin W
  BY <1>0, <1>6, ListsKept
<1>9. CountsGrow
  BY DEF CountsGrow
<1>10. Popper(t)'
  BY <1>2 DEF Popper
<1>11. Pusher(t)'
  <2>1. loc'[t].push[1] = p
    BY <1>1, <1>4
  <2>2. \A i \in 0 .. p.n - 2 : (Nth(p, i) \in DOMAIN next)' /\ next'[Nth(p, i)] = Nth(p, i + 1)
    OBVIOUS
  <2> QED
    BY <1>0, <1>1, <1>2, <2>1, <2>2 DEF Pusher, Pushing, OnSide, Nth
<1>12. KeptUnits(t)' = KeptUnits(t)
  BY <1>1, <1>2 DEF KeptUnits, Pushing
<1>13. \A l \in Lists : ItemUnits(t, l)' = ItemUnits(t, l)
  BY <1>1, <1>2 DEF ItemUnits, Pushing
<1>14. HeldOnce'
  BY <1>0 DEF HeldOnce
<1>15. /\ own \in [Owners -> SUBSET Int]
       /\ \A s \in Sides : own[PoolOf(s)] = Beyond(s, fresh[s])
       /\ \A h \in States : own[HeldAs(h)] = HeldUnits(h)'
       /\ \A l \in Lists, i \in Ranks : own[PlaceOn(l, i)] = PlaceUnits(n, at, l, i)
       /\ \A b \in Buckets : own[RestOf(b)] = RestUnits(b)'
       /\ own[KeptBy(t)] = KeptUnits(t)'
       /\ \A l \in Lists : own[ItemOf(t, l)] = ItemUnits(t, l)'
  BY <1>0, <1>12, <1>13 DEF Owned, HeldUnits, RestUnits
<1> QED
  BY <1>0, <1>2, <1>3, <1>5, <1>7, <1>8, <1>9, <1>10, <1>11, <1>14, <1>15, MemoryStep

\* The states of a chunk are at different places inside it.
LEMMA NthInside ==
    ASSUME NEW p \in Items, NEW i \in 0 .. p.n - 1
    PROVE  /\ Nth(p, i) \in Chunk(p) /\ i \in Int /\ Nth(p, i) \in Int
           /\ \A j \in Int : j # i => Nth(p, j) # Nth(p, i)
<1>0. p.n \in Nat /\ p.list \in Lists /\ i \in Int
  BY DEF Items
<1>1. Size(p.list) \in Nat /\ Size(p.list) > 0
  BY <1>0, SizesDivide
<1>2. Extent(Nth(p, i), Size(p.list)) \subseteq Chunk(p) /\ Nth(p, i) \in Int
  BY <1>0, NthFacts
<1>3. Nth(p, i) \in Extent(Nth(p, i), Size(p.list))
  BY <1>1, <1>2 DEF Extent
<1>4. ASSUME NEW j \in Int, j # i PROVE Nth(p, j) # Nth(p, i)
  <2>1. /\ Nth(p, j) \in Int
        /\ j < i => Nth(p, j) + Size(p.list) <= Nth(p, i)
        /\ i < j => Nth(p, i) + Size(p.list) <= Nth(p, j)
    BY <1>0, NthFacts
  <2>2. j < i \/ i < j
    BY <1>0, <1>4
  <2> QED
    BY <1>1, <1>2, <2>1, <2>2
<1> QED
  BY <1>0, <1>2, <1>3, <1>4

\* The chain is built, and the link of its last state written, in the thread's own memory.
LEMMA LinkSteps ==
    ASSUME NEW own, NEW n, NEW at, NEW fresh, Memory(own, n, at, fresh), SleepInv, NEW t \in Threads,
           Push(t) \/ (PushCas(t) /\ head[Head(loc[t].push).list] # loc[t].cur)
    PROVE  MemInv'
<1>a. PICK p : p = Head(loc[t].push)
  OBVIOUS
<1>0. pc[t] \in Pushing /\ UNCHANGED <<head, held, block, state>> /\ PoolTyped /\ Pusher(t)
  BY <1>a DEF Push, PushCas, Pushing, pool, Memory, SleepInv
<1>1. p \in Items /\ p.list \in Lists /\ loc[t].push[1] = p
  BY <1>a, <1>0, PusherOwns
<1>2. p.n \in Nat /\ p.n > 0 /\ \A i \in 0 .. p.n - 2 : i \in 0 .. p.n - 1 /\ i + 1 \in 0 .. p.n - 1
  BY <1>1 DEF Items
<1>3. CASE Push(t)
  <2>1. PICK chain : chain = {Nth(p, i) : i \in 0 .. p.n - 2}
    OBVIOUS
  <2>2. next' = [o \in DOMAIN next \cup chain |-> IF o \in chain THEN o + Size(p.list) ELSE next[o]]
    BY <1>3, <1>a, <2>1 DEF Push
  <2>3. pc' = [pc EXCEPT ![t] = "push_cas"] /\ loc' = [loc EXCEPT ![t].cur = head[p.list]]
    BY <1>3, <1>a DEF Push, Goto
  <2>4. WritesOnly(chain) /\ DOMAIN next' \subseteq DOMAIN next \cup chain
    BY <2>2 DEF WritesOnly
  <2>5. chain \subseteq Chunk(p)
    BY <1>1, <1>2, <2>1, NthInside
  <2>6. ASSUME NEW i \in 0 .. p.n - 2
        PROVE  Nth(p, i) \in DOMAIN next' /\ next'[Nth(p, i)] = Nth(p, i + 1)
    <3>1. Nth(p, i) \in chain
      BY <2>1
    <3>2. Nth(p, i + 1) = Nth(p, i) + Size(p.list)
      BY <1>1, NthFacts
    <3> QED
      BY <2>2, <3>1, <3>2
  <2>7. PICK c : c = head[p.list]
    OBVIOUS
  <2>8. loc' = [loc EXCEPT ![t].cur = c]
    BY <2>3, <2>7
  <2> QED
    BY <1>a, <1>0, <2>3, <2>4, <2>5, <2>6, <2>8, OwnWrites
<1>4. CASE PushCas(t) /\ head[p.list] # loc[t].cur
  <2>1. PICK last : last = Nth(p, p.n - 1)
    OBVIOUS
  <2>2. next' = [o \in DOMAIN next \cup {last} |-> IF o = last THEN loc[t].cur.offset ELSE next[o]]
    BY <1>4, <1>a, <2>1 DEF PushCas
  <2>3. pc[t] = "push_cas" /\ pc' = pc /\ loc' = [loc EXCEPT ![t].cur = head[p.list]]
    BY <1>4, <1>a DEF PushCas
  <2>4. pc' = [pc EXCEPT ![t] = "push_cas"]
    BY <1>0, <2>3 DEF PoolTyped
  <2>5. WritesOnly({last}) /\ DOMAIN next' \subseteq DOMAIN next \cup {last}
    BY <2>2 DEF WritesOnly
  <2>6. p.n - 1 \in 0 .. p.n - 1
    BY <1>2
  <2>7. last \in Chunk(p) /\ \A j \in Int : j # p.n - 1 => Nth(p, j) # last
    BY <1>1, <2>1, <2>6, NthInside
  <2>8. ASSUME NEW i \in 0 .. p.n - 2
        PROVE  Nth(p, i) \in DOMAIN next' /\ next'[Nth(p, i)] = Nth(p, i + 1)
    <3>1. Nth(p, i) \in DOMAIN next /\ next[Nth(p, i)] = Nth(p, i + 1)
      BY <1>0, <1>1, <2>3 DEF Pusher
    <3>2. Nth(p, i) # last
      BY <1>2, <2>7
    <3> QED
      BY <2>2, <3>1, <3>2
  <2>9. PICK c : c = head[p.list]
    OBVIOUS
  <2>10. loc' = [loc EXCEPT ![t].cur = c]
    BY <2>3, <2>9
  <2> DEFINE W == {last}
  <2>11. WritesOnly(W) /\ DOMAIN next' \subseteq DOMAIN next \cup W /\ W \subseteq Chunk(p)
    BY <2>5, <2>7
  <2> HIDE DEF W
  <2> QED
    BY <1>a, <1>0, <2>4, <2>8, <2>10, <2>11, OwnWrites
<1> QED
  BY <1>a, <1>3, <1>4

\* The application frees a state.
LEMMA FreeStep ==
    ASSUME NEW own, NEW n, NEW at, NEW fresh, Memory(own, n, at, fresh), SleepInv, NEW t \in Threads,
           NEW h \in BagToSet(held), Free(t, h)
    PROVE  MemInv'
<1> USE AnvAssumption
<1>0. /\ Owned(own, n, at, fresh) /\ Stacks(n, at) /\ Apart(own) /\ Cover(own) /\ Fresh(fresh)
      /\ HeldOnce /\ Pusher(t) /\ IsFiniteSet(DOMAIN next) /\ PoolTyped
      /\ pc[t] = "idle" /\ UNCHANGED <<head, next, block, state>>
  BY Zenon DEF Memory, SleepInv, Free, pool
<1>1. h \in DOMAIN held /\ h \in States /\ Proper(h) /\ \A g \in DOMAIN held : held[g] = 1
  BY <1>0 DEF BagToSet, HeldOnce, Proper
<1>2. Loses(h) /\ pc' = [pc EXCEPT ![t] = "push"]
  BY Zenon DEF Free, Loses, Goto
<1>3. PICK l : l = IF h[1] < 0 THEN Back ELSE CHOOSE b \in Buckets : Size(b) = h[2]
  OBVIOUS
<1>4. PICK p : p = [list |-> l, off |-> h[1], n |-> 1]
  OBVIOUS
<1>5. loc' = [loc EXCEPT ![t].push = <<p>>]
  <2>1. loc' = [loc EXCEPT ![t].push = <<[list |-> IF h[1] < 0 THEN Back ELSE CHOOSE b \in Buckets : Size(b) = h[2],
                                          off |-> h[1], n |-> 1]>>]
    BY Zenon DEF Free
  <2> QED
    BY <1>3, <1>4, <2>1
<1>6. /\ h[1] \in Int /\ h[2] \in Nat /\ l \in Lists /\ Size(l) = h[2]
      /\ IF l = Back THEN h[1] + h[2] <= 0 ELSE h[1] >= 0
  <2>1. h[1] \in Int /\ h[2] \in Nat
    BY <1>1 DEF States
  <2>2. CASE h[1] < 0
    BY <1>1, <1>3, <2>1, <2>2, SizesDivide DEF Proper, Lists
  <2>3. CASE ~(h[1] < 0)
    <3>1. PICK b \in Buckets : h[2] = Size(b)
      BY <1>1, <2>3 DEF Proper
    <3>2. l \in Buckets /\ Size(l) = h[2]
      BY <1>3, <2>3, <3>1
    <3> QED
      BY <2>1, <2>3, <3>2 DEF Lists
  <2> QED
    BY <2>2, <2>3
<1>7. /\ p \in Items /\ p.list = l /\ p.off = h[1] /\ p.n = 1 /\ Chunk(p) = Extent(h[1], h[2])
      /\ 1 * Size(l) = h[2]
  <2>1. p \in Items /\ p.list = l /\ p.off = h[1] /\ p.n = 1
    BY <1>4, <1>6 DEF Items
  <2>2. 1 * Size(l) = h[2]
    BY <1>6
  <2> QED
    BY <2>1, <2>2 DEF Chunk
<1>8. /\ \A u \in Threads : u # t => loc'[u] = loc[u]
      /\ loc'[t].push = <<p>> /\ loc'[t].want = NULL
  <2>1. loc[t] = NoLocals
    BY <1>0 DEF Pusher
  <2> QED
    BY <1>0, <1>5, <2>1, LocFacts DEF NoLocals
<1>9. Others(t) /\ pc'[t] = "push" /\ pc[t] \notin Having
  BY <1>0, <1>2, <1>8, OthersOwn DEF Having, Pushing
<1>10. Fresh(fresh)'
  <2>1. pc[t] \notin Growing /\ pc'[t] \notin Growing
    BY <1>0, <1>9 DEF Growing
  <2> QED
    BY <1>0, <1>9, <2>1, FreshSame
<1>11. <<p>> \in Seq(Items) /\ Len(<<p>>) = 1 /\ <<p>>[1] = p /\ 1 .. Len(<<p>>) = {1}
  BY <1>7
<1>12. KeptUnits(t)' = {} /\ ItemUnits(t, l)' = Chunk(p) /\ \A m \in Lists : m # l => ItemUnits(t, m)' = {}
  <2>1. KeptUnits(t)' = {}
    BY <1>8, <1>9 DEF KeptUnits
  <2>2. \A m \in Lists : ItemUnits(t, m)' = {u \in Int : p.list = m /\ u \in Chunk(p)}
    BY <1>8, <1>9, <1>11 DEF ItemUnits, Pushing, Chunk
  <2>3. Chunk(p) \subseteq Int
    BY <1>7, NthFacts
  <2> QED
    BY <1>6, <1>7, <2>1, <2>2, <2>3
<1>13. Popper(t)' /\ Pusher(t)'
  <2>1. OnSide(l, h[1], 1 * Size(l))
    BY <1>6, <1>7 DEF OnSide
  <2>2. Pusher(t)'
    BY <1>7, <1>8, <1>9, <1>11, <2>1 DEF Pusher, Pushing, OnSide
  <2> QED
    BY <1>9, <2>2 DEF Popper
<1>14. DOMAIN held' = DOMAIN held \ {h} /\ \A g \in DOMAIN held' : held'[g] = 1
  BY <1>1, <1>2, BagRemove
<1>15. HeldOnce'
  BY <1>0, <1>14 DEF HeldOnce
<1>16. HeldUnits(h) = Chunk(p) /\ HeldUnits(h)' = {} /\ \A g \in States : g # h => HeldUnits(g)' = HeldUnits(g)
  BY <1>1, <1>7, <1>14 DEF HeldUnits
<1>17. /\ HeldAs(h) \in Owners /\ ItemOf(t, l) \in Owners /\ HeldAs(h) # ItemOf(t, l)
  BY <1>1, <1>6, OwnerSet, OwnerNames
<1>18. own \in [Owners -> SUBSET Int] /\ own[HeldAs(h)] = Chunk(p) /\ \A m \in Lists : own[ItemOf(t, m)] = {}
  <2>1. \A m \in Lists : ItemUnits(t, m) = {}
    BY <1>9, NoUnits
  <2> QED
    BY <1>0, <1>1, <1>16, <2>1 DEF Owned
<1>19. PICK own2 : own2 = [z \in Owners |-> IF z = HeldAs(h) THEN {} ELSE IF z = ItemOf(t, l) THEN Chunk(p)
                                           ELSE own[z]]
  OBVIOUS
<1>20. /\ own2 \in [Owners -> SUBSET Int] /\ own2[HeldAs(h)] = {} /\ own2[ItemOf(t, l)] = Chunk(p)
       /\ \A z \in Owners \ {HeldAs(h), ItemOf(t, l)} : own2[z] = own[z]
  BY <1>17, <1>18, <1>19
<1>21. Apart(own2) /\ Cover(own2)
  <2>1. own2[HeldAs(h)] \cap own2[ItemOf(t, l)] = {}
        /\ own2[HeldAs(h)] \cup own2[ItemOf(t, l)] = own[HeldAs(h)] \cup own[ItemOf(t, l)]
    BY <1>6, <1>18, <1>20
  <2> QED
    BY <1>0, <1>17, <1>18, <1>20, <2>1, Handover
<1>22. \A s \in Sides : own2[PoolOf(s)] = Beyond(s, fresh[s])
  <2>1. \A s \in Sides : PoolOf(s) \in Owners \ {HeldAs(h), ItemOf(t, l)}
    BY OwnerSet, OwnerNames
  <2> QED
    BY <1>0, <1>20, <2>1 DEF Owned
<1>23. \A b \in Buckets : own2[RestOf(b)] = RestUnits(b)'
  <2>1. \A b \in Buckets : RestOf(b) \in Owners \ {HeldAs(h), ItemOf(t, l)}
    BY OwnerSet, OwnerNames
  <2> QED
    BY <1>0, <1>20, <2>1 DEF Owned, RestUnits
<1>24. \A g \in States : own2[HeldAs(g)] = HeldUnits(g)'
  <2>1. \A g \in States : g # h => HeldAs(g) \in Owners \ {HeldAs(h), ItemOf(t, l)}
    BY OwnerSet, OwnerNames
  <2> QED
    BY <1>0, <1>16, <1>20, <2>1 DEF Owned
<1>25. \A m \in Lists, i \in Ranks : own2[PlaceOn(m, i)] = PlaceUnits(n, at, m, i)
  <2>1. \A m \in Lists, i \in Ranks : PlaceOn(m, i) \in Owners \ {HeldAs(h), ItemOf(t, l)}
    BY OwnerSet, OwnerNames
  <2> QED
    BY <1>0, <1>20, <2>1 DEF Owned
<1>26. \A u \in Threads : own2[KeptBy(u)] = own[KeptBy(u)]
  <2>1. \A u \in Threads : KeptBy(u) \in Owners \ {HeldAs(h), ItemOf(t, l)}
    BY OwnerSet, OwnerNames
  <2> QED
    BY <1>20, <2>1
<1>27. \A u \in Threads, m \in Lists : u # t \/ m # l => own2[ItemOf(u, m)] = own[ItemOf(u, m)]
  <2>1. \A u \in Threads, m \in Lists : u # t \/ m # l => ItemOf(u, m) \in Owners \ {HeldAs(h), ItemOf(t, l)}
    BY OwnerSet, OwnerNames
  <2> QED
    BY <1>20, <2>1
<1>28. own2[KeptBy(t)] = KeptUnits(t)' /\ \A m \in Lists : own2[ItemOf(t, m)] = ItemUnits(t, m)'
  <2>1. own[KeptBy(t)] = {}
    BY <1>0, <1>9, NoUnits DEF Owned
  <2> QED
    BY <1>12, <1>18, <1>20, <1>26, <1>27, <2>1
<1> DEFINE W == {}
<1>29. /\ WritesOnly(W) /\ CountsGrow
       /\ \A u \in Threads, m \in Lists : u # t => W \cap own[ItemOf(u, m)] = {}
       /\ \A m \in Lists : head'[m] = head[m] /\ n[m] # 0 => Top(n, at, m) \notin W
  BY <1>0 DEF WritesOnly, CountsGrow
<1> HIDE DEF W
<1>30. Stacks(n, at)' /\ IsFiniteSet(DOMAIN next')
  BY <1>0 DEF Stacks, OnSide
<1>31. \A u \in Threads : u # t => /\ own2[KeptBy(u)] = own[KeptBy(u)]
                                   /\ \A m \in Lists : own2[ItemOf(u, m)] = own[ItemOf(u, m)]
  BY <1>26, <1>27
<1> QED
  BY <1>9, <1>10, <1>13, <1>15, <1>20, <1>21, <1>22, <1>23, <1>24, <1>25, <1>28, <1>29, <1>30, <1>31, MemoryStep

\* A chunk is divided into states without rest.
LEMMA DivExact ==
    ASSUME NEW s \in Nat, s > 0, NEW k \in Nat
    PROVE  (s + k * s) \div s - 1 = k
<1> DEFINE a == s + k * s  q == a \div s  r == a % s
<1>1. a \in Nat
  OBVIOUS
<1> HIDE DEF a
<1>2. q \in Int /\ r \in Int /\ a = s * q + r /\ 0 <= r /\ r < s
  BY <1>1
<1> HIDE DEF q, r
<1>3. a = s + k * s
  BY DEF a
<1>4. (k + 1 - q) * s = r
  <2>1. (k + 1 - q) * s = k * s + s - q * s /\ q * s = s * q /\ k * s \in Int /\ q * s \in Int
    BY <1>2
  <2> DEFINE x == k * s  y == q * s  z == (k + 1 - q) * s
  <2>2. z = x + s - y /\ y = s * q /\ x \in Int /\ y \in Int /\ a = s + x
    BY <1>3, <2>1
  <2> HIDE DEF x, y, z
  <2>3. z = r
    BY <1>1, <1>2, <2>2
  <2> QED
    BY <2>3 DEF z
<1>5. ~(k + 1 - q >= 1)
  <2> SUFFICES ASSUME k + 1 - q >= 1 PROVE FALSE
    OBVIOUS
  <2>1. (k + 1 - q) * s >= s
    BY <1>2
  <2> QED
    BY <1>2, <1>4, <2>1
<1>6. ~(k + 1 - q <= -1)
  <2> SUFFICES ASSUME k + 1 - q <= -1 PROVE FALSE
    OBVIOUS
  <2>1. (k + 1 - q) * s <= -s
    BY <1>2
  <2> QED
    BY <1>2, <1>4, <2>1
<1>7. k + 1 = q
  BY <1>2, <1>5, <1>6
<1> QED
  BY <1>2, <1>7 DEF q, a

\* What anv_free_list_push can be given.
Pushable(q) ==
    /\ q \in Seq(Items) /\ Len(q) \in {1, 2} /\ (Len(q) = 2 => q[1].list # q[2].list)
    /\ \A j \in 1 .. Len(q) : OnSide(q[j].list, q[j].off, q[j].n * Size(q[j].list))

\* The chunk at off is the state K and what q has for list b and for the list of blocks.
Parted(q, off, l, b, A, B, K) ==
    /\ A \in SUBSET Int /\ B \in SUBSET Int /\ K \in SUBSET Int
    /\ K = Extent(off, Size(b)) /\ K \cap A = {} /\ K \cap B = {} /\ A \cap B = {}
    /\ K \cup A \cup B = Extent(off, Size(l)) /\ (b = BlockBucket => B = {})
    /\ \A m \in Lists : {u \in Int : \E j \in 1 .. Len(q) : q[j].list = m /\ u \in Chunk(q[j])}
                           = IF m = b THEN A ELSE IF m = BlockBucket THEN B ELSE {}

\* A chunk, a state of which is taken: the rest of it is pushed on one list or on two.
LEMMA SplitFacts ==
    ASSUME NEW off \in Nat, NEW l \in Buckets, NEW b \in Buckets, b < l, NEW q, q = Split(off, l, b)
    PROVE  Pushable(q) /\ \E A, B, K : Parted(q, off, l, b, A, B, K)
<1> USE AnvAssumption
<1>0. /\ Size(l) \in Nat /\ Size(b) \in Nat /\ Size(b) > 0 /\ BlockSize \in Nat /\ BlockSize > 0
      /\ BlockBucket \in Buckets /\ BlockSize = Size(BlockBucket) /\ b \in Lists /\ BlockBucket \in Lists
  BY SizesDivide DEF Lists
<1>1. CASE ~(Size(l) > BlockSize /\ Size(b) < BlockSize)
  <2>1. PICK k \in Nat \ {0} : Size(l) = Size(b) + k * Size(b)
    BY SizesDivide
  <2>2. PICK p : p = [list |-> b, off |-> off + Size(b), n |-> Size(l) \div Size(b) - 1]
    OBVIOUS
  <2>3. q = <<p>>
    BY <1>1, <2>2 DEF Split
  <2>4. p.n = k /\ p.list = b /\ p.off = off + Size(b) /\ p \in Items
    <3>1. Size(l) \div Size(b) - 1 = k
      BY <1>0, <2>1, DivExact
    <3> QED
      BY <1>0, <2>1, <2>2, <3>1 DEF Items
  <2>5. q \in Seq(Items) /\ Len(q) = 1 /\ 1 .. Len(q) = {1} /\ q[1] = p
    BY <2>3, <2>4
  <2>6. PICK x \in Nat : x = k * Size(b)
    BY <1>0
  <2>7. Chunk(p) = Extent(off + Size(b), x) /\ Size(l) = Size(b) + x
    BY <2>1, <2>4, <2>6 DEF Chunk
  <2>8. OnSide(p.list, p.off, p.n * Size(p.list))
    BY <1>0, <2>4 DEF OnSide
  <2>9. PICK A, B, K : A = Chunk(p) /\ B = {} /\ K = Extent(off, Size(b))
    OBVIOUS
  <2>10. /\ A \in SUBSET Int /\ B \in SUBSET Int /\ K \in SUBSET Int /\ K \cap A = {} /\ K \cap B = {} /\ A \cap B = {}
         /\ K \cup A \cup B = Extent(off, Size(l))
    BY <1>0, <2>7, <2>9, SMTT(30) DEF Extent
  <2>11. \A m \in Lists : {u \in Int : \E j \in 1 .. Len(q) : q[j].list = m /\ u \in Chunk(q[j])}
                            = IF m = b THEN A ELSE IF m = BlockBucket THEN B ELSE {}
    <3>1. \A m \in Lists : {u \in Int : \E j \in 1 .. Len(q) : q[j].list = m /\ u \in Chunk(q[j])}
                             = {u \in Int : b = m /\ u \in A}
      BY <2>4, <2>5, <2>9
    <3> QED
      BY <2>9, <2>10, <3>1
  <2>12. \A j \in 1 .. Len(q) : OnSide(q[j].list, q[j].off, q[j].n * Size(q[j].list))
    BY <2>5, <2>8
  <2>13. Parted(q, off, l, b, A, B, K)
    BY <2>9, <2>10, <2>11 DEF Parted
  <2> QED
    BY <2>5, <2>12, <2>13 DEF Pushable
<1>2. CASE Size(l) > BlockSize /\ Size(b) < BlockSize
  <2>0. BlockBucket < l /\ b < BlockBucket /\ b # BlockBucket
    <3>1. BlockBucket < l /\ b < BlockBucket
      BY <1>0, <1>2, SizesDivide
    <3> QED
      BY <1>0, <3>1 DEF Buckets
  <2>1. PICK k \in Nat \ {0} : BlockSize = Size(b) + k * Size(b)
    BY <1>0, <2>0, SizesDivide
  <2>a. PICK i \in Nat \ {0} : Size(l) = BlockSize + i * BlockSize
    BY <1>0, <2>0, SizesDivide
  <2>2. PICK p, r : /\ p = [list |-> b, off |-> off + Size(b), n |-> BlockSize \div Size(b) - 1]
                    /\ r = [list |-> BlockBucket, off |-> off + BlockSize, n |-> Size(l) \div BlockSize - 1]
    OBVIOUS
  <2>3. q = <<r, p>>
    BY <1>2, <2>2 DEF Split
  <2>4. p.n = k /\ p.list = b /\ p.off = off + Size(b) /\ p \in Items
    <3>1. BlockSize \div Size(b) - 1 = k
      BY <1>0, <2>1, DivExact
    <3> QED
      BY <1>0, <2>1, <2>2, <3>1 DEF Items
  <2>b. r.n = i /\ r.list = BlockBucket /\ r.off = off + BlockSize /\ r \in Items
    <3>1. Size(l) \div BlockSize - 1 = i
      BY <1>0, <2>a, DivExact
    <3> QED
      BY <1>0, <2>a, <2>2, <3>1 DEF Items
  <2>5. q \in Seq(Items) /\ Len(q) = 2 /\ 1 .. Len(q) = {1, 2} /\ q[1] = r /\ q[2] = p
    <3> HIDE DEF Items
    <3>1. 1 .. 2 = {1, 2}
      OBVIOUS
    <3> QED
      BY <2>3, <2>4, <2>b, <3>1
  <2>6. PICK x \in Nat, y \in Nat : x = k * Size(b) /\ y = i * BlockSize
    BY <1>0
  <2>7. Chunk(p) = Extent(off + Size(b), x) /\ BlockSize = Size(b) + x
    BY <2>1, <2>4, <2>6 DEF Chunk
  <2>c. Chunk(r) = Extent(off + BlockSize, y) /\ Size(l) = BlockSize + y
    BY <1>0, <2>a, <2>b, <2>6 DEF Chunk
  <2>8. OnSide(p.list, p.off, p.n * Size(p.list)) /\ OnSide(r.list, r.off, r.n * Size(r.list))
    BY <1>0, <2>4, <2>b DEF OnSide
  <2>9. PICK A, B, K : A = Chunk(p) /\ B = Chunk(r) /\ K = Extent(off, Size(b))
    OBVIOUS
  <2>10. /\ A \in SUBSET Int /\ B \in SUBSET Int /\ K \in SUBSET Int /\ K \cap A = {} /\ K \cap B = {} /\ A \cap B = {}
         /\ K \cup A \cup B = Extent(off, Size(l))
    <3>1. PICK s, z, w \in Nat : s = Size(b) /\ z = BlockSize /\ w = Size(l)
      BY <1>0
    <3>2. z = s + x /\ w = z + y
      BY <2>7, <2>c, <3>1
    <3>6. x \in Nat /\ y \in Nat /\ s \in Nat /\ z \in Nat /\ w \in Nat
      BY <2>6, <3>1
    <3>3. A = Extent(off + s, x) /\ B = Extent(off + z, y) /\ K = Extent(off, s) /\ Extent(off, Size(l)) = Extent(off, w)
      BY <2>7, <2>c, <2>9, <3>1
    <3>4. /\ Extent(off + s, x) = off + s .. off + z - 1 /\ Extent(off + z, y) = off + z .. off + w - 1
          /\ Extent(off, s) = off .. off + s - 1 /\ Extent(off, w) = off .. off + w - 1
      <4>1. (off + s) + x - 1 = off + z - 1 /\ (off + z) + y - 1 = off + w - 1
        BY <3>6, <3>2
      <4>2. /\ Extent(off + s, x) = off + s .. (off + s) + x - 1 /\ Extent(off + z, y) = off + z .. (off + z) + y - 1
            /\ Extent(off, s) = off .. off + s - 1 /\ Extent(off, w) = off .. off + w - 1
        BY DEF Extent
      <4> QED
        BY <4>1, <4>2
    <3>5. s <= z /\ z <= w
      BY <3>6, <3>2
    <3> QED
      BY <3>3, <3>4, <3>5
  <2>11. \A m \in Lists : {u \in Int : \E j \in 1 .. Len(q) : q[j].list = m /\ u \in Chunk(q[j])}
                            = IF m = b THEN A ELSE IF m = BlockBucket THEN B ELSE {}
    <3>1. \A m \in Lists : {u \in Int : \E j \in 1 .. Len(q) : q[j].list = m /\ u \in Chunk(q[j])}
                             = {u \in Int : (b = m /\ u \in A) \/ (BlockBucket = m /\ u \in B)}
      BY <2>4, <2>b, <2>5, <2>9
    <3> QED
      BY <2>0, <2>10, <3>1
  <2>12. \A j \in 1 .. Len(q) : OnSide(q[j].list, q[j].off, q[j].n * Size(q[j].list))
    BY <2>5, <2>8
  <2>13. q[1].list # q[2].list
    BY <2>0, <2>4, <2>5, <2>b
  <2>14. Parted(q, off, l, b, A, B, K)
    BY <2>0, <2>9, <2>10, <2>11 DEF Parted
  <2> QED
    BY <2>5, <2>12, <2>13, <2>14 DEF Pushable
<1> QED
  BY <1>1, <1>2

\* List l without its first state.
PopEffect(own, n, at, l, cur, n2, W) ==
    /\ l \in Lists /\ n[l] \in Ranks /\ PlaceOn(l, n[l]) \in Owners
    /\ cur.offset \in Int /\ OnSide(l, cur.offset, Size(l))
    /\ own[PlaceOn(l, n[l])] = Extent(cur.offset, Size(l))
    /\ Stacks(n2, at)' /\ CountsGrow
    /\ \A m \in Lists : head'[m] = head[m] /\ n[m] # 0 => Top(n, at, m) \notin W
    /\ \A m \in Lists, i \in Ranks :
          PlaceUnits(n2, at, m, i) = IF m = l /\ i = n[l] THEN {} ELSE PlaceUnits(n, at, m, i)

\* The first state of list l is taken off: its link was read when it was already the
\* first one, and the head has not changed since, because of the count.
LEMMA Popped ==
    ASSUME NEW own, NEW n, NEW at, NEW fresh, Memory(own, n, at, fresh), SleepInv, NEW t \in Threads,
           pc[t] = "pop_cas", NEW l, l = loc[t].list, NEW cur, cur = loc[t].cur, head[l] = cur,
           head' = [head EXCEPT ![l] = [offset |-> loc[t].link, count |-> Bump(cur.count)]],
           NEW n2, n2 = [n EXCEPT ![l] = n[l] - 1],
           NEW W, WritesOnly(W), W \subseteq Extent(cur.offset, Size(l))
    PROVE  PopEffect(own, n, at, l, cur, n2, W)
<1> USE AnvAssumption
<1>0. Owned(own, n, at, fresh) /\ Stacks(n, at) /\ Apart(own) /\ Popper(t) /\ LocAt(t)
  BY DEF Memory, SleepInv
<1>1. l \in Lists
  BY <1>0 DEF LocAt, Lists
<1>2. cur \in Heads /\ cur.offset # EMPTY /\ loc[t].link = Read(cur.offset)
  BY <1>0 DEF Popper
<1>3. PICK N : N = n[l]
  OBVIOUS
<1>4. N \in Nat /\ N # 0 /\ N \in Ranks /\ cur.offset = at[l][N] /\ cur.offset \in Int /\ cur.count \in Nat
  <2>1. N \in Nat /\ cur.offset = IF N = 0 THEN EMPTY ELSE at[l][N]
    BY <1>0, <1>1, <1>3 DEF Stacks
  <2> QED
    BY <1>0, <1>1, <1>2, <2>1 DEF Stacks, Heads, Ranks
<1>5. /\ N \in 1 .. N /\ N - 1 \in Nat
      /\ cur.offset \in DOMAIN next /\ next[cur.offset] = IF N = 1 THEN EMPTY ELSE at[l][N - 1]
      /\ OnSide(l, cur.offset, Size(l))
  BY <1>0, <1>1, <1>3, <1>4 DEF Stacks
<1>6. loc[t].link = IF N - 1 = 0 THEN EMPTY ELSE at[l][N - 1]
  BY <1>2, <1>4, <1>5 DEF Read
<1>7. own[PlaceOn(l, N)] = Extent(cur.offset, Size(l)) /\ PlaceOn(l, N) \in Owners
  BY <1>0, <1>1, <1>3, <1>4, OwnerSet DEF Owned, PlaceUnits
<1>8. DOMAIN head = Lists /\ n \in [Lists -> Nat] /\ at \in [Lists -> [Nat -> Int]]
  BY <1>0 DEF Stacks
<1>9. n2 \in [Lists -> Nat] /\ n2[l] = N - 1 /\ \A m \in Lists : m # l => n2[m] = n[m]
  BY <1>1, <1>3, <1>5, <1>8
<1>10. /\ DOMAIN head' = Lists /\ head'[l] = [offset |-> loc[t].link, count |-> cur.count + 1]
       /\ \A m \in Lists : m # l => head'[m] = head[m]
  BY <1>1, <1>8 DEF Bump
<1>11. head'[l].count > head[l].count /\ head'[l] # head[l]
  BY <1>4, <1>10
<1>12. ASSUME NEW m \in Lists, NEW i \in 1 .. n2[m]
       PROVE  i \in 1 .. n[m] /\ at[m][i] \notin W /\ at[m][i] \in Int
  <2>1. n[m] \in Nat /\ n2[m] \in Nat /\ n2[m] <= n[m] /\ (m = l => n2[m] = n[m] - 1)
    BY <1>3, <1>4, <1>8, <1>9
  <2>2. i \in 1 .. n[m] /\ i \in Ranks /\ i <= n[m] /\ (m = l => i # N)
    BY <1>3, <2>1 DEF Ranks
  <2>3. at[m][i] \in Int
    BY <1>8, <2>2 DEF Ranks
  <2>4. own[PlaceOn(m, i)] = Extent(at[m][i], Size(m)) /\ PlaceOn(m, i) \in Owners
    BY <1>0, <2>2, OwnerSet DEF Owned, PlaceUnits
  <2>5. at[m][i] \in own[PlaceOn(m, i)]
    BY <2>3, <2>4, SizesDivide DEF Extent
  <2>6. PlaceOn(m, i) # PlaceOn(l, N)
    BY <2>2, OwnerNames
  <2> QED
    BY <1>0, <1>7, <2>2, <2>3, <2>4, <2>5, <2>6 DEF Apart
<1>13. Stacks(n2, at)'
  <2>1. ASSUME NEW m \in Lists
        PROVE  head'[m] \in Heads /\ head'[m].offset = IF n2[m] = 0 THEN EMPTY ELSE at[m][n2[m]]
    <3>1. CASE m = l
      <4>1. loc[t].link \in Int \cup {EMPTY}
        BY <1>1, <1>5, <1>6, <1>8
      <4>2. head'[l] \in Heads
        BY <1>4, <1>10, <4>1 DEF Heads
      <4>3. head'[l].offset = loc[t].link
        BY <1>10
      <4> QED
        BY <1>6, <1>9, <3>1, <4>2, <4>3
    <3>2. CASE m # l
      BY <1>0, <1>9, <1>10, <3>2 DEF Stacks
    <3> QED
      BY <3>1, <3>2
  <2>2. ASSUME NEW m \in Lists, NEW i \in 1 .. n2[m]
        PROVE  /\ at[m][i] \in DOMAIN next' /\ next'[at[m][i]] = IF i = 1 THEN EMPTY ELSE at[m][i - 1]
               /\ OnSide(m, at[m][i], Size(m))
    <3>1. i \in 1 .. n[m] /\ at[m][i] \notin W
      BY <1>12
    <3> QED
      BY <1>0, <3>1 DEF Stacks, WritesOnly
  <2> QED
    BY <1>8, <1>9, <1>10, <2>1, <2>2 DEF Stacks, OnSide
<1>14. CountsGrow
  BY <1>1, <1>10, <1>11 DEF CountsGrow
<1>15. ASSUME NEW m \in Lists, head'[m] = head[m], n[m] # 0 PROVE Top(n, at, m) \notin W
  <2>1. m # l /\ n2[m] = n[m] /\ n[m] \in Nat
    BY <1>8, <1>9, <1>11, <1>15
  <2>2. n[m] \in 1 .. n2[m]
    BY <1>15, <2>1
  <2> QED
    BY <1>12, <2>2 DEF Top
<1>16. ASSUME NEW m \in Lists, NEW i \in Ranks
       PROVE  PlaceUnits(n2, at, m, i) = IF m = l /\ i = n[l] THEN {} ELSE PlaceUnits(n, at, m, i)
  <2>1. CASE m # l
    BY <1>9, <2>1 DEF PlaceUnits
  <2>2. CASE m = l
    <3>1. i \in Nat /\ (i <= N - 1 <=> i <= N /\ i # N)
      BY <1>4 DEF Ranks
    <3> QED
      BY <1>3, <1>9, <2>2, <3>1 DEF PlaceUnits
  <2> QED
    BY <2>1, <2>2
<1> QED
  BY <1>1, <1>3, <1>4, <1>5, <1>7, <1>13, <1>14, <1>15, <1>16 DEF PopEffect

\* The state on the list is of the size that is asked for.
LEMMA PopReturnStep ==
    ASSUME NEW own, NEW n, NEW at, NEW fresh, Memory(own, n, at, fresh), SleepInv, NEW t \in Threads,
           PopCas(t), head[loc[t].list] = loc[t].cur, loc[t].list = loc[t].want
    PROVE  MemInv'
<1> USE AnvAssumption
<1>a. PICK l, cur, h : l = loc[t].list /\ cur = loc[t].cur /\ h = <<cur.offset, Size(l)>>
  OBVIOUS
<1>0. /\ Owned(own, n, at, fresh) /\ Apart(own) /\ Cover(own) /\ Fresh(fresh) /\ HeldOnce
      /\ IsFiniteSet(DOMAIN next) /\ PoolTyped /\ LocAt(t)
  BY DEF Memory, SleepInv
<1>1. /\ pc[t] = "pop_cas" /\ UNCHANGED <<block, state>> /\ Return(t, cur.offset, Size(l))
      /\ head' = [head EXCEPT ![l] = [offset |-> loc[t].link, count |-> Bump(cur.count)]]
  BY <1>a DEF PopCas, pool
<1>2. h[1] = cur.offset /\ h[2] = Size(l)
  BY <1>a
<1>3. /\ Gains(h) /\ next' = Used(next, h[1], h[2])
      /\ pc' = [pc EXCEPT ![t] = "idle"] /\ loc' = [loc EXCEPT ![t] = NoLocals]
  BY <1>a, <1>1, <1>2, ReturnFacts
<1>4. PICK W : W = Extent(cur.offset, Size(l))
  OBVIOUS
<1>5. WritesOnly(W) /\ IsFiniteSet(DOMAIN next')
  BY <1>0, <1>2, <1>3, <1>4, UsedFacts
<1>6. PICK n2 : n2 = [n EXCEPT ![l] = n[l] - 1]
  OBVIOUS
<1>b. PopEffect(own, n, at, l, cur, n2, W)
  <2>1. W \subseteq Extent(cur.offset, Size(l)) /\ head[l] = cur /\ l = loc[t].list /\ cur = loc[t].cur
    BY <1>a, <1>4
  <2> QED
    BY <1>1, <1>5, <1>6, <2>1, Popped
<1>7. /\ l \in Lists /\ n[l] \in Ranks /\ PlaceOn(l, n[l]) \in Owners
      /\ cur.offset \in Int /\ OnSide(l, cur.offset, Size(l)) /\ own[PlaceOn(l, n[l])] = W
      /\ Stacks(n2, at)' /\ CountsGrow
      /\ \A m \in Lists : head'[m] = head[m] /\ n[m] # 0 => Top(n, at, m) \notin W
  BY <1>4, <1>b DEF PopEffect
<1>8. h \in States /\ h[2] > 0 /\ Proper(h) /\ W = Extent(h[1], h[2])
  <2>1. Size(l) \in Nat /\ Size(l) > 0 /\ Size(Back) = BlockSize
    BY <1>7, SizesDivide
  <2>2. h \in States /\ h[2] > 0 /\ W = Extent(h[1], h[2])
    BY <1>a, <1>2, <1>4, <1>7, <2>1 DEF States
  <2>3. CASE l = Back
    <3>1. h[1] \in Int /\ h[2] = BlockSize /\ h[1] + h[2] <= 0 /\ BlockSize \in Nat /\ BlockSize > 0
      BY <1>2, <1>7, <2>1, <2>3 DEF OnSide
    <3>2. h[1] < 0
      BY <3>1
    <3> QED
      BY <2>2, <3>1, <3>2 DEF Proper
  <2>4. CASE l # Back
    <3>1. l \in Buckets /\ ~(h[1] < 0)
      BY <1>2, <1>7, <2>4 DEF OnSide, Lists
    <3>2. \E b \in Buckets : h[2] = Size(b)
      BY <1>2, <3>1
    <3> QED
      BY <2>2, <3>1, <3>2 DEF Proper
  <2> QED
    BY <2>2, <2>3, <2>4
<1>9. (\A u \in Threads : u # t => loc'[u] = loc[u]) /\ loc'[t] = NoLocals
  BY <1>0, <1>3, LocFacts
<1>10. Others(t) /\ pc'[t] = "idle"
  BY <1>0, <1>3, <1>9, OthersOwn
<1>11. pc[t] \notin Having /\ pc'[t] \notin Having /\ pc[t] \notin Growing /\ pc'[t] \notin Growing
  BY <1>1, <1>10 DEF Having, Pushing, Growing
<1>12. Fresh(fresh)'
  BY <1>0, <1>1, <1>10, <1>11, FreshSame
<1>13. Popper(t)' /\ Pusher(t)'
  BY <1>9, <1>10 DEF Popper, Pusher, Pushing
<1>14. PICK x : x = PlaceOn(l, n[l])
  OBVIOUS
<1>15. x \in Owners /\ x # HeldAs(h) /\ HeldAs(h) \in Owners /\ own[x] = W
  BY <1>7, <1>8, <1>14, OwnerNames, OwnerSet
<1>16. /\ HeldOnce' /\ HeldUnits(h)' = W /\ HeldUnits(h) = {}
       /\ \A g \in States : g # h => HeldUnits(g)' = HeldUnits(g)
  <2>1. Extent(h[1], h[2]) \subseteq own[x]
    BY <1>8, <1>15
  <2> QED
    BY <1>0, <1>3, <1>8, <1>15, <2>1, HeldMore
<1>17. own \in [Owners -> SUBSET Int] /\ own[HeldAs(h)] = {}
  BY <1>0, <1>8, <1>16 DEF Owned
<1>18. PICK own2 : own2 = [z \in Owners |-> IF z = HeldAs(h) THEN W ELSE IF z = x THEN {} ELSE own[z]]
  OBVIOUS
<1>19. /\ own2 \in [Owners -> SUBSET Int] /\ own2[HeldAs(h)] = W /\ own2[x] = {}
       /\ \A z \in Owners \ {HeldAs(h), x} : own2[z] = own[z]
  BY <1>15, <1>17, <1>18
<1>20. Apart(own2) /\ Cover(own2)
  <2>1. own2[HeldAs(h)] \cap own2[x] = {} /\ own2[HeldAs(h)] \cup own2[x] = own[HeldAs(h)] \cup own[x]
    BY <1>15, <1>17, <1>19
  <2> QED
    BY <1>0, <1>15, <1>17, <1>19, <2>1, Handover
<1>21. \A s \in Sides : own2[PoolOf(s)] = Beyond(s, fresh[s])
  <2>1. \A s \in Sides : PoolOf(s) \in Owners \ {HeldAs(h), x}
    BY <1>14, OwnerSet, OwnerNames
  <2> QED
    BY <1>0, <1>19, <2>1 DEF Owned
<1>22. \A b \in Buckets : own2[RestOf(b)] = RestUnits(b)'
  <2>1. \A b \in Buckets : RestOf(b) \in Owners \ {HeldAs(h), x}
    BY <1>14, OwnerSet, OwnerNames
  <2> QED
    BY <1>0, <1>1, <1>19, <2>1 DEF Owned, RestUnits
<1>23. \A g \in States : own2[HeldAs(g)] = HeldUnits(g)'
  <2>1. \A g \in States : g # h => HeldAs(g) \in Owners \ {HeldAs(h), x}
    BY <1>14, OwnerSet, OwnerNames
  <2> QED
    BY <1>0, <1>16, <1>19, <2>1 DEF Owned
<1>24. \A m \in Lists, i \in Ranks : own2[PlaceOn(m, i)] = PlaceUnits(n2, at, m, i)
  <2>1. \A m \in Lists, i \in Ranks : ~(m = l /\ i = n[l]) => PlaceOn(m, i) \in Owners \ {HeldAs(h), x}
    BY <1>14, OwnerSet, OwnerNames
  <2>2. \A m \in Lists, i \in Ranks : ~(m = l /\ i = n[l]) => own2[PlaceOn(m, i)] = PlaceUnits(n, at, m, i)
    BY <1>0, <1>19, <2>1 DEF Owned
  <2>3. \A m \in Lists, i \in Ranks : m = l /\ i = n[l] => own2[PlaceOn(m, i)] = {}
    BY <1>14, <1>19
  <2>4. \A m \in Lists, i \in Ranks :
           PlaceUnits(n2, at, m, i) = IF m = l /\ i = n[l] THEN {} ELSE PlaceUnits(n, at, m, i)
    BY <1>b DEF PopEffect
  <2> SUFFICES ASSUME NEW m \in Lists, NEW i \in Ranks
               PROVE  own2[PlaceOn(m, i)] = PlaceUnits(n2, at, m, i)
    OBVIOUS
  <2>5. CASE m = l /\ i = n[l]
    BY <2>3, <2>4, <2>5
  <2>6. CASE ~(m = l /\ i = n[l])
    <3>1. own2[PlaceOn(m, i)] = PlaceUnits(n, at, m, i)
      BY <2>2, <2>6
    <3>2. PlaceUnits(n2, at, m, i) = PlaceUnits(n, at, m, i)
      BY <2>4, <2>6
    <3> QED
      BY <3>1, <3>2
  <2> QED
    BY <2>5, <2>6
<1>25. \A u \in Threads : own2[KeptBy(u)] = own[KeptBy(u)] /\ \A m \in Lists : own2[ItemOf(u, m)] = own[ItemOf(u, m)]
  <2>1. \A u \in Threads : KeptBy(u) \in Owners \ {HeldAs(h), x}
    BY <1>14, OwnerSet, OwnerNames
  <2>2. \A u \in Threads, m \in Lists : ItemOf(u, m) \in Owners \ {HeldAs(h), x}
    BY <1>14, OwnerSet, OwnerNames
  <2> QED
    BY <1>19, <2>1, <2>2
<1>26. own2[KeptBy(t)] = KeptUnits(t)' /\ \A m \in Lists : own2[ItemOf(t, m)] = ItemUnits(t, m)'
  <2>1. /\ KeptUnits(t) = {} /\ \A m \in Lists : ItemUnits(t, m) = {}
        /\ KeptUnits(t)' = {} /\ \A m \in Lists : ItemUnits(t, m)' = {}
    BY <1>11, NoUnits
  <2> QED
    BY <1>0, <1>25, <2>1 DEF Owned
<1>27. \A u \in Threads, m \in Lists : W \cap own[ItemOf(u, m)] = {}
  <2>1. \A u \in Threads, m \in Lists : ItemOf(u, m) \in Owners /\ ItemOf(u, m) # x
    BY <1>14, OwnerSet, OwnerNames
  <2> QED
    BY <1>0, <1>15, <2>1 DEF Apart
<1> QED
  BY <1>5, <1>7, <1>10, <1>12, <1>13, <1>16, <1>19, <1>20, <1>21, <1>22, <1>23, <1>24, <1>25, <1>26, <1>27, MemoryStep

\* The state on the list is larger than what is asked for, and is split.
LEMMA PopSplitStep ==
    ASSUME NEW own, NEW n, NEW at, NEW fresh, Memory(own, n, at, fresh), SleepInv, NEW t \in Threads,
           PopCas(t), head[loc[t].list] = loc[t].cur, loc[t].list # loc[t].want
    PROVE  MemInv'
<1> USE AnvAssumption
<1>a. PICK l, cur, b : l = loc[t].list /\ cur = loc[t].cur /\ b = loc[t].want
  OBVIOUS
<1>0. /\ Owned(own, n, at, fresh) /\ Apart(own) /\ Cover(own) /\ Fresh(fresh) /\ HeldOnce
      /\ IsFiniteSet(DOMAIN next) /\ PoolTyped /\ LocAt(t) /\ Popper(t)
  BY DEF Memory, SleepInv
<1>1. /\ pc[t] = "pop_cas" /\ UNCHANGED <<next, held, block, state>>
      /\ loc' = [loc EXCEPT ![t].off = cur.offset, ![t].push = Split(cur.offset, l, b)]
      /\ pc' = [pc EXCEPT ![t] = "push"]
      /\ head' = [head EXCEPT ![l] = [offset |-> loc[t].link, count |-> Bump(cur.count)]]
  BY <1>a DEF PopCas, pool, Goto
<1>2. l \in Buckets /\ b \in Buckets /\ b < l /\ l # Back
  <2>1. l \in Buckets /\ b \in Buckets
    BY <1>a, <1>0, <1>1 DEF LocAt
  <2>2. b <= l
    BY <1>a, <1>0, <1>1, <2>1 DEF Popper
  <2> QED
    BY <1>a, <2>1, <2>2 DEF Buckets
<1>3. PICK W : W = {}
  OBVIOUS
<1>4. WritesOnly(W) /\ W \subseteq Extent(cur.offset, Size(l)) /\ IsFiniteSet(DOMAIN next')
  BY <1>0, <1>1, <1>3 DEF WritesOnly
<1>5. PICK n2 : n2 = [n EXCEPT ![l] = n[l] - 1]
  OBVIOUS
<1>6. PopEffect(own, n, at, l, cur, n2, W)
  <2>1. head[l] = cur /\ l = loc[t].list /\ cur = loc[t].cur
    BY <1>a
  <2> QED
    BY <1>1, <1>4, <1>5, <2>1, Popped
<1>7. PICK x : x = PlaceOn(l, n[l])
  OBVIOUS
<1>8. /\ cur.offset \in Int /\ cur.offset >= 0 /\ x \in Owners /\ own[x] = Extent(cur.offset, Size(l))
      /\ Stacks(n2, at)' /\ CountsGrow
      /\ \A m \in Lists : head'[m] = head[m] /\ n[m] # 0 => Top(n, at, m) \notin W
  BY <1>2, <1>6, <1>7 DEF PopEffect, OnSide
<1>9. PICK off, q : off \in Nat /\ off = cur.offset /\ q = Split(off, l, b)
  BY <1>8
<1>10. /\ q \in Seq(Items) /\ Len(q) \in {1, 2} /\ (Len(q) = 2 => q[1].list # q[2].list)
       /\ \A j \in 1 .. Len(q) : OnSide(q[j].list, q[j].off, q[j].n * Size(q[j].list))
  <2>1. Pushable(q)
    BY <1>2, <1>9, SplitFacts
  <2> QED
    BY <2>1 DEF Pushable
<1>11. PICK A, B, K : Parted(q, off, l, b, A, B, K)
  BY <1>2, <1>9, SplitFacts
<1>12. /\ (\A u \in Threads : u # t => loc'[u] = loc[u])
       /\ loc'[t].off = off /\ loc'[t].push = q /\ loc'[t].want = b
  BY <1>a, <1>0, <1>1, <1>9, LocFacts
<1>13. Others(t) /\ pc'[t] = "push"
  BY <1>0, <1>1, <1>12, OthersOwn
<1>14. pc[t] \notin Having /\ pc[t] \notin Growing /\ pc'[t] \notin Growing
  BY <1>1, <1>13 DEF Having, Pushing, Growing
<1>15. Fresh(fresh)'
  BY <1>0, <1>1, <1>13, <1>14, FreshSame
<1>16. Popper(t)'
  BY <1>13 DEF Popper
<1>17. Pusher(t)'
  BY <1>2, <1>9, <1>10, <1>12, <1>13 DEF Pusher, OnSide
<1>18. b # NULL /\ b \in Lists /\ BlockBucket \in Lists /\ l \in Lists
  BY <1>2 DEF Lists
<1>19. /\ A \in SUBSET Int /\ B \in SUBSET Int /\ K \in SUBSET Int
       /\ K \cap A = {} /\ K \cap B = {} /\ A \cap B = {}
       /\ K \cup A \cup B = own[x] /\ (b = BlockBucket => B = {})
  BY <1>8, <1>9, <1>11 DEF Parted
<1>20. KeptUnits(t)' = K
  <2>1. K = Extent(off, Size(b))
    BY <1>11 DEF Parted
  <2> QED
    BY <1>12, <1>13, <1>18, <2>1 DEF KeptUnits, Pushing
<1>21. \A m \in Lists : ItemUnits(t, m)' = IF m = b THEN A ELSE IF m = BlockBucket THEN B ELSE {}
  <2>1. \A m \in Lists : {u \in Int : \E j \in 1 .. Len(q) : q[j].list = m /\ u \in Chunk(q[j])}
                            = IF m = b THEN A ELSE IF m = BlockBucket THEN B ELSE {}
    BY <1>11 DEF Parted
  <2>2. \A m \in Lists : ItemUnits(t, m)' = {u \in Int : \E j \in 1 .. Len(q) : q[j].list = m /\ u \in Chunk(q[j])}
    BY <1>12, <1>13 DEF ItemUnits, Pushing, Chunk
  <2> QED
    BY <2>1, <2>2
<1>22. /\ own \in [Owners -> SUBSET Int] /\ own[KeptBy(t)] = {} /\ \A m \in Lists : own[ItemOf(t, m)] = {}
  <2>1. KeptUnits(t) = {} /\ \A m \in Lists : ItemUnits(t, m) = {}
    BY <1>14, NoUnits
  <2> QED
    BY <1>0, <2>1 DEF Owned
<1>23. PICK k, i, j : k = KeptBy(t) /\ i = ItemOf(t, b) /\ j = ItemOf(t, BlockBucket)
  OBVIOUS
<1>24. /\ k \in Owners /\ i \in Owners /\ j \in Owners
       /\ k # x /\ i # x /\ j # x /\ k # i /\ k # j /\ (i = j <=> b = BlockBucket)
       /\ own[k] = {} /\ own[i] = {} /\ own[j] = {}
  <2>1. k \in Owners /\ i \in Owners /\ j \in Owners
    BY <1>18, <1>23, OwnerSet
  <2>2. k # x /\ i # x /\ j # x /\ k # i /\ k # j /\ (i = j <=> b = BlockBucket)
    BY <1>7, <1>23, OwnerNames
  <2> QED
    BY <1>18, <1>22, <1>23, <2>1, <2>2
<1>25. PICK own2 : own2 = [z \in Owners |-> IF z = x THEN {} ELSE IF z = k THEN K ELSE IF z = i THEN A
                                           ELSE IF z = j THEN B ELSE own[z]]
  OBVIOUS
<1>26. /\ own2 \in [Owners -> SUBSET Int] /\ own2[x] = {} /\ own2[k] = K /\ own2[i] = A /\ (i # j => own2[j] = B)
       /\ \A z \in Owners \ {x, k, i, j} : own2[z] = own[z]
  <2>1. own2 \in [Owners -> SUBSET Int]
    BY <1>19, <1>22, <1>25
  <2> QED
    BY <1>8, <1>24, <1>25, <2>1
<1>27. Apart(own2) /\ Cover(own2)
  <2>1. PICK S : S = {x, k, i, j}
    OBVIOUS
  <2>2. S \subseteq Owners /\ \A z \in Owners \ S : own2[z] = own[z]
    BY <1>8, <1>24, <1>26, <2>1
  <2>3. \A y, z \in S : y # z => own2[y] \cap own2[z] = {}
    <3>1. CASE i = j
      BY <1>19, <1>24, <1>26, <2>1, <3>1
    <3>2. CASE i # j
      BY <1>19, <1>24, <1>26, <2>1, <3>2
    <3> QED
      BY <3>1, <3>2
  <2>4. \A u \in Int : (\E z \in S : u \in own2[z]) <=> u \in K \cup A \cup B
    BY <1>19, <1>24, <1>26, <2>1
  <2>5. \A u \in Int : (\E z \in S : u \in own[z]) <=> u \in own[x]
    BY <1>24, <2>1
  <2>6. \A u \in Int : (\E z \in S : u \in own2[z]) <=> (\E z \in S : u \in own[z])
    BY <1>19, <2>4, <2>5
  <2>7. own \in [Owners -> SUBSET Int] /\ own2 \in [Owners -> SUBSET Int]
    BY <1>22, <1>26
  <2>8. Apart(own) /\ Cover(own)
    BY <1>0
  <2> QED
    BY <2>2, <2>3, <2>6, <2>7, <2>8, Rearrange
<1>28. \A s \in Sides : own2[PoolOf(s)] = Beyond(s, fresh[s])
  <2>1. \A s \in Sides : PoolOf(s) \in Owners \ {x, k, i, j}
    BY <1>7, <1>23, OwnerSet, OwnerNames
  <2> QED
    BY <1>0, <1>26, <2>1 DEF Owned
<1>29. \A c \in Buckets : own2[RestOf(c)] = RestUnits(c)'
  <2>1. \A c \in Buckets : RestOf(c) \in Owners \ {x, k, i, j}
    BY <1>7, <1>23, OwnerSet, OwnerNames
  <2> QED
    BY <1>0, <1>1, <1>26, <2>1 DEF Owned, RestUnits
<1>30. \A g \in States : own2[HeldAs(g)] = HeldUnits(g)'
  <2>1. \A g \in States : HeldAs(g) \in Owners \ {x, k, i, j}
    BY <1>7, <1>23, OwnerSet, OwnerNames
  <2> QED
    BY <1>0, <1>1, <1>26, <2>1 DEF Owned, HeldUnits
<1>31. ASSUME NEW m \in Lists, NEW r \in Ranks PROVE own2[PlaceOn(m, r)] = PlaceUnits(n2, at, m, r)
  <2>1. PlaceUnits(n2, at, m, r) = IF m = l /\ r = n[l] THEN {} ELSE PlaceUnits(n, at, m, r)
    BY <1>6 DEF PopEffect
  <2>2. CASE m = l /\ r = n[l]
    BY <1>7, <1>26, <2>1, <2>2
  <2>3. CASE ~(m = l /\ r = n[l])
    <3>1. PlaceOn(m, r) \in Owners \ {x, k, i, j}
      BY <1>7, <1>23, <2>3, OwnerSet, OwnerNames
    <3>2. own2[PlaceOn(m, r)] = PlaceUnits(n, at, m, r)
      BY <1>0, <1>26, <3>1 DEF Owned
    <3>3. PlaceUnits(n2, at, m, r) = PlaceUnits(n, at, m, r)
      BY <2>1, <2>3
    <3> QED
      BY <3>2, <3>3
  <2> QED
    BY <2>2, <2>3
<1>32. \A u \in Threads : u # t => /\ own2[KeptBy(u)] = own[KeptBy(u)]
                                   /\ \A m \in Lists : own2[ItemOf(u, m)] = own[ItemOf(u, m)]
  <2>1. \A u \in Threads : u # t => KeptBy(u) \in Owners \ {x, k, i, j}
    BY <1>7, <1>23, OwnerSet, OwnerNames
  <2>2. \A u \in Threads, m \in Lists : u # t => ItemOf(u, m) \in Owners \ {x, k, i, j}
    BY <1>7, <1>23, OwnerSet, OwnerNames
  <2> QED
    BY <1>26, <2>1, <2>2
<1>33. own2[KeptBy(t)] = KeptUnits(t)'
  BY <1>20, <1>23, <1>26
<1>34. ASSUME NEW m \in Lists PROVE own2[ItemOf(t, m)] = ItemUnits(t, m)'
  <2>1. CASE m = b
    BY <1>21, <1>23, <1>26, <2>1
  <2>2. CASE m # b /\ m = BlockBucket
    <3>1. own2[ItemOf(t, m)] = B
      BY <1>23, <1>24, <1>26, <2>2
    <3> QED
      BY <1>21, <2>2, <3>1
  <2>3. CASE m # b /\ m # BlockBucket
    <3>1. ItemOf(t, m) \in Owners \ {x, k, i, j}
      BY <1>7, <1>23, <2>3, OwnerSet, OwnerNames
    <3>2. own2[ItemOf(t, m)] = {}
      BY <1>22, <1>26, <3>1
    <3> QED
      BY <1>21, <2>3, <3>2
  <2> QED
    BY <2>1, <2>2, <2>3
<1>35. HeldOnce'
  BY <1>0, <1>1 DEF HeldOnce
<1>36. \A u \in Threads, m \in Lists : u # t => W \cap own[ItemOf(u, m)] = {}
  BY <1>3
<1> QED
  BY <1>4, <1>8, <1>13, <1>15, <1>16, <1>17, <1>26, <1>27, <1>28, <1>29, <1>30, <1>31, <1>32, <1>33, <1>34,
     <1>35, <1>36, MemoryStep

\* The stack of list l with the states of chunk p on top of it, the first one of them uppermost.
Grows(n, at, p, n2, at2) ==
    LET l == p.list IN
    /\ n2 = [n EXCEPT ![l] = n[l] + p.n]
    /\ at2 = [at EXCEPT ![l] = [i \in Nat |-> IF i <= n[l] THEN at[l][i] ELSE Nth(p, n[l] + p.n - i)]]

\* The places of the higher stack.
LEMMA GrowsFacts ==
    ASSUME NEW n \in [Lists -> Nat], NEW at \in [Lists -> [Nat -> Int]], NEW p \in Items,
           NEW n2, NEW at2, Grows(n, at, p, n2, at2)
    PROVE  /\ n2 \in [Lists -> Nat] /\ at2 \in [Lists -> [Nat -> Int]]
           /\ p.list \in Lists /\ p.n \in Nat /\ p.n > 0
           /\ n2[p.list] = n[p.list] + p.n
           /\ \A m \in Lists : m # p.list => n2[m] = n[m] /\ at2[m] = at[m]
           /\ \A i \in Nat : at2[p.list][i] = IF i <= n[p.list] THEN at[p.list][i]
                                              ELSE Nth(p, n[p.list] + p.n - i)
<1>1. PICK l, N, k : l = p.list /\ N = n[l] /\ k = p.n
  OBVIOUS
<1>2. l \in Lists /\ N \in Nat /\ k \in Nat /\ k > 0
  BY <1>1 DEF Items
<1>3. \A i \in Int : Nth(p, i) \in Int
  BY NthFacts
<1>4. PICK f : f = [i \in Nat |-> IF i <= N THEN at[l][i] ELSE Nth(p, N + k - i)]
  OBVIOUS
<1>5. n2 = [n EXCEPT ![l] = N + k] /\ at2 = [at EXCEPT ![l] = f]
  BY <1>1, <1>4 DEF Grows
<1>6. f \in [Nat -> Int]
  <2>1. \A i \in Nat : N + k - i \in Int
    BY <1>2
  <2> QED
    BY <1>2, <1>3, <1>4, <2>1
<1>7. n2 \in [Lists -> Nat] /\ n2[l] = N + k
  <2>1. N + k \in Nat
    BY <1>2
  <2> QED
    BY <1>2, <1>5, <2>1
<1>8. at2 \in [Lists -> [Nat -> Int]] /\ at2[l] = f
  BY <1>2, <1>5, <1>6
<1>9. \A m \in Lists : m # l => n2[m] = n[m] /\ at2[m] = at[m]
  BY <1>5
<1>10. \A i \in Nat : at2[l][i] = IF i <= N THEN at[l][i] ELSE Nth(p, N + k - i)
  BY <1>4, <1>8
<1> QED
  BY <1>1, <1>2, <1>7, <1>8, <1>9, <1>10

\* The owners afterwards.
PushOwners(own, own2, n2, at2, t, l) ==
    /\ own2 \in [Owners -> SUBSET Int] /\ Apart(own2) /\ Cover(own2)
    /\ own2[ItemOf(t, l)] = {}
    /\ \A m \in Lists, i \in Ranks : own2[PlaceOn(m, i)] = PlaceUnits(n2, at2, m, i)
    /\ \A z \in Owners : z # ItemOf(t, l) /\ (\A i \in Ranks : z # PlaceOn(l, i)) => own2[z] = own[z]

\* The places of the list get the states of the chunk, one each.
LEMMA PushedOwners ==
    ASSUME NEW own, NEW n, NEW at, NEW fresh, Owned(own, n, at, fresh), Apart(own), Cover(own), Stacks(n, at),
           NEW t \in Threads, NEW p \in Items, own[ItemOf(t, p.list)] = Chunk(p),
           NEW n2, NEW at2, Grows(n, at, p, n2, at2)
    PROVE  \E own2 : PushOwners(own, own2, n2, at2, t, p.list)
<1>0. /\ own \in [Owners -> SUBSET Int] /\ n \in [Lists -> Nat] /\ at \in [Lists -> [Nat -> Int]]
      /\ \A m \in Lists, i \in Ranks : own[PlaceOn(m, i)] = PlaceUnits(n, at, m, i)
  BY DEF Owned, Stacks
<1>1. PICK l, N, k, s : l = p.list /\ N = n[l] /\ k = p.n /\ s = Size(l)
  OBVIOUS
<1>2. /\ n2 \in [Lists -> Nat] /\ at2 \in [Lists -> [Nat -> Int]]
      /\ l \in Lists /\ k \in Nat /\ k > 0 /\ N \in Nat
      /\ n2[l] = N + k
      /\ \A m \in Lists : m # l => n2[m] = n[m] /\ at2[m] = at[m]
      /\ \A i \in Nat : at2[l][i] = IF i <= N THEN at[l][i] ELSE Nth(p, N + k - i)
  BY <1>0, <1>1, GrowsFacts
<1>3. s \in Nat /\ s > 0
  BY <1>1, <1>2, SizesDivide
<1>a. PICK G : G = ItemOf(t, l)
  OBVIOUS
<1>4. G \in Owners /\ own[G] = Chunk(p)
  BY <1>1, <1>2, <1>a, OwnerSet
<1>5. \A i \in Ranks : PlaceOn(l, i) \in Owners /\ PlaceOn(l, i) # G /\ PlaceOn(l, i)[3] = i
  <2>1. \A i : PlaceOn(l, i)[3] = i
    BY DEF PlaceOn
  <2> QED
    BY <1>2, <1>a, <2>1, OwnerSet, OwnerNames
<1>6. \A i, j \in Ranks : PlaceOn(l, i) = PlaceOn(l, j) => i = j
  BY OwnerNames
\* What the places of list l have.
<1>7. PICK U : U = [i \in Ranks |-> PlaceUnits(n2, at2, l, i)]
  OBVIOUS
<1>8. ASSUME NEW i \in Ranks
      PROVE  /\ i \in Nat /\ U[i] = PlaceUnits(n2, at2, l, i)
             /\ i <= N => U[i] = own[PlaceOn(l, i)]
             /\ i > N /\ i <= N + k => U[i] = Extent(Nth(p, N + k - i), s) /\ N + k - i \in 0 .. k - 1
             /\ i > N + k => U[i] = {}
             /\ i > N => own[PlaceOn(l, i)] = {}
  <2>0. i \in Nat
    BY DEF Ranks
  <2>1. U[i] = IF i <= N + k THEN Extent(at2[l][i], s) ELSE {}
    BY <1>1, <1>2, <1>7 DEF PlaceUnits
  <2>2. own[PlaceOn(l, i)] = IF i <= N THEN Extent(at[l][i], s) ELSE {}
    BY <1>0, <1>1, <1>2 DEF PlaceUnits
  <2>3. at2[l][i] = IF i <= N THEN at[l][i] ELSE Nth(p, N + k - i)
    BY <1>2, <2>0
  <2>4. i <= N => i <= N + k
    BY <1>2, <2>0
  <2>5. i > N <=> ~(i <= N)
    BY <1>2, <2>0
  <2>6. i > N + k <=> ~(i <= N + k)
    BY <1>2, <2>0
  <2>7. i > N /\ i <= N + k => N + k - i \in 0 .. k - 1
    BY <1>2, <2>0
  <2>8. i <= N => U[i] = own[PlaceOn(l, i)]
    BY <2>1, <2>2, <2>3, <2>4
  <2>9. i > N /\ i <= N + k => U[i] = Extent(Nth(p, N + k - i), s)
    BY <2>1, <2>3, <2>5
  <2>10. (i > N + k => U[i] = {}) /\ (i > N => own[PlaceOn(l, i)] = {})
    BY <2>1, <2>2, <2>5, <2>6
  <2>11. U[i] = PlaceUnits(n2, at2, l, i)
    BY <1>7
  <2> QED
    BY <2>0, <2>7, <2>8, <2>9, <2>10, <2>11
<1>9. ASSUME NEW i \in Ranks PROVE i > N => U[i] \subseteq own[G]
  <2>1. i \in Nat /\ (i > N + k \/ i <= N + k)
    BY <1>2, <1>8
  <2>2. CASE i > N /\ i <= N + k
    <3>1. U[i] = Extent(Nth(p, N + k - i), s) /\ N + k - i \in 0 .. k - 1
      BY <1>8, <2>2
    <3>2. Extent(Nth(p, N + k - i), s) \subseteq Chunk(p)
      BY <1>1, <3>1, NthFacts
    <3> QED
      BY <1>4, <3>1, <3>2
  <2> QED
    BY <1>8, <2>1, <2>2
<1>10. \A i \in Ranks : U[i] \in SUBSET Int
  <2>1. \A i \in Ranks : i <= N \/ i > N
    BY <1>2, <1>8
  <2> QED
    BY <1>0, <1>4, <1>5, <1>8, <1>9, <2>1
<1>11. ASSUME NEW i \in Ranks, NEW j \in Ranks, i < j PROVE U[i] \cap U[j] = {}
  <2>0. i \in Nat /\ j \in Nat
    BY <1>8
  <2>1. CASE j <= N
    <3>1. i <= N /\ i # j
      BY <1>2, <1>11, <2>0, <2>1
    <3>2. U[i] = own[PlaceOn(l, i)] /\ U[j] = own[PlaceOn(l, j)]
      BY <1>8, <2>1, <3>1
    <3> QED
      BY <1>5, <1>6, <3>1, <3>2 DEF Apart
  <2>2. CASE i <= N /\ j > N
    BY <1>4, <1>5, <1>8, <1>9, <2>2 DEF Apart
  <2>3. CASE i > N /\ j <= N + k
    <3>1. i <= N + k /\ j > N
      BY <1>2, <1>11, <2>0, <2>3
    <3>2. /\ U[i] = Extent(Nth(p, N + k - i), s) /\ U[j] = Extent(Nth(p, N + k - j), s)
          /\ N + k - i \in Int /\ N + k - j \in Int /\ N + k - j < N + k - i
      <4>1. N + k - i \in Int /\ N + k - j \in Int /\ N + k - j < N + k - i
        BY <1>2, <1>11, <2>0
      <4> QED
        BY <1>8, <2>3, <3>1, <4>1
    <3>3. /\ Nth(p, N + k - j) + s <= Nth(p, N + k - i)
          /\ Nth(p, N + k - j) \in Int /\ Nth(p, N + k - i) \in Int
      BY <1>1, <3>2, NthFacts
    <3>4. PICK v, w \in Int : v = Nth(p, N + k - j) /\ w = Nth(p, N + k - i)
      BY <3>3
    <3>5. v + s <= w /\ U[j] = v .. v + s - 1 /\ U[i] = w .. w + s - 1
      BY <3>2, <3>3, <3>4 DEF Extent
    <3> QED
      BY <1>3, <3>4, <3>5
  <2>4. CASE j > N + k
    BY <1>8, <2>4
  <2>5. j <= N \/ (i <= N /\ j > N) \/ (i > N /\ j <= N + k) \/ j > N + k
    BY <1>2, <2>0
  <2> QED
    BY <2>1, <2>2, <2>3, <2>4, <2>5
<1>12. \A i, j \in Ranks : i # j => U[i] \cap U[j] = {}
  <2>1. \A i, j \in Ranks : i # j => i < j \/ j < i
    BY <1>8
  <2> QED
    BY <1>11, <2>1
<1>13. PICK Q : Q = {PlaceOn(l, i) : i \in Ranks}
  OBVIOUS
<1>14. PICK own2 : own2 = [z \in Owners |-> IF z = G THEN {} ELSE IF z \in Q THEN U[z[3]] ELSE own[z]]
  OBVIOUS
<1>15. /\ \A i \in Ranks : own2[PlaceOn(l, i)] = U[i]
       /\ own2[G] = {} /\ \A z \in Owners : z # G /\ z \notin Q => own2[z] = own[z]
  <2>1. ASSUME NEW i \in Ranks PROVE own2[PlaceOn(l, i)] = U[i]
    <3>1. PlaceOn(l, i) \in Q /\ PlaceOn(l, i) # G /\ PlaceOn(l, i) \in Owners /\ PlaceOn(l, i)[3] = i
      BY <1>5, <1>13
    <3> QED
      BY <1>14, <3>1
  <2> QED
    BY <1>4, <1>14, <2>1
<1>16. own2 \in [Owners -> SUBSET Int]
  <2>1. ASSUME NEW z \in Owners PROVE own2[z] \in SUBSET Int
    <3>1. CASE z \in Q
      <4>1. PICK i \in Ranks : z = PlaceOn(l, i)
        BY <1>13, <3>1
      <4> QED
        BY <1>10, <1>15, <4>1
    <3>2. CASE z \notin Q
      BY <1>0, <1>15, <3>2
    <3> QED
      BY <3>1, <3>2
  <2>2. own2 = [z \in Owners |-> own2[z]]
    BY <1>14
  <2> QED
    BY <2>1, <2>2
<1>17. Apart(own2) /\ Cover(own2)
  <2>1. PICK S : S = Q \cup {G}
    OBVIOUS
  <2>2. S \subseteq Owners /\ \A z \in Owners \ S : own2[z] = own[z]
    BY <1>4, <1>5, <1>13, <1>15, <2>1
  <2>3. ASSUME NEW y \in S, NEW z \in S, y # z PROVE own2[y] \cap own2[z] = {}
    <3>1. CASE y = G \/ z = G
      BY <1>15, <3>1
    <3>2. CASE y # G /\ z # G
      <4>1. PICK i, j \in Ranks : y = PlaceOn(l, i) /\ z = PlaceOn(l, j)
        BY <1>13, <2>1, <3>2
      <4> QED
        BY <1>12, <1>15, <2>3, <4>1
    <3> QED
      BY <3>1, <3>2
  <2>4. ASSUME NEW u \in Int, NEW z \in S, u \in own2[z] PROVE \E y \in S : u \in own[y]
    <3>1. PICK i \in Ranks : z = PlaceOn(l, i) /\ u \in U[i]
      BY <1>13, <1>15, <2>1, <2>4
    <3>2. CASE i <= N
      BY <1>8, <3>1, <3>2
    <3>3. CASE i > N
      BY <1>9, <2>1, <3>1, <3>3
    <3> QED
      BY <1>2, <1>8, <3>2, <3>3
  <2>5. ASSUME NEW u \in Int, NEW z \in S, u \in own[z] PROVE \E y \in S : u \in own2[y]
    <3>1. CASE z = G
      <4>1. PICK j \in 0 .. p.n - 1 : u \in Extent(Nth(p, j), Size(p.list))
        BY <1>4, <2>5, <3>1, NthFacts
      <4>2. PICK i : i = N + k - j
        OBVIOUS
      <4>3. i \in Ranks /\ i > N /\ i <= N + k /\ N + k - i = j
        BY <1>1, <1>2, <4>1, <4>2 DEF Ranks
      <4>4. u \in U[i]
        BY <1>1, <1>8, <4>1, <4>3
      <4>5. PlaceOn(l, i) \in S
        BY <1>13, <2>1, <4>3
      <4> QED
        BY <1>15, <4>3, <4>4, <4>5
    <3>2. CASE z # G
      <4>1. PICK i \in Ranks : z = PlaceOn(l, i)
        BY <1>13, <2>1, <3>2
      <4>2. ~(i > N)
        BY <1>8, <2>5, <4>1
      <4>3. i <= N
        BY <1>2, <1>8, <4>2
      <4> QED
        BY <1>8, <1>15, <2>5, <4>1, <4>3
    <3> QED
      BY <3>1, <3>2
  <2>6. \A u \in Int : (\E z \in S : u \in own2[z]) <=> (\E z \in S : u \in own[z])
    BY <2>4, <2>5
  <2> QED
    BY <1>0, <1>16, <2>2, <2>3, <2>6, Rearrange
<1>18. ASSUME NEW m \in Lists, NEW i \in Ranks PROVE own2[PlaceOn(m, i)] = PlaceUnits(n2, at2, m, i)
  <2>1. CASE m = l
    BY <1>8, <1>15, <2>1
  <2>2. CASE m # l
    <3>1. PlaceOn(m, i) \in Owners /\ PlaceOn(m, i) # G /\ PlaceOn(m, i) \notin Q
      BY <1>13, <1>a, <2>2, OwnerSet, OwnerNames
    <3>2. own2[PlaceOn(m, i)] = PlaceUnits(n, at, m, i)
      BY <1>0, <1>15, <3>1
    <3>3. PlaceUnits(n2, at2, m, i) = PlaceUnits(n, at, m, i)
      BY <1>2, <2>2 DEF PlaceUnits
    <3> QED
      BY <3>2, <3>3
  <2> QED
    BY <2>1, <2>2
<1>19. \A z \in Owners : z # G /\ (\A i \in Ranks : z # PlaceOn(l, i)) => own2[z] = own[z]
  BY <1>13, <1>15
<1>20. PushOwners(own, own2, n2, at2, t, l)
  BY <1>15, <1>16, <1>17, <1>18, <1>19, <1>a DEF PushOwners
<1> QED
  BY <1>1, <1>20

\* The states of a chunk are on the side of the pool the chunk is on.
LEMMA NthOnSide ==
    ASSUME NEW p \in Items, OnSide(p.list, p.off, p.n * Size(p.list)), NEW j \in 0 .. p.n - 1
    PROVE  OnSide(p.list, Nth(p, j), Size(p.list))
<1>1. p.n \in Nat /\ p.list \in Lists /\ p.off \in Int /\ j \in Int /\ p.n \in Int /\ 0 \in Int
  BY DEF Items
<1>2. PICK s \in Nat : s = Size(p.list) /\ s > 0
  BY <1>1, SizesDivide
<1>3. j < p.n /\ (j = 0 \/ 0 < j)
  BY <1>1
<1>4. PICK a, c \in Int : a = Nth(p, j) /\ c = Nth(p, p.n)
  BY <1>1, NthFacts
<1>5. a + s <= c /\ (j = 0 => a = p.off) /\ (0 < j => p.off + s <= a)
  BY <1>1, <1>2, <1>3, <1>4, NthFacts
<1>6. c = p.off + p.n * s
  BY <1>2, <1>4 DEF Nth
<1>7. IF p.list = Back THEN c <= 0 ELSE p.off >= 0
  BY <1>2, <1>6 DEF OnSide
<1>8. IF p.list = Back THEN a + s <= 0 ELSE a >= 0
  BY <1>1, <1>2, <1>3, <1>5, <1>7
<1> QED
  BY <1>2, <1>4, <1>8 DEF OnSide

\* Thread t puts the chunk p on its list, and writes the link of its last state and into V.
Pushed(own, n, at, t, p, n2, at2, last, V) ==
    /\ pc[t] = "push_cas" /\ p = Head(loc[t].push)
    /\ head' = [head EXCEPT ![p.list] = [offset |-> p.off, count |-> Bump(head[p.list].count)]]
    /\ Grows(n, at, p, n2, at2)
    /\ last = Nth(p, p.n - 1) /\ WritesOnly(V \cup {last})
    /\ last \in DOMAIN next' /\ next'[last] = head[p.list].offset
    /\ V \cap Chunk(p) = {}
    /\ \A m \in Lists, i \in Ranks : V \cap own[PlaceOn(m, i)] = {}
    /\ \A u \in Threads, m \in Lists : u # t => V \cap own[ItemOf(u, m)] = {}

\* The link of the last state of the chunk leads to what was the first state of the list.
LEMMA PushedStacks ==
    ASSUME NEW own, NEW n, NEW at, NEW fresh, Memory(own, n, at, fresh), NEW t \in Threads,
           NEW p, NEW n2, NEW at2, NEW last, NEW V, Pushed(own, n, at, t, p, n2, at2, last, V)
    PROVE  /\ Stacks(n2, at2)' /\ CountsGrow
           /\ \A m \in Lists : head'[m] = head[m] /\ n[m] # 0 => Top(n, at, m) \notin V \cup {last}
<1>c. PICK cur : cur = head[p.list]
  OBVIOUS
<1>b. pc[t] = "push_cas" /\ p = Head(loc[t].push)
  BY DEF Pushed
<1>d. head' = [head EXCEPT ![p.list] = [offset |-> p.off, count |-> Bump(cur.count)]]
  BY <1>c DEF Pushed
<1>e. Grows(n, at, p, n2, at2)
  BY DEF Pushed
<1>f. last = Nth(p, p.n - 1)
  BY DEF Pushed
<1>g. WritesOnly(V \cup {last}) /\ last \in DOMAIN next' /\ next'[last] = cur.offset
  BY <1>c DEF Pushed
<1>h. V \cap Chunk(p) = {} /\ \A m \in Lists, i \in Ranks : V \cap own[PlaceOn(m, i)] = {}
  BY DEF Pushed
<1>0. Owned(own, n, at, fresh) /\ Apart(own) /\ Stacks(n, at) /\ Pusher(t) /\ pc[t] \in Pushing
  BY <1>b DEF Memory, Pushing
<1>1. /\ p \in Items /\ p.list \in Lists /\ loc[t].push[1] = p
      /\ own[ItemOf(t, p.list)] = Chunk(p) /\ ItemOf(t, p.list) \in Owners
  BY <1>b, <1>0, PusherOwns
<1>2. PICK l, N, k, s : l = p.list /\ N = n[l] /\ k = p.n /\ s = Size(l)
  OBVIOUS
<1>3. n \in [Lists -> Nat] /\ at \in [Lists -> [Nat -> Int]] /\ DOMAIN head = Lists
  BY <1>0 DEF Stacks
<1>4. /\ n2 \in [Lists -> Nat] /\ at2 \in [Lists -> [Nat -> Int]]
      /\ l \in Lists /\ k \in Nat /\ k > 0 /\ N \in Nat
      /\ n2[l] = N + k
      /\ \A m \in Lists : m # l => n2[m] = n[m] /\ at2[m] = at[m]
      /\ \A i \in Nat : at2[l][i] = IF i <= N THEN at[l][i] ELSE Nth(p, N + k - i)
  <2>1. /\ n2 \in [Lists -> Nat] /\ at2 \in [Lists -> [Nat -> Int]]
        /\ p.list \in Lists /\ p.n \in Nat /\ p.n > 0
        /\ n2[p.list] = n[p.list] + p.n
        /\ \A m \in Lists : m # p.list => n2[m] = n[m] /\ at2[m] = at[m]
        /\ \A i \in Nat : at2[p.list][i] = IF i <= n[p.list] THEN at[p.list][i]
                                           ELSE Nth(p, n[p.list] + p.n - i)
    BY <1>e, <1>1, <1>3, GrowsFacts
  <2>2. n[p.list] \in Nat
    BY <1>3, <2>1
  <2> QED
    BY <1>2, <2>1, <2>2
<1>a. l \in Lists /\ k \in Nat /\ k > 0 /\ N \in Nat /\ n[l] = N /\ p.n = k
  BY <1>2, <1>4
<1>5. cur \in Heads /\ cur.offset = (IF N = 0 THEN EMPTY ELSE at[l][N]) /\ cur.count \in Nat
  BY <1>c, <1>0, <1>2, <1>4 DEF Stacks, Heads
<1>6. /\ DOMAIN head' = Lists /\ \A m \in Lists : m # l => head'[m] = head[m]
      /\ head'[l] = [offset |-> p.off, count |-> Bump(cur.count)]
  BY <1>d, <1>2, <1>3, <1>4
<1>7. p.off \in Int /\ Bump(cur.count) \in Nat /\ Bump(cur.count) > cur.count
  BY <1>1, <1>5 DEF Items, Bump
<1>8. head'[l] \in Heads /\ head'[l].offset = p.off /\ head'[l].count > head[l].count
  BY <1>c, <1>2, <1>6, <1>7 DEF Heads
<1>9. head'[l] # head[l]
  <2>1. head'[l].count \in Nat /\ head[l].count \in Nat /\ head'[l].count > head[l].count
    BY <1>c, <1>2, <1>5, <1>6, <1>7
  <2> QED
    BY <2>1
<1>10. CountsGrow
  BY <1>6, <1>8 DEF CountsGrow
<1>11. k - 1 \in 0 .. p.n - 1 /\ last = Nth(p, k - 1)
  BY <1>f, <1>a
<1>12. last \in Chunk(p) /\ \A j \in Int : j # k - 1 => Nth(p, j) # last
  BY <1>1, <1>11, NthInside
\* The states that are on a list already.
<1>13. ASSUME NEW m \in Lists, NEW i \in 1 .. n[m]
       PROVE  /\ at[m][i] \notin V \cup {last} /\ at[m][i] \in DOMAIN next'
              /\ next'[at[m][i]] = (IF i = 1 THEN EMPTY ELSE at[m][i - 1])
              /\ OnSide(m, at[m][i], Size(m))
  <2>1. n[m] \in Nat /\ i \in Ranks /\ i <= n[m] /\ at[m][i] \in Int
    BY <1>3 DEF Ranks
  <2>2. own[PlaceOn(m, i)] = Extent(at[m][i], Size(m))
    BY <1>0, <2>1 DEF Owned, PlaceUnits
  <2>3. at[m][i] \in Extent(at[m][i], Size(m))
    BY <2>1, SizesDivide DEF Extent
  <2>4. PlaceOn(m, i) \in Owners /\ PlaceOn(m, i) # ItemOf(t, p.list)
    BY <2>1, OwnerSet, OwnerNames
  <2>5. at[m][i] \notin V /\ at[m][i] # last
    BY <1>h, <1>0, <1>1, <1>12, <2>1, <2>2, <2>3, <2>4 DEF Apart
  <2>6. /\ at[m][i] \in DOMAIN next /\ next[at[m][i]] = (IF i = 1 THEN EMPTY ELSE at[m][i - 1])
        /\ OnSide(m, at[m][i], Size(m))
    BY <1>0 DEF Stacks
  <2> QED
    BY <1>g, <2>5, <2>6 DEF WritesOnly
<1>14. \A m \in Lists : head'[m] = head[m] /\ n[m] # 0 => Top(n, at, m) \notin V \cup {last}
  <2>1. ASSUME NEW m \in Lists, n[m] # 0 PROVE Top(n, at, m) \notin V \cup {last}
    <3>1. n[m] \in 1 .. n[m]
      BY <1>3, <2>1
    <3> QED
      BY <1>13, <3>1 DEF Top
  <2> QED
    BY <2>1
\* The states that are pushed.
<1>15. ASSUME NEW i \in 1 .. n2[l]
       PROVE  /\ at2[l][i] \in DOMAIN next'
              /\ next'[at2[l][i]] = (IF i = 1 THEN EMPTY ELSE at2[l][i - 1])
              /\ OnSide(l, at2[l][i], s)
  <2>1. i \in Nat /\ i >= 1 /\ i <= N + k /\ i - 1 \in Nat
    BY <1>4
  <2>2. CASE i <= N
    <3>1. i \in 1 .. n[l] /\ i - 1 <= N
      BY <1>a, <2>1, <2>2
    <3>2. at2[l][i] = at[l][i] /\ at2[l][i - 1] = at[l][i - 1]
      BY <1>4, <2>1, <2>2, <3>1
    <3>3. /\ at[l][i] \in DOMAIN next' /\ OnSide(l, at[l][i], Size(l))
          /\ next'[at[l][i]] = (IF i = 1 THEN EMPTY ELSE at[l][i - 1])
      BY <1>a, <1>13, <3>1
    <3> QED
      BY <1>2, <3>2, <3>3
  <2>3. ASSUME i > N
        PROVE  /\ at2[l][i] = Nth(p, N + k - i) /\ N + k - i \in 0 .. p.n - 1
               /\ OnSide(l, at2[l][i], s)
    <3>1. ~(i <= N) /\ N + k - i \in 0 .. k - 1
      BY <1>4, <2>1, <2>3
    <3>2. at2[l][i] = Nth(p, N + k - i)
      BY <1>4, <2>1, <3>1
    <3>3. OnSide(p.list, p.off, p.n * Size(p.list))
      <4>1. /\ loc[t].push \in Seq(Items) /\ Len(loc[t].push) \in {1, 2}
            /\ \A j \in 1 .. Len(loc[t].push) :
                  OnSide(loc[t].push[j].list, loc[t].push[j].off, loc[t].push[j].n * Size(loc[t].push[j].list))
        BY <1>0 DEF Pusher
      <4>2. 1 \in 1 .. Len(loc[t].push)
        BY <4>1
      <4> QED
        BY <1>1, <4>1, <4>2
    <3>4. N + k - i \in 0 .. p.n - 1
      BY <1>2, <3>1
    <3>5. OnSide(p.list, Nth(p, N + k - i), Size(p.list))
      BY <1>1, <3>3, <3>4, NthOnSide
    <3> QED
      BY <1>2, <3>2, <3>4, <3>5
  <2>4. CASE i = N + 1
    <3>1. i > N /\ N + k - i = k - 1 /\ i - 1 = N /\ N <= N
      BY <1>4, <2>4
    <3>2. at2[l][i] = last /\ OnSide(l, at2[l][i], s)
      BY <1>11, <2>3, <3>1
    <3>3. at2[l][i - 1] = at[l][N]
      BY <1>4, <3>1
    <3>4. (i = 1) <=> (N = 0)
      BY <1>4, <2>4
    <3>5. cur.offset = IF i = 1 THEN EMPTY ELSE at2[l][i - 1]
      BY <1>5, <3>3, <3>4
    <3> QED
      BY <1>g, <3>2, <3>5
  <2>5. CASE i > N + 1
    <3>1. i > N /\ i - 1 > N /\ ~(i - 1 <= N) /\ i # 1
      BY <1>4, <2>1, <2>5
    <3>2. PICK j : j = N + k - i
      OBVIOUS
    <3>3. j \in 0 .. p.n - 2 /\ j \in Int /\ j # k - 1 /\ N + k - (i - 1) = j + 1
      BY <1>a, <2>1, <2>5, <3>2
    <3>4. at2[l][i] = Nth(p, j) /\ OnSide(l, at2[l][i], s) /\ j \in 0 .. p.n - 1
      BY <2>3, <3>1, <3>2
    <3>5. at2[l][i - 1] = Nth(p, j + 1)
      BY <1>4, <2>1, <3>1, <3>3
    <3>6. Nth(p, j) \in DOMAIN next /\ next[Nth(p, j)] = Nth(p, j + 1)
      BY <1>b, <1>0, <1>1, <3>3 DEF Pusher
    <3>7. Nth(p, j) \in Chunk(p)
      BY <1>1, <3>4, NthInside
    <3>8. Nth(p, j) \notin V \cup {last}
      BY <1>h, <1>12, <3>3, <3>7
    <3>9. Nth(p, j) \in DOMAIN next' /\ next'[Nth(p, j)] = Nth(p, j + 1)
      BY <1>g, <3>6, <3>8 DEF WritesOnly
    <3> QED
      BY <3>1, <3>4, <3>5, <3>9
  <2>6. i <= N \/ i = N + 1 \/ i > N + 1
    BY <1>4, <2>1
  <2> QED
    BY <2>2, <2>4, <2>5, <2>6, <2>3
<1>16. /\ n2[l] # 0 /\ at2[l][n2[l]] = p.off
  <2>1. N + k \in Nat /\ ~(N + k <= N) /\ N + k - (N + k) = 0 /\ N + k # 0
    BY <1>4
  <2>2. at2[l][N + k] = Nth(p, 0)
    BY <1>4, <2>1
  <2> QED
    BY <1>1, <1>4, <2>1, <2>2, NthFacts
<1>17. ASSUME NEW m \in Lists
       PROVE  /\ head'[m] \in Heads
              /\ head'[m].offset = IF n2[m] = 0 THEN EMPTY ELSE at2[m][n2[m]]
              /\ \A i \in 1 .. n2[m] :
                    /\ at2[m][i] \in DOMAIN next'
                    /\ next'[at2[m][i]] = (IF i = 1 THEN EMPTY ELSE at2[m][i - 1])
                    /\ OnSide(m, at2[m][i], Size(m))
  <2>1. CASE m = l
    BY <1>2, <1>8, <1>15, <1>16, <2>1
  <2>2. CASE m # l
    <3>1. head'[m] = head[m] /\ n2[m] = n[m] /\ at2[m] = at[m]
      BY <1>4, <1>6, <2>2
    <3>2. head[m] \in Heads /\ head[m].offset = IF n[m] = 0 THEN EMPTY ELSE at[m][n[m]]
      BY <1>0 DEF Stacks
    <3> QED
      BY <1>13, <3>1, <3>2
  <2> QED
    BY <2>1, <2>2
<1>18. Stacks(n2, at2)'
  <2>1. \A m, o, j : OnSide(m, o, j)' = OnSide(m, o, j)
    BY DEF OnSide
  <2> QED
    BY <1>4, <1>6, <1>17, <2>1 DEF Stacks
<1> QED
  BY <1>10, <1>14, <1>18

\* What the step leaves to its owners.
Passed(own, own2, n2, at2, t) ==
    /\ own2 \in [Owners -> SUBSET Int] /\ Apart(own2) /\ Cover(own2)
    /\ \A m \in Lists, i \in Ranks : own2[PlaceOn(m, i)] = PlaceUnits(n2, at2, m, i)
    /\ \A s \in Sides : own2[PoolOf(s)] = own[PoolOf(s)]
    /\ \A b \in Buckets : own2[RestOf(b)] = own[RestOf(b)]
    /\ \A u \in Threads : u # t => /\ own2[KeptBy(u)] = own[KeptBy(u)]
                                   /\ \A m \in Lists : own2[ItemOf(u, m)] = own[ItemOf(u, m)]
    /\ \A h \in States : own2[HeldAs(h)] = HeldUnits(h)'
    /\ own2[KeptBy(t)] = KeptUnits(t)'
    /\ \A m \in Lists : own2[ItemOf(t, m)] = ItemUnits(t, m)'

\* A chunk is pushed on its list.
LEMMA PushMove ==
    ASSUME NEW own, NEW n, NEW at, NEW fresh, Memory(own, n, at, fresh), SleepInv, NEW t \in Threads,
           NEW p, NEW n2, NEW at2, NEW last, NEW V, Pushed(own, n, at, t, p, n2, at2, last, V),
           UNCHANGED <<block, state>>, Others(t), pc'[t] \in {"push", "idle"}, Pusher(t)', HeldOnce',
           IsFiniteSet(DOMAIN next'), NEW own2, Passed(own, own2, n2, at2, t)
    PROVE  MemInv'
<1>0. /\ Owned(own, n, at, fresh) /\ Apart(own) /\ Fresh(fresh) /\ pc[t] = "push_cas"
      /\ p = Head(loc[t].push) /\ last = Nth(p, p.n - 1)
  BY DEF Memory, Pushed
<1>1. PICK W : W = V \cup {last}
  OBVIOUS
<1>2. /\ Stacks(n2, at2)' /\ CountsGrow /\ WritesOnly(W)
      /\ \A m \in Lists : head'[m] = head[m] /\ n[m] # 0 => Top(n, at, m) \notin W
  <2>1. /\ Stacks(n2, at2)' /\ CountsGrow
        /\ \A m \in Lists : head'[m] = head[m] /\ n[m] # 0 => Top(n, at, m) \notin V \cup {last}
    BY PushedStacks
  <2> QED
    BY <1>1, <2>1 DEF Pushed
<1>3. /\ p \in Items /\ p.list \in Lists
      /\ own[ItemOf(t, p.list)] = Chunk(p) /\ ItemOf(t, p.list) \in Owners
  BY <1>0, PusherOwns DEF Pushing
<1>4. p.n - 1 \in 0 .. p.n - 1
  BY <1>3 DEF Items
<1>5. last \in Chunk(p)
  BY <1>0, <1>3, <1>4, NthInside
<1>6. \A u \in Threads, m \in Lists : u # t => last \notin own[ItemOf(u, m)]
  BY <1>0, <1>3, <1>5, OwnerSet, OwnerNames DEF Apart
<1>7. \A u \in Threads, m \in Lists : u # t => W \cap own[ItemOf(u, m)] = {}
  BY <1>1, <1>6 DEF Pushed
<1>8. Fresh(fresh)'
  <2>1. pc[t] \notin Growing /\ pc'[t] \notin Growing
    BY <1>0 DEF Growing
  <2> QED
    BY <1>0, <2>1, FreshSame
<1>9. Popper(t)'
  BY DEF Popper
<1>10. \A s \in Sides : own2[PoolOf(s)] = Beyond(s, fresh[s])
  BY <1>0 DEF Owned, Passed
<1>11. \A b \in Buckets : own2[RestOf(b)] = RestUnits(b)'
  BY <1>0 DEF Owned, RestUnits, Passed
<1>12. /\ own2 \in [Owners -> SUBSET Int] /\ Apart(own2) /\ Cover(own2)
       /\ \A m \in Lists, i \in Ranks : own2[PlaceOn(m, i)] = PlaceUnits(n2, at2, m, i)
       /\ \A u \in Threads : u # t => /\ own2[KeptBy(u)] = own[KeptBy(u)]
                                      /\ \A m \in Lists : own2[ItemOf(u, m)] = own[ItemOf(u, m)]
       /\ \A h \in States : own2[HeldAs(h)] = HeldUnits(h)'
       /\ own2[KeptBy(t)] = KeptUnits(t)'
       /\ \A m \in Lists : own2[ItemOf(t, m)] = ItemUnits(t, m)'
  BY DEF Passed
<1> QED
  BY <1>2, <1>7, <1>8, <1>9, <1>10, <1>11, <1>12, MemoryStep

\* What a push leaves alone of the owners.
PushKept(own, own2, t, l) ==
    /\ \A s \in Sides : own2[PoolOf(s)] = own[PoolOf(s)]
    /\ \A b \in Buckets : own2[RestOf(b)] = own[RestOf(b)]
    /\ \A h \in States : own2[HeldAs(h)] = own[HeldAs(h)]
    /\ \A u \in Threads : own2[KeptBy(u)] = own[KeptBy(u)]
    /\ \A u \in Threads, m \in Lists : u # t \/ m # l => own2[ItemOf(u, m)] = own[ItemOf(u, m)]

\* Only the chunk and the places on its list get other memory.
LEMMA PushOwnersKept ==
    ASSUME NEW own, NEW own2, NEW n2, NEW at2, NEW t \in Threads, NEW l \in Lists,
           PushOwners(own, own2, n2, at2, t, l)
    PROVE  PushKept(own, own2, t, l)
<1>0. \A z \in Owners : z # ItemOf(t, l) /\ (\A i \in Ranks : z # PlaceOn(l, i)) => own2[z] = own[z]
  BY DEF PushOwners
<1>1. \A s \in Sides : own2[PoolOf(s)] = own[PoolOf(s)]
  <2>1. \A s \in Sides : PoolOf(s) # ItemOf(t, l) /\ \A i \in Ranks : PoolOf(s) # PlaceOn(l, i)
    BY OwnerNames
  <2> QED
    BY <1>0, <2>1, OwnerSet
<1>2. \A b \in Buckets : own2[RestOf(b)] = own[RestOf(b)]
  <2>1. \A b \in Buckets : RestOf(b) # ItemOf(t, l) /\ \A i \in Ranks : RestOf(b) # PlaceOn(l, i)
    BY OwnerNames
  <2> QED
    BY <1>0, <2>1, OwnerSet
<1>3. \A h \in States : own2[HeldAs(h)] = own[HeldAs(h)]
  <2>1. \A h \in States : HeldAs(h) # ItemOf(t, l) /\ \A i \in Ranks : HeldAs(h) # PlaceOn(l, i)
    BY OwnerNames
  <2> QED
    BY <1>0, <2>1, OwnerSet
<1>4. \A u \in Threads : own2[KeptBy(u)] = own[KeptBy(u)]
  <2>1. \A u \in Threads : KeptBy(u) # ItemOf(t, l) /\ \A i \in Ranks : KeptBy(u) # PlaceOn(l, i)
    BY OwnerNames
  <2> QED
    BY <1>0, <2>1, OwnerSet
<1>5. ASSUME NEW u \in Threads, NEW m \in Lists, u # t \/ m # l
      PROVE  own2[ItemOf(u, m)] = own[ItemOf(u, m)]
  <2>1. ItemOf(u, m) # ItemOf(t, l) /\ \A i \in Ranks : ItemOf(u, m) # PlaceOn(l, i)
    BY <1>5, OwnerNames
  <2> QED
    BY <1>0, <2>1, OwnerSet
<1> QED
  BY <1>1, <1>2, <1>3, <1>4, <1>5 DEF PushKept

\* What a thread still has to push when its first chunk is on its list.
LEMMA ItemsLeft ==
    ASSUME NEW own, NEW n, NEW at, NEW fresh, Memory(own, n, at, fresh), NEW t \in Threads,
           pc[t] = "push_cas", NEW p, p = Head(loc[t].push),
           \/ Len(loc[t].push) > 1 /\ pc'[t] = "push" /\ loc'[t].push = Tail(loc[t].push)
                 /\ loc'[t].want = loc[t].want /\ loc'[t].off = loc[t].off
           \/ Len(loc[t].push) = 1 /\ pc'[t] = "idle" /\ loc'[t] = NoLocals
    PROVE  /\ Pusher(t)' /\ ItemUnits(t, p.list)' = {}
           /\ \A m \in Lists \ {p.list} : ItemUnits(t, m)' = own[ItemOf(t, m)]
<1> DEFINE q == loc[t].push
<1>0. Owned(own, n, at, fresh) /\ Pusher(t) /\ pc[t] \in Pushing
  BY DEF Memory, Pushing
<1>1. /\ p \in Items /\ p.list \in Lists /\ q[1] = p
      /\ \A m \in Lists \ {p.list} : own[ItemOf(t, m)] = IF Len(q) = 2 /\ m = q[2].list THEN Chunk(q[2]) ELSE {}
  BY <1>0, PusherOwns
<1>2. /\ q \in Seq(Items) /\ Len(q) \in {1, 2} /\ (Len(q) = 2 => q[1].list # q[2].list)
      /\ \A j \in 1 .. Len(q) : OnSide(q[j].list, q[j].off, q[j].n * Size(q[j].list))
      /\ loc[t].want # NULL => loc[t].want \in Buckets /\ loc[t].off \in Nat
  BY <1>0 DEF Pusher
<1>3. CASE Len(q) = 1 /\ pc'[t] = "idle" /\ loc'[t] = NoLocals
  <2>1. Pusher(t)'
    BY <1>3 DEF Pusher, Pushing
  <2>2. \A m \in Lists : ItemUnits(t, m)' = {}
    BY <1>3 DEF ItemUnits, Pushing
  <2>3. \A m \in Lists \ {p.list} : own[ItemOf(t, m)] = {}
    BY <1>1, <1>3
  <2> QED
    BY <1>1, <2>1, <2>2, <2>3
<1>4. CASE Len(q) > 1 /\ pc'[t] = "push" /\ loc'[t].push = Tail(q)
              /\ loc'[t].want = loc[t].want /\ loc'[t].off = loc[t].off
  <2>1. Len(q) = 2
    BY <1>2, <1>4
  <2>2. PICK r : r = Tail(q)
    OBVIOUS
  <2>3. r \in Seq(Items) /\ Len(r) = 1 /\ r[1] = q[2] /\ 1 .. Len(r) = {1} /\ 2 \in 1 .. Len(q) /\ q[2] \in Items
    BY <1>2, <2>1, <2>2, ItemSeq
  <2>4. OnSide(r[1].list, r[1].off, r[1].n * Size(r[1].list))
    BY <1>2, <2>3
  <2>5. loc'[t].push = r
    BY <1>4, <2>2
  <2>6. Pusher(t)'
    BY <1>2, <1>4, <2>3, <2>4, <2>5 DEF Pusher, OnSide
  <2>7. \A m \in Lists : ItemUnits(t, m)' = {u \in Int : r[1].list = m /\ u \in Chunk(r[1])}
    BY <1>4, <2>3, <2>5 DEF ItemUnits, Pushing, Chunk
  <2>8. Chunk(q[2]) \subseteq Int
    BY <2>3, NthFacts
  <2>9. \A m \in Lists : ItemUnits(t, m)' = IF m = q[2].list THEN Chunk(q[2]) ELSE {}
    BY <2>3, <2>7, <2>8
  <2>10. q[2].list # p.list
    BY <1>1, <1>2, <2>1
  <2> QED
    BY <1>1, <2>1, <2>6, <2>9, <2>10
<1> QED
  BY <1>3, <1>4

\* A chunk is on its list, and the thread has another one to push, or has freed a state.
LEMMA PushKeepStep ==
    ASSUME NEW own, NEW n, NEW at, NEW fresh, Memory(own, n, at, fresh), SleepInv, NEW t \in Threads,
           PushCas(t), head[Head(loc[t].push).list] = loc[t].cur,
           Len(loc[t].push) > 1 \/ loc[t].want = NULL
    PROVE  MemInv'
<1>a. PICK p, cur : p = Head(loc[t].push) /\ cur = loc[t].cur
  OBVIOUS
<1>b. PICK last : last = Nth(p, p.n - 1)
  OBVIOUS
<1>0. /\ Owned(own, n, at, fresh) /\ Apart(own) /\ Cover(own) /\ Stacks(n, at)
      /\ HeldOnce /\ IsFiniteSet(DOMAIN next) /\ PoolTyped /\ Pusher(t)
  BY DEF Memory, SleepInv
<1>1. /\ pc[t] = "push_cas" /\ UNCHANGED <<held, block, state>> /\ head[p.list] = cur
      /\ head' = [head EXCEPT ![p.list] = [offset |-> p.off, count |-> Bump(cur.count)]]
      /\ next' = [o \in DOMAIN next \cup {last} |-> IF o = last THEN cur.offset ELSE next[o]]
      /\ \/ /\ Len(loc[t].push) > 1 /\ loc' = [loc EXCEPT ![t].push = Tail(loc[t].push)]
            /\ pc' = [pc EXCEPT ![t] = "push"]
         \/ /\ Len(loc[t].push) = 1 /\ loc[t].want = NULL /\ loc' = [loc EXCEPT ![t] = NoLocals]
            /\ pc' = [pc EXCEPT ![t] = "idle"]
  <2>1. Len(loc[t].push) = 1 => ~(Len(loc[t].push) > 1)
    OBVIOUS
  <2> QED
    BY <1>a, <1>b, <2>1, Zenon DEF PushCas, pool, Goto
<1>2. /\ \A u \in Threads : u # t => loc'[u] = loc[u]
      /\ \/ Len(loc[t].push) > 1 /\ loc'[t].push = Tail(loc[t].push)
               /\ loc'[t].want = loc[t].want /\ loc'[t].off = loc[t].off /\ pc' = [pc EXCEPT ![t] = "push"]
         \/ Len(loc[t].push) = 1 /\ loc'[t] = NoLocals /\ loc[t].want = NULL /\ pc' = [pc EXCEPT ![t] = "idle"]
  <2>1. DOMAIN loc = Threads /\ DOMAIN loc[t] = {"want", "list", "cur", "link", "off", "side", "old", "end", "push"}
    BY <1>0, LocFacts
  <2>2. CASE /\ Len(loc[t].push) > 1 /\ loc' = [loc EXCEPT ![t].push = Tail(loc[t].push)]
             /\ pc' = [pc EXCEPT ![t] = "push"]
    BY <2>1, <2>2, ZenonT(30)
  <2>3. CASE /\ Len(loc[t].push) = 1 /\ loc[t].want = NULL /\ loc' = [loc EXCEPT ![t] = NoLocals]
             /\ pc' = [pc EXCEPT ![t] = "idle"]
    BY <2>1, <2>3, ZenonT(30)
  <2> QED
    BY <1>1, <2>2, <2>3, ZenonT(30)
<1>3. /\ Others(t) /\ pc'[t] \in {"push", "idle"}
      /\ \/ Len(loc[t].push) > 1 /\ pc'[t] = "push" /\ loc'[t].push = Tail(loc[t].push)
               /\ loc'[t].want = loc[t].want /\ loc'[t].off = loc[t].off
         \/ Len(loc[t].push) = 1 /\ pc'[t] = "idle" /\ loc'[t] = NoLocals /\ loc[t].want = NULL
  BY <1>0, <1>2, OthersOwn
<1>4. /\ Pusher(t)' /\ ItemUnits(t, p.list)' = {}
      /\ \A m \in Lists \ {p.list} : ItemUnits(t, m)' = own[ItemOf(t, m)]
  <2>1. \/ Len(loc[t].push) > 1 /\ pc'[t] = "push" /\ loc'[t].push = Tail(loc[t].push)
              /\ loc'[t].want = loc[t].want /\ loc'[t].off = loc[t].off
        \/ Len(loc[t].push) = 1 /\ pc'[t] = "idle" /\ loc'[t] = NoLocals
    BY <1>3
  <2>2. pc[t] = "push_cas"
    BY <1>1
  <2> QED
    BY <1>a, <2>1, <2>2, ItemsLeft
<1>5. KeptUnits(t)' = KeptUnits(t)
  BY <1>1, <1>3 DEF KeptUnits, Pushing
<1>6. p \in Items /\ p.list \in Lists /\ own[ItemOf(t, p.list)] = Chunk(p)
  BY <1>a, <1>1, PusherOwns DEF Pushing
<1>7. PICK V : V = {}
  OBVIOUS
<1>8. /\ WritesOnly(V \cup {last}) /\ last \in DOMAIN next' /\ next'[last] = cur.offset
      /\ V \cap Chunk(p) = {} /\ (\A m \in Lists, i \in Ranks : V \cap own[PlaceOn(m, i)] = {})
      /\ \A u \in Threads, m \in Lists : u # t => V \cap own[ItemOf(u, m)] = {}
  BY <1>1, <1>7 DEF WritesOnly
<1>9. IsFiniteSet(DOMAIN next')
  <2>1. DOMAIN next' = DOMAIN next \cup {last}
    BY <1>1
  <2> QED
    BY <1>0, <2>1, FS_AddElement
<1>10. PICK n2, at2 : Grows(n, at, p, n2, at2)
  BY DEF Grows
<1>11. PICK own2 : PushOwners(own, own2, n2, at2, t, p.list)
  BY <1>0, <1>6, <1>10, PushedOwners
<1>12. /\ own2 \in [Owners -> SUBSET Int] /\ Apart(own2) /\ Cover(own2)
       /\ own2[ItemOf(t, p.list)] = {}
       /\ \A m \in Lists, i \in Ranks : own2[PlaceOn(m, i)] = PlaceUnits(n2, at2, m, i)
  BY <1>11 DEF PushOwners
<1>13. /\ \A s \in Sides : own2[PoolOf(s)] = own[PoolOf(s)]
       /\ \A b \in Buckets : own2[RestOf(b)] = own[RestOf(b)]
       /\ \A h \in States : own2[HeldAs(h)] = own[HeldAs(h)]
       /\ \A u \in Threads : own2[KeptBy(u)] = own[KeptBy(u)]
       /\ \A u \in Threads, m \in Lists : u # t \/ m # p.list => own2[ItemOf(u, m)] = own[ItemOf(u, m)]
  <2>1. p.list \in Lists
    BY <1>6
  <2>2. PushKept(own, own2, t, p.list)
    BY <1>11, <2>1, PushOwnersKept
  <2> QED
    BY <2>2 DEF PushKept
<1>14. \A u \in Threads : u # t => /\ own2[KeptBy(u)] = own[KeptBy(u)]
                                   /\ \A m \in Lists : own2[ItemOf(u, m)] = own[ItemOf(u, m)]
  BY <1>13
<1>15. \A h \in States : own2[HeldAs(h)] = HeldUnits(h)'
  BY <1>0, <1>1, <1>13 DEF Owned, HeldUnits
<1>16. own2[KeptBy(t)] = KeptUnits(t)'
  BY <1>0, <1>5, <1>13 DEF Owned
<1>17. \A m \in Lists : own2[ItemOf(t, m)] = ItemUnits(t, m)'
  BY <1>4, <1>12, <1>13
<1>18. HeldOnce'
  BY <1>0, <1>1 DEF HeldOnce
<1>19. /\ \A s \in Sides : own2[PoolOf(s)] = own[PoolOf(s)]
       /\ \A b \in Buckets : own2[RestOf(b)] = own[RestOf(b)]
  BY <1>13
<1>20. Pushed(own, n, at, t, p, n2, at2, last, V)
  BY <1>a, <1>b, <1>1, <1>8, <1>10 DEF Pushed
<1>21. Passed(own, own2, n2, at2, t)
  BY <1>12, <1>14, <1>15, <1>16, <1>17, <1>19 DEF Passed
<1>22. Others(t) /\ pc'[t] \in {"push", "idle"} /\ Pusher(t)' /\ UNCHANGED <<block, state>>
  BY <1>1, <1>3, <1>4
<1> QED
  BY <1>9, <1>18, <1>20, <1>21, <1>22, PushMove

\* The rest of a split chunk is on its list, and its first state goes to the application.
LEMMA PushSplitStep ==
    ASSUME NEW own, NEW n, NEW at, NEW fresh, Memory(own, n, at, fresh), SleepInv, NEW t \in Threads,
           PushCas(t), head[Head(loc[t].push).list] = loc[t].cur,
           ~(Len(loc[t].push) > 1), loc[t].want # NULL
    PROVE  MemInv'
<1>a. PICK p, cur : p = Head(loc[t].push) /\ cur = loc[t].cur
  OBVIOUS
<1>b. PICK last, h, V : /\ last = Nth(p, p.n - 1) /\ h = <<loc[t].off, Size(loc[t].want)>>
                        /\ V = Extent(loc[t].off, Size(loc[t].want))
  OBVIOUS
<1>c. PICK linked : linked = [o \in DOMAIN next \cup {last} |-> IF o = last THEN cur.offset ELSE next[o]]
  OBVIOUS
<1>0. /\ Owned(own, n, at, fresh) /\ Apart(own) /\ Cover(own) /\ Stacks(n, at)
      /\ HeldOnce /\ IsFiniteSet(DOMAIN next) /\ PoolTyped /\ Pusher(t)
  BY DEF Memory, SleepInv
<1>1. pc[t] = "push_cas" /\ Len(loc[t].push) = 1
  <2>1. Len(loc[t].push) \in {1, 2} /\ pc[t] = "push_cas"
    BY <1>0 DEF Pusher, PushCas, Pushing
  <2>2. Len(loc[t].push) = 2 => Len(loc[t].push) > 1
    OBVIOUS
  <2> QED
    BY <2>1, <2>2
<1>2. /\ UNCHANGED <<block, state>> /\ head[p.list] = cur
      /\ head' = [head EXCEPT ![p.list] = [offset |-> p.off, count |-> Bump(cur.count)]]
      /\ next' = Used(linked, loc[t].off, Size(loc[t].want)) /\ Gains(h)
      /\ loc' = [loc EXCEPT ![t] = NoLocals] /\ pc' = [pc EXCEPT ![t] = "idle"]
  BY <1>a, <1>b, <1>c, <1>1, Zenon DEF PushCas, pool, Goto, Gains
<1>3. \A u \in Threads : u # t => loc'[u] = loc[u]
  BY <1>0, <1>2, LocFacts
<1>4. loc'[t] = NoLocals
  BY <1>0, <1>2, LocFacts
<1>5. Others(t) /\ pc'[t] = "idle"
  BY <1>0, <1>2, <1>3, OthersOwn
<1>6. /\ Pusher(t)' /\ ItemUnits(t, p.list)' = {}
      /\ \A m \in Lists \ {p.list} : ItemUnits(t, m)' = own[ItemOf(t, m)]
  BY <1>a, <1>1, <1>4, <1>5, ItemsLeft
<1>7. p \in Items /\ p.list \in Lists /\ own[ItemOf(t, p.list)] = Chunk(p) /\ ItemOf(t, p.list) \in Owners
  BY <1>a, <1>1, PusherOwns DEF Pushing
<1>8. loc[t].want \in Buckets /\ loc[t].off \in Nat
  BY <1>0, <1>1 DEF Pusher, Pushing
<1>9. h \in States /\ h[2] > 0 /\ Proper(h) /\ V = Extent(h[1], h[2])
  <2>1. Size(loc[t].want) \in Nat /\ Size(loc[t].want) > 0
    BY <1>8, SizeFacts
  <2>2. h[1] = loc[t].off /\ h[2] = Size(loc[t].want) /\ ~(h[1] < 0)
    BY <1>b, <1>8
  <2> QED
    BY <1>b, <1>8, <2>1, <2>2 DEF States, Proper
<1>10. own[KeptBy(t)] = V /\ KeptBy(t) \in Owners /\ KeptBy(t) # HeldAs(h)
  <2>1. KeptUnits(t) = V
    BY <1>b, <1>1 DEF KeptUnits, Pushing
  <2> QED
    BY <1>0, <2>1, OwnerSet, OwnerNames DEF Owned
<1>11. /\ HeldOnce' /\ HeldUnits(h)' = V /\ HeldUnits(h) = {}
       /\ \A g \in States : g # h => HeldUnits(g)' = HeldUnits(g)
  BY <1>0, <1>2, <1>9, <1>10, HeldMore
<1>12. V \cap Chunk(p) = {} /\ last \in Chunk(p)
  <2>1. V \cap Chunk(p) = {}
    BY <1>0, <1>7, <1>10, OwnerNames DEF Apart
  <2>2. p.n - 1 \in 0 .. p.n - 1
    BY <1>7 DEF Items
  <2> QED
    BY <1>b, <1>7, <2>1, <2>2, NthInside
<1>13. /\ \A m \in Lists, i \in Ranks : V \cap own[PlaceOn(m, i)] = {}
       /\ \A u \in Threads, m \in Lists : u # t => V \cap own[ItemOf(u, m)] = {}
  BY <1>0, <1>10, OwnerSet, OwnerNames DEF Apart
<1>14. WritesOnly(V \cup {last}) /\ last \in DOMAIN next' /\ next'[last] = cur.offset
  <2>1. next' = [o \in DOMAIN linked \ V |-> linked[o]]
    BY <1>b, <1>2 DEF Used
  <2>2. last \notin V
    BY <1>12
  <2> QED
    BY <1>c, <2>1, <2>2 DEF WritesOnly
<1>15. IsFiniteSet(DOMAIN next')
  <2>1. DOMAIN next' \subseteq DOMAIN next \cup {last}
    BY <1>c, <1>2 DEF Used
  <2>2. IsFiniteSet(DOMAIN next \cup {last})
    BY <1>0, FS_AddElement
  <2> QED
    BY <2>1, <2>2, FS_Subset
<1>16. PICK n2, at2 : Grows(n, at, p, n2, at2)
  BY DEF Grows
<1>17. PICK own2 : PushOwners(own, own2, n2, at2, t, p.list)
  BY <1>0, <1>7, <1>16, PushedOwners
<1>18. /\ own2 \in [Owners -> SUBSET Int] /\ Apart(own2) /\ Cover(own2)
       /\ own2[ItemOf(t, p.list)] = {}
       /\ \A m \in Lists, i \in Ranks : own2[PlaceOn(m, i)] = PlaceUnits(n2, at2, m, i)
  BY <1>17 DEF PushOwners
<1>19. /\ \A s \in Sides : own2[PoolOf(s)] = own[PoolOf(s)]
       /\ \A b \in Buckets : own2[RestOf(b)] = own[RestOf(b)]
       /\ \A g \in States : own2[HeldAs(g)] = own[HeldAs(g)]
       /\ \A u \in Threads : own2[KeptBy(u)] = own[KeptBy(u)]
       /\ \A u \in Threads, m \in Lists : u # t \/ m # p.list => own2[ItemOf(u, m)] = own[ItemOf(u, m)]
  <2>1. p.list \in Lists
    BY <1>7
  <2>2. PushKept(own, own2, t, p.list)
    BY <1>17, <2>1, PushOwnersKept
  <2> QED
    BY <2>2 DEF PushKept
<1>20. PICK x, y : x = KeptBy(t) /\ y = HeldAs(h)
  OBVIOUS
<1>21. x \in Owners /\ y \in Owners /\ x # y /\ own2[x] = V /\ own2[y] = {} /\ V \in SUBSET Int
  <2>1. y \in Owners /\ own[y] = {}
    BY <1>0, <1>9, <1>11, <1>20, OwnerSet DEF Owned
  <2>2. own2[x] = V /\ own2[y] = {}
    BY <1>9, <1>10, <1>19, <1>20, <2>1
  <2> QED
    BY <1>10, <1>18, <1>20, <2>1, <2>2
<1>22. PICK own3 : own3 = [z \in Owners |-> IF z = x THEN {} ELSE IF z = y THEN V ELSE own2[z]]
  OBVIOUS
<1>23. /\ own3 \in [Owners -> SUBSET Int] /\ own3[x] = {} /\ own3[y] = V
       /\ \A z \in Owners \ {x, y} : own3[z] = own2[z]
  <2>1. own3 \in [Owners -> SUBSET Int]
    BY <1>18, <1>21, <1>22
  <2> QED
    BY <1>21, <1>22, <2>1
<1>24. Apart(own3) /\ Cover(own3)
  <2>1. own3[x] \cap own3[y] = {} /\ own3[x] \cup own3[y] = own2[x] \cup own2[y]
    BY <1>21, <1>23
  <2>2. own2 \in [Owners -> SUBSET Int] /\ Apart(own2) /\ Cover(own2)
    BY <1>18
  <2>3. x \in Owners /\ y \in Owners /\ x # y
    BY <1>21
  <2> QED
    BY <1>23, <2>1, <2>2, <2>3, Handover
<1>25. \A s \in Sides : own3[PoolOf(s)] = own[PoolOf(s)]
  <2>1. \A s \in Sides : PoolOf(s) \in Owners \ {x, y}
    BY <1>20, OwnerSet, OwnerNames
  <2> QED
    BY <1>19, <1>23, <2>1
<1>26. \A b \in Buckets : own3[RestOf(b)] = own[RestOf(b)]
  <2>1. \A b \in Buckets : RestOf(b) \in Owners \ {x, y}
    BY <1>20, OwnerSet, OwnerNames
  <2> QED
    BY <1>19, <1>23, <2>1
<1>27. \A m \in Lists, i \in Ranks : own3[PlaceOn(m, i)] = PlaceUnits(n2, at2, m, i)
  <2>1. \A m \in Lists, i \in Ranks : PlaceOn(m, i) \in Owners \ {x, y}
    BY <1>20, OwnerSet, OwnerNames
  <2> QED
    BY <1>18, <1>23, <2>1
<1>28. \A u \in Threads, m \in Lists : own3[ItemOf(u, m)] = own2[ItemOf(u, m)]
  <2>1. \A u \in Threads, m \in Lists : ItemOf(u, m) \in Owners \ {x, y}
    BY <1>20, OwnerSet, OwnerNames
  <2> QED
    BY <1>23, <2>1
<1>29. \A u \in Threads : u # t => own3[KeptBy(u)] = own[KeptBy(u)]
  <2>1. \A u \in Threads : u # t => KeptBy(u) \in Owners \ {x, y}
    BY <1>20, OwnerSet, OwnerNames
  <2> QED
    BY <1>19, <1>23, <2>1
<1>30. \A u \in Threads : u # t => /\ own3[KeptBy(u)] = own[KeptBy(u)]
                                   /\ \A m \in Lists : own3[ItemOf(u, m)] = own[ItemOf(u, m)]
  BY <1>19, <1>28, <1>29
<1>31. \A g \in States : own3[HeldAs(g)] = HeldUnits(g)'
  <2>1. \A g \in States : g # h => HeldAs(g) \in Owners \ {x, y}
    BY <1>20, OwnerSet, OwnerNames
  <2>2. \A g \in States : g # h => own3[HeldAs(g)] = own[HeldAs(g)]
    BY <1>19, <1>23, <2>1
  <2>3. \A g \in States : own[HeldAs(g)] = HeldUnits(g)
    BY <1>0 DEF Owned
  <2> QED
    BY <1>11, <1>20, <1>23, <2>2, <2>3
<1>32. own3[KeptBy(t)] = KeptUnits(t)'
  BY <1>5, <1>20, <1>23, NoUnits DEF Having, Pushing
<1>33. \A m \in Lists : own3[ItemOf(t, m)] = ItemUnits(t, m)'
  BY <1>6, <1>18, <1>19, <1>28
<1>34. Pushed(own, n, at, t, p, n2, at2, last, V)
  BY <1>a, <1>b, <1>1, <1>2, <1>12, <1>13, <1>14, <1>16 DEF Pushed
<1>35. Passed(own, own3, n2, at2, t)
  BY <1>23, <1>24, <1>25, <1>26, <1>27, <1>30, <1>31, <1>32, <1>33 DEF Passed
<1>36. Others(t) /\ pc'[t] \in {"push", "idle"} /\ Pusher(t)' /\ HeldOnce' /\ UNCHANGED <<block, state>>
  BY <1>2, <1>5, <1>6, <1>11
<1> QED
  BY <1>15, <1>34, <1>35, <1>36, PushMove
-----------------------------------------------------------------------------
(***************************************************************************)
(* The invariant is inductive.                                             *)
(***************************************************************************)
\* At the beginning the pool has all memory.
LEMMA InitMemInv == Init => MemInv
<1> SUFFICES ASSUME Init PROVE MemInv
  OBVIOUS
<1> USE AnvAssumption
<1>1. PICK own : own = [z \in Owners |-> IF z = PoolOf(Front) THEN {u \in Int : u >= 0}
                                         ELSE IF z = PoolOf(Back) THEN {u \in Int : u < 0} ELSE {}]
  OBVIOUS
<1>2. PICK n, at, fresh : /\ n = [l \in Lists |-> 0] /\ at = [l \in Lists |-> [i \in Nat |-> 0]]
                          /\ fresh = [s \in Sides |-> 0]
  OBVIOUS
<1>3. PoolOf(Front) \in Owners /\ PoolOf(Back) \in Owners /\ PoolOf(Front) # PoolOf(Back)
  BY OwnerSet, OwnerNames DEF Sides
<1>4. /\ own \in [Owners -> SUBSET Int]
      /\ own[PoolOf(Front)] = {u \in Int : u >= 0} /\ own[PoolOf(Back)] = {u \in Int : u < 0}
      /\ \A z \in Owners : z # PoolOf(Front) /\ z # PoolOf(Back) => own[z] = {}
  BY <1>1, <1>3
<1>5. \A t \in Threads : pc[t] = "idle" /\ loc[t] = NoLocals /\ pc[t] \notin Having /\ pc[t] \notin Growing
  BY DEF Init, Having, Pushing, Growing
<1>6. DOMAIN held = {}
  BY DEF Init, EmptyBag, SetToBag
<1>7. Owned(own, n, at, fresh)
  <2>1. \A s \in Sides : own[PoolOf(s)] = Beyond(s, fresh[s])
    <3>1. fresh[Front] = 0 /\ fresh[Back] = 0
      BY <1>2 DEF Sides
    <3>3. PICK m \in Int : m = 0
      OBVIOUS
    <3>4. {u \in Int : u < -m} = {u \in Int : u < 0}
      BY <3>3
    <3>2. Beyond(Front, m) = {u \in Int : u >= 0} /\ Beyond(Back, m) = {u \in Int : u < 0}
      BY <3>3, <3>4 DEF Beyond
    <3> QED
      BY <1>4, <3>1, <3>2, <3>3 DEF Sides
  <2>2. \A h \in States : own[HeldAs(h)] = HeldUnits(h)
    <3>1. \A h \in States : own[HeldAs(h)] = {}
      BY <1>4, OwnerSet, OwnerNames
    <3> QED
      BY <1>6, <3>1 DEF HeldUnits
  <2>3. \A l \in Lists, i \in Ranks : own[PlaceOn(l, i)] = PlaceUnits(n, at, l, i)
    <3>1. \A l \in Lists, i \in Ranks : own[PlaceOn(l, i)] = {}
      BY <1>4, OwnerSet, OwnerNames
    <3>2. \A l \in Lists, i \in Ranks : ~(i <= n[l])
      BY <1>2 DEF Ranks
    <3> QED
      BY <3>1, <3>2 DEF PlaceUnits
  <2>4. \A b \in Buckets : own[RestOf(b)] = RestUnits(b)
    <3>1. \A b \in Buckets : own[RestOf(b)] = {}
      BY <1>4, OwnerSet, OwnerNames
    <3>2. \A b \in Buckets : block[b].next = 0 /\ block[b].end = 0
      BY DEF Init
    <3>3. 0 .. 0 - 1 = {}
      OBVIOUS
    <3>4. \A b \in Buckets : RestUnits(b) = 0 .. 0 - 1
      BY <3>2 DEF RestUnits
    <3> QED
      BY <3>1, <3>3, <3>4
  <2>5. \A t \in Threads : own[KeptBy(t)] = KeptUnits(t) /\ \A l \in Lists : own[ItemOf(t, l)] = ItemUnits(t, l)
    <3>1. \A t \in Threads : own[KeptBy(t)] = {} /\ \A l \in Lists : own[ItemOf(t, l)] = {}
      BY <1>4, OwnerSet, OwnerNames
    <3>2. \A t \in Threads : KeptUnits(t) = {} /\ \A l \in Lists : ItemUnits(t, l) = {}
      BY <1>5, NoUnits
    <3> QED
      BY <3>1, <3>2
  <2> QED
    BY <1>4, <2>1, <2>2, <2>3, <2>4, <2>5 DEF Owned
<1>8. Apart(own)
  <2>1. own[PoolOf(Front)] \cap own[PoolOf(Back)] = {}
    BY <1>4
  <2> QED
    BY <1>4, <2>1 DEF Apart
<1>9. Cover(own)
  BY <1>3, <1>4 DEF Cover
<1>10. Stacks(n, at)
  <2>1. n \in [Lists -> Nat] /\ at \in [Lists -> [Nat -> Int]] /\ \A l \in Lists : n[l] = 0 /\ 1 .. n[l] = {}
    BY <1>2
  <2>2. DOMAIN head = Lists /\ \A l \in Lists : head[l] = [offset |-> EMPTY, count |-> 0]
    BY DEF Init
  <2>3. \A l \in Lists : head[l] \in Heads /\ head[l].offset = EMPTY
    BY <2>2 DEF Heads
  <2> QED
    BY <2>1, <2>2, <2>3 DEF Stacks
<1>11. Fresh(fresh)
  <2>1. \A s \in Sides : state[s].next = 0 /\ fresh[s] = 0
    BY <1>2 DEF Init
  <2>2. fresh \in [Sides -> Nat]
    BY <1>2
  <2> QED
    BY <1>5, <2>1, <2>2 DEF Fresh
<1>12. HeldOnce
  BY <1>6 DEF HeldOnce
<1>13. \A t \in Threads : Popper(t) /\ Pusher(t)
  BY <1>5 DEF Popper, Pusher, Having
<1>14. IsFiniteSet(DOMAIN next)
  <2>1. DOMAIN next = {}
    BY DEF Init
  <2> QED
    BY <2>1, FS_EmptySet
<1> QED
  BY <1>7, <1>8, <1>9, <1>10, <1>11, <1>12, <1>13, <1>14 DEF Memory, MemInv

\* The places where thread t takes memory from a list, or puts it there.
LEMMA ListMemory ==
    ASSUME MemInv, SleepInv, NEW t \in Threads,
           \/ Pop(t) \/ PopCas(t) \/ Push(t) \/ PushCas(t)
           \/ (\E b \in Requests : Alloc(t, b)) \/ (\E h \in BagToSet(held) : Free(t, h))
    PROVE  MemInv'
<1>1. PICK own, n, at, fresh : Memory(own, n, at, fresh)
  BY DEF MemInv
<1>2. CASE Pop(t) \/ \E b \in Requests : Alloc(t, b)
  BY <1>1, <1>2, SearchSteps
<1>3. CASE PopCas(t)
  <2>1. CASE head[loc[t].list] # loc[t].cur
    BY <1>1, <1>3, <2>1, SearchSteps
  <2>2. CASE head[loc[t].list] = loc[t].cur /\ loc[t].list = loc[t].want
    BY <1>1, <1>3, <2>2, PopReturnStep
  <2>3. CASE head[loc[t].list] = loc[t].cur /\ loc[t].list # loc[t].want
    BY <1>1, <1>3, <2>3, PopSplitStep
  <2> QED
    BY <2>1, <2>2, <2>3
<1>4. CASE Push(t)
  BY <1>1, <1>4, LinkSteps
<1>5. CASE PushCas(t)
  <2>1. CASE head[Head(loc[t].push).list] # loc[t].cur
    BY <1>1, <1>5, <2>1, LinkSteps
  <2>2. CASE head[Head(loc[t].push).list] = loc[t].cur /\ (Len(loc[t].push) > 1 \/ loc[t].want = NULL)
    BY <1>1, <1>5, <2>2, PushKeepStep
  <2>3. CASE head[Head(loc[t].push).list] = loc[t].cur /\ ~(Len(loc[t].push) > 1 \/ loc[t].want = NULL)
    BY <1>1, <1>5, <2>3, PushSplitStep
  <2> QED
    BY <2>1, <2>2, <2>3
<1>6. CASE \E h \in BagToSet(held) : Free(t, h)
  BY <1>1, <1>6, FreeStep
<1> QED
  BY <1>2, <1>3, <1>4, <1>5, <1>6

\* The places where it takes memory from a block or from the pool.
LEMMA PoolMemory ==
    ASSUME MemInv, SleepInv, NEW t \in Threads,
           \/ BucketAlloc(t) \/ BucketWait(t) \/ BucketExchange(t) \/ BucketWake(t)
           \/ PoolAlloc(t) \/ PoolWait(t) \/ Grow(t) \/ Expand(t) \/ ReadFirst(t) \/ ReadEnd(t)
           \/ PoolExchange(t) \/ PoolWake(t) \/ PoolGot(t) \/ Interrupt(t)
    PROVE  MemInv'
<1>1. PICK own, n, at, fresh : Memory(own, n, at, fresh)
  BY DEF MemInv
<1>2. CASE BucketWait(t) \/ PoolWait(t) \/ Grow(t) \/ Expand(t) \/ ReadFirst(t) \/ ReadEnd(t)
  BY <1>1, <1>2, WaitSteps
<1>3. CASE BucketAlloc(t)
  <2>1. pc[t] = "bucket" /\ PoolTyped /\ LocAt(t)
    BY <1>3 DEF BucketAlloc, SleepInv
  <2>2. PICK b : b = loc[t].want
    OBVIOUS
  <2>3. b \in Buckets /\ block[b].next \in Nat /\ block[b].end \in Nat
    BY <2>1, <2>2 DEF LocAt, PoolTyped, Words
  <2>4. Size(b) \in Nat /\ BlockSize \in Nat
    BY <2>3, SizeFacts
  <2>5. /\ Size(loc[t].want) >= BlockSize \/ Size(loc[t].want) < BlockSize
        /\ block[loc[t].want].next >= block[loc[t].want].end \/ block[loc[t].want].next < block[loc[t].want].end
    BY <2>2, <2>3, <2>4
  <2> QED
    BY <1>1, <1>3, <2>5, WaitSteps, BucketEndStep, BucketStateStep
<1>4. CASE PoolAlloc(t)
  <2>1. pc[t] = "pool" /\ PoolTyped /\ LocAt(t)
    BY <1>4 DEF PoolAlloc, SleepInv
  <2>2. PICK s, w : s = loc[t].side /\ w = Want(t)
    OBVIOUS
  <2>3. s \in Sides /\ loc[t].want \in Lists /\ state[s].next \in Nat /\ state[s].end \in Nat
    BY <2>1, <2>2 DEF LocAt, Fetching, Sides, Lists, PoolTyped, Words
  <2>4. w \in Nat
    <3>1. BlockSize \in Nat /\ Size(loc[t].want) \in Nat
      BY <2>3, SizesDivide, SizeFacts
    <3> QED
      BY <2>2, <3>1 DEF Want
  <2>5. \/ state[loc[t].side].next + Want(t) > state[loc[t].side].end
        \/ state[loc[t].side].next + Want(t) <= state[loc[t].side].end
    BY <2>2, <2>3, <2>4
  <2> QED
    BY <1>1, <1>4, <2>5, PoolEndStep, PoolBlockStep
<1>5. CASE BucketExchange(t)
  BY <1>1, <1>5, BucketExchangeUnits
<1>6. CASE PoolExchange(t)
  BY <1>1, <1>6, PoolExchangeUnits
<1>7. CASE PoolGot(t)
  BY <1>1, <1>7, PoolGotUnits
<1>8. CASE BucketWake(t)
  BY <1>1, <1>8, BucketWakeUnits
<1>9. CASE PoolWake(t) \/ Interrupt(t)
  BY <1>1, <1>9, WakeUnits
<1> QED
  BY <1>2, <1>3, <1>4, <1>5, <1>6, <1>7, <1>8, <1>9

\* Every step keeps every unit of memory with one owner.
LEMMA NextMemInv == MemInv /\ SleepInv /\ [Next]_vars => MemInv'
<1> SUFFICES ASSUME MemInv, SleepInv, [Next]_vars PROVE MemInv'
  OBVIOUS
<1>1. ASSUME NEW t \in Threads, Step(t) PROVE MemInv'
  BY <1>1, ListMemory, PoolMemory DEF Step
<1>2. ASSUME NEW t \in Threads, (\E b \in Requests : Alloc(t, b)) \/ (\E h \in BagToSet(held) : Free(t, h))
      PROVE  MemInv'
  BY <1>2, ListMemory
<1>3. CASE UNCHANGED vars
  <2>1. PICK own, n, at, fresh : Memory(own, n, at, fresh)
    BY DEF MemInv
  <2>2. UNCHANGED <<head, next, block, state, pc, loc, held>>
    BY <1>3 DEF vars, pool
  <2>3. Owned(own, n, at, fresh)'
    <3>1. Owned(own, n, at, fresh)
      BY <2>1 DEF Memory
    <3>2. \A h : HeldUnits(h)' = HeldUnits(h)
      BY <2>2 DEF HeldUnits
    <3>3. \A b : RestUnits(b)' = RestUnits(b)
      BY <2>2 DEF RestUnits
    <3>4. \A t : KeptUnits(t)' = KeptUnits(t)
      BY <2>2 DEF KeptUnits, Want
    <3>5. \A t, l : ItemUnits(t, l)' = ItemUnits(t, l)
      BY <2>2 DEF ItemUnits
    <3>6. /\ \A s \in Sides : Beyond(s, fresh[s])' = Beyond(s, fresh[s])
          /\ \A l \in Lists, i \in Ranks : PlaceUnits(n, at, l, i)' = PlaceUnits(n, at, l, i)
      BY DEF Beyond, PlaceUnits
    <3> QED
      BY <3>1, <3>2, <3>3, <3>4, <3>5, <3>6 DEF Owned
  <2>4. Stacks(n, at)' /\ Fresh(fresh)' /\ HeldOnce' /\ Apart(own)' /\ Cover(own)'
    BY <2>1, <2>2 DEF Memory, Stacks, OnSide, Fresh, HeldOnce, Apart, Cover
  <2>5. \A t \in Threads : Popper(t)' /\ Pusher(t)'
    <3>1. \A t \in Threads : Popper(t) /\ Pusher(t)
      BY <2>1 DEF Memory
    <3> QED
      BY <2>2, <3>1 DEF Popper, Pusher, OnSide, Nth, Read
  <2>6. IsFiniteSet(DOMAIN next)'
    BY <2>1, <2>2 DEF Memory
  <2>7. Memory(own, n, at, fresh)'
    BY <2>3, <2>4, <2>5, <2>6 DEF Memory
  <2> QED
    BY <2>7 DEF MemInv
<1> QED
  BY <1>1, <1>2, <1>3 DEF Next
-----------------------------------------------------------------------------
(***************************************************************************)
(* What the links of a free list lead to.                                  *)
(***************************************************************************)
\* Links are only written at offsets.
LinksTyped == DOMAIN next \subseteq Int

\* The chunks that are linked lie at offsets.
LEMMA LinksStep == LinksTyped /\ MemInv /\ [Next]_vars => LinksTyped'
<1> SUFFICES ASSUME LinksTyped, MemInv, [Next]_vars PROVE LinksTyped'
  OBVIOUS
<1>1. PICK own, n, at, fresh : Memory(own, n, at, fresh)
  BY DEF MemInv
<1>2. \A off, m : next' = Used(next, off, m) => LinksTyped'
  BY DEF Used, LinksTyped
<1>3. next' = next => LinksTyped'
  BY DEF LinksTyped
<1>5. ASSUME NEW t \in Threads, Push(t) PROVE LinksTyped'
  <2>1. PICK p : p = Head(loc[t].push)
    OBVIOUS
  <2>2. pc[t] \in Pushing /\ DOMAIN next' = DOMAIN next \cup {Nth(p, i) : i \in 0 .. p.n - 2}
    BY <1>5, <2>1 DEF Push, Pushing
  <2>3. p \in Items
    BY <1>1, <2>1, <2>2, PusherOwns
  <2>4. \A i \in 0 .. p.n - 2 : i \in Int
    OBVIOUS
  <2>5. \A i \in 0 .. p.n - 2 : Nth(p, i) \in Int
    BY <2>3, <2>4, NthFacts
  <2> QED
    BY <2>2, <2>5 DEF LinksTyped
<1>6. ASSUME NEW t \in Threads, PushCas(t) PROVE LinksTyped'
  <2>1. PICK p, last : p = Head(loc[t].push) /\ last = Nth(p, p.n - 1)
    OBVIOUS
  <2>2. pc[t] \in Pushing
    BY <1>6 DEF PushCas, Pushing
  <2>3. DOMAIN next' \subseteq DOMAIN next \cup {last}
    <3>1. PICK linked : linked = [o \in DOMAIN next \cup {last} |-> IF o = last THEN loc[t].cur.offset ELSE next[o]]
      OBVIOUS
    <3>2. next' = linked \/ next' = Used(linked, loc[t].off, Size(loc[t].want))
      BY <1>6, <2>1, <3>1, Zenon DEF PushCas
    <3> QED
      BY <3>1, <3>2 DEF Used
  <2>4. p \in Items
    BY <1>1, <2>1, <2>2, PusherOwns
  <2>5. p.n - 1 \in Int
    BY <2>4 DEF Items
  <2>6. last \in Int
    BY <2>1, <2>4, <2>5, NthFacts
  <2> QED
    BY <2>3, <2>6 DEF LinksTyped
<1>7. ASSUME NEW t \in Threads, PopCas(t) PROVE LinksTyped'
  BY <1>2, <1>3, <1>7, Zenon DEF PopCas, Return
<1>8. ASSUME NEW t \in Threads, BucketAlloc(t) PROVE LinksTyped'
  BY <1>2, <1>3, <1>8, Zenon DEF BucketAlloc, Return
<1>9. ASSUME NEW t \in Threads, PoolAlloc(t) \/ PoolGot(t) PROVE LinksTyped'
  BY <1>2, <1>3, <1>9, Zenon DEF PoolAlloc, PoolGot, GotBlock, Return
<1>10. ASSUME NEW t \in Threads,
              \/ Pop(t) \/ BucketWait(t) \/ BucketExchange(t) \/ PoolWait(t) \/ Grow(t) \/ Expand(t)
              \/ ReadFirst(t) \/ ReadEnd(t) \/ PoolExchange(t) \/ BucketWake(t) \/ PoolWake(t) \/ Interrupt(t)
              \/ (\E b \in Requests : Alloc(t, b)) \/ (\E h \in BagToSet(held) : Free(t, h))
       PROVE  LinksTyped'
  <2>1. next' = next
    BY <1>10, Zenon DEF Pop, BucketWait, BucketExchange, PoolWait, Grow, Expand, ReadFirst, ReadEnd, PoolExchange,
                        BucketWake, PoolWake, Interrupt, Alloc, Free
  <2> QED
    BY <1>3, <2>1
<1>11. CASE UNCHANGED vars
  BY <1>3, <1>11 DEF vars
<1> QED
  BY <1>5, <1>6, <1>7, <1>8, <1>9, <1>10, <1>11 DEF Next, Step

\* What following the links from h reaches in up to M steps.
Reaches(g, M, h) ==
    g = [k \in 0 .. M |-> IF k = 0 THEN {h}
                          ELSE LET r == g[k - 1] IN r \cup {next[o] : o \in r \cap DOMAIN next}]

\* What OnList computes.
LEMMA OnListUnfolds ==
    ASSUME NEW l, NEW M, M = Cardinality(DOMAIN next), NEW f, Reaches(f, M, head[l].offset)
    PROVE  \E g : Reaches(g, M, head[l].offset) /\ OnList(l) = g[M] \ {EMPTY}
  BY DEF OnList, Reaches

\* The uppermost k + 1 places of a stack, and the end of the list below the last.
Seen(n, at, l, k) ==
    {x \in Int \cup {EMPTY} : \/ x = EMPTY /\ n[l] <= k
                              \/ \E j \in 1 .. n[l] : n[l] - k <= j /\ x = at[l][j]}

\* The first place, and one more place with every link.
LEMMA SeenSteps ==
    ASSUME NEW n, NEW at, Stacks(n, at), LinksTyped, NEW l \in Lists
    PROVE  /\ Seen(n, at, l, 0) = {head[l].offset}
           /\ \A k \in Nat : LET r == Seen(n, at, l, k) IN
                 Seen(n, at, l, k + 1) = r \cup {next[o] : o \in r \cap DOMAIN next}
<1> USE AnvAssumption
<1>1. PICK N, A : N = n[l] /\ A = at[l]
  OBVIOUS
<1>2. /\ N \in Nat /\ A \in [Nat -> Int] /\ head[l].offset = (IF N = 0 THEN EMPTY ELSE A[N])
      /\ \A i \in 1 .. N : A[i] \in Int /\ A[i] \in DOMAIN next /\ next[A[i]] = (IF i = 1 THEN EMPTY ELSE A[i - 1])
  BY <1>1 DEF Stacks
<1>3. \A k : Seen(n, at, l, k) = {x \in Int \cup {EMPTY} : \/ x = EMPTY /\ N <= k
                                                        \/ \E j \in 1 .. N : N - k <= j /\ x = A[j]}
  BY <1>1 DEF Seen
<1>4. Seen(n, at, l, 0) = {head[l].offset}
  <2>1. CASE N = 0
    <3>1. 1 .. N = {} /\ N <= 0
      BY <2>1
    <3> QED
      BY <1>2, <1>3, <2>1, <3>1
  <2>2. CASE N # 0
    <3>1. ~(N <= 0) /\ N \in 1 .. N /\ \A j \in 1 .. N : N - 0 <= j <=> j = N
      BY <1>2, <2>2
    <3>2. head[l].offset = A[N] /\ A[N] \in Int
      BY <1>2, <2>2, <3>1
    <3> QED
      BY <1>3, <3>1, <3>2
  <2> QED
    BY <2>1, <2>2
<1>5. ASSUME NEW k \in Nat, NEW r, r = Seen(n, at, l, k)
      PROVE  Seen(n, at, l, k + 1) = r \cup {next[o] : o \in r \cap DOMAIN next}
  <2>1. PICK q : q = Seen(n, at, l, k + 1)
    OBVIOUS
  <2>2. \A x : x \in r <=> x \in Int \cup {EMPTY} /\ (\/ x = EMPTY /\ N <= k
                                                   \/ \E j \in 1 .. N : N - k <= j /\ x = A[j])
    BY <1>3, <1>5
  <2>3. \A x : x \in q <=> x \in Int \cup {EMPTY} /\ (\/ x = EMPTY /\ N <= k + 1
                                                   \/ \E j \in 1 .. N : N - (k + 1) <= j /\ x = A[j])
    BY <1>3, <2>1
  <2>4. r \subseteq q
    <3>1. (N <= k => N <= k + 1) /\ \A j \in 1 .. N : N - k <= j => N - (k + 1) <= j
      BY <1>2
    <3> QED
      BY <2>2, <2>3, <3>1
  <2>5. ASSUME NEW o \in r \cap DOMAIN next PROVE next[o] \in q
    <3>1. PICK j \in 1 .. N : N - k <= j /\ o = A[j]
      BY <2>2 DEF LinksTyped
    <3>2. CASE j = 1
      <4>1. N <= k + 1
        BY <1>2, <3>1, <3>2
      <4> QED
        BY <1>2, <2>3, <3>1, <3>2, <4>1
    <3>3. CASE j # 1
      <4>1. j - 1 \in 1 .. N /\ N - (k + 1) <= j - 1
        BY <1>2, <3>1, <3>3
      <4>2. next[o] = A[j - 1] /\ A[j - 1] \in Int
        BY <1>2, <3>1, <3>3, <4>1
      <4> QED
        BY <2>3, <4>1, <4>2
    <3> QED
      BY <3>2, <3>3
  <2>6. ASSUME NEW x \in q, x \notin r PROVE \E o \in r \cap DOMAIN next : x = next[o]
    <3>1. CASE x = EMPTY
      <4>1. N <= k + 1 /\ ~(N <= k)
        BY <1>2, <2>2, <2>3, <2>6, <3>1
      <4>2. 1 \in 1 .. N /\ N - k <= 1
        BY <1>2, <4>1
      <4>3. A[1] \in r /\ A[1] \in DOMAIN next /\ next[A[1]] = EMPTY
        BY <1>2, <2>2, <4>2
      <4> QED
        BY <3>1, <4>3
    <3>2. CASE x # EMPTY
      <4>1. PICK j \in 1 .. N : N - (k + 1) <= j /\ x = A[j]
        BY <2>3, <2>6, <3>2
      <4>2. ~(N - k <= j)
        BY <1>2, <2>2, <2>6, <4>1
      <4>3. j + 1 \in 1 .. N /\ N - k <= j + 1 /\ j + 1 # 1 /\ (j + 1) - 1 = j
        BY <1>2, <4>1, <4>2
      <4>4. A[j + 1] \in r /\ A[j + 1] \in DOMAIN next
        BY <1>2, <2>2, <4>3
      <4>5. next[A[j + 1]] = A[j]
        BY <1>2, <4>3
      <4> QED
        BY <4>1, <4>4, <4>5
    <3> QED
      BY <3>1, <3>2
  <2> QED
    BY <2>1, <2>4, <2>5, <2>6
<1> QED
  BY <1>4, <1>5

\* A stack is not higher than there are links.
LEMMA StackBound ==
    ASSUME NEW own, NEW n, NEW at, NEW fresh, Memory(own, n, at, fresh), NEW l \in Lists
    PROVE  n[l] \in Nat /\ Cardinality(DOMAIN next) \in Nat /\ n[l] <= Cardinality(DOMAIN next)
<1>0. Owned(own, n, at, fresh) /\ Apart(own) /\ Stacks(n, at) /\ IsFiniteSet(DOMAIN next)
  BY DEF Memory
<1>1. PICK N, A : N = n[l] /\ A = at[l]
  OBVIOUS
<1>2. N \in Nat /\ A \in [Nat -> Int] /\ \A i \in 1 .. N : A[i] \in DOMAIN next
  BY <1>0, <1>1 DEF Stacks
<1>3. ASSUME NEW i \in 1 .. N, NEW j \in 1 .. N, i # j PROVE A[i] # A[j]
  <2>1. i \in Ranks /\ j \in Ranks /\ i <= n[l] /\ j <= n[l] /\ A[i] \in Int /\ A[j] \in Int
    BY <1>1, <1>2 DEF Ranks
  <2>2. own[PlaceOn(l, i)] = Extent(A[i], Size(l)) /\ own[PlaceOn(l, j)] = Extent(A[j], Size(l))
    BY <1>0, <1>1, <2>1 DEF Owned, PlaceUnits
  <2>3. PlaceOn(l, i) \in Owners /\ PlaceOn(l, j) \in Owners /\ PlaceOn(l, i) # PlaceOn(l, j)
    BY <1>3, <2>1, OwnerSet, OwnerNames
  <2>4. Size(l) \in Nat /\ Size(l) > 0
    BY SizesDivide
  <2>5. A[i] \in Extent(A[i], Size(l))
    BY <2>1, <2>4 DEF Extent
  <2> QED
    BY <1>0, <2>2, <2>3, <2>5 DEF Apart
<1>4. PICK f : f = [i \in 1 .. N |-> A[i]]
  OBVIOUS
<1>5. PICK D : D = DOMAIN next
  OBVIOUS
<1>6. f \in Injection(1 .. N, D)
  <2>1. f \in [1 .. N -> D] /\ \A i, j \in 1 .. N : f[i] = f[j] => i = j
    BY <1>2, <1>3, <1>4, <1>5
  <2> QED
    BY <2>1 DEF Injection, IsInjective
<1>7. Cardinality(1 .. N) <= Cardinality(D)
  BY <1>0, <1>5, <1>6, FS_Injection
<1>8. Cardinality(1 .. N) = N
  BY <1>2, FS_Interval
<1>9. Cardinality(D) \in Nat
  BY <1>0, <1>5, FS_CardinalityType
<1> QED
  BY <1>1, <1>2, <1>5, <1>7, <1>8, <1>9

\* The states on a free list are those of its stack.
LEMMA OnListIs ==
    ASSUME NEW own, NEW n, NEW at, NEW fresh, Memory(own, n, at, fresh), LinksTyped, NEW l \in Lists
    PROVE  OnList(l) = {at[l][i] : i \in 1 .. n[l]}
<1> USE AnvAssumption
<1>0. Stacks(n, at)
  BY DEF Memory
<1>1. PICK M, h : M = Cardinality(DOMAIN next) /\ h = head[l].offset
  OBVIOUS
<1>2. n[l] \in Nat /\ M \in Nat /\ n[l] <= M
  BY <1>1, StackBound
<1>3. PICK S : S = [k \in Nat |-> Seen(n, at, l, k)]
  OBVIOUS
<1>4. S[0] = {h} /\ \A k \in Nat : S[k + 1] = S[k] \cup {next[o] : o \in S[k] \cap DOMAIN next}
  <2>1. Seen(n, at, l, 0) = {head[l].offset}
    BY <1>0, SeenSteps
  <2>2. ASSUME NEW k \in Nat PROVE S[k + 1] = S[k] \cup {next[o] : o \in S[k] \cap DOMAIN next}
    <3>1. Seen(n, at, l, k + 1) = Seen(n, at, l, k) \cup {next[o] : o \in Seen(n, at, l, k) \cap DOMAIN next}
      BY <1>0, SeenSteps
    <3>2. k + 1 \in Nat
      OBVIOUS
    <3> QED
      BY <1>3, <3>1, <3>2
  <2> QED
    BY <1>1, <1>3, <2>1, <2>2
<1>5. PICK f : f = [k \in 0 .. M |-> S[k]]
  OBVIOUS
<1>6. Reaches(f, M, h)
  <2>1. ASSUME NEW k \in 0 .. M
        PROVE  f[k] = IF k = 0 THEN {h} ELSE LET r == f[k - 1] IN r \cup {next[o] : o \in r \cap DOMAIN next}
    <3>1. CASE k = 0
      BY <1>4, <1>5, <3>1
    <3>2. CASE k # 0
      <4>1. k - 1 \in 0 .. M /\ k - 1 \in Nat /\ (k - 1) + 1 = k
        BY <1>2, <3>2
      <4>2. S[k] = S[k - 1] \cup {next[o] : o \in S[k - 1] \cap DOMAIN next}
        BY <1>4, <4>1
      <4>3. f[k] = S[k] /\ f[k - 1] = S[k - 1]
        BY <1>5, <4>1
      <4> QED
        BY <3>2, <4>2, <4>3
    <3> QED
      BY <3>1, <3>2
  <2> QED
    BY <1>5, <2>1 DEF Reaches
<1>7. PICK g : Reaches(g, M, h) /\ OnList(l) = g[M] \ {EMPTY}
  BY <1>1, <1>6, OnListUnfolds
<1>8. \A k \in 0 .. M : g[k] = IF k = 0 THEN {h} ELSE LET r == g[k - 1] IN r \cup {next[o] : o \in r \cap DOMAIN next}
  BY <1>7 DEF Reaches
\* The definition of g determines it.
<1>9. PICK K : K = {k \in Nat : k <= M => g[k] = S[k]}
  OBVIOUS
<1>10. 0 \in K
  <2>1. 0 \in 0 .. M
    BY <1>2
  <2> QED
    BY <1>4, <1>8, <1>9, <2>1
<1>11. ASSUME NEW k \in Nat, k \in K PROVE k + 1 \in K
  <2>1. SUFFICES ASSUME k + 1 <= M PROVE g[k + 1] = S[k + 1]
    BY <1>9
  <2>2. k <= M /\ k + 1 \in 0 .. M /\ k + 1 # 0 /\ (k + 1) - 1 = k
    BY <1>2, <2>1
  <2>3. g[k] = S[k]
    BY <1>9, <1>11, <2>2
  <2>4. g[k + 1] = g[k] \cup {next[o] : o \in g[k] \cap DOMAIN next}
    BY <1>8, <2>2
  <2> QED
    BY <1>4, <2>3, <2>4
<1>12. M \in K
  BY <1>2, <1>10, <1>11, NatSetInduction
<1>13. g[M] = Seen(n, at, l, M)
  BY <1>2, <1>3, <1>9, <1>12
<1>14. \A j \in 1 .. n[l] : n[l] - M <= j /\ at[l][j] \in Int
  <2>1. \A j \in 1 .. n[l] : n[l] - M <= j
    BY <1>2
  <2>2. \A j \in 1 .. n[l] : at[l][j] \in Int
    BY <1>0, <1>2 DEF Stacks
  <2> QED
    BY <2>1, <2>2
<1>15. Seen(n, at, l, M) \ {EMPTY} = {at[l][i] : i \in 1 .. n[l]}
  BY <1>14 DEF Seen
<1> QED
  BY <1>7, <1>13, <1>15
-----------------------------------------------------------------------------
(***************************************************************************)
(* The three properties.                                                   *)
(***************************************************************************)
\* What the free lists have is what their places own.
LEMMA UnitsOwned ==
    ASSUME NEW own, NEW n, NEW at, NEW fresh, Memory(own, n, at, fresh), LinksTyped, NEW l \in Lists
    PROVE  /\ GARBAGE \notin OnList(l)
           /\ \A u : u \in Units(l) <=> \E i \in Ranks : u \in own[PlaceOn(l, i)]
           /\ \A u \in Units(l) : u \in Int /\ (u >= 0 <=> l # Back)
<1> USE AnvAssumption
<1>0. Owned(own, n, at, fresh) /\ Stacks(n, at)
  BY DEF Memory
<1>1. n[l] \in Nat /\ \A i \in 1 .. n[l] : i \in Ranks /\ i <= n[l] /\ at[l][i] \in Int /\ OnSide(l, at[l][i], Size(l))
  <2>1. n[l] \in Nat /\ \A i \in 1 .. n[l] : at[l][i] \in Int /\ OnSide(l, at[l][i], Size(l))
    BY <1>0 DEF Stacks
  <2> QED
    BY <2>1 DEF Ranks
<1>2. OnList(l) = {at[l][i] : i \in 1 .. n[l]}
  BY OnListIs
<1>3. GARBAGE \notin OnList(l)
  BY <1>1, <1>2
<1>4. \A i \in Ranks : own[PlaceOn(l, i)] = IF i <= n[l] THEN Extent(at[l][i], Size(l)) ELSE {}
  BY <1>0 DEF Owned, PlaceUnits
<1>5. \A i \in Ranks : i <= n[l] => i \in 1 .. n[l]
  BY <1>1 DEF Ranks
<1>6. OnList(l) \ {GARBAGE} = OnList(l)
  BY <1>3
<1>7. \A u : u \in Units(l) <=> \E i \in 1 .. n[l] : u \in Extent(at[l][i], Size(l))
  BY <1>2, <1>6 DEF Units
<1>8. \A u : u \in Units(l) <=> \E i \in Ranks : u \in own[PlaceOn(l, i)]
  BY <1>1, <1>4, <1>5, <1>7
<1>9. ASSUME NEW u \in Units(l) PROVE u \in Int /\ (u >= 0 <=> l # Back)
  <2>1. PICK i \in 1 .. n[l] : u \in Extent(at[l][i], Size(l))
    BY <1>7
  <2>2. PICK a, s \in Int : a = at[l][i] /\ s = Size(l)
    BY <1>1, SizesDivide
  <2>3. u \in a .. a + s - 1 /\ IF l = Back THEN a + s <= 0 ELSE a >= 0
    BY <1>1, <2>1, <2>2 DEF Extent, OnSide
  <2> QED
    BY <2>2, <2>3
<1> QED
  BY <1>3, <1>8, <1>9

\* What is in use is owned by the application.
LEMMA HeldOwned ==
    ASSUME NEW own, NEW n, NEW at, NEW fresh, Memory(own, n, at, fresh), NEW h \in BagToSet(held)
    PROVE  /\ h \in States /\ held[h] = 1 /\ HeldAs(h) \in Owners /\ own[HeldAs(h)] = Extent(h[1], h[2])
           /\ \A u \in Extent(h[1], h[2]) : u \in Int /\ (u >= 0 <=> h[1] >= 0)
<1>0. Owned(own, n, at, fresh) /\ HeldOnce /\ h \in DOMAIN held
  BY DEF Memory, BagToSet
<1>1. h \in States /\ held[h] = 1 /\ (h[1] < 0 => h[1] + h[2] <= 0)
  BY <1>0 DEF HeldOnce
<1>2. HeldAs(h) \in Owners /\ own[HeldAs(h)] = Extent(h[1], h[2])
  BY <1>0, <1>1, OwnerSet DEF Owned, HeldUnits
<1>3. h[1] \in Int /\ h[2] \in Nat
  BY <1>1 DEF States
<1>4. \A u \in Extent(h[1], h[2]) : u \in Int /\ (u >= 0 <=> h[1] >= 0)
  BY <1>1, <1>3 DEF Extent
<1> QED
  BY <1>1, <1>2, <1>4

\* Everything the proof of the three properties rests on is kept.
MemoryInv == SleepInv /\ MemInv /\ LinksTyped

\* The three of them are invariants together.
LEMMA SpecMemoryInv == Spec => []MemoryInv
<1>1. Init => MemoryInv
  <2>1. Init => LinksTyped
    BY DEF Init, LinksTyped
  <2> QED
    BY <2>1, InitSleepInv, InitMemInv DEF MemoryInv
<1>2. MemoryInv /\ [Next]_vars => MemoryInv'
  BY NextSleepInv, NextMemInv, LinksStep DEF MemoryInv
<1> QED
  BY <1>1, <1>2, PTL DEF Spec

\* For any number of threads, buckets and block size, no unit of memory is in two states
\* that the application has, and no state is handed out twice, whichever of the free
\* lists, split chunks, blocks and ends of the pool it came from.
THEOREM AnvNoOverlap == Spec => []NoOverlap
<1>1. MemoryInv => NoOverlap
  <2> SUFFICES ASSUME MemoryInv, NEW g \in BagToSet(held), NEW h \in BagToSet(held)
               PROVE  IF g = h THEN held[g] = 1 ELSE Extent(g[1], g[2]) \cap Extent(h[1], h[2]) = {}
    BY DEF NoOverlap
  <2>1. PICK own, n, at, fresh : Memory(own, n, at, fresh)
    BY DEF MemoryInv, MemInv
  <2>2. held[g] = 1 /\ HeldAs(g) \in Owners /\ own[HeldAs(g)] = Extent(g[1], g[2])
    BY <2>1, HeldOwned
  <2>3. HeldAs(h) \in Owners /\ own[HeldAs(h)] = Extent(h[1], h[2])
    BY <2>1, HeldOwned
  <2>4. g # h => HeldAs(g) # HeldAs(h)
    BY OwnerNames
  <2>5. Apart(own)
    BY <2>1 DEF Memory
  <2> QED
    BY <2>2, <2>3, <2>4, <2>5 DEF Apart
<1> QED
  BY <1>1, SpecMemoryInv, PTL

\* For any number of threads, buckets and block size, following the links of a free list
\* only ever leads to states, which are on no other list and not in use: the count of the
\* list head makes every pop with an outdated link fail.
THEOREM AnvFreeListsIntact == Spec => []FreeListsIntact
<1>1. MemoryInv => FreeListsIntact
  <2> SUFFICES ASSUME MemoryInv, NEW l \in Lists
               PROVE  /\ GARBAGE \notin OnList(l)
                      /\ \A h \in BagToSet(held) : Extent(h[1], h[2]) \cap Units(l) = {}
                      /\ \A m \in Lists \ {l} : Units(l) \cap Units(m) = {}
    BY DEF FreeListsIntact
  <2>1. PICK own, n, at, fresh : Memory(own, n, at, fresh) /\ LinksTyped
    BY DEF MemoryInv, MemInv
  <2>2. Apart(own)
    BY <2>1 DEF Memory
  <2>3. \A m \in Lists : /\ GARBAGE \notin OnList(m)
                         /\ \A u : u \in Units(m) <=> \E i \in Ranks : u \in own[PlaceOn(m, i)]
    BY <2>1, UnitsOwned
  <2>4. ASSUME NEW h \in BagToSet(held) PROVE Extent(h[1], h[2]) \cap Units(l) = {}
    <3>1. HeldAs(h) \in Owners /\ own[HeldAs(h)] = Extent(h[1], h[2])
      BY <2>1, HeldOwned
    <3>2. \A i \in Ranks : own[HeldAs(h)] \cap own[PlaceOn(l, i)] = {}
      BY <2>2, <3>1, OwnerSet, OwnerNames DEF Apart
    <3> QED
      BY <2>3, <3>1, <3>2
  <2>5. ASSUME NEW m \in Lists \ {l} PROVE Units(l) \cap Units(m) = {}
    <3>1. \A i, j \in Ranks : own[PlaceOn(l, i)] \cap own[PlaceOn(m, j)] = {}
      BY <2>2, OwnerSet, OwnerNames DEF Apart
    <3> QED
      BY <2>3, <3>1
  <2> QED
    BY <2>3, <2>4, <2>5
<1> QED
  BY <1>1, SpecMemoryInv, PTL

\* When nobody is inside the allocator, what is below the front of the pool is in use,
\* free, or the rest of the block of a bucket.
LEMMA FrontAccounted ==
    ASSUME MemoryInv, \A t \in Threads : pc[t] = "idle"
    PROVE  Extent(0, state[Front].next) =
              (UNION {Extent(h[1], h[2]) : h \in {g \in BagToSet(held) : g[1] >= 0}})
              \cup (UNION {Units(l) : l \in Buckets})
              \cup (UNION {block[b].next .. block[b].end - 1 : b \in Buckets})
<1> USE AnvAssumption
<1>1. PICK own, n, at, fresh : Memory(own, n, at, fresh) /\ LinksTyped
  BY DEF MemoryInv, MemInv
<1>2. Owned(own, n, at, fresh) /\ Apart(own) /\ Cover(own) /\ Fresh(fresh) /\ PoolTyped
  BY <1>1 DEF Memory, MemoryInv, SleepInv
<1>3. /\ \A t \in Threads : pc[t] \notin Growing /\ pc[t] \notin Having
  BY DEF Growing, Having, Pushing
<1>4. PICK m : m = state[Front].next
  OBVIOUS
<1>5. m \in Nat /\ own[PoolOf(Front)] = {u \in Int : u >= m} /\ PoolOf(Front) \in Owners
  <2>1. Front \in Sides
    BY DEF Sides
  <2>2. fresh[Front] = m /\ m \in Nat
    BY <1>2, <1>3, <1>4, <2>1 DEF Fresh
  <2> QED
    BY <1>2, <2>1, <2>2, OwnerSet DEF Owned, Beyond
<1>6. own[PoolOf(Back)] \subseteq {u \in Int : u < 0}
  <2>1. Back \in Sides /\ Back # Front
    BY DEF Sides
  <2>2. PICK k \in Nat : k = fresh[Back]
    BY <1>2, <2>1 DEF Fresh
  <2>3. own[PoolOf(Back)] = {u \in Int : u < -k}
    BY <1>2, <2>1, <2>2 DEF Owned, Beyond
  <2> QED
    BY <2>2, <2>3
<1>7. \A t \in Threads : own[KeptBy(t)] = {} /\ \A l \in Lists : own[ItemOf(t, l)] = {}
  <2>1. \A t \in Threads : KeptUnits(t) = {} /\ \A l \in Lists : ItemUnits(t, l) = {}
    BY <1>3, NoUnits
  <2> QED
    BY <1>2, <2>1 DEF Owned
<1>8. ASSUME NEW h \in BagToSet(held)
      PROVE  /\ h \in States /\ HeldAs(h) \in Owners /\ own[HeldAs(h)] = Extent(h[1], h[2])
             /\ \A u \in Extent(h[1], h[2]) : u \in Int /\ (u >= 0 <=> h[1] >= 0)
  BY <1>1, HeldOwned
<1>9. ASSUME NEW l \in Lists
      PROVE  /\ \A u : u \in Units(l) <=> \E i \in Ranks : u \in own[PlaceOn(l, i)]
             /\ \A u \in Units(l) : u \in Int /\ (u >= 0 <=> l # Back)
  BY <1>1, UnitsOwned
<1>10. ASSUME NEW b \in Buckets
       PROVE  /\ own[RestOf(b)] = block[b].next .. block[b].end - 1
              /\ \A u \in own[RestOf(b)] : u \in Int /\ u >= 0
  <2>1. own[RestOf(b)] = block[b].next .. block[b].end - 1
    BY <1>2 DEF Owned, RestUnits
  <2>2. block[b].next \in Nat /\ block[b].end \in Nat
    BY <1>2 DEF PoolTyped, Words
  <2> QED
    BY <2>1, <2>2
\* Nothing but the pool has what is beyond its front.
<1>11. ASSUME NEW u \in Int, u >= 0, NEW x \in Owners, u \in own[x], x # PoolOf(Front)
       PROVE  u \in Extent(0, m)
  <2>1. ~(u >= m)
    BY <1>2, <1>5, <1>11 DEF Apart
  <2> QED
    BY <1>5, <1>11, <2>1 DEF Extent
<1>12. ASSUME NEW u \in Extent(0, m)
       PROVE  \/ \E h \in BagToSet(held) : h[1] >= 0 /\ u \in Extent(h[1], h[2])
              \/ \E l \in Buckets : u \in Units(l)
              \/ \E b \in Buckets : u \in block[b].next .. block[b].end - 1
  <2>1. u \in Int /\ u >= 0 /\ ~(u >= m)
    BY <1>5 DEF Extent
  <2>2. PICK x \in Owners : u \in own[x]
    BY <1>2, <2>1 DEF Cover
  <2>3. ASSUME NEW s \in Sides, x = PoolOf(s) PROVE FALSE
    <3>1. u \notin own[PoolOf(Front)] /\ u \notin own[PoolOf(Back)]
      BY <1>5, <1>6, <2>1
    <3> QED
      BY <2>2, <2>3, <3>1 DEF Sides
  <2>4. ASSUME NEW h \in States, x = HeldAs(h)
        PROVE  \E g \in BagToSet(held) : g[1] >= 0 /\ u \in Extent(g[1], g[2])
    <3>1. own[HeldAs(h)] = HeldUnits(h)
      BY <1>2 DEF Owned
    <3>2. h \in BagToSet(held) /\ u \in Extent(h[1], h[2])
      BY <2>2, <2>4, <3>1 DEF HeldUnits, BagToSet
    <3> QED
      BY <1>8, <2>1, <3>2
  <2>5. ASSUME NEW l \in Lists, NEW i \in Ranks, x = PlaceOn(l, i) PROVE \E k \in Buckets : u \in Units(k)
    <3>1. u \in Units(l)
      BY <1>9, <2>2, <2>5
    <3>2. l # Back
      BY <1>9, <2>1, <3>1
    <3> QED
      BY <3>1, <3>2 DEF Lists
  <2>6. ASSUME NEW b \in Buckets, x = RestOf(b) PROVE \E c \in Buckets : u \in block[c].next .. block[c].end - 1
    BY <1>10, <2>2, <2>6
  <2> QED
    BY <1>7, <2>2, <2>3, <2>4, <2>5, <2>6, OwnerSet
<1>13. ASSUME NEW h \in BagToSet(held), h[1] >= 0, NEW u \in Extent(h[1], h[2]) PROVE u \in Extent(0, m)
  <2>1. u \in Int /\ u >= 0 /\ HeldAs(h) \in Owners /\ u \in own[HeldAs(h)]
    BY <1>8, <1>13
  <2>2. HeldAs(h) # PoolOf(Front)
    BY OwnerNames
  <2> QED
    BY <1>11, <2>1, <2>2
<1>14. ASSUME NEW l \in Buckets, NEW u \in Units(l) PROVE u \in Extent(0, m)
  <2>1. l \in Lists /\ l # Back
    BY DEF Lists
  <2>2. PICK i \in Ranks : u \in own[PlaceOn(l, i)]
    BY <1>9, <2>1
  <2>3. u \in Int /\ u >= 0
    BY <1>9, <2>1
  <2>4. PlaceOn(l, i) \in Owners /\ PlaceOn(l, i) # PoolOf(Front)
    BY <2>1, OwnerSet, OwnerNames
  <2> QED
    BY <1>11, <2>2, <2>3, <2>4
<1>15. ASSUME NEW b \in Buckets, NEW u \in block[b].next .. block[b].end - 1 PROVE u \in Extent(0, m)
  <2>1. u \in own[RestOf(b)] /\ u \in Int /\ u >= 0
    BY <1>10
  <2>2. RestOf(b) \in Owners /\ RestOf(b) # PoolOf(Front)
    BY OwnerSet, OwnerNames
  <2> QED
    BY <1>11, <2>1, <2>2
<1>16. PICK A, B, C : /\ A = UNION {Extent(h[1], h[2]) : h \in {g \in BagToSet(held) : g[1] >= 0}}
                      /\ B = UNION {Units(l) : l \in Buckets}
                      /\ C = UNION {block[b].next .. block[b].end - 1 : b \in Buckets}
  OBVIOUS
<1>17. \A u : u \in A <=> \E h \in BagToSet(held) : h[1] >= 0 /\ u \in Extent(h[1], h[2])
  BY <1>16
<1>18. \A u : u \in B <=> \E l \in Buckets : u \in Units(l)
  BY <1>16
<1>19. \A u : u \in C <=> \E b \in Buckets : u \in block[b].next .. block[b].end - 1
  BY <1>16
<1>20. \A u : u \in Extent(0, m) <=> u \in A \/ u \in B \/ u \in C
  BY <1>12, <1>13, <1>14, <1>15, <1>17, <1>18, <1>19
<1>21. Extent(0, m) = A \cup B \cup C
  BY <1>20
<1> QED
  BY <1>4, <1>16, <1>21

\* And what is above its back is in use or free.
LEMMA BackAccounted ==
    ASSUME MemoryInv, \A t \in Threads : pc[t] = "idle"
    PROVE  Extent(-state[Back].next, state[Back].next) =
              (UNION {Extent(h[1], h[2]) : h \in {g \in BagToSet(held) : g[1] < 0}})
              \cup Units(Back)
<1> USE AnvAssumption
<1>1. PICK own, n, at, fresh : Memory(own, n, at, fresh) /\ LinksTyped
  BY DEF MemoryInv, MemInv
<1>2. Owned(own, n, at, fresh) /\ Apart(own) /\ Cover(own) /\ Fresh(fresh) /\ PoolTyped
  BY <1>1 DEF Memory, MemoryInv, SleepInv
<1>3. /\ \A t \in Threads : pc[t] \notin Growing /\ pc[t] \notin Having
  BY DEF Growing, Having, Pushing
<1>4. PICK m : m = state[Back].next
  OBVIOUS
<1>5. m \in Nat /\ own[PoolOf(Back)] = {u \in Int : u < -m} /\ PoolOf(Back) \in Owners
  <2>1. Back \in Sides /\ Back # Front
    BY DEF Sides
  <2>2. fresh[Back] = m /\ m \in Nat
    BY <1>2, <1>3, <1>4, <2>1 DEF Fresh
  <2> QED
    BY <1>2, <2>1, <2>2, OwnerSet DEF Owned, Beyond
<1>6. own[PoolOf(Front)] \subseteq {u \in Int : u >= 0}
  <2>1. Front \in Sides
    BY DEF Sides
  <2>2. PICK k \in Nat : k = fresh[Front]
    BY <1>2, <2>1 DEF Fresh
  <2>3. own[PoolOf(Front)] = {u \in Int : u >= k}
    BY <1>2, <2>1, <2>2 DEF Owned, Beyond
  <2> QED
    BY <2>2, <2>3
<1>7. \A t \in Threads : own[KeptBy(t)] = {} /\ \A l \in Lists : own[ItemOf(t, l)] = {}
  <2>1. \A t \in Threads : KeptUnits(t) = {} /\ \A l \in Lists : ItemUnits(t, l) = {}
    BY <1>3, NoUnits
  <2> QED
    BY <1>2, <2>1 DEF Owned
<1>8. ASSUME NEW h \in BagToSet(held)
      PROVE  /\ h \in States /\ HeldAs(h) \in Owners /\ own[HeldAs(h)] = Extent(h[1], h[2])
             /\ \A u \in Extent(h[1], h[2]) : u \in Int /\ (u >= 0 <=> h[1] >= 0)
  BY <1>1, HeldOwned
<1>9. ASSUME NEW l \in Lists
      PROVE  /\ \A u : u \in Units(l) <=> \E i \in Ranks : u \in own[PlaceOn(l, i)]
             /\ \A u \in Units(l) : u \in Int /\ (u >= 0 <=> l # Back)
  BY <1>1, UnitsOwned
<1>10. ASSUME NEW b \in Buckets, NEW u \in own[RestOf(b)] PROVE u \in Int /\ u >= 0
  <2>1. own[RestOf(b)] = block[b].next .. block[b].end - 1
    BY <1>2 DEF Owned, RestUnits
  <2>2. block[b].next \in Nat /\ block[b].end \in Nat
    BY <1>2 DEF PoolTyped, Words
  <2> QED
    BY <2>1, <2>2
\* Nothing but the pool has what is beyond its back.
<1>11. ASSUME NEW u \in Int, u < 0, NEW x \in Owners, u \in own[x], x # PoolOf(Back)
       PROVE  u \in Extent(-m, m)
  <2>1. ~(u < -m)
    BY <1>2, <1>5, <1>11 DEF Apart
  <2> QED
    BY <1>5, <1>11, <2>1 DEF Extent
<1>12. ASSUME NEW u \in Extent(-m, m)
       PROVE  \/ \E h \in BagToSet(held) : h[1] < 0 /\ u \in Extent(h[1], h[2])
              \/ u \in Units(Back)
  <2>1. u \in Int /\ u < 0 /\ ~(u < -m)
    BY <1>5 DEF Extent
  <2>2. PICK x \in Owners : u \in own[x]
    BY <1>2, <2>1 DEF Cover
  <2>3. ASSUME NEW s \in Sides, x = PoolOf(s) PROVE FALSE
    <3>1. u \notin own[PoolOf(Front)] /\ u \notin own[PoolOf(Back)]
      BY <1>5, <1>6, <2>1
    <3> QED
      BY <2>2, <2>3, <3>1 DEF Sides
  <2>4. ASSUME NEW h \in States, x = HeldAs(h)
        PROVE  \E g \in BagToSet(held) : g[1] < 0 /\ u \in Extent(g[1], g[2])
    <3>1. own[HeldAs(h)] = HeldUnits(h)
      BY <1>2 DEF Owned
    <3>2. h \in BagToSet(held) /\ u \in Extent(h[1], h[2]) /\ h[1] \in Int
      BY <2>2, <2>4, <3>1 DEF HeldUnits, BagToSet, States
    <3> QED
      BY <1>8, <2>1, <3>2
  <2>5. ASSUME NEW l \in Lists, NEW i \in Ranks, x = PlaceOn(l, i) PROVE u \in Units(Back)
    <3>1. u \in Units(l)
      BY <1>9, <2>2, <2>5
    <3>2. l = Back
      BY <1>9, <2>1, <3>1
    <3> QED
      BY <3>1, <3>2
  <2>6. ASSUME NEW b \in Buckets, x = RestOf(b) PROVE FALSE
    BY <1>10, <2>1, <2>2, <2>6
  <2> QED
    BY <1>7, <2>2, <2>3, <2>4, <2>5, <2>6, OwnerSet
<1>13. ASSUME NEW h \in BagToSet(held), h[1] < 0, NEW u \in Extent(h[1], h[2]) PROVE u \in Extent(-m, m)
  <2>1. u \in Int /\ u < 0 /\ HeldAs(h) \in Owners /\ u \in own[HeldAs(h)]
    <3>1. h[1] \in Int
      BY <1>8 DEF States
    <3> QED
      BY <1>8, <1>13, <3>1
  <2>2. HeldAs(h) # PoolOf(Back)
    BY OwnerNames
  <2> QED
    BY <1>11, <2>1, <2>2
<1>14. ASSUME NEW u \in Units(Back) PROVE u \in Extent(-m, m)
  <2>1. Back \in Lists
    BY DEF Lists
  <2>2. PICK i \in Ranks : u \in own[PlaceOn(Back, i)]
    BY <1>9, <2>1
  <2>3. u \in Int /\ u < 0
    BY <1>9, <2>1
  <2>4. PlaceOn(Back, i) \in Owners /\ PlaceOn(Back, i) # PoolOf(Back)
    BY <2>1, OwnerSet, OwnerNames
  <2> QED
    BY <1>11, <2>2, <2>3, <2>4
<1>15. PICK A : A = UNION {Extent(h[1], h[2]) : h \in {g \in BagToSet(held) : g[1] < 0}}
  OBVIOUS
<1>16. \A u : u \in A <=> \E h \in BagToSet(held) : h[1] < 0 /\ u \in Extent(h[1], h[2])
  BY <1>15
<1>17. \A u : u \in Extent(-m, m) <=> u \in A \/ u \in Units(Back)
  BY <1>12, <1>13, <1>14, <1>16
<1>18. Extent(-m, m) = A \cup Units(Back)
  BY <1>17
<1> QED
  BY <1>4, <1>15, <1>18

\* For any number of threads, buckets and sizes, no memory is lost at either end of the
\* pool, whatever races and growths have gone before.
THEOREM AnvNothingLost == Spec => []NothingLost
<1>1. MemoryInv => NothingLost
  BY FrontAccounted, BackAccounted DEF NothingLost
<1> QED
  BY <1>1, SpecMemoryInv, PTL
=============================================================================
