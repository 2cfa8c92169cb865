------------------------------ MODULE DiskCache ------------------------------
(***************************************************************************)
(* The entries of the shader cache on disk (src/util/disk_cache.c), which  *)
(* the processes of a user share without any common lock: an entry is      *)
(* written to a temporary file under an flock and renamed, and the total   *)
(* size is a counter in a mapped file that each process updates after the  *)
(* file operation it accounts for.  One step is one system call or one     *)
(* atomic instruction; every system call may fail (with CallsFail), and a  *)
(* process may die between any two of them.                                *)
(***************************************************************************)
EXTENDS Integers, FiniteSets, FiniteSetsExt, TLC

CONSTANTS Procs,      \* the processes that use the cache
          Keys,       \* the keys of the entries
          Parts,      \* a file is written in this many calls, a disk block each
          JobSize,    \* dc_job->size, before compression
          MaxSize,    \* cache->max_size
          Word,       \* *cache->size is taken modulo Word
          MaxEvict,   \* the evictions of one put: 8 in cache_put
          MaxOps,     \* bound: how many puts and removals are called
          MaxCrashes, \* bound: how many processes die
          CallsFail,  \* whether a system call may fail that has no need to
          NULL

ASSUME DiskCacheAssumption ==
    /\ IsFiniteSet(Procs) /\ IsFiniteSet(Keys)
    /\ NULL \notin Procs /\ NULL \notin Keys
    /\ NULL \notin 1 .. Cardinality(Procs) + 2 * Cardinality(Keys)
    /\ Parts \in Nat \ {0} /\ Word \in Nat \ {0} /\ JobSize \in Nat /\ MaxSize \in Nat
    /\ MaxEvict \in Nat /\ MaxOps \in Nat /\ MaxCrashes \in Nat
    /\ CallsFail \in BOOLEAN

\* One for each open file and each file name.
Inodes == 1 .. Cardinality(Procs) + 2 * Cardinality(Keys)

VARIABLES
    file, tmp,   \* the inodes of the entry and of the temporary file of each key
    len,         \* how many parts of the entry an inode holds
    lock,        \* the process that has the flock on an inode
    size,        \* *cache->size
    pc, loc,     \* each process's place and its local variables
    disturbed,    \* history: an entry was removed while another process was at work
                  \* on it, or an existing entry could not be opened
    misaccounted, \* history: an entry was counted that was not added, or not removed,
                  \* or the other way round
    ops, crashes

disk == <<file, tmp, len, lock>>
ghost == <<disturbed, misaccounted, ops, crashes>>
vars == <<disk, size, pc, loc, ghost>>

NoLocals == [key |-> NULL, ino |-> NULL, pos |-> 0, i |-> 0, dir |-> 0,
             victim |-> NULL, blocks |-> 0, failed |-> FALSE, alone |-> FALSE]

Goto(p, l) == pc' = [pc EXCEPT ![p] = l]

\* The local variables of process p go out of scope.
Return(p) == loc' = [loc EXCEPT ![p] = NoLocals] /\ Goto(p, "idle")

\* Process p goes on to l after an error.
Fail(p, l) == loc' = [loc EXCEPT ![p].failed = TRUE] /\ Goto(p, l)

Init ==
    /\ file = [k \in Keys |-> NULL] /\ tmp = [k \in Keys |-> NULL]
    /\ len = [i \in Inodes |-> 0] /\ lock = [i \in Inodes |-> NULL]
    /\ size = 0
    /\ pc = [p \in Procs |-> "idle"] /\ loc = [p \in Procs |-> NoLocals]
    /\ disturbed = FALSE /\ misaccounted = FALSE /\ ops = 0 /\ crashes = 0

\* Process p starts an operation: a put of key k, or a removal of key v.
Call(p, l, k, v) ==
    /\ pc[p] = "idle" /\ ops < MaxOps
    /\ ops' = ops + 1
    /\ Goto(p, l)
    /\ loc' = [q \in Procs |->
                 IF q = p THEN [NoLocals EXCEPT !.key = k, !.victim = v,
                                                !.alone = \A o \in Procs \ {p} : pc[o] = "idle"]
                 ELSE [loc[q] EXCEPT !.alone = FALSE]]
    /\ UNCHANGED <<disk, size, disturbed, misaccounted, crashes>>

\* Another process works on the file of key k.
InUse(p, k) == \E q \in Procs \ {p} : pc[q] # "idle" /\ k \in {loc[q].key, loc[q].victim}
-----------------------------------------------------------------------------
(* evict_lru_item, unlink_lru_file_from_directory, disk_cache_remove       *)

\* while (*size + dc_job->size > max_size && i < 8).
EvictTest(p) ==
    /\ pc[p] = "evict"
    /\ \/ /\ (size + JobSize) % Word > MaxSize /\ loc[p].i < MaxEvict
          /\ loc' = [loc EXCEPT ![p].i = @ + 1, ![p].dir = 1]
          /\ Goto(p, "choose")
       \/ /\ (size + JobSize) % Word <= MaxSize \/ loc[p].i = MaxEvict
          /\ UNCHANGED loc
          /\ Goto(p, "open")
    /\ UNCHANGED <<disk, size, ghost>>

\* No file was removed: a second directory is tried, then the eviction gives up.
Miss(p) ==
    IF loc[p].key = NULL THEN Return(p)
    ELSE IF loc[p].dir = 1 THEN loc' = [loc EXCEPT ![p].dir = 2, ![p].victim = NULL] /\ Goto(p, "choose")
    ELSE loc' = [loc EXCEPT ![p].victim = NULL] /\ Goto(p, "evict")

\* choose_lru_file_matching: the entry whose access time is the oldest of a directory,
\* here any; a random directory may have none, and a directory may not be readable.
Choose(p) ==
    /\ pc[p] = "choose"
    /\ \/ \E k \in Keys : file[k] # NULL /\ loc' = [loc EXCEPT ![p].victim = k] /\ Goto(p, "stat")
       \/ Miss(p)
    /\ UNCHANGED <<disk, size, ghost>>

\* disk_cache_remove.
Remove(p, k) == Call(p, "stat", NULL, k)

\* stat of the file to remove.
Stat(p) ==
    LET ino == file[loc[p].victim] IN
    /\ pc[p] = "stat"
    /\ \/ (ino = NULL \/ CallsFail) /\ Miss(p)
       \/ ino # NULL /\ loc' = [loc EXCEPT ![p].blocks = len[ino]] /\ Goto(p, "unlink")
    /\ UNCHANGED <<disk, size, ghost>>

\* unlink, whose result nobody looks at: it may find no file, or fail with the file
\* in place.
Unlink(p) ==
    LET v == loc[p].victim IN
    /\ pc[p] = "unlink"
    /\ \/ /\ file' = [file EXCEPT ![v] = NULL]
          /\ disturbed' = (disturbed \/ InUse(p, v))
          /\ UNCHANGED misaccounted
       \/ /\ CallsFail /\ file[v] # NULL
          /\ misaccounted' = TRUE
          /\ UNCHANGED <<file, disturbed>>
    /\ \/ loc[p].blocks # 0 /\ Goto(p, "sub") /\ UNCHANGED loc
       \/ loc[p].blocks = 0 /\ Miss(p)
    /\ UNCHANGED <<tmp, len, lock, size, ops, crashes>>

\* p_atomic_add(cache->size, - size), at the end of a removal or an eviction.
Sub(p) ==
    /\ pc[p] = "sub"
    /\ size' = (size - loc[p].blocks) % Word
    /\ \/ loc[p].key = NULL /\ Return(p)
       \/ loc[p].key # NULL /\ loc' = [loc EXCEPT ![p].victim = NULL] /\ Goto(p, "evict")
    /\ UNCHANGED <<disk, ghost>>
-----------------------------------------------------------------------------
(* cache_put                                                               *)

Put(p, k) == Call(p, "evict", k, NULL)

\* An inode that no name and no open file refers to.
Fresh == CHOOSE i \in Inodes : /\ \A k \in Keys : i \notin {file[k], tmp[k]}
                               /\ \A p \in Procs : i # loc[p].ino

\* Mutant: the temporary file must not exist.
OpenExclusive(p) ==
    LET k == loc[p].key IN
    /\ pc[p] = "open"
    /\ \/ /\ tmp[k] = NULL
          /\ tmp' = [tmp EXCEPT ![k] = Fresh] /\ len' = [len EXCEPT ![Fresh] = 0]
          /\ loc' = [loc EXCEPT ![p].ino = Fresh] /\ Goto(p, "lock")
       \/ /\ tmp[k] # NULL /\ Goto(p, "close") /\ UNCHANGED <<tmp, len, loc>>
    /\ UNCHANGED <<file, lock, size, ghost>>

\* open(filename_tmp, O_WRONLY | O_CREAT), not truncated; it may fail.
Open(p) ==
    LET k == loc[p].key IN
    /\ pc[p] = "open"
    /\ \/ /\ tmp[k] # NULL /\ loc' = [loc EXCEPT ![p].ino = tmp[k]] /\ Goto(p, "lock")
          /\ UNCHANGED <<tmp, len>>
       \/ /\ tmp[k] = NULL
          /\ tmp' = [tmp EXCEPT ![k] = Fresh] /\ len' = [len EXCEPT ![Fresh] = 0]
          /\ loc' = [loc EXCEPT ![p].ino = Fresh] /\ Goto(p, "lock")
       \/ /\ CallsFail /\ Fail(p, "close")
          /\ UNCHANGED <<tmp, len>>
    /\ UNCHANGED <<file, lock, size, ghost>>

\* Mutant: the process goes on without the lock.
FlockAnyway(p) ==
    /\ pc[p] = "lock"
    /\ lock' = IF lock[loc[p].ino] = NULL THEN [lock EXCEPT ![loc[p].ino] = p] ELSE lock
    /\ Goto(p, "check")
    /\ UNCHANGED <<file, tmp, len, size, loc, ghost>>

\* flock(fd, LOCK_EX | LOCK_NB): another process has the lock, or it fails.
Flock(p) ==
    LET i == loc[p].ino IN
    /\ pc[p] = "lock"
    /\ \/ lock[i] = NULL /\ lock' = [lock EXCEPT ![i] = p] /\ Goto(p, "check") /\ UNCHANGED loc
       \/ lock[i] # NULL /\ Goto(p, "close") /\ UNCHANGED <<lock, loc>>
       \/ CallsFail /\ lock[i] = NULL /\ Fail(p, "close") /\ UNCHANGED lock
    /\ UNCHANGED <<file, tmp, len, size, ghost>>

\* Mutant: it is not checked whether the entry exists.
CheckNot(p) == pc[p] = "check" /\ Goto(p, "write") /\ UNCHANGED <<disk, size, loc, ghost>>

\* fd_final = open(filename): the entry does not exist, or it cannot be opened, which
\* is taken for the same.
Check(p) ==
    LET exists == file[loc[p].key] # NULL IN
    /\ pc[p] = "check"
    /\ \/ exists /\ Goto(p, "drop_tmp") /\ UNCHANGED disturbed
       \/ (~exists \/ CallsFail) /\ Goto(p, "write") /\ disturbed' = (disturbed \/ exists)
    /\ UNCHANGED <<disk, size, loc, misaccounted, ops, crashes>>

\* One of the calls of write_all, or its failure.
Write(p) ==
    LET n == loc[p].pos + 1 IN
    /\ pc[p] = "write"
    /\ \/ /\ len' = [len EXCEPT ![loc[p].ino] = Max({@, n})]
          /\ loc' = [loc EXCEPT ![p].pos = n]
          /\ Goto(p, IF n = Parts THEN "rename" ELSE "write")
       \/ /\ CallsFail /\ Fail(p, "drop_tmp")
          /\ UNCHANGED len
    /\ UNCHANGED <<file, tmp, lock, size, ghost>>

\* rename(filename_tmp, filename): of whatever file has the temporary name now.
Rename(p) ==
    LET k == loc[p].key IN
    /\ pc[p] = "rename"
    /\ \/ /\ tmp[k] # NULL
          /\ file' = [file EXCEPT ![k] = tmp[k]] /\ tmp' = [tmp EXCEPT ![k] = NULL]
          /\ Goto(p, "put_stat") /\ UNCHANGED loc
       \/ /\ tmp[k] = NULL \/ CallsFail
          /\ Fail(p, "drop_tmp")
          /\ UNCHANGED <<file, tmp>>
    /\ UNCHANGED <<len, lock, size, ghost>>

\* unlink(filename_tmp): the entry exists, or the write or the rename failed.
DropTmp(p) ==
    /\ pc[p] = "drop_tmp"
    /\ \/ /\ tmp' = [tmp EXCEPT ![loc[p].key] = NULL]
          /\ disturbed' = (disturbed \/ (loc[p].failed /\ InUse(p, loc[p].key)))
       \/ CallsFail /\ UNCHANGED <<tmp, disturbed>>
    /\ Goto(p, "close")
    /\ UNCHANGED <<file, len, lock, size, loc, misaccounted, ops, crashes>>

\* stat(filename), by name again.
PutStat(p) ==
    LET ino == file[loc[p].key] IN
    /\ pc[p] = "put_stat"
    /\ \/ ino # NULL /\ loc' = [loc EXCEPT ![p].blocks = len[ino]] /\ Goto(p, "add")
       \/ (ino = NULL \/ CallsFail) /\ Fail(p, "drop_file")
    /\ UNCHANGED <<disk, size, ghost>>

\* Something went wrong: unlink(filename), whose result nobody looks at.
DropFile(p) ==
    LET k == loc[p].key IN
    /\ pc[p] = "drop_file"
    /\ \/ /\ file' = [file EXCEPT ![k] = NULL]
          /\ disturbed' = (disturbed \/ (file[k] # NULL /\ InUse(p, k)))
          /\ UNCHANGED misaccounted
       \/ /\ CallsFail /\ file[k] # NULL
          /\ misaccounted' = TRUE
          /\ UNCHANGED <<file, disturbed>>
    /\ Goto(p, "close")
    /\ UNCHANGED <<tmp, len, lock, size, loc, ops, crashes>>

\* p_atomic_add(dc_job->cache->size, sb.st_blocks * 512).
Add(p) ==
    /\ pc[p] = "add"
    /\ size' = (size + loc[p].blocks) % Word
    /\ Goto(p, "close")
    /\ UNCHANGED <<disk, loc, ghost>>

\* The open file of process p is closed, and its flock released.
Release(p) == lock' = [i \in Inodes |-> IF lock[i] = p THEN NULL ELSE lock[i]]

Close(p) ==
    /\ pc[p] = "close"
    /\ Release(p)
    /\ Return(p)
    /\ UNCHANGED <<file, tmp, len, size, ghost>>
-----------------------------------------------------------------------------
\* Process p dies; another one takes its place.
Crash(p) ==
    /\ pc[p] # "idle" /\ crashes < MaxCrashes
    /\ crashes' = crashes + 1
    /\ Release(p)
    /\ Return(p)
    /\ misaccounted' = (misaccounted \/ pc[p] \in {"put_stat", "drop_file", "add", "sub"})
    /\ UNCHANGED <<file, tmp, len, size, disturbed, ops>>

Next == \E p \in Procs :
    \/ \E k \in Keys : Put(p, k) \/ Remove(p, k)
    \/ EvictTest(p) \/ Choose(p) \/ Stat(p) \/ Unlink(p) \/ Sub(p)
    \/ Open(p) \/ Flock(p) \/ Check(p) \/ Write(p) \/ Rename(p) \/ DropTmp(p)
    \/ PutStat(p) \/ DropFile(p) \/ Add(p) \/ Close(p) \/ Crash(p)

Spec == Init /\ [][Next]_vars
-----------------------------------------------------------------------------
Whole(k) == file[k] # NULL => len[file[k]] = Parts

\* No reader can open a partly written entry, whoever dies where, whatever call
\* fails and whatever temporary files that leaves behind, as long as no entry is
\* removed while another process is at work on it, and none exists that cannot be
\* opened.
EntriesWhole == ~disturbed => \A k \in Keys : Whole(k)

\* What the entries take up.
Total == Cardinality({k \in Keys : file[k] # NULL}) * Parts

Idle == \A p \in Procs : pc[p] = "idle"

\* When nobody is at work the size is what the entries take up, unless an entry was
\* counted that did not come or go: deaths at any other place, and calls that fail
\* where the code looks at the result, do no harm.
SizeExact == (Idle /\ ~disturbed /\ ~misaccounted) => size = Total % Word

\* A put that no other process interferes with leaves the entry in the cache,
\* unless a system call fails: no left-over of a dead process, a temporary file or
\* a lock, blocks the key for ever.
PutAloneStores ==
    \A p \in Procs : (pc[p] = "close" /\ loc[p].alone /\ ~loc[p].failed) => file[loc[p].key] # NULL

\* "To prevent any readers from seeing a partially written file": no entry is ever
\* a file that is not completely written.
NoPartialEntry == \A k \in Keys : Whole(k)

\* Processes and keys only differ in their names.
Symmetric == Permutations(Procs) \cup Permutations(Keys)
=============================================================================
