----------------------------- MODULE DiskCacheProofs -----------------------------
(***************************************************************************)
(* What the processes that share a cache directory can rely on without a   *)
(* common lock, for any number of processes and keys, any size of the      *)
(* entries and any number of operations and crashes.                       *)
(***************************************************************************)
EXTENDS DiskCache, FiniteSetTheorems, TLAPS

Locals == [key : Keys \cup {NULL}, ino : Inodes \cup {NULL}, pos : 0 .. Parts, i : Nat,
           dir : Nat, victim : Keys \cup {NULL}, blocks : 0 .. Parts,
           failed : BOOLEAN, alone : BOOLEAN]

\* The places of a process that has an open file; those where it also has the lock.
Opened == {"lock", "check", "write", "rename", "drop_tmp", "put_stat", "drop_file", "add"}
Holding == Opened \ {"lock"}
Places == {"idle", "evict", "choose", "stat", "unlink", "sub", "open", "close"} \cup Opened

TypeOK ==
    /\ file \in [Keys -> Inodes \cup {NULL}] /\ tmp \in [Keys -> Inodes \cup {NULL}]
    /\ len \in [Inodes -> 0 .. Parts] /\ lock \in [Inodes -> Procs \cup {NULL}]
    /\ size \in Int
    /\ pc \in [Procs -> Places]
    /\ loc \in [Procs -> Locals]
    /\ disturbed \in BOOLEAN /\ misaccounted \in BOOLEAN

\* The local variables that are set at each place.
LocalsAt(p) ==
    /\ pc[p] \in {"evict", "choose", "open", "close"} \cup Opened => loc[p].key # NULL
    /\ pc[p] \in {"stat", "unlink", "sub"} => loc[p].victim # NULL
    /\ pc[p] \in Opened => loc[p].ino # NULL
    /\ pc[p] \notin {"close"} \cup Opened => loc[p].ino = NULL
    /\ pc[p] \notin {"write", "rename", "drop_tmp", "put_stat", "drop_file", "add", "close"} => loc[p].pos = 0
    /\ pc[p] = "write" => loc[p].pos < Parts
    /\ pc[p] = "rename" => loc[p].pos = Parts

\* A lock belongs to a process that has the file open and took it.
Locks ==
    /\ \A n \in Inodes : lock[n] # NULL => /\ loc[lock[n]].ino = n
                                           /\ pc[lock[n]] \in {"close"} \cup Holding
    /\ \A p \in Procs : pc[p] \in Holding => lock[loc[p].ino] = p

\* No inode has two names.
Names ==
    /\ \A j, k \in Keys : file[j] # NULL => file[j] # tmp[k]
    /\ \A j, k \in Keys : j # k => /\ file[j] # NULL => file[j] # file[k]
                                   /\ tmp[j] # NULL => tmp[j] # tmp[k]

\* What a process knows of the names of its entry as long as nobody has removed
\* a file under another process's hands.
KnowsAt(p) ==
    /\ pc[p] \in {"lock", "check"} => tmp[loc[p].key] = loc[p].ino \/ file[loc[p].key] # NULL
    /\ pc[p] \in {"write", "rename"} => /\ tmp[loc[p].key] = loc[p].ino /\ file[loc[p].key] = NULL
                                        /\ len[loc[p].ino] >= loc[p].pos
    /\ pc[p] = "drop_tmp" => loc[p].failed \/ file[loc[p].key] # NULL
    /\ pc[p] \in {"put_stat", "drop_file", "add"} => file[loc[p].key] # NULL
    /\ pc[p] = "unlink" => file[loc[p].victim] # NULL
    /\ pc[p] \in {"unlink", "sub", "add"} => loc[p].blocks = Parts

Orderly == ~disturbed => (\A p \in Procs : KnowsAt(p)) /\ (\A k \in Keys : Whole(k))

\* What a process knows that is the only one at work.
AloneAt(p) ==
    (loc[p].alone /\ pc[p] # "idle") =>
       /\ \A q \in Procs \ {p} : pc[q] = "idle"
       /\ pc[p] \in {"lock", "check", "write", "rename"} => tmp[loc[p].key] = loc[p].ino
       /\ pc[p] \in {"put_stat", "add"} => file[loc[p].key] # NULL
       /\ pc[p] \in {"drop_tmp", "close"} => loc[p].failed \/ file[loc[p].key] # NULL
       /\ pc[p] = "drop_file" => loc[p].failed

\* The entries, the files that are still to be added to the size, or removed instead,
\* and the ones that are still to be taken off.
Present == {k \in Keys : file[k] # NULL}
ToAdd == {p \in Procs : pc[p] \in {"put_stat", "drop_file", "add"}}
ToSub == {p \in Procs : pc[p] = "sub"}

Due == Cardinality(Present) - Cardinality(ToAdd) + Cardinality(ToSub)

Accounted == (~disturbed /\ ~misaccounted) => size = (Due * Parts) % Word

\* The inductive invariant.
IInv ==
    /\ TypeOK /\ (\A p \in Procs : LocalsAt(p)) /\ Locks /\ Names
    /\ Orderly /\ (\A p \in Procs : AloneAt(p)) /\ Accounted
-----------------------------------------------------------------------------
\* The facts about the constants the proofs need.
LEMMA ConstFacts ==
    /\ NULL \notin Procs /\ NULL \notin Keys /\ NULL \notin Inodes
    /\ Parts \in Nat /\ Parts > 0 /\ Word \in Nat /\ Word > 0
    /\ IsFiniteSet(Procs) /\ IsFiniteSet(Keys)
  BY DiskCacheAssumption DEF Inodes

USE ConstFacts

\* The values of the local variables stay in their types.
LEMMA NoLocalsType == NoLocals \in Locals
  BY DEF NoLocals, Locals

LEMMA LocalsType ==
    ASSUME NEW r \in Locals
    PROVE  /\ \A k \in Keys \cup {NULL} : [r EXCEPT !.key = k] \in Locals /\ [r EXCEPT !.victim = k] \in Locals
           /\ \A n \in Inodes \cup {NULL} : [r EXCEPT !.ino = n] \in Locals
           /\ \A n \in Nat : [r EXCEPT !.i = n] \in Locals /\ [r EXCEPT !.dir = n] \in Locals
           /\ \A n \in 0 .. Parts : [r EXCEPT !.pos = n] \in Locals /\ [r EXCEPT !.blocks = n] \in Locals
  BY DEF Locals

LEMMA LocalsFlags ==
    ASSUME NEW r \in Locals, NEW b \in BOOLEAN
    PROVE  [r EXCEPT !.failed = b] \in Locals /\ [r EXCEPT !.alone = b] \in Locals
  BY DEF Locals

\* Only the local variables of process p change.
Others(p) == \A q \in Procs : q # p => loc'[q] = loc[q]

\* What an assignment to one of the local variables does.
LEMMA SetIno ==
    ASSUME TypeOK, NEW p \in Procs, NEW x \in Inodes \cup {NULL}, loc' = [loc EXCEPT ![p].ino = x]
    PROVE  /\ loc' \in [Procs -> Locals] /\ Others(p) /\ loc'[p].ino = x
           /\ loc'[p].key = loc[p].key /\ loc'[p].pos = loc[p].pos /\ loc'[p].victim = loc[p].victim
           /\ loc'[p].blocks = loc[p].blocks /\ loc'[p].failed = loc[p].failed /\ loc'[p].alone = loc[p].alone
  <1>1. loc[p] \in Locals /\ [loc[p] EXCEPT !.ino = x] \in Locals
    BY LocalsType DEF TypeOK
  <1>2. loc' = [loc EXCEPT ![p] = [loc[p] EXCEPT !.ino = x]]
    BY DEF TypeOK
  <1>3. loc'[p] = [loc[p] EXCEPT !.ino = x]
    BY <1>2 DEF TypeOK
  <1>4. /\ loc'[p].ino = x
        /\ loc'[p].key = loc[p].key /\ loc'[p].pos = loc[p].pos /\ loc'[p].victim = loc[p].victim
        /\ loc'[p].blocks = loc[p].blocks /\ loc'[p].failed = loc[p].failed /\ loc'[p].alone = loc[p].alone
    BY <1>1, <1>3 DEF Locals
  <1>. QED BY <1>1, <1>2, <1>4 DEF TypeOK, Others

LEMMA SetPos ==
    ASSUME TypeOK, NEW p \in Procs, NEW x \in 0 .. Parts, loc' = [loc EXCEPT ![p].pos = x]
    PROVE  /\ loc' \in [Procs -> Locals] /\ Others(p) /\ loc'[p].pos = x
           /\ loc'[p].key = loc[p].key /\ loc'[p].ino = loc[p].ino /\ loc'[p].victim = loc[p].victim
           /\ loc'[p].blocks = loc[p].blocks /\ loc'[p].failed = loc[p].failed /\ loc'[p].alone = loc[p].alone
  <1>1. loc[p] \in Locals /\ [loc[p] EXCEPT !.pos = x] \in Locals
    BY LocalsType DEF TypeOK
  <1>2. loc' = [loc EXCEPT ![p] = [loc[p] EXCEPT !.pos = x]]
    BY DEF TypeOK
  <1>3. loc'[p] = [loc[p] EXCEPT !.pos = x]
    BY <1>2 DEF TypeOK
  <1>4. /\ loc'[p].pos = x
        /\ loc'[p].key = loc[p].key /\ loc'[p].ino = loc[p].ino /\ loc'[p].victim = loc[p].victim
        /\ loc'[p].blocks = loc[p].blocks /\ loc'[p].failed = loc[p].failed /\ loc'[p].alone = loc[p].alone
    BY <1>1, <1>3 DEF Locals
  <1>. QED BY <1>1, <1>2, <1>4 DEF TypeOK, Others

LEMMA SetVictim ==
    ASSUME TypeOK, NEW p \in Procs, NEW x \in Keys \cup {NULL}, loc' = [loc EXCEPT ![p].victim = x]
    PROVE  /\ loc' \in [Procs -> Locals] /\ Others(p) /\ loc'[p].victim = x
           /\ loc'[p].key = loc[p].key /\ loc'[p].ino = loc[p].ino /\ loc'[p].pos = loc[p].pos
           /\ loc'[p].blocks = loc[p].blocks /\ loc'[p].failed = loc[p].failed /\ loc'[p].alone = loc[p].alone
  <1>1. loc[p] \in Locals /\ [loc[p] EXCEPT !.victim = x] \in Locals
    BY LocalsType DEF TypeOK
  <1>2. loc' = [loc EXCEPT ![p] = [loc[p] EXCEPT !.victim = x]]
    BY DEF TypeOK
  <1>3. loc'[p] = [loc[p] EXCEPT !.victim = x]
    BY <1>2 DEF TypeOK
  <1>4. /\ loc'[p].victim = x
        /\ loc'[p].key = loc[p].key /\ loc'[p].ino = loc[p].ino /\ loc'[p].pos = loc[p].pos
        /\ loc'[p].blocks = loc[p].blocks /\ loc'[p].failed = loc[p].failed /\ loc'[p].alone = loc[p].alone
    BY <1>1, <1>3 DEF Locals
  <1>. QED BY <1>1, <1>2, <1>4 DEF TypeOK, Others

LEMMA SetBlocks ==
    ASSUME TypeOK, NEW p \in Procs, NEW x \in 0 .. Parts, loc' = [loc EXCEPT ![p].blocks = x]
    PROVE  /\ loc' \in [Procs -> Locals] /\ Others(p) /\ loc'[p].blocks = x
           /\ loc'[p].key = loc[p].key /\ loc'[p].ino = loc[p].ino /\ loc'[p].pos = loc[p].pos
           /\ loc'[p].victim = loc[p].victim /\ loc'[p].failed = loc[p].failed /\ loc'[p].alone = loc[p].alone
  <1>1. loc[p] \in Locals /\ [loc[p] EXCEPT !.blocks = x] \in Locals
    BY LocalsType DEF TypeOK
  <1>2. loc' = [loc EXCEPT ![p] = [loc[p] EXCEPT !.blocks = x]]
    BY DEF TypeOK
  <1>3. loc'[p] = [loc[p] EXCEPT !.blocks = x]
    BY <1>2 DEF TypeOK
  <1>4. /\ loc'[p].blocks = x
        /\ loc'[p].key = loc[p].key /\ loc'[p].ino = loc[p].ino /\ loc'[p].pos = loc[p].pos
        /\ loc'[p].victim = loc[p].victim /\ loc'[p].failed = loc[p].failed /\ loc'[p].alone = loc[p].alone
    BY <1>1, <1>3 DEF Locals
  <1>. QED BY <1>1, <1>2, <1>4 DEF TypeOK, Others

LEMMA SetFailed ==
    ASSUME TypeOK, NEW p \in Procs, NEW x \in BOOLEAN, loc' = [loc EXCEPT ![p].failed = x]
    PROVE  /\ loc' \in [Procs -> Locals] /\ Others(p) /\ loc'[p].failed = x
           /\ loc'[p].key = loc[p].key /\ loc'[p].ino = loc[p].ino /\ loc'[p].pos = loc[p].pos
           /\ loc'[p].victim = loc[p].victim /\ loc'[p].blocks = loc[p].blocks /\ loc'[p].alone = loc[p].alone
  <1>1. loc[p] \in Locals /\ [loc[p] EXCEPT !.failed = x] \in Locals
    BY LocalsFlags DEF TypeOK
  <1>2. loc' = [loc EXCEPT ![p] = [loc[p] EXCEPT !.failed = x]]
    BY DEF TypeOK
  <1>3. loc'[p] = [loc[p] EXCEPT !.failed = x]
    BY <1>2 DEF TypeOK
  <1>4. /\ loc'[p].failed = x
        /\ loc'[p].key = loc[p].key /\ loc'[p].ino = loc[p].ino /\ loc'[p].pos = loc[p].pos
        /\ loc'[p].victim = loc[p].victim /\ loc'[p].blocks = loc[p].blocks /\ loc'[p].alone = loc[p].alone
    BY <1>1, <1>3 DEF Locals
  <1>. QED BY <1>1, <1>2, <1>4 DEF TypeOK, Others

LEMMA MissEffect ==
    ASSUME TypeOK, NEW p \in Procs, Miss(p)
    PROVE  /\ loc' \in [Procs -> Locals] /\ Others(p)
           /\ \/ loc[p].key = NULL /\ pc' = [pc EXCEPT ![p] = "idle"] /\ loc'[p] = NoLocals
              \/ /\ loc[p].key # NULL
                 /\ pc' = [pc EXCEPT ![p] = "evict"] \/ pc' = [pc EXCEPT ![p] = "choose"]
                 /\ loc'[p].victim = NULL
                 /\ loc'[p].key = loc[p].key /\ loc'[p].ino = loc[p].ino /\ loc'[p].pos = loc[p].pos
                 /\ loc'[p].blocks = loc[p].blocks /\ loc'[p].failed = loc[p].failed /\ loc'[p].alone = loc[p].alone
  <1>1. CASE loc[p].key = NULL
    BY <1>1, NoLocalsType DEF Miss, Return, Goto, TypeOK, Others
  <1>2. CASE loc[p].key # NULL /\ loc[p].dir = 1
    <2>1. [loc[p] EXCEPT !.dir = 2] \in Locals
      BY LocalsType DEF TypeOK
    <2>2. [[loc[p] EXCEPT !.dir = 2] EXCEPT !.victim = NULL] \in Locals
      BY <2>1, LocalsType
    <2>3. loc' = [loc EXCEPT ![p] = [[loc[p] EXCEPT !.dir = 2] EXCEPT !.victim = NULL]]
      BY <1>2 DEF Miss, TypeOK
    <2>4. pc' = [pc EXCEPT ![p] = "choose"]
      BY <1>2 DEF Miss, Goto
    <2>5. loc[p] \in Locals
      BY DEF TypeOK
    <2>6. loc'[p] = [[loc[p] EXCEPT !.dir = 2] EXCEPT !.victim = NULL]
      BY <2>3 DEF TypeOK
    <2>7. /\ loc'[p].victim = NULL
          /\ loc'[p].key = loc[p].key /\ loc'[p].ino = loc[p].ino /\ loc'[p].pos = loc[p].pos
          /\ loc'[p].blocks = loc[p].blocks /\ loc'[p].failed = loc[p].failed /\ loc'[p].alone = loc[p].alone
      BY <2>5, <2>6 DEF Locals
    <2>. QED BY <1>2, <2>2, <2>3, <2>4, <2>7 DEF TypeOK, Others
  <1>3. CASE loc[p].key # NULL /\ loc[p].dir # 1
    <2>1. loc' = [loc EXCEPT ![p].victim = NULL] /\ pc' = [pc EXCEPT ![p] = "evict"]
      BY <1>3 DEF Miss, Goto
    <2>. QED BY <1>3, <2>1, SetVictim
  <1>. QED BY <1>1, <1>2, <1>3

-----------------------------------------------------------------------------
(* What a step leaves alone.                                               *)

LEMMA SameLocals ==
    ASSUME NEW q \in Procs, LocalsAt(q), pc'[q] = pc[q], loc'[q] = loc[q]
    PROVE  LocalsAt(q)'
  BY DEF LocalsAt

LEMMA SameKnowledge ==
    ASSUME NEW q \in Procs, KnowsAt(q), pc'[q] = pc[q], loc'[q] = loc[q],
           UNCHANGED <<file, tmp, len>>
    PROVE  KnowsAt(q)'
  BY DEF KnowsAt

\* Nobody else is the only one at work when process p is at work.
LEMMA NotAlone ==
    ASSUME NEW p \in Procs, NEW q \in Procs, q # p, AloneAt(q), pc[p] # "idle",
           pc'[q] = pc[q], loc'[q] = loc[q]
    PROVE  AloneAt(q)'
  <1>1. ~ (loc[q].alone /\ pc[q] # "idle")
    BY DEF AloneAt
  <1>. QED BY <1>1 DEF AloneAt

\* How the sets that the size depends on change.
LEMMA PlaceCards ==
    ASSUME TypeOK, NEW p \in Procs, NEW l, pc' = [pc EXCEPT ![p] = l]
    PROVE  /\ Cardinality(ToAdd) \in Nat /\ Cardinality(ToSub) \in Nat
           /\ Cardinality(ToAdd)' = Cardinality(ToAdd)
                 + (IF l \in {"put_stat", "drop_file", "add"} THEN 1 ELSE 0)
                 - (IF pc[p] \in {"put_stat", "drop_file", "add"} THEN 1 ELSE 0)
           /\ Cardinality(ToSub)' = Cardinality(ToSub)
                 + (IF l = "sub" THEN 1 ELSE 0) - (IF pc[p] = "sub" THEN 1 ELSE 0)
  <1>1. IsFiniteSet(ToAdd) /\ IsFiniteSet(ToSub) /\ IsFiniteSet(ToAdd \ {p}) /\ IsFiniteSet(ToSub \ {p})
    <2>1. ToAdd \subseteq Procs /\ ToSub \subseteq Procs
      BY DEF ToAdd, ToSub
    <2>. QED BY <2>1, FS_Subset
  <1>2. /\ Cardinality(ToAdd) \in Nat /\ Cardinality(ToSub) \in Nat
        /\ Cardinality(ToAdd \ {p}) \in Nat /\ Cardinality(ToSub \ {p}) \in Nat
    BY <1>1, FS_CardinalityType
  <1>3. /\ Cardinality(ToAdd \ {p}) = IF p \in ToAdd THEN Cardinality(ToAdd) - 1 ELSE Cardinality(ToAdd)
        /\ Cardinality(ToSub \ {p}) = IF p \in ToSub THEN Cardinality(ToSub) - 1 ELSE Cardinality(ToSub)
    BY <1>1, FS_RemoveElement
  <1>4. /\ Cardinality((ToAdd \ {p}) \cup {p}) = Cardinality(ToAdd \ {p}) + 1
        /\ Cardinality((ToSub \ {p}) \cup {p}) = Cardinality(ToSub \ {p}) + 1
    BY <1>1, FS_AddElement
  <1>5. /\ p \in ToAdd <=> pc[p] \in {"put_stat", "drop_file", "add"}
        /\ p \in ToSub <=> pc[p] = "sub"
    BY DEF ToAdd, ToSub
  <1>6. ToAdd' = IF l \in {"put_stat", "drop_file", "add"} THEN (ToAdd \ {p}) \cup {p} ELSE ToAdd \ {p}
    BY DEF ToAdd, TypeOK
  <1>7. ToSub' = IF l = "sub" THEN (ToSub \ {p}) \cup {p} ELSE ToSub \ {p}
    BY DEF ToSub, TypeOK
  <1>8. Cardinality(ToAdd)' = Cardinality(ToAdd')
    OBVIOUS
  <1>9. Cardinality(ToSub)' = Cardinality(ToSub')
    OBVIOUS
  <1>10. Cardinality(ToAdd)' = Cardinality(ToAdd)
                 + (IF l \in {"put_stat", "drop_file", "add"} THEN 1 ELSE 0)
                 - (IF pc[p] \in {"put_stat", "drop_file", "add"} THEN 1 ELSE 0)
    BY <1>2, <1>3, <1>4, <1>5, <1>6
  <1>11. Cardinality(ToSub)' = Cardinality(ToSub)
                 + (IF l = "sub" THEN 1 ELSE 0) - (IF pc[p] = "sub" THEN 1 ELSE 0)
    BY <1>2, <1>3, <1>4, <1>5, <1>7
  <1>. QED BY <1>2, <1>10, <1>11

LEMMA NameCards ==
    ASSUME TypeOK, NEW k \in Keys, NEW n, file' = [file EXCEPT ![k] = n]
    PROVE  /\ Cardinality(Present) \in Nat
           /\ Cardinality(Present)' = Cardinality(Present)
                 + (IF n # NULL THEN 1 ELSE 0) - (IF file[k] # NULL THEN 1 ELSE 0)
  <1>1. IsFiniteSet(Present) /\ IsFiniteSet(Present \ {k})
    <2>1. Present \subseteq Keys
      BY DEF Present
    <2>. QED BY <2>1, FS_Subset
  <1>2. Cardinality(Present) \in Nat /\ Cardinality(Present \ {k}) \in Nat
    BY <1>1, FS_CardinalityType
  <1>3. Cardinality(Present \ {k}) = IF k \in Present THEN Cardinality(Present) - 1 ELSE Cardinality(Present)
    BY <1>1, FS_RemoveElement
  <1>4. Cardinality((Present \ {k}) \cup {k}) = Cardinality(Present \ {k}) + 1
    BY <1>1, FS_AddElement
  <1>5. Present' = IF n # NULL THEN (Present \ {k}) \cup {k} ELSE Present \ {k}
    BY DEF Present, TypeOK
  <1>6. k \in Present <=> file[k] # NULL
    BY DEF Present
  <1>. QED BY <1>2, <1>3, <1>4, <1>5, <1>6

\* The size keeps its relation to the files if neither it nor their balance changes.
LEMMA SameAccount ==
    ASSUME Accounted, size' = size, Due' = Due, disturbed => disturbed', misaccounted => misaccounted'
    PROVE  Accounted'
  BY DEF Accounted

LEMMA SameDue ==
    ASSUME TypeOK, NEW p \in Procs, NEW l, pc' = [pc EXCEPT ![p] = l], file' = file,
           pc[p] \in {"put_stat", "drop_file", "add"} <=> l \in {"put_stat", "drop_file", "add"}, pc[p] = "sub" <=> l = "sub"
    PROVE  Due' = Due
  <1>1. Present' = Present
    BY DEF Present
  <1>0. /\ Cardinality(ToAdd) \in Nat /\ Cardinality(ToSub) \in Nat
        /\ Cardinality(ToAdd)' = Cardinality(ToAdd)
              + (IF l \in {"put_stat", "drop_file", "add"} THEN 1 ELSE 0)
              - (IF pc[p] \in {"put_stat", "drop_file", "add"} THEN 1 ELSE 0)
        /\ Cardinality(ToSub)' = Cardinality(ToSub)
              + (IF l = "sub" THEN 1 ELSE 0) - (IF pc[p] = "sub" THEN 1 ELSE 0)
    BY PlaceCards
  <1>2. Cardinality(ToAdd)' = Cardinality(ToAdd)
    BY <1>0
  <1>3. Cardinality(ToSub)' = Cardinality(ToSub)
    BY <1>0
  <1>. QED BY <1>1, <1>2, <1>3 DEF Due
-----------------------------------------------------------------------------
(* The search for an entry to remove touches no file.                      *)

LEMMA SearchIInv ==
    ASSUME IInv, NEW p \in Procs, pc[p] \in {"evict", "choose", "stat"},
           NEW l \in {"idle", "evict", "choose", "stat", "unlink", "open"},
           pc' = [pc EXCEPT ![p] = l], loc' \in [Procs -> Locals], Others(p),
           l = "idle" => loc'[p] = NoLocals,
           l # "idle" => /\ loc'[p].ino = loc[p].ino /\ loc'[p].pos = loc[p].pos
                         /\ loc'[p].alone = loc[p].alone,
           l \in {"evict", "choose", "open"} => loc'[p].key # NULL,
           l \in {"stat", "unlink"} => loc'[p].victim # NULL,
           l = "unlink" => file[loc'[p].victim] # NULL /\ loc'[p].blocks = len[file[loc'[p].victim]],
           UNCHANGED <<disk, size, ghost>>
    PROVE  IInv'
  <1>. USE DEF IInv
  <1>0. /\ pc'[p] = l /\ (\A q \in Procs : q # p => pc'[q] = pc[q] /\ loc'[q] = loc[q])
        /\ loc[p] \in Locals /\ loc'[p] \in Locals
        /\ file' = file /\ tmp' = tmp /\ len' = len /\ lock' = lock /\ disturbed' = disturbed /\ misaccounted' = misaccounted
    BY DEF TypeOK, Others, disk, ghost
  <1>1. TypeOK'
    BY <1>0 DEF TypeOK, Places, Opened
  <1>2. LocalsAt(p)'
    BY <1>0 DEF LocalsAt, Opened, NoLocals
  <1>3. \A q \in Procs : LocalsAt(q)'
    BY <1>0, <1>2, SameLocals
  <1>4. Locks'
    BY <1>0 DEF Locks, Holding, Opened, TypeOK
  <1>5. Names'
    BY <1>0 DEF Names
  <1>6. Orderly'
    <2>1. SUFFICES ASSUME ~disturbed PROVE (\A q \in Procs : KnowsAt(q)') /\ (\A k \in Keys : Whole(k)')
      BY <1>0 DEF Orderly
    <2>2. \A k \in Keys : Whole(k)
      BY <2>1 DEF Orderly
    <2>3. \A k \in Keys : Whole(k)'
      BY <1>0, <2>2 DEF Whole
    <2>4. KnowsAt(p)'
      BY <1>0, <2>2 DEF KnowsAt, Whole, Locals
    <2>5. \A q \in Procs : KnowsAt(q)'
      BY <1>0, <2>1, <2>4, SameKnowledge DEF Orderly
    <2>. QED BY <2>3, <2>5
  <1>7. \A q \in Procs : AloneAt(q)'
    <2>1. AloneAt(p)'
      BY <1>0 DEF AloneAt
    <2>. QED BY <1>0, <2>1, NotAlone
  <1>8. Accounted'
    <2>1. Due' = Due
      BY <1>0, SameDue
    <2>. QED BY <1>0, <2>1, SameAccount DEF ghost
  <1>. QED BY <1>1, <1>3, <1>4, <1>5, <1>6, <1>7, <1>8

LEMMA EvictTestIInv == ASSUME IInv, NEW p \in Procs, EvictTest(p) PROVE IInv'
  <1>0. TypeOK /\ LocalsAt(p) /\ pc[p] = "evict" /\ loc[p] \in Locals
    BY DEF EvictTest, IInv, TypeOK
  <1>1. loc[p].key # NULL
    BY <1>0 DEF LocalsAt
  <1>2. CASE loc' = [loc EXCEPT ![p].i = @ + 1, ![p].dir = 1] /\ Goto(p, "choose")
    <2>1. [loc[p] EXCEPT !.i = @ + 1] \in Locals
      BY <1>0, LocalsType DEF Locals
    <2>2. [[loc[p] EXCEPT !.i = @ + 1] EXCEPT !.dir = 1] \in Locals
      BY <2>1, LocalsType
    <2>3. loc' = [loc EXCEPT ![p] = [[loc[p] EXCEPT !.i = @ + 1] EXCEPT !.dir = 1]]
      BY <1>0, <1>2 DEF TypeOK
    <2>4. loc'[p] = [[loc[p] EXCEPT !.i = @ + 1] EXCEPT !.dir = 1]
      BY <1>0, <2>3 DEF TypeOK
    <2>5. /\ loc'[p].key = loc[p].key /\ loc'[p].ino = loc[p].ino /\ loc'[p].pos = loc[p].pos
          /\ loc'[p].alone = loc[p].alone
      BY <1>0, <2>4 DEF Locals
    <2>6. loc' \in [Procs -> Locals] /\ Others(p)
      BY <1>0, <2>2, <2>3 DEF TypeOK, Others
    <2>. QED BY <1>0, <1>1, <1>2, <2>5, <2>6, SearchIInv DEF EvictTest, Goto
  <1>3. CASE UNCHANGED loc /\ Goto(p, "open")
    BY <1>0, <1>1, <1>3, SearchIInv DEF EvictTest, Goto, TypeOK, Others
  <1>. QED BY <1>2, <1>3 DEF EvictTest

LEMMA ChooseIInv == ASSUME IInv, NEW p \in Procs, Choose(p) PROVE IInv'
  <1>0. TypeOK /\ LocalsAt(p) /\ pc[p] = "choose"
    BY DEF Choose, IInv
  <1>1. CASE \E k \in Keys : file[k] # NULL /\ loc' = [loc EXCEPT ![p].victim = k] /\ Goto(p, "stat")
    <2>1. PICK k \in Keys : loc' = [loc EXCEPT ![p].victim = k] /\ pc' = [pc EXCEPT ![p] = "stat"]
      BY <1>1 DEF Goto
    <2>2. /\ loc' \in [Procs -> Locals] /\ Others(p) /\ loc'[p].victim = k
          /\ loc'[p].ino = loc[p].ino /\ loc'[p].pos = loc[p].pos /\ loc'[p].alone = loc[p].alone
      BY <1>0, <2>1, SetVictim
    <2>. QED BY <1>0, <2>1, <2>2, SearchIInv DEF Choose
  <1>2. CASE Miss(p)
    BY <1>0, <1>2, MissEffect, SearchIInv DEF Choose
  <1>. QED BY <1>1, <1>2 DEF Choose

LEMMA StatIInv == ASSUME IInv, NEW p \in Procs, Stat(p) PROVE IInv'
  <1>0. TypeOK /\ LocalsAt(p) /\ pc[p] = "stat" /\ loc[p].victim \in Keys
    BY DEF Stat, IInv, LocalsAt, TypeOK, Locals
  <1>1. CASE Miss(p)
    BY <1>0, <1>1, MissEffect, SearchIInv DEF Stat
  <1>2. CASE /\ file[loc[p].victim] # NULL
             /\ loc' = [loc EXCEPT ![p].blocks = len[file[loc[p].victim]]] /\ Goto(p, "unlink")
    <2>1. len[file[loc[p].victim]] \in 0 .. Parts
      BY <1>0, <1>2 DEF TypeOK
    <2>2. /\ loc' \in [Procs -> Locals] /\ Others(p) /\ loc'[p].victim = loc[p].victim
          /\ loc'[p].blocks = len[file[loc[p].victim]]
          /\ loc'[p].ino = loc[p].ino /\ loc'[p].pos = loc[p].pos /\ loc'[p].alone = loc[p].alone
      BY <1>0, <1>2, <2>1, SetBlocks
    <2>. QED BY <1>0, <1>2, <2>2, SearchIInv DEF Stat, Goto
  <1>. QED BY <1>1, <1>2 DEF Stat
-----------------------------------------------------------------------------
(* Calls, the removal of an entry and its accounting.                      *)

LEMMA CallIInv ==
    ASSUME IInv, NEW p \in Procs, NEW k \in Keys, Put(p, k) \/ Remove(p, k)
    PROVE  IInv'
  <1>. USE DEF IInv
  <1>0. PICK l \in {"evict", "stat"}, x \in Keys \cup {NULL}, v \in Keys \cup {NULL} :
           Call(p, l, x, v) /\ (l = "evict" => x # NULL) /\ (l = "stat" => v # NULL)
    BY DEF Put, Remove
  <1>. DEFINE b == \A o \in Procs \ {p} : pc[o] = "idle"
              r == [NoLocals EXCEPT !.key = x, !.victim = v, !.alone = b]
  <1>1. /\ r \in Locals /\ r.ino = NULL /\ r.pos = 0 /\ r.key = x /\ r.victim = v
    <2>1. [NoLocals EXCEPT !.key = x] \in Locals
      BY NoLocalsType, LocalsType
    <2>2. [[NoLocals EXCEPT !.key = x] EXCEPT !.victim = v] \in Locals
      BY <2>1, LocalsType
    <2>3. r = [[[NoLocals EXCEPT !.key = x] EXCEPT !.victim = v] EXCEPT !.alone = b]
      OBVIOUS
    <2>4. r \in Locals
      BY <2>2, <2>3, LocalsFlags
    <2>5. r.ino = NULL /\ r.pos = 0 /\ r.key = x /\ r.victim = v
      BY DEF NoLocals
    <2>. QED BY <2>4, <2>5
  <1>2. r.alone => \A o \in Procs \ {p} : pc[o] = "idle"
    BY DEF NoLocals
  <1>3. loc' = [q \in Procs |-> IF q = p THEN r ELSE [loc[q] EXCEPT !.alone = FALSE]]
    BY <1>0 DEF Call
  <1>. HIDE DEF b, r
  <1>4. \A q \in Procs : loc[q] \in Locals
    BY DEF TypeOK
  <1>5. \A q \in Procs : [loc[q] EXCEPT !.alone = FALSE] \in Locals
    BY <1>4, LocalsFlags
  <1>6. loc' \in [Procs -> Locals]
    BY <1>1, <1>3, <1>5
  <1>7. \A q \in Procs : q # p => /\ pc'[q] = pc[q]
                                  /\ loc'[q].key = loc[q].key /\ loc'[q].ino = loc[q].ino
                                  /\ loc'[q].pos = loc[q].pos /\ loc'[q].victim = loc[q].victim
                                  /\ loc'[q].blocks = loc[q].blocks /\ loc'[q].failed = loc[q].failed
                                  /\ ~ loc'[q].alone
    <2>1. SUFFICES ASSUME NEW q \in Procs, q # p
                   PROVE  /\ pc'[q] = pc[q]
                          /\ loc'[q].key = loc[q].key /\ loc'[q].ino = loc[q].ino
                          /\ loc'[q].pos = loc[q].pos /\ loc'[q].victim = loc[q].victim
                          /\ loc'[q].blocks = loc[q].blocks /\ loc'[q].failed = loc[q].failed
                          /\ ~ loc'[q].alone
      OBVIOUS
    <2>2. pc'[q] = pc[q]
      BY <1>0, <2>1 DEF Call, Goto, TypeOK
    <2>3. loc'[q] = [loc[q] EXCEPT !.alone = FALSE]
      BY <1>3, <2>1, Zenon
    <2>. QED BY <1>4, <2>2, <2>3 DEF Locals
  <1>8. /\ pc[p] = "idle" /\ pc' = [pc EXCEPT ![p] = l] /\ pc'[p] = l /\ loc'[p] = r
        /\ file' = file /\ tmp' = tmp /\ len' = len /\ lock' = lock /\ size' = size
        /\ disturbed' = disturbed /\ misaccounted' = misaccounted
    BY <1>0, <1>3 DEF Call, Goto, disk, TypeOK
  <1>9. TypeOK'
    BY <1>6, <1>8 DEF TypeOK, Places, Opened
  <1>10. \A q \in Procs : LocalsAt(q)'
    <2>1. LocalsAt(p)'
      BY <1>0, <1>1, <1>8 DEF LocalsAt, Opened
    <2>2. \A q \in Procs : q # p => LocalsAt(q)'
      BY <1>7 DEF LocalsAt
    <2>. QED BY <2>1, <2>2
  <1>11. Locks'
    BY <1>0, <1>7, <1>8 DEF Locks, Holding, Opened, TypeOK
  <1>12. Names'
    BY <1>8 DEF Names
  <1>13. Orderly'
    <2>1. SUFFICES ASSUME ~disturbed PROVE (\A q \in Procs : KnowsAt(q)') /\ (\A j \in Keys : Whole(j)')
      BY <1>8 DEF Orderly
    <2>2. \A j \in Keys : Whole(j)'
      BY <1>8, <2>1 DEF Orderly, Whole
    <2>3. KnowsAt(p)'
      BY <1>0, <1>8 DEF KnowsAt
    <2>4. \A q \in Procs : q # p => KnowsAt(q)'
      BY <1>7, <1>8, <2>1 DEF KnowsAt, Orderly
    <2>. QED BY <2>2, <2>3, <2>4
  <1>14. \A q \in Procs : AloneAt(q)'
    <2>1. AloneAt(p)'
      BY <1>0, <1>2, <1>7, <1>8 DEF AloneAt
    <2>2. \A q \in Procs : q # p => AloneAt(q)'
      BY <1>7 DEF AloneAt
    <2>. QED BY <2>1, <2>2
  <1>15. Accounted'
    <2>1. Due' = Due
      BY <1>8, SameDue
    <2>. QED BY <1>8, <2>1, SameAccount
  <1>. QED BY <1>9, <1>10, <1>11, <1>12, <1>13, <1>14, <1>15

\* A change of the names of key k does not concern who works on other keys.
LEMMA OtherKey ==
    ASSUME TypeOK, NEW k \in Keys, NEW q \in Procs, LocalsAt(q), KnowsAt(q),
           pc[q] # "idle" => k \notin {loc[q].key, loc[q].victim},
           pc'[q] = pc[q], loc'[q] = loc[q], len' = len,
           \A j \in Keys : j # k => file'[j] = file[j] /\ tmp'[j] = tmp[j]
    PROVE  KnowsAt(q)'
  <1>1. loc[q].key \in Keys \cup {NULL} /\ loc[q].victim \in Keys \cup {NULL}
    BY DEF TypeOK, Locals
  <1>2. pc[q] # "idle" /\ loc[q].key # NULL =>
           file'[loc[q].key] = file[loc[q].key] /\ tmp'[loc[q].key] = tmp[loc[q].key]
    BY <1>1
  <1>3. pc[q] # "idle" /\ loc[q].victim # NULL => file'[loc[q].victim] = file[loc[q].victim]
    BY <1>1
  <1>. QED BY <1>2, <1>3 DEF KnowsAt, LocalsAt, Opened

LEMMA UnlinkIInv == ASSUME IInv, NEW p \in Procs, Unlink(p) PROVE IInv'
  <1>. USE DEF IInv
  <1>. DEFINE v == loc[p].victim
              Removed == /\ file' = [file EXCEPT ![v] = NULL]
                         /\ disturbed' = (disturbed \/ InUse(p, v)) /\ misaccounted' = misaccounted
              Kept == file' = file /\ disturbed' = disturbed /\ misaccounted' = TRUE
  <1>0. /\ pc[p] = "unlink" /\ loc[p] \in Locals /\ v \in Keys /\ loc[p].ino = NULL /\ loc[p].pos = 0
        /\ tmp' = tmp /\ len' = len /\ lock' = lock /\ size' = size
        /\ Removed \/ Kept
    BY DEF Unlink, TypeOK, LocalsAt, Locals, Opened
  \* The flag stays set, and is set if the step is in somebody's way.
  <1>00. (disturbed => disturbed') /\ (file' = file \/ (InUse(p, v) => disturbed'))
    <2>1. CASE Removed
      BY <2>1
    <2>2. CASE Kept
      BY <2>2
    <2>. QED BY <1>0, <2>1, <2>2, Zenon
  <1>1. /\ loc' \in [Procs -> Locals] /\ Others(p)
        /\ \/ pc' = [pc EXCEPT ![p] = "sub"] /\ loc' = loc /\ loc[p].blocks # 0
           \/ loc[p].blocks = 0 /\ Miss(p)
    BY MissEffect DEF Unlink, Goto, TypeOK, Others
  <1>2. PICK l \in {"idle", "evict", "choose", "sub"} :
           /\ pc' = [pc EXCEPT ![p] = l]
           /\ l = "sub" <=> loc[p].blocks # 0
           /\ l = "idle" => loc'[p] = NoLocals
           /\ l # "idle" => /\ loc'[p].key = loc[p].key /\ loc'[p].ino = loc[p].ino
                            /\ loc'[p].pos = loc[p].pos /\ loc'[p].alone = loc[p].alone
           /\ l \in {"evict", "choose"} => loc[p].key # NULL
           /\ l = "sub" => loc' = loc
    BY <1>1, MissEffect
  <1>3. /\ pc'[p] = l /\ loc'[p] \in Locals
        /\ \A q \in Procs : q # p => pc'[q] = pc[q] /\ loc'[q] = loc[q]
    BY <1>1, <1>2 DEF TypeOK, Others
  <1>4. TypeOK'
    <2>1. disturbed' \in BOOLEAN /\ misaccounted' \in BOOLEAN /\ file' \in [Keys -> Inodes \cup {NULL}]
      BY <1>0 DEF TypeOK, InUse
    <2>. QED BY <1>0, <1>1, <1>2, <2>1 DEF TypeOK, Places
  <1>5. \A q \in Procs : LocalsAt(q)'
    <2>1. LocalsAt(p)'
      BY <1>0, <1>2, <1>3 DEF LocalsAt, Opened, NoLocals
    <2>. QED BY <1>3, <2>1, SameLocals
  <1>6. Locks'
    BY <1>0, <1>2, <1>3 DEF Locks, Holding, Opened, TypeOK
  <1>7. Names'
    BY <1>0 DEF Names, TypeOK
  <1>8. Orderly'
    <2>1. SUFFICES ASSUME ~disturbed' PROVE (\A q \in Procs : KnowsAt(q)') /\ (\A j \in Keys : Whole(j)')
      BY DEF Orderly
    <2>2. /\ ~disturbed /\ (file' = file \/ ~InUse(p, v))
          /\ (\A q \in Procs : KnowsAt(q)) /\ (\A j \in Keys : Whole(j))
      BY <1>00, <2>1 DEF Orderly
    <2>3. \A j \in Keys : Whole(j)'
      BY <1>0, <2>2 DEF Whole, TypeOK
    <2>4. KnowsAt(p)'
      BY <1>0, <1>2, <1>3, <2>2 DEF KnowsAt
    <2>5. \A j \in Keys : j # v => file'[j] = file[j] /\ tmp'[j] = tmp[j]
      BY <1>0 DEF TypeOK
    <2>6. \A q \in Procs : q # p => KnowsAt(q)'
      <3>1. CASE file' = file
        BY <1>0, <1>3, <2>2, <3>1, SameKnowledge
      <3>2. CASE ~InUse(p, v)
        BY <1>0, <1>3, <2>2, <2>5, <3>2, OtherKey DEF InUse
      <3>. QED BY <2>2, <3>1, <3>2
    <2>. QED BY <2>3, <2>4, <2>6
  <1>9. \A q \in Procs : AloneAt(q)'
    <2>1. AloneAt(p)'
      BY <1>0, <1>2, <1>3, ZenonT(60) DEF AloneAt
    <2>. QED BY <1>0, <1>3, <2>1, NotAlone
  <1>10. Accounted'
    <2>1. SUFFICES ASSUME ~disturbed', ~misaccounted' PROVE Accounted'
      BY DEF Accounted
    <2>2. ~disturbed /\ KnowsAt(p) /\ Removed
      BY <1>0, <2>1 DEF Orderly
    <2>3. file[v] # NULL /\ l = "sub"
      BY <1>0, <1>2, <2>2 DEF KnowsAt
    <2>4. /\ Cardinality(Present) \in Nat
          /\ Cardinality(Present)' = Cardinality(Present)
                + (IF NULL # NULL THEN 1 ELSE 0) - (IF file[v] # NULL THEN 1 ELSE 0)
      BY <1>0, <2>2, NameCards
    <2>5. /\ Cardinality(ToAdd) \in Nat /\ Cardinality(ToSub) \in Nat
          /\ Cardinality(ToAdd)' = Cardinality(ToAdd)
                + (IF l \in {"put_stat", "drop_file", "add"} THEN 1 ELSE 0)
                - (IF pc[p] \in {"put_stat", "drop_file", "add"} THEN 1 ELSE 0)
          /\ Cardinality(ToSub)' = Cardinality(ToSub)
                + (IF l = "sub" THEN 1 ELSE 0) - (IF pc[p] = "sub" THEN 1 ELSE 0)
      BY <1>2, PlaceCards
    <2>6. Cardinality(ToAdd)' = Cardinality(ToAdd) /\ Cardinality(ToSub)' = Cardinality(ToSub) + 1
      BY <1>0, <2>3, <2>5
    <2>7. Due' = Due
      BY <2>3, <2>4, <2>5, <2>6 DEF Due
    <2>. QED BY <1>0, <2>2, <2>7, SameAccount
  <1>. QED BY <1>4, <1>5, <1>6, <1>7, <1>8, <1>9, <1>10

\* Arithmetic modulo the width of the counter.
LEMMA ModUnique ==
    ASSUME NEW a \in Int, NEW c \in Int, NEW d \in 0 .. Word - 1, a = Word * c + d
    PROVE  a % Word = d
  OBVIOUS

LEMMA ModAdd ==
    ASSUME NEW a \in Int, NEW b \in Int
    PROVE  ((a % Word) + b) % Word = (a + b) % Word
  <1>. DEFINE q == a \div Word
              r == a % Word
              c == (r + b) \div Word
              d == (r + b) % Word
  <1>1. a = Word * q + r /\ q \in Int /\ r \in Int
    OBVIOUS
  <1>. HIDE DEF q, r
  <1>2. r + b = Word * c + d /\ c \in Int /\ d \in 0 .. Word - 1
    BY <1>1
  <1>. HIDE DEF c, d
  <1>3. a + b = Word * (q + c) + d
    BY <1>1, <1>2
  <1>4. (a + b) % Word = d
    <2>1. a + b \in Int /\ q + c \in Int
      BY <1>1, <1>2
    <2>. QED BY <1>2, <1>3, <2>1, ModUnique
  <1>. QED BY <1>4 DEF r, d

\* The counter after it was changed by one entry.
LEMMA Adjusted ==
    ASSUME NEW n \in Int, NEW e \in {-1, 1}, size = (n * Parts) % Word
    PROVE  (size + e * Parts) % Word = ((n + e) * Parts) % Word
  <1>1. n * Parts \in Int /\ e * Parts \in Int
    OBVIOUS
  <1>2. (size + e * Parts) % Word = (n * Parts + e * Parts) % Word
    BY <1>1, ModAdd
  <1>3. n * Parts + e * Parts = (n + e) * Parts
    OBVIOUS
  <1>. QED BY <1>2, <1>3

LEMMA SubIInv == ASSUME IInv, NEW p \in Procs, Sub(p) PROVE IInv'
  <1>. USE DEF IInv
  <1>0. /\ pc[p] = "sub" /\ loc[p] \in Locals /\ loc[p].ino = NULL /\ loc[p].pos = 0
        /\ file' = file /\ tmp' = tmp /\ len' = len /\ lock' = lock /\ disturbed' = disturbed /\ misaccounted' = misaccounted
        /\ size' = (size - loc[p].blocks) % Word
    BY DEF Sub, TypeOK, LocalsAt, Opened, disk, ghost
  <1>1. PICK l \in {"idle", "evict"} :
           /\ pc' = [pc EXCEPT ![p] = l] /\ loc' \in [Procs -> Locals] /\ Others(p)
           /\ l = "idle" => loc'[p] = NoLocals
           /\ l # "idle" => /\ loc'[p].key = loc[p].key /\ loc'[p].ino = loc[p].ino
                            /\ loc'[p].pos = loc[p].pos /\ loc'[p].alone = loc[p].alone
                            /\ loc[p].key # NULL
    <2>1. CASE Return(p)
      BY <2>1, NoLocalsType DEF Return, Goto, TypeOK, Others
    <2>2. CASE loc[p].key # NULL /\ loc' = [loc EXCEPT ![p].victim = NULL] /\ Goto(p, "evict")
      BY <2>2, SetVictim DEF Goto
    <2>. QED BY <2>1, <2>2 DEF Sub
  <1>2. /\ pc'[p] = l /\ loc'[p] \in Locals
        /\ \A q \in Procs : q # p => pc'[q] = pc[q] /\ loc'[q] = loc[q]
    BY <1>1 DEF TypeOK, Others
  <1>3. TypeOK'
    <2>1. size' \in Int
      BY <1>0 DEF TypeOK, Locals
    <2>. QED BY <1>0, <1>1, <2>1 DEF TypeOK, Places
  <1>4. \A q \in Procs : LocalsAt(q)'
    <2>1. LocalsAt(p)'
      BY <1>0, <1>1, <1>2 DEF LocalsAt, Opened, NoLocals
    <2>. QED BY <1>2, <2>1, SameLocals
  <1>5. Locks'
    BY <1>0, <1>1, <1>2 DEF Locks, Holding, Opened, TypeOK
  <1>6. Names'
    BY <1>0 DEF Names
  <1>7. Orderly'
    <2>1. SUFFICES ASSUME ~disturbed PROVE (\A q \in Procs : KnowsAt(q)') /\ (\A j \in Keys : Whole(j)')
      BY <1>0 DEF Orderly
    <2>2. \A j \in Keys : Whole(j)'
      BY <1>0, <2>1 DEF Orderly, Whole
    <2>3. KnowsAt(p)'
      BY <1>1, <1>2 DEF KnowsAt
    <2>. QED BY <1>0, <1>2, <2>1, <2>2, <2>3, SameKnowledge DEF Orderly
  <1>8. \A q \in Procs : AloneAt(q)'
    <2>1. AloneAt(p)'
      BY <1>0, <1>1, <1>2 DEF AloneAt
    <2>. QED BY <1>0, <1>2, <2>1, NotAlone
  <1>9. Accounted'
    <2>1. SUFFICES ASSUME ~disturbed, ~misaccounted PROVE size' = (Due * Parts)' % Word
      BY <1>0 DEF Accounted
    <2>2. loc[p].blocks = Parts
      BY <1>0, <2>1 DEF Orderly, KnowsAt
    <2>4. Present' = Present /\ Cardinality(Present) \in Nat
      <3>1. Present' = Present /\ Present \subseteq Keys
        BY <1>0 DEF Present
      <3>. QED BY <3>1, FS_Subset, FS_CardinalityType
    <2>5. /\ Cardinality(ToAdd) \in Nat /\ Cardinality(ToSub) \in Nat
          /\ Cardinality(ToAdd)' = Cardinality(ToAdd)
                + (IF l \in {"put_stat", "drop_file", "add"} THEN 1 ELSE 0)
                - (IF pc[p] \in {"put_stat", "drop_file", "add"} THEN 1 ELSE 0)
          /\ Cardinality(ToSub)' = Cardinality(ToSub)
                + (IF l = "sub" THEN 1 ELSE 0) - (IF pc[p] = "sub" THEN 1 ELSE 0)
      BY <1>1, PlaceCards
    <2>6. Cardinality(ToAdd)' = Cardinality(ToAdd) /\ Cardinality(ToSub)' = Cardinality(ToSub) - 1
      BY <1>0, <1>1, <2>5
    <2>7. Due \in Int /\ Due' = Due + (-1)
      BY <2>4, <2>5, <2>6 DEF Due
    <2>8. size = (Due * Parts) % Word
      BY <2>1 DEF Accounted
    <2>9. (size + (-1) * Parts) % Word = ((Due + (-1)) * Parts) % Word
      BY <2>7, <2>8, Adjusted
    <2>10. size - Parts = size + (-1) * Parts
      BY DEF TypeOK
    <2>. QED BY <1>0, <2>2, <2>7, <2>9, <2>10
  <1>. QED BY <1>3, <1>4, <1>5, <1>6, <1>7, <1>8, <1>9
-----------------------------------------------------------------------------
(* A put: the steps that change no file.                                   *)

\* Process p goes on with its put, and only looks at the files.
LEMMA LookIInv ==
    ASSUME IInv, NEW p \in Procs, pc[p] \in {"check", "put_stat"},
           NEW l \in {"write", "drop_tmp", "add", "drop_file"},
           pc' = [pc EXCEPT ![p] = l], loc' \in [Procs -> Locals], Others(p),
           loc'[p].key = loc[p].key, loc'[p].ino = loc[p].ino, loc'[p].pos = loc[p].pos,
           loc'[p].alone = loc[p].alone,
           UNCHANGED <<file, tmp, len, lock, size, misaccounted>>,
           disturbed' \in BOOLEAN, disturbed => disturbed',
           pc[p] = "check" => /\ l \in {"write", "drop_tmp"}
                              /\ l = "drop_tmp" => file[loc[p].key] # NULL
                              /\ l = "write" => disturbed' \/ file[loc[p].key] = NULL,
           pc[p] = "put_stat" => /\ l \in {"add", "drop_file"}
                                 /\ l = "add" => /\ file[loc[p].key] # NULL
                                                 /\ loc'[p].blocks = len[file[loc[p].key]]
                                 /\ l = "drop_file" => loc'[p].failed
    PROVE  IInv'
  <1>. USE DEF IInv
  <1>0. /\ pc'[p] = l /\ (\A q \in Procs : q # p => pc'[q] = pc[q] /\ loc'[q] = loc[q])
        /\ loc[p] \in Locals /\ loc'[p] \in Locals
        /\ file' = file /\ tmp' = tmp /\ len' = len /\ lock' = lock /\ misaccounted' = misaccounted
    BY DEF TypeOK, Others
  <1>1. TypeOK'
    BY <1>0 DEF TypeOK, Places, Opened
  <1>2. \A q \in Procs : LocalsAt(q)'
    <2>1. LocalsAt(p)'
      BY <1>0 DEF LocalsAt, Opened
    <2>. QED BY <1>0, <2>1, SameLocals
  <1>3. Locks'
    BY <1>0 DEF Locks, Holding, Opened, TypeOK
  <1>4. Names'
    BY <1>0 DEF Names
  <1>5. Orderly'
    <2>1. SUFFICES ASSUME ~disturbed' PROVE (\A q \in Procs : KnowsAt(q)') /\ (\A k \in Keys : Whole(k)')
      BY DEF Orderly
    <2>2. (\A k \in Keys : Whole(k)) /\ KnowsAt(p)
      BY <2>1 DEF Orderly
    <2>3. \A k \in Keys : Whole(k)'
      BY <1>0, <2>2 DEF Whole
    <2>4. KnowsAt(p)'
      BY <1>0, <2>1, <2>2 DEF KnowsAt, Whole, LocalsAt, Opened, TypeOK, Locals
    <2>5. \A q \in Procs : KnowsAt(q)'
      BY <1>0, <2>1, <2>4, SameKnowledge DEF Orderly
    <2>. QED BY <2>3, <2>5
  <1>6. \A q \in Procs : AloneAt(q)'
    <2>1. AloneAt(p)'
      BY <1>0, ZenonT(60) DEF AloneAt
    <2>. QED BY <1>0, <2>1, NotAlone
  <1>7. Accounted'
    <2>1. Due' = Due
      BY <1>0, SameDue
    <2>. QED BY <1>0, <2>1, SameAccount
  <1>. QED BY <1>1, <1>2, <1>3, <1>4, <1>5, <1>6, <1>7

LEMMA CheckIInv == ASSUME IInv, NEW p \in Procs, Check(p) PROVE IInv'
  <1>1. /\ pc[p] = "check" /\ loc' = loc /\ loc \in [Procs -> Locals] /\ Others(p)
        /\ UNCHANGED <<file, tmp, len, lock, size, misaccounted>>
        /\ disturbed' \in BOOLEAN /\ (disturbed => disturbed')
    BY DEF Check, disk, IInv, TypeOK, Others
  <1>2. PICK l \in {"write", "drop_tmp"} :
           /\ pc' = [pc EXCEPT ![p] = l]
           /\ l = "drop_tmp" => file[loc[p].key] # NULL
           /\ l = "write" => disturbed' \/ file[loc[p].key] = NULL
    BY DEF Check, Goto
  <1>. QED BY <1>1, <1>2, LookIInv

LEMMA PutStatIInv == ASSUME IInv, NEW p \in Procs, PutStat(p) PROVE IInv'
  <1>1. /\ pc[p] = "put_stat" /\ TypeOK /\ loc[p].key \in Keys
        /\ UNCHANGED <<file, tmp, len, lock, size, disturbed, misaccounted>> /\ disturbed \in BOOLEAN
    BY DEF PutStat, disk, ghost, IInv, TypeOK, LocalsAt, Opened, Locals
  <1>2. CASE /\ file[loc[p].key] # NULL
             /\ loc' = [loc EXCEPT ![p].blocks = len[file[loc[p].key]]] /\ Goto(p, "add")
    <2>1. len[file[loc[p].key]] \in 0 .. Parts
      BY <1>1, <1>2 DEF TypeOK
    <2>2. /\ loc' \in [Procs -> Locals] /\ Others(p) /\ loc'[p].blocks = len[file[loc[p].key]]
          /\ loc'[p].key = loc[p].key /\ loc'[p].ino = loc[p].ino /\ loc'[p].pos = loc[p].pos
          /\ loc'[p].alone = loc[p].alone
      BY <1>1, <1>2, <2>1, SetBlocks
    <2>. QED BY <1>1, <1>2, <2>2, LookIInv DEF Goto
  <1>3. CASE Fail(p, "drop_file")
    <2>1. /\ loc' \in [Procs -> Locals] /\ Others(p) /\ loc'[p].failed = TRUE
          /\ loc'[p].key = loc[p].key /\ loc'[p].ino = loc[p].ino /\ loc'[p].pos = loc[p].pos
          /\ loc'[p].alone = loc[p].alone
      BY <1>1, <1>3, SetFailed DEF Fail
    <2>. QED BY <1>1, <1>3, <2>1, LookIInv DEF Fail, Goto
  <1>. QED BY <1>2, <1>3 DEF PutStat

\* A system call of a put fails before the entry has its name.
LEMMA FailIInv ==
    ASSUME IInv, NEW p \in Procs, NEW l,
           \/ pc[p] \in {"open", "lock"} /\ l = "close"
           \/ pc[p] \in {"write", "rename"} /\ l = "drop_tmp",
           Fail(p, l), UNCHANGED <<file, tmp, len, lock, size, disturbed, misaccounted>>
    PROVE  IInv'
  <1>. USE DEF IInv
  <1>0. /\ pc' = [pc EXCEPT ![p] = l] /\ pc'[p] = l
        /\ loc' \in [Procs -> Locals] /\ Others(p) /\ loc'[p].failed = TRUE
        /\ loc'[p].key = loc[p].key /\ loc'[p].ino = loc[p].ino /\ loc'[p].pos = loc[p].pos
        /\ loc'[p].alone = loc[p].alone
    BY SetFailed, ZenonT(60) DEF Fail, Goto, TypeOK
  <1>1. \A q \in Procs : q # p => pc'[q] = pc[q] /\ loc'[q] = loc[q]
    BY <1>0 DEF TypeOK, Others
  <1>2. TypeOK'
    BY <1>0 DEF TypeOK, Places, Opened
  <1>3. \A q \in Procs : LocalsAt(q)'
    <2>1. LocalsAt(p)'
      BY <1>0 DEF LocalsAt, Opened
    <2>. QED BY <1>1, <2>1, SameLocals
  <1>4. Locks'
    BY <1>0, <1>1 DEF Locks, Holding, Opened, TypeOK
  <1>5. Names'
    BY DEF Names
  <1>6. Orderly'
    <2>1. SUFFICES ASSUME ~disturbed PROVE (\A q \in Procs : KnowsAt(q)') /\ (\A j \in Keys : Whole(j)')
      BY DEF Orderly
    <2>2. \A j \in Keys : Whole(j)'
      BY <2>1 DEF Orderly, Whole
    <2>3. KnowsAt(p)'
      BY <1>0 DEF KnowsAt
    <2>. QED BY <1>1, <2>1, <2>2, <2>3, SameKnowledge DEF Orderly
  <1>7. \A q \in Procs : AloneAt(q)'
    <2>1. AloneAt(p)'
      BY <1>0, <1>1 DEF AloneAt
    <2>. QED BY <1>1, <2>1, NotAlone
  <1>8. Accounted'
    <2>1. Due' = Due
      BY <1>0, SameDue
    <2>. QED BY <2>1, SameAccount
  <1>. QED BY <1>2, <1>3, <1>4, <1>5, <1>6, <1>7, <1>8

\* The flock of process p is taken, or another process has it.
LEMMA TakeIInv ==
    ASSUME IInv, NEW p \in Procs, pc[p] = "lock",
           UNCHANGED <<file, tmp, len, size, loc, disturbed, misaccounted>>,
           NEW l \in {"check", "close"}, pc' = [pc EXCEPT ![p] = l],
           l = "check" => lock[loc[p].ino] = NULL /\ lock' = [lock EXCEPT ![loc[p].ino] = p],
           l = "close" => lock[loc[p].ino] # NULL /\ lock' = lock
    PROVE  IInv'
  <1>. USE DEF IInv
  <1>. DEFINE n == loc[p].ino
  <1>0. /\ pc[p] = "lock" /\ n \in Inodes /\ loc[p].key # NULL /\ loc[p].pos = 0
        /\ file' = file /\ tmp' = tmp /\ len' = len /\ loc' = loc /\ size' = size /\ disturbed' = disturbed /\ misaccounted' = misaccounted
    BY DEF TypeOK, LocalsAt, Opened, Locals
  <1>1. /\ pc' = [pc EXCEPT ![p] = l]
        /\ l = "check" => lock[n] = NULL /\ lock' = [lock EXCEPT ![n] = p]
        /\ l = "close" => lock[n] # NULL /\ lock' = lock
    OBVIOUS
  <1>2. pc'[p] = l /\ (\A q \in Procs : q # p => pc'[q] = pc[q])
    BY <1>1 DEF TypeOK
  <1>3. TypeOK'
    BY <1>0, <1>1 DEF TypeOK, Places, Opened
  <1>4. \A q \in Procs : LocalsAt(q)'
    <2>1. LocalsAt(p)'
      BY <1>0, <1>1, <1>2 DEF LocalsAt, Opened
    <2>. QED BY <1>0, <1>2, <2>1, SameLocals
  <1>5. Locks'
    <2>1. CASE l = "check"
      <3>1. lock'[n] = p /\ (\A m \in Inodes : m # n => lock'[m] = lock[m])
        BY <1>0, <1>1, <2>1 DEF TypeOK
      <3>2. \A q \in Procs : pc[q] \in Holding => loc[q].ino # n
        BY <1>1, <2>1 DEF Locks
      <3>3. \A q \in Procs : pc[q] \in Holding => loc[q].ino \in Inodes
        BY DEF LocalsAt, Holding, TypeOK, Locals
      <3>4. \A q \in Procs : pc'[q] \in Holding => lock'[loc'[q].ino] = q
        BY <1>0, <1>2, <2>1, <3>1, <3>2, <3>3 DEF Locks
      <3>5. \A m \in Inodes : lock'[m] # NULL => loc'[lock'[m]].ino = m
        BY <1>0, <3>1 DEF Locks
      <3>6. \A m \in Inodes : lock'[m] # NULL => pc'[lock'[m]] \in {"close"} \cup Holding
        BY <1>0, <1>2, <2>1, <3>1 DEF Locks, Holding, Opened, TypeOK
      <3>. QED BY <3>4, <3>5, <3>6 DEF Locks
    <2>2. CASE l = "close"
      BY <1>0, <1>1, <1>2, <2>2 DEF Locks, Holding, Opened, TypeOK
    <2>. QED BY <2>1, <2>2
  <1>6. Names'
    BY <1>0 DEF Names
  <1>7. Orderly'
    <2>1. SUFFICES ASSUME ~disturbed PROVE (\A q \in Procs : KnowsAt(q)') /\ (\A k \in Keys : Whole(k)')
      BY <1>0 DEF Orderly
    <2>2. \A k \in Keys : Whole(k)'
      BY <1>0, <2>1 DEF Orderly, Whole
    <2>3. KnowsAt(p)'
      BY <1>0, <1>1, <1>2, <2>1 DEF KnowsAt, Orderly
    <2>. QED BY <1>0, <1>2, <2>1, <2>2, <2>3, SameKnowledge DEF Orderly
  <1>8. \A q \in Procs : AloneAt(q)'
    <2>1. AloneAt(p)'
      <3>1. SUFFICES ASSUME loc[p].alone PROVE AloneAt(p)'
        BY <1>0 DEF AloneAt
      <3>2. \A q \in Procs : q # p => pc[q] = "idle"
        BY <1>0, <3>1 DEF AloneAt
      <3>3. lock[n] = NULL
        BY <1>0, <3>2 DEF Locks, Holding, Opened, TypeOK
      <3>. QED BY <1>0, <1>1, <1>2, <3>1, <3>2, <3>3 DEF AloneAt
    <2>. QED BY <1>0, <1>2, <2>1, NotAlone
  <1>9. Accounted'
    <2>1. Due' = Due
      BY <1>0, <1>1, SameDue
    <2>. QED BY <1>0, <2>1, SameAccount
  <1>. QED BY <1>3, <1>4, <1>5, <1>6, <1>7, <1>8, <1>9

LEMMA FlockIInv == ASSUME IInv, NEW p \in Procs, Flock(p) PROVE IInv'
  <1>1. pc[p] = "lock" /\ UNCHANGED <<file, tmp, len, size, disturbed, misaccounted>>
    BY DEF Flock, ghost
  <1>2. CASE Fail(p, "close") /\ UNCHANGED lock
    BY <1>1, <1>2, FailIInv
  <1>3. CASE \E l \in {"check", "close"} :
                /\ pc' = [pc EXCEPT ![p] = l] /\ UNCHANGED loc
                /\ l = "check" => lock[loc[p].ino] = NULL /\ lock' = [lock EXCEPT ![loc[p].ino] = p]
                /\ l = "close" => lock[loc[p].ino] # NULL /\ lock' = lock
    BY <1>1, <1>3, TakeIInv
  <1>. QED BY <1>2, <1>3 DEF Flock, Goto

LEMMA AddIInv == ASSUME IInv, NEW p \in Procs, Add(p) PROVE IInv'
  <1>. USE DEF IInv
  <1>0. /\ pc[p] = "add" /\ pc' = [pc EXCEPT ![p] = "close"] /\ loc' = loc
        /\ file' = file /\ tmp' = tmp /\ len' = len /\ lock' = lock /\ disturbed' = disturbed /\ misaccounted' = misaccounted
        /\ size' = (size + loc[p].blocks) % Word
    BY DEF Add, Goto, disk, ghost
  <1>1. pc'[p] = "close" /\ (\A q \in Procs : q # p => pc'[q] = pc[q])
    BY <1>0 DEF TypeOK
  <1>2. TypeOK'
    <2>1. size' \in Int
      BY <1>0 DEF TypeOK, Locals
    <2>. QED BY <1>0, <2>1 DEF TypeOK, Places
  <1>3. \A q \in Procs : LocalsAt(q)'
    <2>1. LocalsAt(p)'
      BY <1>0, <1>1 DEF LocalsAt, Opened
    <2>. QED BY <1>0, <1>1, <2>1, SameLocals
  <1>4. Locks'
    BY <1>0, <1>1 DEF Locks, Holding, Opened, TypeOK
  <1>5. Names'
    BY <1>0 DEF Names
  <1>6. Orderly'
    <2>1. SUFFICES ASSUME ~disturbed PROVE (\A q \in Procs : KnowsAt(q)') /\ (\A k \in Keys : Whole(k)')
      BY <1>0 DEF Orderly
    <2>2. \A k \in Keys : Whole(k)'
      BY <1>0, <2>1 DEF Orderly, Whole
    <2>3. KnowsAt(p)'
      BY <1>1 DEF KnowsAt
    <2>. QED BY <1>0, <1>1, <2>1, <2>2, <2>3, SameKnowledge DEF Orderly
  <1>7. \A q \in Procs : AloneAt(q)'
    <2>1. AloneAt(p)'
      BY <1>0, <1>1 DEF AloneAt
    <2>. QED BY <1>0, <1>1, <2>1, NotAlone
  <1>8. Accounted'
    <2>1. SUFFICES ASSUME ~disturbed, ~misaccounted PROVE size' = (Due * Parts)' % Word
      BY <1>0 DEF Accounted
    <2>2. loc[p].blocks = Parts
      BY <1>0, <2>1 DEF Orderly, KnowsAt
    <2>3. Present' = Present /\ Cardinality(Present) \in Nat
      <3>1. Present' = Present /\ Present \subseteq Keys
        BY <1>0 DEF Present
      <3>. QED BY <3>1, FS_Subset, FS_CardinalityType
    <2>4. /\ Cardinality(ToAdd) \in Nat /\ Cardinality(ToSub) \in Nat
          /\ Cardinality(ToAdd)' = Cardinality(ToAdd)
                + (IF "close" \in {"put_stat", "drop_file", "add"} THEN 1 ELSE 0)
                - (IF pc[p] \in {"put_stat", "drop_file", "add"} THEN 1 ELSE 0)
          /\ Cardinality(ToSub)' = Cardinality(ToSub)
                + (IF "close" = "sub" THEN 1 ELSE 0) - (IF pc[p] = "sub" THEN 1 ELSE 0)
      BY <1>0, PlaceCards
    <2>5. Cardinality(ToAdd)' = Cardinality(ToAdd) - 1 /\ Cardinality(ToSub)' = Cardinality(ToSub)
      BY <1>0, <2>4
    <2>6. Due \in Int /\ Due' = Due + 1
      BY <2>3, <2>4, <2>5 DEF Due
    <2>7. size = (Due * Parts) % Word
      BY <2>1 DEF Accounted
    <2>8. (size + 1 * Parts) % Word = ((Due + 1) * Parts) % Word
      BY <2>6, <2>7, Adjusted
    <2>. QED BY <1>0, <2>2, <2>6, <2>8
  <1>. QED BY <1>2, <1>3, <1>4, <1>5, <1>6, <1>7, <1>8
-----------------------------------------------------------------------------
(* A put: the steps that change the files.                                 *)

\* A function has at most as many values as arguments.
LEMMA Values ==
    ASSUME NEW S, NEW T, IsFiniteSet(S), NEW f \in [S -> T], NEW R, \A y \in R : \E x \in S : y = f[x]
    PROVE  IsFiniteSet(R) /\ Cardinality(R) \in Nat /\ Cardinality(R) <= Cardinality(S)
  <1>. DEFINE I == {f[x] : x \in S}
  <1>1. f \in Surjection(S, I)
    BY DEF Surjection
  <1>2. R \subseteq I
    OBVIOUS
  <1>. HIDE DEF I
  <1>3. IsFiniteSet(I) /\ Cardinality(I) <= Cardinality(S)
    BY <1>1, FS_Surjection
  <1>4. IsFiniteSet(R) /\ Cardinality(R) <= Cardinality(I)
    BY <1>2, <1>3, FS_Subset
  <1>5. Cardinality(R) \in Nat /\ Cardinality(I) \in Nat /\ Cardinality(S) \in Nat
    BY <1>3, <1>4, FS_CardinalityType
  <1>. QED BY <1>3, <1>4, <1>5

\* There is an inode for a new file.
LEMMA FreshFree ==
    ASSUME TypeOK, NEW k0 \in Keys, tmp[k0] = NULL
    PROVE  /\ Fresh \in Inodes
           /\ \A k \in Keys : Fresh # file[k] /\ Fresh # tmp[k]
           /\ \A q \in Procs : Fresh # loc[q].ino
  <1>. DEFINE ino == [q \in Procs |-> loc[q].ino]
              F == {file[k] : k \in Keys}
              T == {tmp[k] : k \in Keys}
              P == {ino[q] : q \in Procs}
              U == (F \cup T) \cup P
              M == Cardinality(Procs) + 2 * Cardinality(Keys)
  <1>1. /\ IsFiniteSet(F) /\ Cardinality(F) \in Nat /\ Cardinality(F) <= Cardinality(Keys)
        /\ IsFiniteSet(T) /\ Cardinality(T) \in Nat /\ Cardinality(T) <= Cardinality(Keys)
    <2>1. file \in [Keys -> Inodes \cup {NULL}] /\ tmp \in [Keys -> Inodes \cup {NULL}]
      BY DEF TypeOK
    <2>2. (\A y \in F : \E k \in Keys : y = file[k]) /\ (\A y \in T : \E k \in Keys : y = tmp[k])
      OBVIOUS
    <2>. HIDE DEF F, T
    <2>3. IsFiniteSet(F) /\ Cardinality(F) \in Nat /\ Cardinality(F) <= Cardinality(Keys)
      BY <2>1, <2>2, Values
    <2>4. IsFiniteSet(T) /\ Cardinality(T) \in Nat /\ Cardinality(T) <= Cardinality(Keys)
      BY <2>1, <2>2, Values
    <2>. QED BY <2>3, <2>4
  <1>2. IsFiniteSet(P) /\ Cardinality(P) \in Nat /\ Cardinality(P) <= Cardinality(Procs)
    <2>1. ino \in [Procs -> {loc[q].ino : q \in Procs}] /\ \A y \in P : \E q \in Procs : y = ino[q]
      OBVIOUS
    <2>. HIDE DEF P, ino
    <2>. QED BY <2>1, Values
  <1>3. Cardinality(Procs) \in Nat /\ Cardinality(Keys) \in Nat
    BY FS_CardinalityType
  <1>4. NULL \in T
    OBVIOUS
  <1>5. \A q \in Procs : loc[q].ino \in P
    OBVIOUS
  <1>6. (\A k \in Keys : file[k] \in F /\ tmp[k] \in T)
    OBVIOUS
  <1>. HIDE DEF F, T, P
  <1>7. /\ IsFiniteSet(F \cup T) /\ IsFiniteSet((F \cup T) \cap P)
        /\ Cardinality(F \cup T) = Cardinality(F) + Cardinality(T) - Cardinality(F \cap T)
        /\ IsFiniteSet(F \cap T)
    BY <1>1, FS_Union, FS_Intersection
  <1>8. Cardinality(F \cap T) \in Nat /\ Cardinality((F \cup T) \cap P) \in Nat
    BY <1>7, FS_CardinalityType
  <1>9. IsFiniteSet(U) /\ Cardinality(U) = Cardinality(F \cup T) + Cardinality(P) - Cardinality((F \cup T) \cap P)
    BY <1>2, <1>7, FS_Union
  <1>10. Cardinality(U) <= M
    BY <1>1, <1>2, <1>3, <1>7, <1>8, <1>9
  <1>11. IsFiniteSet(U \ {NULL}) /\ Cardinality(U \ {NULL}) = Cardinality(U) - 1
    BY <1>4, <1>9, FS_RemoveElement
  <1>12. Cardinality(Inodes) = M /\ IsFiniteSet(Inodes)
    <2>1. M \in Nat /\ Inodes = 1 .. M
      BY <1>3 DEF Inodes
    <2>. HIDE DEF M
    <2>2. Cardinality(1 .. M) = (IF 1 > M THEN 0 ELSE M - 1 + 1) /\ IsFiniteSet(1 .. M)
      BY <2>1, FS_Interval
    <2>. QED BY <2>1, <2>2
  <1>13. ~ (Inodes \subseteq U \ {NULL})
    <2>1. SUFFICES ASSUME Inodes \subseteq U \ {NULL} PROVE FALSE
      OBVIOUS
    <2>2. Cardinality(Inodes) <= Cardinality(U \ {NULL})
      BY <2>1, <1>11, FS_Subset
    <2>3. Cardinality(U) \in Int /\ M \in Int
      BY <1>1, <1>2, <1>3, <1>7, <1>8, <1>9
    <2>. HIDE DEF U, M
    <2>. QED BY <2>2, <2>3, <1>10, <1>11, <1>12
  <1>14. PICK n \in Inodes : n \notin U
    BY <1>13
  <1>15. (\A k \in Keys : n \notin {file[k], tmp[k]}) /\ (\A q \in Procs : n # loc[q].ino)
    BY <1>5, <1>6, <1>14
  <1>16. /\ Fresh \in Inodes
         /\ \A k \in Keys : Fresh \notin {file[k], tmp[k]}
         /\ \A q \in Procs : Fresh # loc[q].ino
    BY <1>15 DEF Fresh
  <1>. QED BY <1>16

LEMMA OpenIInv == ASSUME IInv, NEW p \in Procs, Open(p) PROVE IInv'
  <1>. USE DEF IInv
  <1>. DEFINE k == loc[p].key
  <1>0. /\ pc[p] = "open" /\ loc[p] \in Locals /\ k \in Keys /\ loc[p].pos = 0 /\ loc[p].ino = NULL
        /\ file' = file /\ lock' = lock /\ size' = size /\ disturbed' = disturbed /\ misaccounted' = misaccounted
    BY DEF Open, TypeOK, LocalsAt, Opened, Locals, ghost
  <1>1. CASE Fail(p, "close") /\ UNCHANGED <<tmp, len>>
    BY <1>0, <1>1, FailIInv
  <1>2. CASE \E n \in Inodes : /\ loc' = [loc EXCEPT ![p].ino = n] /\ Goto(p, "lock")
                               /\ \/ n = tmp[k] /\ UNCHANGED <<tmp, len>>
                                  \/ /\ n = Fresh /\ tmp[k] = NULL
                                     /\ tmp' = [tmp EXCEPT ![k] = n] /\ len' = [len EXCEPT ![n] = 0]
    <2>. PICK n \in Inodes : /\ loc' = [loc EXCEPT ![p].ino = n] /\ Goto(p, "lock")
                             /\ \/ n = tmp[k] /\ UNCHANGED <<tmp, len>>
                                \/ /\ n = Fresh /\ tmp[k] = NULL
                                   /\ tmp' = [tmp EXCEPT ![k] = n] /\ len' = [len EXCEPT ![n] = 0]
      BY <1>2
    <2>0. /\ pc' = [pc EXCEPT ![p] = "lock"] /\ pc'[p] = "lock"
          /\ loc' \in [Procs -> Locals] /\ Others(p) /\ loc'[p].ino = n
          /\ loc'[p].key = loc[p].key /\ loc'[p].failed = loc[p].failed /\ loc'[p].pos = loc[p].pos
          /\ loc'[p].alone = loc[p].alone
      BY SetIno DEF Goto, TypeOK
    <2>1. \A q \in Procs : q # p => pc'[q] = pc[q] /\ loc'[q] = loc[q]
      BY <2>0 DEF TypeOK, Others
    \* Whatever the file is, it has the temporary name now.
    <2>2. /\ tmp'[k] = n /\ tmp[k] \in {n, NULL} /\ (\A j \in Keys : j # k => tmp'[j] = tmp[j])
          /\ tmp' \in [Keys -> Inodes \cup {NULL}] /\ len' \in [Inodes -> 0 .. Parts]
      BY <1>0 DEF TypeOK
    \* A file that is already open or named is not changed.
    <2>3. /\ \A m \in Inodes : m # n => len'[m] = len[m]
          /\ \A j \in Keys : file[j] # n
          /\ \A j \in Keys : j # k => tmp[j] # n
          /\ tmp[k] = n => len' = len
          /\ tmp[k] # n => \A q \in Procs : loc[q].ino # n
      <3>1. CASE n = tmp[k] /\ UNCHANGED <<tmp, len>>
        BY <1>0, <3>1 DEF Names
      <3>2. CASE n = Fresh /\ tmp[k] = NULL /\ len' = [len EXCEPT ![n] = 0]
        BY <1>0, <3>2, FreshFree DEF TypeOK
      <3>. QED BY <3>1, <3>2
    <2>4. TypeOK'
      BY <1>0, <2>0, <2>2 DEF TypeOK, Places, Opened
    <2>5. \A q \in Procs : LocalsAt(q)'
      <3>1. LocalsAt(p)'
        BY <1>0, <2>0 DEF LocalsAt, Opened
      <3>. QED BY <2>1, <3>1, SameLocals
    <2>6. Locks'
      BY <1>0, <2>0, <2>1 DEF Locks, Holding, Opened, TypeOK
    <2>7. Names'
      BY <1>0, <2>2, <2>3 DEF Names
    <2>8. Orderly'
      <3>1. SUFFICES ASSUME ~disturbed PROVE (\A q \in Procs : KnowsAt(q)') /\ (\A j \in Keys : Whole(j)')
        BY <1>0 DEF Orderly
      <3>2. \A j \in Keys : Whole(j)'
        <4>1. \A j \in Keys : Whole(j)
          BY <3>1 DEF Orderly
        <4>. QED BY <1>0, <2>3, <4>1 DEF Whole, TypeOK
      <3>3. KnowsAt(p)'
        BY <2>0, <2>2 DEF KnowsAt
      <3>4. ASSUME NEW q \in Procs, q # p PROVE KnowsAt(q)'
        <4>1. KnowsAt(q) /\ LocalsAt(q) /\ loc[q].key \in Keys \cup {NULL} /\ loc[q].ino \in Inodes \cup {NULL}
          BY <3>1 DEF Orderly, TypeOK, Locals
        <4>2. pc[q] \in {"lock", "check"} => tmp'[loc[q].key] = loc[q].ino \/ file[loc[q].key] # NULL
          BY <1>0, <2>2, <4>1 DEF KnowsAt, LocalsAt, Opened
        <4>3. pc[q] \in {"write", "rename"} => tmp'[loc[q].key] = loc[q].ino /\ len'[loc[q].ino] = len[loc[q].ino]
          BY <1>0, <2>2, <2>3, <4>1 DEF KnowsAt, LocalsAt, Opened
        <4>. QED BY <1>0, <2>1, <3>4, <4>1, <4>2, <4>3 DEF KnowsAt
      <3>. QED BY <3>2, <3>3, <3>4
    <2>9. \A q \in Procs : AloneAt(q)'
      <3>1. AloneAt(p)'
        BY <1>0, <2>0, <2>1, <2>2 DEF AloneAt
      <3>. QED BY <1>0, <2>1, <3>1, NotAlone
    <2>10. Accounted'
      <3>1. Due' = Due
        BY <1>0, <2>0, SameDue
      <3>. QED BY <1>0, <3>1, SameAccount
    <2>. QED BY <2>4, <2>5, <2>6, <2>7, <2>8, <2>9, <2>10
  <1>3. (Fail(p, "close") /\ UNCHANGED <<tmp, len>>) \/
        \E n \in Inodes : /\ loc' = [loc EXCEPT ![p].ino = n] /\ Goto(p, "lock")
                          /\ \/ n = tmp[k] /\ UNCHANGED <<tmp, len>>
                             \/ /\ n = Fresh /\ tmp[k] = NULL
                                /\ tmp' = [tmp EXCEPT ![k] = n] /\ len' = [len EXCEPT ![n] = 0]
    <2>1. tmp[k] = NULL => Fresh \in Inodes
      BY <1>0, FreshFree
    <2>2. tmp[k] # NULL => tmp[k] \in Inodes
      BY <1>0 DEF TypeOK
    <2>. QED BY <2>1, <2>2 DEF Open
  <1>. QED BY <1>1, <1>2, <1>3

LEMMA WriteIInv == ASSUME IInv, NEW p \in Procs, Write(p) PROVE IInv'
  <1>. USE DEF IInv
  <1>. DEFINE k == loc[p].key
              i == loc[p].ino
              n == loc[p].pos + 1
              l == IF n = Parts THEN "rename" ELSE "write"
  <1>0. /\ pc[p] = "write" /\ loc[p] \in Locals /\ k \in Keys /\ i \in Inodes /\ n \in 1 .. Parts
        /\ file' = file /\ tmp' = tmp /\ lock' = lock /\ size' = size /\ disturbed' = disturbed /\ misaccounted' = misaccounted
    BY DEF Write, TypeOK, LocalsAt, Opened, Locals, ghost
  <1>1. CASE Fail(p, "drop_tmp") /\ UNCHANGED len
    BY <1>0, <1>1, FailIInv
  <1>2. CASE /\ len' = [len EXCEPT ![i] = Max({@, n})] /\ loc' = [loc EXCEPT ![p].pos = n] /\ Goto(p, l)
    <2>0. /\ pc' = [pc EXCEPT ![p] = l] /\ pc'[p] = l
          /\ loc' \in [Procs -> Locals] /\ Others(p) /\ loc'[p].pos = n
          /\ loc'[p].key = k /\ loc'[p].ino = i
          /\ loc'[p].alone = loc[p].alone
      <3>1. n \in 0 .. Parts
        BY <1>0
      <3>. QED BY <1>2, <3>1, SetPos DEF Goto, TypeOK
    <2>1. \A q \in Procs : q # p => pc'[q] = pc[q] /\ loc'[q] = loc[q]
      BY <2>0 DEF TypeOK, Others
    <2>2. /\ len' \in [Inodes -> 0 .. Parts] /\ len'[i] >= n /\ (\A m \in Inodes : len'[m] >= len[m])
          /\ \A m \in Inodes : m # i => len'[m] = len[m]
      <3>1. len[i] \in 0 .. Parts
        BY <1>0 DEF TypeOK
      <3>2. Max({len[i], n}) = IF len[i] >= n THEN len[i] ELSE n
        BY <1>0, <3>1 DEF Max
      <3>3. len' = [len EXCEPT ![i] = Max({len[i], n})]
        BY <1>0, <1>2 DEF TypeOK
      <3>. DEFINE x == Max({len[i], n})
      <3>4. x \in 0 .. Parts /\ x >= n /\ x >= len[i] /\ len' = [len EXCEPT ![i] = x]
        BY <1>0, <3>1, <3>2, <3>3
      <3>. HIDE DEF x
      <3>. QED BY <1>0, <3>1, <3>4 DEF TypeOK
    <2>3. TypeOK'
      BY <1>0, <2>0, <2>2 DEF TypeOK, Places, Opened
    <2>4. \A q \in Procs : LocalsAt(q)'
      <3>1. LocalsAt(p)'
        BY <1>0, <2>0 DEF LocalsAt, Opened
      <3>. QED BY <2>1, <3>1, SameLocals
    <2>5. Locks'
      BY <1>0, <2>0, <2>1 DEF Locks, Holding, Opened, TypeOK
    <2>6. Names'
      BY <1>0 DEF Names
    <2>7. Orderly'
      <3>1. SUFFICES ASSUME ~disturbed PROVE (\A q \in Procs : KnowsAt(q)') /\ (\A j \in Keys : Whole(j)')
        BY <1>0 DEF Orderly
      <3>2. KnowsAt(p) /\ (\A j \in Keys : Whole(j))
        BY <3>1 DEF Orderly
      <3>3. tmp[k] = i /\ file[k] = NULL
        BY <1>0, <3>2 DEF KnowsAt
      <3>4. \A j \in Keys : Whole(j)'
        BY <1>0, <2>2, <3>2, <3>3 DEF Whole, Names, TypeOK
      <3>5. KnowsAt(p)'
        BY <1>0, <2>0, <2>2, <3>3 DEF KnowsAt
      <3>6. ASSUME NEW q \in Procs, q # p PROVE KnowsAt(q)'
        <4>1. /\ KnowsAt(q) /\ LocalsAt(q) /\ loc[q].ino \in Inodes \cup {NULL} /\ loc[q].pos \in Int
          BY <3>1 DEF Orderly, TypeOK, Locals
        <4>2. pc[q] \in {"write", "rename"} => len'[loc[q].ino] >= loc[q].pos
          BY <2>2, <4>1 DEF KnowsAt, LocalsAt, Opened, TypeOK
        <4>. QED BY <1>0, <2>1, <3>6, <4>1, <4>2 DEF KnowsAt
      <3>. QED BY <3>4, <3>5, <3>6
    <2>8. \A q \in Procs : AloneAt(q)'
      <3>1. l \in {"write", "rename"}
        OBVIOUS
      <3>. HIDE DEF l
      <3>2. AloneAt(p)'
        BY <1>0, <2>0, <2>1, <3>1 DEF AloneAt
      <3>. QED BY <1>0, <2>1, <3>2, NotAlone
    <2>9. Accounted'
      <3>1. Due' = Due
        BY <1>0, <2>0, SameDue
      <3>. QED BY <1>0, <3>1, SameAccount
    <2>. QED BY <2>3, <2>4, <2>5, <2>6, <2>7, <2>8, <2>9
  <1>. QED BY <1>1, <1>2 DEF Write

LEMMA RenameIInv == ASSUME IInv, NEW p \in Procs, Rename(p) PROVE IInv'
  <1>. USE DEF IInv
  <1>. DEFINE k == loc[p].key
  <1>0. /\ pc[p] = "rename" /\ loc[p] \in Locals /\ k \in Keys /\ loc[p].ino \in Inodes
        /\ len' = len /\ lock' = lock /\ size' = size /\ disturbed' = disturbed /\ misaccounted' = misaccounted
    BY DEF Rename, TypeOK, LocalsAt, Opened, Locals, ghost
  <1>1. CASE Fail(p, "drop_tmp") /\ UNCHANGED <<file, tmp>>
    BY <1>0, <1>1, FailIInv
  <1>2. CASE /\ tmp[k] # NULL
             /\ file' = [file EXCEPT ![k] = tmp[k]] /\ tmp' = [tmp EXCEPT ![k] = NULL]
             /\ Goto(p, "put_stat") /\ loc' = loc
    <2>0. /\ pc' = [pc EXCEPT ![p] = "put_stat"] /\ pc'[p] = "put_stat"
          /\ \A q \in Procs : q # p => pc'[q] = pc[q] /\ loc'[q] = loc[q]
      BY <1>2 DEF Goto, TypeOK
    <2>1. /\ file'[k] = tmp[k] /\ tmp'[k] = NULL /\ tmp[k] \in Inodes
          /\ \A j \in Keys : j # k => file'[j] = file[j] /\ tmp'[j] = tmp[j]
      BY <1>0, <1>2 DEF TypeOK
    <2>2. TypeOK'
      BY <1>0, <1>2, <2>0, <2>1 DEF TypeOK, Places, Opened
    <2>3. \A q \in Procs : LocalsAt(q)'
      <3>1. LocalsAt(p)'
        BY <1>0, <1>2, <2>0 DEF LocalsAt, Opened
      <3>. QED BY <2>0, <3>1, SameLocals
    <2>4. Locks'
      BY <1>0, <1>2, <2>0 DEF Locks, Holding, Opened, TypeOK
    <2>5. Names'
      BY <1>0, <2>1 DEF Names
    <2>6. Orderly'
      <3>1. SUFFICES ASSUME ~disturbed PROVE (\A q \in Procs : KnowsAt(q)') /\ (\A j \in Keys : Whole(j)')
        BY <1>0 DEF Orderly
      <3>2. KnowsAt(p) /\ (\A j \in Keys : Whole(j))
        BY <3>1 DEF Orderly
      <3>3. tmp[k] = loc[p].ino /\ file[k] = NULL /\ len[tmp[k]] = Parts
        BY <1>0, <2>1, <3>2, SMTT(30) DEF KnowsAt, LocalsAt, TypeOK
      <3>4. \A j \in Keys : Whole(j)'
        BY <1>0, <2>1, <3>2, <3>3 DEF Whole
      <3>5. KnowsAt(p)'
        BY <1>0, <1>2, <2>0, <2>1 DEF KnowsAt
      <3>6. ASSUME NEW q \in Procs, q # p PROVE KnowsAt(q)'
        <4>1. /\ KnowsAt(q) /\ LocalsAt(q) /\ loc[q].key \in Keys \cup {NULL} /\ loc[q].victim \in Keys \cup {NULL}
          BY <3>1 DEF Orderly, TypeOK, Locals
        <4>2. lock[tmp[k]] = p
          BY <1>0, <3>3 DEF Locks, Holding, Opened
        \* The lock keeps every other writer of the entry out.
        <4>3. pc[q] \in {"write", "rename"} => loc[q].key # k
          BY <3>6, <4>1, <4>2 DEF KnowsAt, Locks, Holding, Opened
        <4>4. \A j \in Keys : file[j] # NULL => file'[j] # NULL
          BY <2>1
        <4>5. pc[q] \in {"lock", "check"} => tmp'[loc[q].key] = loc[q].ino \/ file'[loc[q].key] # NULL
          BY <2>1, <4>1, <4>4 DEF KnowsAt, LocalsAt, Opened
        <4>6. pc[q] \in {"write", "rename"} => tmp'[loc[q].key] = loc[q].ino /\ file'[loc[q].key] = NULL
          BY <2>1, <4>1, <4>3 DEF KnowsAt, LocalsAt, Opened
        <4>7. /\ pc[q] = "drop_tmp" => loc[q].failed \/ file'[loc[q].key] # NULL
              /\ pc[q] \in {"put_stat", "drop_file", "add"} => file'[loc[q].key] # NULL
              /\ pc[q] = "unlink" => file'[loc[q].victim] # NULL
          BY <4>1, <4>4 DEF KnowsAt, LocalsAt, Opened
        <4>. QED BY <1>0, <2>0, <3>6, <4>1, <4>5, <4>6, <4>7 DEF KnowsAt
      <3>. QED BY <3>4, <3>5, <3>6
    <2>7. \A q \in Procs : AloneAt(q)'
      <3>1. AloneAt(p)'
        BY <1>0, <1>2, <2>0, <2>1 DEF AloneAt
      <3>. QED BY <1>0, <2>0, <3>1, NotAlone
    <2>8. Accounted'
      <3>1. SUFFICES ASSUME ~disturbed PROVE Accounted'
        BY <1>0 DEF Accounted
      <3>2. file[k] = NULL
        BY <1>0, <3>1 DEF Orderly, KnowsAt
      <3>3. /\ Cardinality(Present) \in Nat
            /\ Cardinality(Present)' = Cardinality(Present)
                  + (IF tmp[k] # NULL THEN 1 ELSE 0) - (IF file[k] # NULL THEN 1 ELSE 0)
        BY <1>0, <1>2, NameCards
      <3>4. /\ Cardinality(ToAdd) \in Nat /\ Cardinality(ToSub) \in Nat
            /\ Cardinality(ToAdd)' = Cardinality(ToAdd)
                  + (IF "put_stat" \in {"put_stat", "drop_file", "add"} THEN 1 ELSE 0)
                  - (IF pc[p] \in {"put_stat", "drop_file", "add"} THEN 1 ELSE 0)
            /\ Cardinality(ToSub)' = Cardinality(ToSub)
                  + (IF "put_stat" = "sub" THEN 1 ELSE 0) - (IF pc[p] = "sub" THEN 1 ELSE 0)
        BY <2>0, PlaceCards
      <3>5. Cardinality(ToAdd)' = Cardinality(ToAdd) + 1 /\ Cardinality(ToSub)' = Cardinality(ToSub)
        BY <1>0, <3>4
      <3>6. Due' = Due
        BY <1>2, <3>2, <3>3, <3>4, <3>5 DEF Due
      <3>. QED BY <1>0, <3>6, SameAccount
    <2>. QED BY <2>2, <2>3, <2>4, <2>5, <2>6, <2>7, <2>8
  <1>. QED BY <1>1, <1>2 DEF Rename

LEMMA DropTmpIInv == ASSUME IInv, NEW p \in Procs, DropTmp(p) PROVE IInv'
  <1>. USE DEF IInv
  <1>. DEFINE k == loc[p].key
              Removed == /\ tmp' = [tmp EXCEPT ![k] = NULL]
                         /\ disturbed' = (disturbed \/ (loc[p].failed /\ InUse(p, k)))
              Kept == tmp' = tmp /\ disturbed' = disturbed
  <1>0. /\ pc[p] = "drop_tmp" /\ k \in Keys /\ pc' = [pc EXCEPT ![p] = "close"] /\ pc'[p] = "close"
        /\ file' = file /\ len' = len /\ lock' = lock /\ size' = size /\ misaccounted' = misaccounted /\ loc' = loc
        /\ Removed \/ Kept
    BY DEF DropTmp, Goto, TypeOK, LocalsAt, Opened, Locals
  \* The flag stays set, and is set if the step is in somebody's way.
  <1>00. (disturbed => disturbed') /\ (tmp' = tmp \/ (loc[p].failed /\ InUse(p, k) => disturbed'))
    <2>1. CASE Removed
      BY <2>1
    <2>2. CASE Kept
      BY <2>2
    <2>. QED BY <1>0, <2>1, <2>2, Zenon
  <1>1. /\ \A q \in Procs : q # p => pc'[q] = pc[q] /\ loc'[q] = loc[q]
        /\ \A j \in Keys : j # k => file'[j] = file[j] /\ tmp'[j] = tmp[j]
    BY <1>0 DEF TypeOK
  <1>2. TypeOK'
    <2>1. disturbed' \in BOOLEAN /\ tmp' \in [Keys -> Inodes \cup {NULL}]
      BY <1>0 DEF TypeOK, InUse
    <2>. QED BY <1>0, <2>1 DEF TypeOK, Places
  <1>3. \A q \in Procs : LocalsAt(q)'
    <2>1. LocalsAt(p)'
      BY <1>0 DEF LocalsAt, Opened
    <2>. QED BY <1>1, <2>1, SameLocals
  <1>4. Locks'
    BY <1>0, <1>1 DEF Locks, Holding, Opened, TypeOK
  <1>5. Names'
    BY <1>0 DEF Names, TypeOK
  <1>6. Orderly'
    <2>1. SUFFICES ASSUME ~disturbed' PROVE (\A q \in Procs : KnowsAt(q)') /\ (\A j \in Keys : Whole(j)')
      BY DEF Orderly
    <2>2. /\ ~disturbed /\ (tmp' = tmp \/ ~loc[p].failed \/ ~InUse(p, k))
          /\ (\A q \in Procs : KnowsAt(q)) /\ (\A j \in Keys : Whole(j))
      BY <1>00, <2>1 DEF Orderly
    <2>3. \A j \in Keys : Whole(j)'
      BY <1>0, <2>2 DEF Whole
    <2>4. KnowsAt(p)'
      BY <1>0 DEF KnowsAt
    <2>5. CASE ~InUse(p, k)
      <3>1. \A q \in Procs : q # p => KnowsAt(q)'
        BY <1>0, <1>1, <2>2, <2>5, OtherKey DEF InUse
      <3>. QED BY <2>3, <2>4, <3>1
    <2>6. CASE ~loc[p].failed
      <3>1. file[k] # NULL
        BY <1>0, <2>2, <2>6 DEF KnowsAt
      <3>2. ASSUME NEW q \in Procs, q # p PROVE KnowsAt(q)'
        <4>1. KnowsAt(q) /\ LocalsAt(q) /\ loc[q].key \in Keys \cup {NULL}
          BY <2>2 DEF TypeOK, Locals
        <4>2. pc[q] \in {"lock", "check"} => tmp'[loc[q].key] = loc[q].ino \/ file[loc[q].key] # NULL
          BY <1>1, <3>1, <4>1 DEF KnowsAt, LocalsAt, Opened
        <4>3. pc[q] \in {"write", "rename"} => tmp'[loc[q].key] = loc[q].ino
          BY <1>1, <3>1, <4>1 DEF KnowsAt, LocalsAt, Opened
        <4>. QED BY <1>0, <1>1, <3>2, <4>1, <4>2, <4>3 DEF KnowsAt
      <3>. QED BY <2>3, <2>4, <3>2
    <2>7. CASE tmp' = tmp
      BY <1>0, <1>1, <2>2, <2>3, <2>4, <2>7, SameKnowledge
    <2>. QED BY <2>2, <2>5, <2>6, <2>7
  <1>7. \A q \in Procs : AloneAt(q)'
    <2>1. AloneAt(p)'
      BY <1>0, <1>1 DEF AloneAt
    <2>. QED BY <1>0, <1>1, <2>1, NotAlone
  <1>8. Accounted'
    <2>1. Due' = Due
      BY <1>0, SameDue
    <2>. QED BY <1>0, <1>00, <2>1, SameAccount
  <1>. QED BY <1>2, <1>3, <1>4, <1>5, <1>6, <1>7, <1>8

LEMMA DropFileIInv == ASSUME IInv, NEW p \in Procs, DropFile(p) PROVE IInv'
  <1>. USE DEF IInv
  <1>. DEFINE k == loc[p].key
              Removed == /\ file' = [file EXCEPT ![k] = NULL] /\ misaccounted' = misaccounted
                         /\ disturbed' = (disturbed \/ (file[k] # NULL /\ InUse(p, k)))
              Kept == file' = file /\ disturbed' = disturbed /\ misaccounted' = TRUE
  <1>0. /\ pc[p] = "drop_file" /\ k \in Keys /\ pc' = [pc EXCEPT ![p] = "close"] /\ pc'[p] = "close"
        /\ tmp' = tmp /\ len' = len /\ lock' = lock /\ size' = size /\ loc' = loc
        /\ Removed \/ Kept
    <2>1. Removed \/ Kept
      BY Zenon DEF DropFile
    <2>2. /\ pc[p] = "drop_file" /\ k \in Keys /\ pc' = [pc EXCEPT ![p] = "close"] /\ pc'[p] = "close"
          /\ tmp' = tmp /\ len' = len /\ lock' = lock /\ size' = size /\ loc' = loc
      BY DEF DropFile, Goto, TypeOK, LocalsAt, Opened, Locals
    <2>. QED BY <2>1, <2>2, Zenon
  \* The flag stays set, and is set if the step is in somebody's way.
  <1>00. (disturbed => disturbed') /\ (file' = file \/ (file[k] # NULL /\ InUse(p, k) => disturbed'))
    <2>1. CASE Removed
      BY <2>1
    <2>2. CASE Kept
      BY <2>2
    <2>. QED BY <1>0, <2>1, <2>2, Zenon
  <1>1. /\ \A q \in Procs : q # p => pc'[q] = pc[q] /\ loc'[q] = loc[q]
        /\ \A j \in Keys : j # k => file'[j] = file[j] /\ tmp'[j] = tmp[j]
    BY <1>0 DEF TypeOK
  <1>2. TypeOK'
    <2>1. disturbed' \in BOOLEAN /\ misaccounted' \in BOOLEAN /\ file' \in [Keys -> Inodes \cup {NULL}]
      BY <1>0 DEF TypeOK, InUse
    <2>. QED BY <1>0, <2>1 DEF TypeOK, Places
  <1>3. \A q \in Procs : LocalsAt(q)'
    <2>1. LocalsAt(p)'
      BY <1>0 DEF LocalsAt, Opened
    <2>. QED BY <1>1, <2>1, SameLocals
  <1>4. Locks'
    BY <1>0, <1>1 DEF Locks, Holding, Opened, TypeOK
  <1>5. Names'
    BY <1>0 DEF Names, TypeOK
  <1>6. Orderly'
    <2>1. SUFFICES ASSUME ~disturbed' PROVE (\A q \in Procs : KnowsAt(q)') /\ (\A j \in Keys : Whole(j)')
      BY DEF Orderly
    <2>2. ~disturbed /\ (\A q \in Procs : KnowsAt(q)) /\ (\A j \in Keys : Whole(j))
      BY <1>00, <2>1 DEF Orderly
    <2>3. file' = file \/ ~InUse(p, k)
      BY <1>0, <1>00, <2>1, <2>2 DEF KnowsAt
    <2>4. \A j \in Keys : Whole(j)'
      BY <1>0, <2>2 DEF Whole, TypeOK
    <2>5. KnowsAt(p)'
      BY <1>0 DEF KnowsAt
    <2>6. \A q \in Procs : q # p => KnowsAt(q)'
      <3>1. CASE file' = file
        BY <1>0, <1>1, <2>2, <3>1, SameKnowledge
      <3>2. CASE ~InUse(p, k)
        BY <1>0, <1>1, <2>2, <3>2, OtherKey DEF InUse
      <3>. QED BY <2>3, <3>1, <3>2
    <2>. QED BY <2>4, <2>5, <2>6
  <1>7. \A q \in Procs : AloneAt(q)'
    <2>1. AloneAt(p)'
      BY <1>0, <1>1 DEF AloneAt
    <2>. QED BY <1>0, <1>1, <2>1, NotAlone
  \* The entry is taken back before it was counted.
  <1>8. Accounted'
    <2>1. SUFFICES ASSUME ~disturbed', ~misaccounted' PROVE Accounted'
      BY DEF Accounted
    <2>2. ~disturbed /\ Removed
      BY <1>0, <2>1
    <2>3. file[k] # NULL
      BY <1>0, <2>2 DEF Orderly, KnowsAt
    <2>4. /\ Cardinality(Present) \in Nat
          /\ Cardinality(Present)' = Cardinality(Present)
                + (IF NULL # NULL THEN 1 ELSE 0) - (IF file[k] # NULL THEN 1 ELSE 0)
      BY <1>0, <2>2, NameCards
    <2>5. /\ Cardinality(ToAdd) \in Nat /\ Cardinality(ToSub) \in Nat
          /\ Cardinality(ToAdd)' = Cardinality(ToAdd)
                + (IF "close" \in {"put_stat", "drop_file", "add"} THEN 1 ELSE 0)
                - (IF pc[p] \in {"put_stat", "drop_file", "add"} THEN 1 ELSE 0)
          /\ Cardinality(ToSub)' = Cardinality(ToSub)
                + (IF "close" = "sub" THEN 1 ELSE 0) - (IF pc[p] = "sub" THEN 1 ELSE 0)
      BY <1>0, PlaceCards
    <2>6. Cardinality(ToAdd)' = Cardinality(ToAdd) - 1 /\ Cardinality(ToSub)' = Cardinality(ToSub)
      BY <1>0, <2>5
    <2>7. Due' = Due
      BY <2>3, <2>4, <2>5, <2>6 DEF Due
    <2>. QED BY <1>0, <2>2, <2>7, SameAccount
  <1>. QED BY <1>2, <1>3, <1>4, <1>5, <1>6, <1>7, <1>8

\* The end of a process's work, in order or by its death.
LEMMA LeaveIInv ==
    ASSUME IInv, NEW p \in Procs, pc[p] # "idle", Release(p), Return(p),
           UNCHANGED <<file, tmp, len, size, disturbed>>, misaccounted' \in BOOLEAN,
           misaccounted => misaccounted', misaccounted' \/ pc[p] \notin {"put_stat", "drop_file", "add", "sub"}
    PROVE  IInv'
  <1>. USE DEF IInv
  <1>0. /\ pc' = [pc EXCEPT ![p] = "idle"] /\ pc'[p] = "idle"
        /\ loc' = [loc EXCEPT ![p] = NoLocals] /\ loc'[p] = NoLocals
        /\ \A q \in Procs : q # p => pc'[q] = pc[q] /\ loc'[q] = loc[q]
    BY DEF Return, Goto, TypeOK
  <1>1. /\ lock' \in [Inodes -> Procs \cup {NULL}]
        /\ \A n \in Inodes : lock'[n] = IF lock[n] = p THEN NULL ELSE lock[n]
    BY DEF Release, TypeOK
  <1>2. TypeOK'
    BY <1>0, <1>1, NoLocalsType DEF TypeOK, Places
  <1>3. \A q \in Procs : LocalsAt(q)'
    <2>1. LocalsAt(p)'
      BY <1>0 DEF LocalsAt, Opened, NoLocals
    <2>. QED BY <1>0, <2>1, SameLocals
  <1>4. Locks'
    <2>1. \A q \in Procs : pc[q] \in Holding => loc[q].ino \in Inodes
      BY DEF LocalsAt, Holding, TypeOK, Locals
    <2>2. \A q \in Procs : pc'[q] \in Holding => q # p /\ lock'[loc'[q].ino] = q
      BY <1>0, <1>1, <2>1 DEF Locks, Holding, Opened
    <2>3. \A n \in Inodes : lock'[n] # NULL => /\ loc'[lock'[n]].ino = n
                                               /\ pc'[lock'[n]] \in {"close"} \cup Holding
      BY <1>0, <1>1 DEF Locks, TypeOK
    <2>. QED BY <2>2, <2>3 DEF Locks
  <1>5. Names'
    BY DEF Names
  <1>6. Orderly'
    <2>1. SUFFICES ASSUME ~disturbed PROVE (\A q \in Procs : KnowsAt(q)') /\ (\A j \in Keys : Whole(j)')
      BY DEF Orderly
    <2>2. \A j \in Keys : Whole(j)'
      BY <2>1 DEF Orderly, Whole
    <2>3. KnowsAt(p)'
      BY <1>0 DEF KnowsAt
    <2>. QED BY <1>0, <2>1, <2>2, <2>3, SameKnowledge DEF Orderly
  <1>7. \A q \in Procs : AloneAt(q)'
    <2>1. AloneAt(p)'
      BY <1>0 DEF AloneAt
    <2>. QED BY <1>0, <2>1, NotAlone
  <1>8. Accounted'
    <2>1. CASE misaccounted'
      BY <2>1 DEF Accounted
    <2>2. CASE ~misaccounted'
      <3>1. Due' = Due
        BY <1>0, <2>2, SameDue
      <3>. QED BY <2>2, <3>1, SameAccount
    <2>. QED BY <2>1, <2>2
  <1>. QED BY <1>2, <1>3, <1>4, <1>5, <1>6, <1>7, <1>8

LEMMA CloseIInv == ASSUME IInv, NEW p \in Procs, Close(p) PROVE IInv'
  BY LeaveIInv DEF Close, ghost, IInv, TypeOK

LEMMA CrashIInv == ASSUME IInv, NEW p \in Procs, Crash(p) PROVE IInv'
  <1>1. misaccounted \in BOOLEAN /\ misaccounted' = (misaccounted \/ pc[p] \in {"put_stat", "drop_file", "add", "sub"})
    BY DEF Crash, IInv, TypeOK
  <1>. QED BY <1>1, LeaveIInv DEF Crash
-----------------------------------------------------------------------------
LEMMA InitIInv == Init => IInv
  <1>1. SUFFICES ASSUME Init PROVE IInv
    OBVIOUS
  <1>. USE <1>1 DEF Init
  <1>2. TypeOK
    <2>1. loc \in [Procs -> Locals]
      BY NoLocalsType
    <2>2. pc \in [Procs -> Places]
      BY DEF Places
    <2>3. file \in [Keys -> Inodes \cup {NULL}] /\ tmp \in [Keys -> Inodes \cup {NULL}]
      OBVIOUS
    <2>4. len \in [Inodes -> 0 .. Parts] /\ lock \in [Inodes -> Procs \cup {NULL}] /\ size \in Int
      OBVIOUS
    <2>5. disturbed \in BOOLEAN /\ misaccounted \in BOOLEAN
      OBVIOUS
    <2>. QED BY <2>1, <2>2, <2>3, <2>4, <2>5 DEF TypeOK
  <1>3. \A p \in Procs : LocalsAt(p)
    BY DEF LocalsAt, Opened, NoLocals
  <1>4. Locks /\ Names
    BY DEF Locks, Names, Holding, Opened
  <1>5. Orderly
    BY DEF Orderly, KnowsAt, Whole
  <1>6. \A p \in Procs : AloneAt(p)
    BY DEF AloneAt
  <1>7. Accounted
    <2>1. Present = {} /\ ToAdd = {} /\ ToSub = {}
      BY DEF Present, ToAdd, ToSub
    <2>2. Due = 0
      BY <2>1, FS_EmptySet DEF Due
    <2>3. 0 % Word = 0 /\ 0 * Parts = 0
      OBVIOUS
    <2>. QED BY <2>2, <2>3 DEF Accounted
  <1>. QED BY <1>2, <1>3, <1>4, <1>5, <1>6, <1>7 DEF IInv

LEMMA NextIInv == IInv /\ [Next]_vars => IInv'
  <1>1. SUFFICES ASSUME IInv, [Next]_vars PROVE IInv'
    OBVIOUS
  <1>2. ASSUME NEW p \in Procs, NEW k \in Keys, Put(p, k) \/ Remove(p, k) PROVE IInv'
    BY <1>1, <1>2, CallIInv
  <1>3. ASSUME NEW p \in Procs,
               EvictTest(p) \/ Choose(p) \/ Stat(p) \/ Unlink(p) \/ Sub(p) \/ Open(p) \/ Flock(p) \/ Check(p)
        PROVE  IInv'
    BY <1>1, <1>3, EvictTestIInv, ChooseIInv, StatIInv, UnlinkIInv, SubIInv, OpenIInv, FlockIInv, CheckIInv
  <1>4. ASSUME NEW p \in Procs,
               \/ Write(p) \/ Rename(p) \/ DropTmp(p) \/ PutStat(p)
               \/ DropFile(p) \/ Add(p) \/ Close(p) \/ Crash(p)
        PROVE  IInv'
    BY <1>1, <1>4, WriteIInv, RenameIInv, DropTmpIInv, PutStatIInv, DropFileIInv, AddIInv, CloseIInv, CrashIInv
  <1>5. CASE UNCHANGED vars
    BY <1>1, <1>5 DEF vars, disk, ghost, IInv, TypeOK, LocalsAt, Locks, Names, Orderly, KnowsAt, Whole,
                      AloneAt, Accounted, Due, Present, ToAdd, ToSub
  <1>. QED BY <1>1, <1>2, <1>3, <1>4, <1>5 DEF Next

\* The inductive invariant holds in every reachable state.
THEOREM DiskInvariant == Spec => []IInv
  BY InitIInv, NextIInv, PTL DEF Spec

\* For any number of processes and any number of deaths and failing calls, a reader of
\* the cache never opens a partly written entry, unless an entry was removed under
\* another process's hands or could not be opened (cache_put renames a complete file,
\* written under the lock).
THEOREM DiskEntriesWhole == Spec => []EntriesWhole
  <1>1. IInv => EntriesWhole
    BY DEF IInv, Orderly, EntriesWhole
  <1>. QED BY <1>1, DiskInvariant, PTL

\* For any number of processes, a put that nobody interferes with leaves the entry in
\* the cache unless a system call fails, whatever dead processes have left behind.
THEOREM DiskPutAloneStores == Spec => []PutAloneStores
  <1>1. IInv => PutAloneStores
    BY DEF IInv, AloneAt, PutAloneStores
  <1>. QED BY <1>1, DiskInvariant, PTL

\* For any number of processes, entries of any size and any number of failing calls,
\* *cache->size is what the entries take up whenever nobody is at work, modulo its
\* width, unless a process died between a file operation and its accounting, an unlink
\* failed with the file in place, or an entry was removed in another's way.
THEOREM DiskSizeExact == Spec => []SizeExact
  <1>1. IInv => SizeExact
    <2>1. SUFFICES ASSUME IInv, ~disturbed, ~misaccounted, Idle
                   PROVE  size = (Cardinality(Present) * Parts) % Word
      BY DEF SizeExact, Total, Present
    <2>2. ToAdd = {} /\ ToSub = {}
      BY <2>1 DEF Idle, ToAdd, ToSub
    <2>3. Cardinality(Present) \in Nat
      <3>1. Present \subseteq Keys
        BY DEF Present
      <3>. QED BY <3>1, FS_Subset, FS_CardinalityType
    <2>4. Due = Cardinality(Present)
      BY <2>2, <2>3, FS_EmptySet DEF Due
    <2>. QED BY <2>1, <2>4 DEF IInv, Accounted
  <1>. QED BY <1>1, DiskInvariant, PTL
=============================================================================
