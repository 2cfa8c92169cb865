--------------------------- MODULE QueueExitProofs ---------------------------
(***************************************************************************)
(* The exit handler and the owners of any number of queues do not get in   *)
(* each other's way.                                                       *)
(***************************************************************************)
EXTENDS QueueExit, TLAPS

Indices == 0 .. Threads - 1

\* Where the owner of a queue on the list is.
Live == {"up", "kill", "join", "joining", "remove"}

TypeOK ==
    /\ queue_list \in Seq(Queues) /\ iter \in Seq(Queues) /\ exit_mutex \in BOOLEAN
    /\ kill_threads \in [Queues -> BOOLEAN] /\ num_threads \in [Queues -> Nat]
    /\ thread \in [Queues -> [Indices -> {"none", "running", "exited", "joined"}]]
    /\ pc \in [Actors -> {"out", "add", "next", "done"} \cup Live] /\ i \in [Actors -> Nat]

\* queue_list holds the queues between add_to_atexit_list and remove_from_atexit_list,
\* each of them once.
Listed ==
    /\ IsInjective(queue_list)
    /\ \A q \in Queues : q \in Range(queue_list) <=> pc[q] \in Live
    /\ \A q \in Queues : pc[q] \in {"out", "add"} \cup Live

\* The handler holds exit_mutex as long as it walks the list.
Handler ==
    /\ exit_mutex <=> pc[Exit] \in {"next", "kill", "join", "joining"}
    /\ ~exit_mutex => iter = <<>>
    /\ Range(iter) \subseteq Range(queue_list)
    /\ pc[Exit] \in {"kill", "join", "joining"} => iter # <<>>

\* No thread of queue q runs.
Quiet(q) == \A k \in Indices : thread[q][k] # "running"

\* What the handler has reached for the queues whose owners have not begun to
\* destroy them: the ones behind it are quiet, and so are the threads it has gone
\* past of the one it works on.
Stopped ==
    /\ \A q \in Queues : pc[q] \in {"add", "up"} => num_threads[q] = Threads \/ Quiet(q)
    /\ exit_mutex => \A q \in Range(queue_list) : pc[q] = "up" => q \in Range(iter) \/ Quiet(q)
    /\ (pc[Exit] \in {"join", "joining"} /\ pc[Head(iter)] = "up") =>
          \A k \in Indices : k < i[Exit] => thread[Head(iter)][k] # "running"

\* The inductive invariant.
IInv == TypeOK /\ Listed /\ Handler /\ Stopped
-----------------------------------------------------------------------------
\* RemoveFirst takes the element out of a list that has it once.
LEMMA RemoveOnce ==
    ASSUME NEW S, NEW s \in Seq(S), NEW e \in Range(s), IsInjective(s)
    PROVE  /\ RemoveFirst(s, e) \in Seq(S) /\ IsInjective(RemoveFirst(s, e))
           /\ Range(RemoveFirst(s, e)) = Range(s) \ {e}
  <1>1. PICK n \in 1 .. Len(s) : s[n] = e
    BY DEF Range
  <1>2. \A m \in 1 .. Len(s) : s[m] = e => m = n
    BY <1>1 DEF IsInjective
  <1>3. {m \in 1 .. Len(s) : s[m] = e} = {n}
    BY <1>1, <1>2
  <1>4. RemoveFirst(s, e) = RemoveAt(s, n)
    BY <1>1, <1>3 DEF RemoveFirst, SelectInSeq, Min
  <1>. DEFINE r == RemoveAt(s, n)
  <1>5. /\ r \in Seq(S) /\ Len(r) = Len(s) - 1
        /\ \A m \in 1 .. Len(s) - 1 : r[m] = IF m < n THEN s[m] ELSE s[m + 1]
    <2>. DEFINE a == SubSeq(s, 1, n - 1)
                b == SubSeq(s, n + 1, Len(s))
    <2>1. a \in Seq(S) /\ Len(a) = n - 1 /\ \A m \in 1 .. n - 1 : a[m] = s[m]
      BY <1>1
    <2>2. b \in Seq(S) /\ Len(b) = Len(s) - n /\ \A m \in 1 .. Len(s) - n : b[m] = s[m + n]
      BY <1>1
    <2>3. r = a \o b
      BY DEF RemoveAt
    <2>. HIDE DEF a, b, r
    <2>4. r \in Seq(S) /\ Len(r) = Len(s) - 1
      BY <1>1, <2>1, <2>2, <2>3
    <2>5. ASSUME NEW m \in 1 .. Len(s) - 1 PROVE r[m] = IF m < n THEN s[m] ELSE s[m + 1]
      <3>1. CASE m < n
        BY <1>1, <2>1, <2>2, <2>3, <3>1
      <3>2. CASE m >= n
        <4>1. r[m] = b[m - (n - 1)] /\ m - (n - 1) \in 1 .. Len(s) - n
          BY <1>1, <2>1, <2>2, <2>3, <3>2
        <4>2. b[m - (n - 1)] = s[(m - (n - 1)) + n] /\ (m - (n - 1)) + n = m + 1
          BY <1>1, <2>2, <4>1
        <4>. QED BY <3>2, <4>1, <4>2
      <3>. QED BY <1>1, <3>1, <3>2
    <2>. QED BY <2>4, <2>5
  <1>. HIDE DEF r
  <1>6. IsInjective(r)
    <2>1. SUFFICES ASSUME NEW x \in 1 .. Len(s) - 1, NEW y \in 1 .. Len(s) - 1, r[x] = r[y] PROVE x = y
      BY <1>5 DEF IsInjective
    <2>2. \A m \in 1 .. Len(s) - 1 : m \in 1 .. Len(s) /\ m + 1 \in 1 .. Len(s)
      OBVIOUS
    <2>3. \A c, d \in 1 .. Len(s) : s[c] = s[d] => c = d
      BY DEF IsInjective
    <2>. QED BY <1>1, <1>5, <2>1, <2>2, <2>3
  <1>7. \A x \in Range(r) : x \in Range(s) /\ x # e
    BY <1>1, <1>2, <1>5 DEF Range
  <1>8. ASSUME NEW x \in Range(s), x # e PROVE x \in Range(r)
    <2>1. PICK m \in 1 .. Len(s) : x = s[m]
      BY DEF Range
    <2>2. CASE m < n
      BY <1>1, <1>5, <2>1, <2>2 DEF Range
    <2>3. CASE m > n
      <3>1. m - 1 \in 1 .. Len(s) - 1 /\ r[m - 1] = s[m]
        BY <1>1, <1>5, <2>1, <2>3
      <3>. QED BY <1>5, <2>1, <3>1 DEF Range
    <2>. QED BY <1>1, <1>8, <2>1, <2>2, <2>3
  <1>9. Range(r) = Range(s) \ {e}
    BY <1>7, <1>8
  <1>. QED BY <1>4, <1>5, <1>6, <1>9 DEF r

LEMMA SeqRanges ==
    ASSUME NEW S, NEW s \in Seq(S)
    PROVE  /\ \A e \in S : /\ <<e>> \o s \in Seq(S) /\ Range(<<e>> \o s) = Range(s) \cup {e}
                           /\ IsInjective(s) /\ e \notin Range(s) => IsInjective(<<e>> \o s)
           /\ s # <<>> => /\ Head(s) \in S /\ Tail(s) \in Seq(S)
                          /\ Head(s) \in Range(s) /\ Range(s) = Range(Tail(s)) \cup {Head(s)}
           /\ Range(s) \subseteq S
  <1>1. ASSUME NEW e \in S
        PROVE  /\ <<e>> \o s \in Seq(S) /\ Range(<<e>> \o s) = Range(s) \cup {e}
               /\ IsInjective(s) /\ e \notin Range(s) => IsInjective(<<e>> \o s)
    <2>. DEFINE r == <<e>> \o s
    <2>1. /\ r \in Seq(S) /\ Len(r) = Len(s) + 1 /\ r[1] = e
          /\ \A m \in 1 .. Len(s) : r[m + 1] = s[m]
      OBVIOUS
    <2>. HIDE DEF r
    <2>2. \A m \in 1 .. Len(r) : m # 1 => m - 1 \in 1 .. Len(s) /\ r[m] = s[m - 1]
      <3>1. ASSUME NEW m \in 1 .. Len(r), m # 1 PROVE m - 1 \in 1 .. Len(s) /\ r[m] = s[m - 1]
        <4>1. m - 1 \in 1 .. Len(s) /\ (m - 1) + 1 = m
          BY <2>1, <3>1
        <4>. QED BY <2>1, <4>1
      <3>. QED BY <3>1
    <2>3. Range(r) = Range(s) \cup {e}
      <3>1. ASSUME NEW x \in Range(s) PROVE x \in Range(r)
        <4>1. PICK m \in 1 .. Len(s) : x = s[m]
          BY DEF Range
        <4>2. m + 1 \in 1 .. Len(r) /\ r[m + 1] = x
          BY <2>1, <4>1
        <4>. QED BY <2>1, <4>2 DEF Range
      <3>2. e \in Range(r)
        BY <2>1 DEF Range
      <3>3. ASSUME NEW x \in Range(r) PROVE x \in Range(s) \cup {e}
        <4>1. PICK m \in 1 .. Len(r) : x = r[m]
          BY <2>1 DEF Range
        <4>. QED BY <2>1, <2>2, <4>1 DEF Range
      <3>. QED BY <3>1, <3>2, <3>3
    <2>4. IsInjective(s) /\ e \notin Range(s) => IsInjective(r)
      <3>1. SUFFICES ASSUME IsInjective(s), e \notin Range(s), NEW x \in 1 .. Len(r), NEW y \in 1 .. Len(r),
                            r[x] = r[y]
                     PROVE  x = y
        BY <2>1 DEF IsInjective
      <3>2. \A c, d \in 1 .. Len(s) : s[c] = s[d] => c = d
        BY <3>1 DEF IsInjective
      <3>3. \A m \in 1 .. Len(s) : s[m] # e
        BY <3>1 DEF Range
      <3>4. CASE x = 1 \/ y = 1
        BY <2>1, <2>2, <3>1, <3>3, <3>4
      <3>5. CASE x # 1 /\ y # 1
        <4>1. x - 1 \in 1 .. Len(s) /\ y - 1 \in 1 .. Len(s) /\ s[x - 1] = s[y - 1]
          BY <2>2, <3>1, <3>5
        <4>2. x - 1 = y - 1
          BY <3>2, <4>1
        <4>. QED BY <3>1, <4>2
      <3>. QED BY <3>4, <3>5
    <2>. QED BY <2>1, <2>3, <2>4 DEF r
  <1>2. ASSUME s # <<>>
        PROVE  /\ Head(s) \in S /\ Tail(s) \in Seq(S)
               /\ Head(s) \in Range(s) /\ Range(s) = Range(Tail(s)) \cup {Head(s)}
    <2>. DEFINE r == Tail(s)
    <2>1. /\ Head(s) = s[1] /\ r \in Seq(S) /\ Len(s) >= 1 /\ Len(r) = Len(s) - 1
          /\ \A m \in 1 .. Len(r) : r[m] = s[m + 1] /\ m + 1 \in 1 .. Len(s)
      BY <1>2
    <2>. HIDE DEF r
    <2>2. s[1] \in Range(s) /\ s[1] \in S
      BY <2>1 DEF Range
    <2>3. Range(r) \subseteq Range(s)
      BY <2>1, SMTT(30) DEF Range
    <2>4. ASSUME NEW x \in Range(s), x # s[1] PROVE x \in Range(r)
      <3>1. PICK m \in 1 .. Len(s) : x = s[m] /\ m # 1
        BY <2>4 DEF Range
      <3>2. m - 1 \in 1 .. Len(r) /\ r[m - 1] = x
        BY <2>1, <3>1
      <3>. QED BY <2>1, <3>2 DEF Range
    <2>. QED BY <2>1, <2>2, <2>3, <2>4 DEF r
  <1>3. Range(s) \subseteq S
    BY DEF Range
  <1>. QED BY <1>1, <1>2, <1>3
-----------------------------------------------------------------------------
LEMMA InitIInv == Init => IInv
  <1>1. SUFFICES ASSUME Init PROVE IInv
    OBVIOUS
  <1>2. TypeOK
    <2>1. thread \in [Queues -> [Indices -> {"none", "running", "exited", "joined"}]]
      BY <1>1 DEF Init, Indices
    <2>2. pc \in [Actors -> {"out", "add", "next", "done"} \cup Live] /\ i \in [Actors -> Nat]
      BY <1>1 DEF Init
    <2>3. queue_list \in Seq(Queues) /\ iter \in Seq(Queues) /\ num_threads \in [Queues -> Nat]
      BY <1>1 DEF Init
    <2>4. exit_mutex \in BOOLEAN
      BY <1>1 DEF Init
    <2>5. kill_threads \in [Queues -> BOOLEAN]
      BY <1>1, Zenon DEF Init
    <2>. QED BY <2>1, <2>2, <2>3, <2>4, <2>5 DEF TypeOK
  <1>3. Listed /\ Handler
    BY <1>1, QueueExitAssumption DEF Init, Listed, Handler, Live, Actors, Range, IsInjective
  <1>4. Stopped
    BY <1>1, QueueExitAssumption DEF Init, Stopped, Actors
  <1>. QED BY <1>2, <1>3, <1>4 DEF IInv

LEMMA InitQueueIInv == ASSUME IInv, NEW q \in Queues, InitQueue(q) PROVE IInv'
  <1>. USE QueueExitAssumption DEF IInv
  <1>1. /\ pc[q] = "out" /\ pc'[q] = "add" /\ (\A a \in Actors : a # q => pc'[a] = pc[a])
        /\ num_threads'[q] = Threads /\ q \in Actors /\ Exit \in Actors /\ q # Exit
        /\ \A p \in Queues : p # q => num_threads'[p] = num_threads[p] /\ thread'[p] = thread[p]
        /\ queue_list' = queue_list /\ exit_mutex' = exit_mutex /\ iter' = iter /\ i' = i
    BY DEF InitQueue, Goto, TypeOK, Actors
  <1>2. TypeOK'
    <2>1. thread' \in [Queues -> [Indices -> {"none", "running", "exited", "joined"}]]
      BY DEF InitQueue, TypeOK, Indices
    <2>. QED BY <1>1, <2>1 DEF InitQueue, Goto, TypeOK
  <1>3. Listed'
    BY <1>1 DEF Listed, Live, Actors
  <1>4. Handler'
    BY <1>1 DEF Handler
  <1>5. Stopped'
    <2>1. q \notin Range(queue_list) /\ q \notin Range(iter) /\ Range(queue_list) \subseteq Queues
      BY <1>1, SeqRanges DEF Listed, Handler, Live, TypeOK
    <2>2. \A p \in Queues : p # q /\ Quiet(p) => Quiet(p)'
      BY <1>1 DEF Quiet
    <2>3. \A p \in Queues : pc'[p] \in {"add", "up"} => num_threads'[p] = Threads \/ Quiet(p)'
      BY <1>1, <2>2 DEF Stopped, Actors
    <2>4. exit_mutex' => \A p \in Range(queue_list)' : pc'[p] = "up" => p \in Range(iter)' \/ Quiet(p)'
      BY <1>1, <2>1, <2>2 DEF Stopped, Actors
    <2>5. (pc'[Exit] \in {"join", "joining"} /\ pc'[Head(iter')] = "up") =>
             \A k \in Indices : k < i'[Exit] => thread'[Head(iter')][k] # "running"
      <3>1. SUFFICES ASSUME pc[Exit] \in {"join", "joining"}, pc'[Head(iter)] = "up"
                     PROVE  \A k \in Indices : k < i[Exit] => thread'[Head(iter)][k] # "running"
        BY <1>1
      <3>2. Head(iter) \in Queues /\ Head(iter) # q
        BY <2>1, <3>1, SeqRanges DEF Handler, TypeOK
      <3>. QED BY <1>1, <3>1, <3>2 DEF Stopped, Actors
    <2>. QED BY <2>3, <2>4, <2>5 DEF Stopped
  <1>. QED BY <1>2, <1>3, <1>4, <1>5

LEMMA AddToListIInv == ASSUME IInv, NEW q \in Queues, AddToList(q) PROVE IInv'
  <1>. USE QueueExitAssumption DEF IInv
  <1>1. /\ pc[q] = "add" /\ pc'[q] = "up" /\ (\A a \in Actors : a # q => pc'[a] = pc[a])
        /\ q \in Actors /\ Exit \in Actors /\ q # Exit /\ ~exit_mutex
        /\ queue_list' = <<q>> \o queue_list
        /\ exit_mutex' = exit_mutex /\ iter' = iter /\ i' = i
        /\ kill_threads' = kill_threads /\ num_threads' = num_threads /\ thread' = thread
    BY DEF AddToList, Goto, TypeOK, Actors, qvars
  <1>2. /\ queue_list' \in Seq(Queues) /\ Range(queue_list') = Range(queue_list) \cup {q}
        /\ IsInjective(queue_list')
    BY <1>1, SeqRanges DEF TypeOK, Listed, Live
  <1>3. TypeOK'
    BY <1>1, <1>2 DEF AddToList, Goto, TypeOK, Live
  <1>4. Listed'
    BY <1>1, <1>2 DEF Listed, Live, Actors
  <1>5. Handler'
    BY <1>1, <1>2 DEF Handler
  <1>6. Stopped'
    BY <1>1 DEF Stopped, Quiet, Actors, Handler
  <1>. QED BY <1>3, <1>4, <1>5, <1>6

LEMMA DestroyIInv == ASSUME IInv, NEW q \in Queues, Destroy(q) PROVE IInv'
  <1>. USE QueueExitAssumption DEF IInv
  <1>1. /\ pc[q] = "up" /\ pc'[q] = "kill" /\ (\A a \in Actors : a # q => pc'[a] = pc[a])
        /\ q \in Actors /\ Exit \in Actors /\ q # Exit
        /\ queue_list' = queue_list /\ exit_mutex' = exit_mutex /\ iter' = iter /\ i' = i
        /\ kill_threads' = kill_threads /\ num_threads' = num_threads /\ thread' = thread
    BY DEF Destroy, Goto, TypeOK, Actors, qvars
  <1>2. TypeOK'
    BY <1>1 DEF Destroy, Goto, TypeOK, Live
  <1>3. Listed'
    BY <1>1 DEF Listed, Live, Actors
  <1>4. Handler'
    BY <1>1 DEF Handler
  <1>5. Stopped'
    <2>1. Range(queue_list) \subseteq Queues
      BY SeqRanges DEF TypeOK
    <2>2. pc[Exit] \in {"join", "joining"} => Head(iter) \in Queues
      BY SeqRanges DEF TypeOK, Handler
    <2>. QED BY <1>1, <2>1, <2>2 DEF Stopped, Quiet, Actors
  <1>. QED BY <1>2, <1>3, <1>4, <1>5

LEMMA RemoveFromListIInv == ASSUME IInv, NEW q \in Queues, RemoveFromList(q) PROVE IInv'
  <1>. USE QueueExitAssumption DEF IInv
  <1>1. /\ pc[q] = "remove" /\ pc'[q] = "out" /\ (\A a \in Actors : a # q => pc'[a] = pc[a])
        /\ q \in Actors /\ Exit \in Actors /\ q # Exit /\ ~exit_mutex
        /\ queue_list' = RemoveFirst(queue_list, q)
        /\ exit_mutex' = exit_mutex /\ iter' = iter /\ i' = i
        /\ kill_threads' = kill_threads /\ num_threads' = num_threads
        /\ \A p \in Queues : p # q => thread'[p] = thread[p]
    BY DEF RemoveFromList, Goto, TypeOK, Actors
  <1>2. /\ queue_list' \in Seq(Queues) /\ Range(queue_list') = Range(queue_list) \ {q}
        /\ IsInjective(queue_list')
    BY <1>1, RemoveOnce DEF TypeOK, Listed, Live
  <1>3. TypeOK'
    <2>1. thread' \in [Queues -> [Indices -> {"none", "running", "exited", "joined"}]]
      BY DEF RemoveFromList, TypeOK
    <2>. QED BY <1>1, <1>2, <2>1 DEF RemoveFromList, Goto, TypeOK
  <1>4. Listed'
    BY <1>1, <1>2 DEF Listed, Live, Actors
  <1>5. Handler'
    <2>1. Range(<<>>) = {}
      BY DEF Range
    <2>. QED BY <1>1, <1>2, <2>1 DEF Handler
  <1>6. Stopped'
    BY <1>1 DEF Stopped, Quiet, Actors, Handler
  <1>. QED BY <1>3, <1>4, <1>5, <1>6

LEMMA ThreadExitsIInv ==
    ASSUME IInv, NEW q \in Queues, NEW k \in Indices, ThreadExits(q, k)
    PROVE  IInv'
  <1>. USE QueueExitAssumption DEF IInv
  <1>1. /\ queue_list' = queue_list /\ exit_mutex' = exit_mutex /\ iter' = iter /\ i' = i /\ pc' = pc
        /\ kill_threads' = kill_threads /\ num_threads' = num_threads
        /\ \A p \in Queues, j \in Indices : thread'[p][j] = "running" => thread[p][j] = "running"
    BY DEF ThreadExits, TypeOK
  <1>2. TypeOK'
    <2>1. thread' \in [Queues -> [Indices -> {"none", "running", "exited", "joined"}]]
      BY DEF ThreadExits, TypeOK
    <2>. QED BY <1>1, <2>1 DEF TypeOK
  <1>3. Listed' /\ Handler'
    BY <1>1 DEF Listed, Handler
  <1>4. Stopped'
    <2>1. Range(queue_list) \subseteq Queues
      BY SeqRanges DEF TypeOK
    <2>2. pc[Exit] \in {"join", "joining"} => Head(iter) \in Queues
      BY SeqRanges DEF TypeOK, Handler
    <2>3. \A p \in Queues : Quiet(p) => Quiet(p)'
      BY <1>1 DEF Quiet
    <2>. QED BY <1>1, <2>1, <2>2, <2>3 DEF Stopped
  <1>. QED BY <1>2, <1>3, <1>4

LEMMA TargetIsQueue ==
    ASSUME IInv, NEW a \in Actors, pc[a] \in {"kill", "join", "joining"}
    PROVE  /\ Target(a) \in Queues /\ (a # Exit => Target(a) = a) /\ (a = Exit => Target(a) = Head(iter))
           /\ pc[Exit] \in {"kill", "join", "joining"} => Head(iter) \in Queues
           /\ Range(queue_list) \subseteq Queues /\ Range(iter) \subseteq Queues
  BY SeqRanges DEF IInv, TypeOK, Handler, Target, Actors

LEMMA KillIInv == ASSUME IInv, NEW a \in Actors, Kill(a) PROVE IInv'
  <1>. USE QueueExitAssumption DEF IInv
  <1>0. /\ Target(a) \in Queues /\ (a # Exit => Target(a) = a) /\ (a = Exit => Target(a) = Head(iter))
        /\ pc[Exit] \in {"kill", "join", "joining"} => Head(iter) \in Queues
        /\ Range(queue_list) \subseteq Queues
    BY TargetIsQueue DEF Kill
  <1>1. /\ pc[a] = "kill" /\ pc'[a] = "join" /\ (\A b \in Actors : b # a => pc'[b] = pc[b] /\ i'[b] = i[b])
        /\ i'[a] = 0 /\ Exit \in Actors
        /\ queue_list' = queue_list /\ exit_mutex' = exit_mutex /\ iter' = iter
        /\ num_threads' = num_threads /\ thread' = thread
    BY DEF Kill, Goto, TypeOK, Actors
  <1>2. TypeOK'
    BY <1>0, <1>1 DEF Kill, Goto, TypeOK, Live
  <1>3. Listed'
    BY <1>1 DEF Listed, Live, Actors
  <1>4. Handler'
    BY <1>1 DEF Handler
  <1>5. Stopped'
    <2>1. \A q \in Queues : Quiet(q)' <=> Quiet(q)
      BY <1>1 DEF Quiet
    <2>2. \A q \in Queues : pc'[q] \in {"add", "up"} => pc[q] = pc'[q]
      BY <1>1 DEF Actors
    <2>3. (pc'[Exit] \in {"join", "joining"} /\ pc'[Head(iter)] = "up") =>
             \A k \in Indices : k < i'[Exit] => thread'[Head(iter)][k] # "running"
      BY <1>0, <1>1, <2>2 DEF Stopped, Indices
    <2>. QED BY <1>0, <1>1, <2>1, <2>2, <2>3 DEF Stopped
  <1>. QED BY <1>2, <1>3, <1>4, <1>5

LEMMA JoinIInv == ASSUME IInv, NEW a \in Actors, Join(a) PROVE IInv'
  <1>. USE QueueExitAssumption DEF IInv
  <1>. DEFINE q == Target(a)
  <1>0. /\ q \in Queues /\ (a # Exit => q = a) /\ (a = Exit => q = Head(iter))
        /\ pc[Exit] \in {"kill", "join", "joining"} => Head(iter) \in Queues
        /\ Range(queue_list) \subseteq Queues
    BY TargetIsQueue DEF Join
  <1>1. /\ pc[a] = "join" /\ pc'[a] \in {"join", "joining"}
        /\ (\A b \in Actors : b # a => pc'[b] = pc[b] /\ i'[b] = i[b])
        /\ i'[a] \in {i[a], i[a] + 1} /\ Exit \in Actors
        /\ i'[a] # i[a] => Joining(q, i[a]) # {} \/ thread[q][i[a]] = "joined"
        /\ queue_list' = queue_list /\ exit_mutex' = exit_mutex /\ iter' = iter
        /\ kill_threads' = kill_threads /\ num_threads' = num_threads /\ thread' = thread
    BY DEF Join, Goto, TypeOK, Actors, qvars
  <1>2. TypeOK'
    BY <1>1 DEF Join, Goto, TypeOK, Live
  <1>3. Listed'
    BY <1>1 DEF Listed, Live, Actors
  <1>4. Handler'
    BY <1>1 DEF Handler
  <1>5. Stopped'
    <2>1. \A p \in Queues : Quiet(p)' <=> Quiet(p)
      BY <1>1 DEF Quiet
    <2>2. \A p \in Queues : pc'[p] \in {"add", "up"} => pc[p] = pc'[p]
      BY <1>1 DEF Actors
    \* Only its owner could be joining a thread the handler skips, unless it is over.
    <2>3. a = Exit /\ pc[q] = "up" /\ i'[a] # i[a] => thread[q][i[a]] # "running"
      <3>1. SUFFICES ASSUME a = Exit, pc[q] = "up", Joining(q, i[a]) # {} PROVE FALSE
        BY <1>1
      <3>2. PICK b \in Actors : pc[b] = "joining" /\ Target(b) = q
        BY <3>1 DEF Joining
      <3>3. b # Exit
        BY <1>1, <3>1, <3>2
      <3>4. b = q
        BY <3>2, <3>3, TargetIsQueue
      <3>. QED BY <3>1, <3>2, <3>4
    <2>4. ASSUME pc'[Exit] \in {"join", "joining"}, pc'[Head(iter)] = "up", NEW k \in Indices, k < i'[Exit]
          PROVE  thread[Head(iter)][k] # "running"
      <3>1. pc[Exit] \in {"join", "joining"} /\ Head(iter) \in Queues
        BY <1>0, <1>1, <2>4
      <3>2. pc[Head(iter)] = "up"
        BY <2>2, <2>4, <3>1
      <3>3. k < i[Exit] \/ (a = Exit /\ i'[a] # i[a] /\ k = i[a])
        <4>1. i[Exit] \in Nat /\ k \in Nat
          BY <1>1 DEF TypeOK, Indices
        <4>2. CASE a = Exit
          BY <1>1, <2>4, <4>1, <4>2
        <4>3. CASE a # Exit
          BY <1>1, <2>4, <4>1, <4>3
        <4>. QED BY <4>2, <4>3
      <3>. QED BY <1>0, <2>3, <3>1, <3>2, <3>3 DEF Stopped
    <2>5. (pc'[Exit] \in {"join", "joining"} /\ pc'[Head(iter')] = "up") =>
             \A k \in Indices : k < i'[Exit] => thread'[Head(iter')][k] # "running"
      BY <1>1, <2>4
    <2>6. \A p \in Queues : pc'[p] \in {"add", "up"} => num_threads'[p] = Threads \/ Quiet(p)'
      BY <1>1, <2>1, <2>2 DEF Stopped
    <2>7. exit_mutex' => \A p \in Range(queue_list)' : pc'[p] = "up" => p \in Range(iter)' \/ Quiet(p)'
      BY <1>0, <1>1, <2>1, <2>2 DEF Stopped
    <2>. QED BY <2>5, <2>6, <2>7 DEF Stopped
  <1>. QED BY <1>2, <1>3, <1>4, <1>5

LEMMA JoinedIInv == ASSUME IInv, NEW a \in Actors, Joined(a) PROVE IInv'
  <1>. USE QueueExitAssumption DEF IInv
  <1>. DEFINE q == Target(a)
  <1>0. /\ q \in Queues /\ (a # Exit => q = a) /\ (a = Exit => q = Head(iter))
        /\ pc[Exit] \in {"kill", "join", "joining"} => Head(iter) \in Queues
        /\ Range(queue_list) \subseteq Queues
    BY TargetIsQueue DEF Joined
  <1>1. /\ pc[a] = "joining" /\ pc'[a] = "join"
        /\ (\A b \in Actors : b # a => pc'[b] = pc[b] /\ i'[b] = i[b])
        /\ i'[a] = i[a] + 1 /\ Exit \in Actors
        /\ queue_list' = queue_list /\ exit_mutex' = exit_mutex /\ iter' = iter
        /\ kill_threads' = kill_threads /\ num_threads' = num_threads
    BY DEF Joined, Goto, TypeOK, Actors
  <1>2. /\ \A p \in Queues, k \in Indices : thread'[p][k] = "running" => thread[p][k] = "running"
        /\ i[a] \in Indices => thread'[q][i[a]] # "running"
        /\ thread' \in [Queues -> [Indices -> {"none", "running", "exited", "joined"}]]
    BY <1>0 DEF Joined, TypeOK
  <1>3. TypeOK'
    BY <1>1, <1>2 DEF Joined, Goto, TypeOK, Live
  <1>4. Listed'
    BY <1>1 DEF Listed, Live, Actors
  <1>5. Handler'
    BY <1>1 DEF Handler
  <1>6. Stopped'
    <2>1. \A p \in Queues : Quiet(p) => Quiet(p)'
      BY <1>2 DEF Quiet
    <2>2. \A p \in Queues : pc'[p] \in {"add", "up"} => pc[p] = pc'[p]
      BY <1>1 DEF Actors
    <2>3. ASSUME pc'[Exit] \in {"join", "joining"}, pc'[Head(iter)] = "up", NEW k \in Indices, k < i'[Exit]
          PROVE  thread'[Head(iter)][k] # "running"
      <3>1. pc[Exit] \in {"join", "joining"} /\ Head(iter) \in Queues
        BY <1>0, <1>1, <2>3
      <3>2. pc[Head(iter)] = "up"
        BY <2>2, <2>3, <3>1
      <3>3. k < i[Exit] \/ (a = Exit /\ k = i[a])
        <4>1. i[Exit] \in Nat /\ k \in Nat
          BY <1>1 DEF TypeOK, Indices
        <4>2. CASE a = Exit
          BY <1>1, <2>3, <4>1, <4>2
        <4>3. CASE a # Exit
          BY <1>1, <2>3, <4>1, <4>3
        <4>. QED BY <4>2, <4>3
      <3>. QED BY <1>0, <1>2, <3>1, <3>2, <3>3 DEF Stopped
    <2>4. (pc'[Exit] \in {"join", "joining"} /\ pc'[Head(iter')] = "up") =>
             \A k \in Indices : k < i'[Exit] => thread'[Head(iter')][k] # "running"
      BY <1>1, <2>3
    <2>5. \A p \in Queues : pc'[p] \in {"add", "up"} => num_threads'[p] = Threads \/ Quiet(p)'
      BY <1>1, <2>1, <2>2 DEF Stopped
    <2>6. exit_mutex' => \A p \in Range(queue_list)' : pc'[p] = "up" => p \in Range(iter)' \/ Quiet(p)'
      BY <1>0, <1>1, <2>1, <2>2 DEF Stopped
    <2>. QED BY <2>4, <2>5, <2>6 DEF Stopped
  <1>. QED BY <1>3, <1>4, <1>5, <1>6

LEMMA JoinedAllIInv == ASSUME IInv, NEW a \in Actors, JoinedAll(a) PROVE IInv'
  <1>. USE QueueExitAssumption DEF IInv
  <1>. DEFINE q == Target(a)
  <1>0. /\ q \in Queues /\ (a # Exit => q = a) /\ (a = Exit => q = Head(iter))
        /\ pc[Exit] \in {"kill", "join", "joining"} => Head(iter) \in Queues
        /\ Range(queue_list) \subseteq Queues
    BY TargetIsQueue DEF JoinedAll
  <1>1. /\ pc[a] = "join" /\ i[a] >= num_threads[q] /\ i'[a] = 0
        /\ (\A b \in Actors : b # a => pc'[b] = pc[b] /\ i'[b] = i[b]) /\ Exit \in Actors
        /\ a # Exit => pc'[a] = "remove" /\ iter' = iter
        /\ a = Exit => pc'[a] = "next" /\ iter' = Tail(iter)
        /\ queue_list' = queue_list /\ exit_mutex' = exit_mutex
        /\ kill_threads' = kill_threads /\ thread' = thread
        /\ \A p \in Queues : p # q => num_threads'[p] = num_threads[p]
    BY <1>0 DEF JoinedAll, Goto, TypeOK, Actors
  <1>2. /\ iter' \in Seq(Queues) /\ Range(iter') \subseteq Range(iter)
        /\ \A p \in Range(iter) : p \in Range(iter') \/ (a = Exit /\ p = q)
    <2>1. CASE a = Exit
      <3>1. iter # <<>> /\ iter \in Seq(Queues)
        BY <1>1, <2>1 DEF Handler, TypeOK
      <3>2. Tail(iter) \in Seq(Queues) /\ Range(iter) = Range(Tail(iter)) \cup {Head(iter)}
        BY <3>1, SeqRanges
      <3>. QED BY <1>0, <1>1, <2>1, <3>2
    <2>2. CASE a # Exit
      BY <1>1, <2>2 DEF TypeOK
    <2>. QED BY <2>1, <2>2
  <1>3. TypeOK'
    <2>1. pc' \in [Actors -> {"out", "add", "next", "done"} \cup Live]
      BY DEF JoinedAll, Goto, TypeOK, Live
    <2>. QED BY <1>1, <1>2, <2>1 DEF JoinedAll, TypeOK
  <1>4. Listed'
    BY <1>1 DEF Listed, Live, Actors
  <1>5. Handler'
    BY <1>1, <1>2 DEF Handler
  <1>6. Stopped'
    <2>1. \A p \in Queues : Quiet(p)' <=> Quiet(p)
      BY <1>1 DEF Quiet
    <2>2. \A p \in Queues : pc'[p] \in {"add", "up"} => pc[p] = pc'[p]
      BY <1>1 DEF Actors
    \* The handler has waited for every thread of the queue.
    <2>3. a = Exit /\ pc[q] = "up" => Quiet(q)
      <3>1. SUFFICES ASSUME a = Exit, pc[q] = "up", num_threads[q] = Threads PROVE Quiet(q)
        BY <1>0 DEF Stopped
      <3>2. \A k \in Indices : k < i[Exit] => thread[q][k] # "running"
        BY <1>0, <1>1, <3>1 DEF Stopped
      <3>3. \A k \in Indices : k < i[Exit]
        BY <1>1, <3>1 DEF Indices, TypeOK
      <3>. QED BY <3>2, <3>3 DEF Quiet
    <2>4. a # Exit => pc'[q] = "remove"
      BY <1>0, <1>1
    <2>5. a = Exit => \A p \in Queues : p # a
      OBVIOUS
    <2>6. ASSUME NEW p \in Queues, pc'[p] \in {"add", "up"} PROVE num_threads'[p] = Threads \/ Quiet(p)
      <3>1. CASE p # q
        BY <1>1, <2>2, <2>6, <3>1 DEF Stopped
      <3>2. CASE p = q
        <4>1. a = Exit
          BY <2>4, <2>6, <3>2
        <4>2. pc[q] = "up" \/ pc[q] = "add"
          BY <2>2, <2>6, <3>2
        <4>3. q \in Range(queue_list)
          <5>1. iter # <<>> /\ iter \in Seq(Queues) /\ Range(iter) \subseteq Range(queue_list)
            BY <1>1, <4>1 DEF Handler, TypeOK
          <5>. QED BY <1>0, <4>1, <5>1, SeqRanges
        <4>4. pc[q] = "up"
          BY <1>0, <4>2, <4>3 DEF Listed, Live
        <4>. QED BY <2>3, <3>2, <4>1, <4>4
      <3>. QED BY <3>1, <3>2
    <2>7. ASSUME exit_mutex, NEW p \in Range(queue_list), pc'[p] = "up" PROVE p \in Range(iter') \/ Quiet(p)
      <3>1. p \in Queues /\ pc[p] = "up"
        BY <1>0, <2>2, <2>7
      <3>2. p \in Range(iter) \/ Quiet(p)
        BY <2>7, <3>1 DEF Stopped
      <3>. QED BY <1>2, <2>3, <3>1, <3>2
    <2>8. (pc'[Exit] \in {"join", "joining"} /\ pc'[Head(iter')] = "up") =>
             \A k \in Indices : k < i'[Exit] => thread'[Head(iter')][k] # "running"
      <3>1. SUFFICES ASSUME pc'[Exit] \in {"join", "joining"}, pc'[Head(iter')] = "up"
                     PROVE  \A k \in Indices : k < i'[Exit] => thread'[Head(iter')][k] # "running"
        OBVIOUS
      <3>2. a # Exit
        BY <1>1, <3>1
      <3>3. pc[Exit] = pc'[Exit] /\ iter' = iter /\ i'[Exit] = i[Exit] /\ Head(iter) \in Queues
        BY <1>0, <1>1, <3>1, <3>2
      <3>4. pc[Head(iter)] = "up"
        BY <2>2, <3>1, <3>3
      <3>. QED BY <1>1, <3>1, <3>3, <3>4 DEF Stopped
    <2>. QED BY <1>1, <2>1, <2>6, <2>7, <2>8, <1>0 DEF Stopped
  <1>. QED BY <1>3, <1>4, <1>5, <1>6

LEMMA ExitLockIInv == ASSUME IInv, ExitLock PROVE IInv'
  <1>. USE QueueExitAssumption DEF IInv
  <1>1. /\ pc[Exit] = "out" /\ pc'[Exit] = "next" /\ (\A b \in Actors : b # Exit => pc'[b] = pc[b])
        /\ iter' = queue_list /\ queue_list' = queue_list /\ exit_mutex' = TRUE /\ i' = i /\ Exit \in Actors
        /\ kill_threads' = kill_threads /\ num_threads' = num_threads /\ thread' = thread
    BY DEF ExitLock, Goto, TypeOK, Actors, qvars
  <1>2. TypeOK'
    BY <1>1 DEF ExitLock, Goto, TypeOK, Live
  <1>3. Listed'
    BY <1>1 DEF Listed, Live, Actors
  <1>4. Handler'
    BY <1>1 DEF Handler
  <1>5. Stopped'
    BY <1>1 DEF Stopped, Quiet, Actors
  <1>. QED BY <1>2, <1>3, <1>4, <1>5

LEMMA ExitNextIInv == ASSUME IInv, ExitNext PROVE IInv'
  <1>. USE QueueExitAssumption DEF IInv
  <1>1. /\ pc[Exit] = "next" /\ (\A b \in Actors : b # Exit => pc'[b] = pc[b])
        /\ \/ iter # <<>> /\ pc'[Exit] = "kill" /\ exit_mutex' = exit_mutex
           \/ iter = <<>> /\ pc'[Exit] = "done" /\ exit_mutex' = FALSE
        /\ iter' = iter /\ queue_list' = queue_list /\ i' = i /\ Exit \in Actors
        /\ kill_threads' = kill_threads /\ num_threads' = num_threads /\ thread' = thread
    BY DEF ExitNext, Goto, TypeOK, Actors, qvars
  <1>2. TypeOK'
    BY <1>1 DEF ExitNext, Goto, TypeOK, Live
  <1>3. Listed'
    BY <1>1 DEF Listed, Live, Actors
  <1>4. Handler'
    <2>1. CASE iter # <<>> /\ pc'[Exit] = "kill" /\ exit_mutex' = exit_mutex
      BY <1>1, <2>1 DEF Handler
    <2>2. CASE iter = <<>> /\ pc'[Exit] = "done" /\ exit_mutex' = FALSE
      BY <1>1, <2>2 DEF Handler
    <2>. QED BY <1>1, <2>1, <2>2
  <1>5. Stopped'
    <2>1. Range(queue_list) \subseteq Queues
      BY SeqRanges DEF TypeOK
    <2>. QED BY <1>1, <2>1 DEF Stopped, Quiet, Actors
  <1>. QED BY <1>2, <1>3, <1>4, <1>5

LEMMA NextIInv == IInv /\ [Next]_vars => IInv'
  <1>1. SUFFICES ASSUME IInv, [Next]_vars PROVE IInv'
    OBVIOUS
  <1>2. CASE ExitLock \/ ExitNext
    BY <1>1, <1>2, ExitLockIInv, ExitNextIInv
  <1>3. ASSUME NEW a \in Actors, KillStep(a) PROVE IInv'
    BY <1>1, <1>3, KillIInv, JoinIInv, JoinedIInv, JoinedAllIInv DEF KillStep
  <1>4. ASSUME NEW q \in Queues,
               \/ InitQueue(q) \/ AddToList(q) \/ Destroy(q) \/ RemoveFromList(q)
               \/ \E k \in 0 .. Threads - 1 : ThreadExits(q, k)
        PROVE  IInv'
    BY <1>1, <1>4, InitQueueIInv, AddToListIInv, DestroyIInv, RemoveFromListIInv, ThreadExitsIInv DEF Indices
  <1>5. CASE UNCHANGED vars
    BY <1>1, <1>5 DEF vars, qvars, IInv, TypeOK, Listed, Handler, Stopped, Quiet
  <1>. QED BY <1>1, <1>2, <1>3, <1>4, <1>5 DEF Next

LEMMA Invariance == Spec => []IInv
  BY InitIInv, NextIInv, PTL DEF Spec

\* For any number of queues, exit_mutex keeps util_queue_destroy from freeing a
\* queue that the exit handler works on or will come to.
THEOREM ExitUsesLiveQueues == Spec => []HandlerUsesLiveQueues
  <1>1. IInv => HandlerUsesLiveQueues
    <2>1. SUFFICES ASSUME IInv, NEW q \in Range(iter) PROVE pc[q] \in Live
      BY DEF HandlerUsesLiveQueues, Live
    <2>2. q \in Range(queue_list) /\ q \in Queues
      BY <2>1, SeqRanges DEF IInv, Handler, TypeOK
    <2>. QED BY <2>1, <2>2 DEF IInv, Listed
  <1>. QED BY <1>1, Invariance, PTL

\* For any number of queues and threads, when the exit handler returns every thread
\* of a queue that nobody is destroying has ended.
THEOREM ExitWaits == Spec => ExitWaitsForAll
  <1>1. IInv /\ [Next]_vars =>
           [(pc[Exit] = "next" /\ pc'[Exit] = "done") =>
              \A q \in Range(queue_list), k \in 0 .. Threads - 1 :
                 pc[q] = "up" => thread[q][k] # "running"]_vars
    <2>1. SUFFICES ASSUME IInv, Next, pc[Exit] = "next", pc'[Exit] = "done",
                          NEW q \in Range(queue_list), NEW k \in 0 .. Threads - 1, pc[q] = "up"
                   PROVE  thread[q][k] # "running"
      OBVIOUS
    <2>2. exit_mutex
      BY <2>1 DEF IInv, Handler
    <2>3. q \in Range(iter) \/ Quiet(q)
      BY <2>1, <2>2 DEF IInv, Stopped
    <2>4. ExitNext
      <3>1. Exit \in Actors /\ pc \in [Actors -> {"out", "add", "next", "done"} \cup Live]
        BY <2>1 DEF Actors, IInv, TypeOK
      <3>2. ASSUME NEW a \in Actors, KillStep(a) PROVE FALSE
        BY <2>1, <3>1, <3>2 DEF KillStep, Kill, Join, Joined, JoinedAll, Goto
      <3>3. ASSUME NEW p \in Queues,
                   \/ InitQueue(p) \/ AddToList(p) \/ Destroy(p) \/ RemoveFromList(p)
                   \/ \E j \in 0 .. Threads - 1 : ThreadExits(p, j)
            PROVE  FALSE
        <4>1. p # Exit
          BY QueueExitAssumption
        <4>2. pc'[Exit] = pc[Exit]
          BY <3>1, <3>3, <4>1 DEF InitQueue, AddToList, Destroy, RemoveFromList, ThreadExits, Goto
        <4>. QED BY <2>1, <4>2
      <3>4. ~ExitLock
        BY <2>1 DEF ExitLock
      <3>. QED BY <2>1, <3>2, <3>3, <3>4 DEF Next
    <2>5. iter = <<>>
      <3>1. Exit \in Actors /\ pc \in [Actors -> {"out", "add", "next", "done"} \cup Live]
        BY <2>1 DEF Actors, IInv, TypeOK
      <3>. QED BY <2>1, <2>4, <3>1 DEF ExitNext, Goto
    <2>6. Quiet(q)
      BY <2>3, <2>5 DEF Range
    <2>. QED BY <2>6 DEF Quiet, Indices
  <1>. QED BY <1>1, Invariance, PTL DEF Spec, ExitWaitsForAll
=============================================================================
