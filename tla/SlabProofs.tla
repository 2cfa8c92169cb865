----------------------------- MODULE SlabProofs -----------------------------
(***************************************************************************)
(* The slab allocator keeps every element in one place and every page      *)
(* until its last element is gone, for any number of child pools, pages    *)
(* and elements per page.                                                  *)
(***************************************************************************)
EXTENDS Slab, FiniteSetTheorems, TLAPS

TypeOK ==
    /\ allocated \in SUBSET Pages
    /\ pages \in [Pools -> SUBSET Pages]
    /\ free \in [Pools -> SUBSET Elements]
    /\ migrated \in [Pools -> SUBSET Elements]
    /\ owner \in [Elements -> Pools \cup Pages]
    /\ num_remaining \in [Pages -> Int]
    /\ pc \in [Pools -> {"none", "idle", "alloc", "free_lock", "free_orphan", "destroy"}]
    /\ arg \in [Pools -> Elements \cup {NoElement}]
    /\ held \in SUBSET Elements

\* The pages on the list of a pool are allocated and on no other list, and their
\* elements belong to the pool; somebody has each of them.
PagesOwned ==
    /\ \A c \in Pools : pages[c] \subseteq allocated
    /\ \A c, d \in Pools : c # d => pages[c] \cap pages[d] = {}
    /\ \A c \in Pools : \A e \in Elements : e[1] \in pages[c] => owner[e] = c /\ InUse(e)

\* slab_free has an element exactly from the test of the owner to its last line,
\* and once it has seen an orphan the element stays one.
ArgInv ==
    /\ \A c \in Pools : arg[c] # NoElement <=> pc[c] \in {"free_lock", "free_orphan"}
    /\ \A c \in Pools : pc[c] = "free_orphan" => owner[arg[c]] = arg[c][1]

\* A pool that does not exist has no free elements.
NoneFree == \A c \in Pools : pc[c] = "none" => free[c] = {}

\* The inductive invariant.
IInv ==
    /\ TypeOK /\ OnePlace /\ NoUseAfterFree /\ NoLeak /\ OwnerIsAlive
    /\ PagesOwned /\ ArgInv /\ NoneFree

\* What the provers need to know of elements: each is on one page, and a page
\* has NumElements of them.
LEMMA ElementFacts ==
    /\ \A e \in Elements : e[1] \in Pages /\ e \in On(e[1]) /\ e # NoElement
    /\ \A p \in Pages : \A e \in On(p) : e \in Elements /\ e[1] = p
    /\ \A p \in Pages : IsFiniteSet(On(p)) /\ Cardinality(On(p)) = NumElements
<1>1. \A e \in Elements : e[1] \in Pages /\ e \in On(e[1]) /\ e # NoElement
  BY SlabAssumption DEF Elements, On
<1>2. \A p \in Pages : \A e \in On(p) : e \in Elements /\ e[1] = p
  BY DEF Elements, On
<1>3. ASSUME NEW p \in Pages
      PROVE  IsFiniteSet(On(p)) /\ Cardinality(On(p)) = NumElements
  <2>1. IsFiniteSet({p}) /\ Cardinality({p}) = 1
    BY FS_Singleton
  <2>2. IsFiniteSet(1 .. NumElements) /\ Cardinality(1 .. NumElements) = NumElements
    BY FS_Interval, SlabAssumption
  <2>3. IsFiniteSet(On(p)) /\ Cardinality(On(p)) = 1 * NumElements
    <3>1. IsFiniteSet({p} \X (1 .. NumElements)) /\
          Cardinality({p} \X (1 .. NumElements)) = Cardinality({p}) * Cardinality(1 .. NumElements)
      BY <2>1, <2>2, FS_Product
    <3> QED
      BY <2>1, <2>2, <3>1 DEF On
  <2> QED
    BY <2>3, SlabAssumption
<1> QED
  BY <1>1, <1>2, <1>3

\* There are no pools, pages or elements in use at first.
LEMMA InitIInv == Init => IInv
<1> SUFFICES ASSUME Init PROVE IInv
  OBVIOUS
<1> USE ElementFacts, SlabAssumption
<1>1. \A e \in Elements : ~InUse(e)
  BY DEF Init, InUse
<1>2. TypeOK
  BY DEF Init, TypeOK
<1>3. OnePlace
  BY DEF Init, OnePlace
<1> QED
  BY <1>1, <1>2, <1>3 DEF Init, IInv, NoUseAfterFree, NoLeak, OwnerIsAlive, PagesOwned, ArgInv, NoneFree

\* A step that frees no page, counts no orphan down, leaves every element in use
\* in use and every living pool its pages keeps NoLeak.
LEMMA NoLeakStays ==
    ASSUME IInv,
           allocated' = allocated, num_remaining' = num_remaining,
           \A e \in Elements : InUse(e)' <=> InUse(e),
           \A c \in Pools : (pages[c] # {} /\ pc[c] \notin {"none", "destroy"})
                              => pages'[c] = pages[c] /\ pc'[c] \notin {"none", "destroy"}
    PROVE  NoLeak'
<1>1. ASSUME NEW p \in Pages
      PROVE  {e \in On(p) : InUse(e)}' = {e \in On(p) : InUse(e)}
  BY ElementFacts
<1> QED
  BY <1>1 DEF IInv, NoLeak, TypeOK

\* A new pool has nothing.
LEMMA CreateChildIInv == ASSUME IInv, NEW c \in Pools, CreateChild(c) PROVE IInv'
<1> USE ElementFacts, SlabAssumption
<1>1. TypeOK'
  BY DEF CreateChild, Goto, lists, IInv, TypeOK
<1>2. \A e \in Elements : InUse(e)' <=> InUse(e)
  BY <1>1 DEF CreateChild, Goto, lists, IInv, TypeOK, InUse, ArgInv, OwnerIsAlive, NoneFree
<1>3. OnePlace'
  BY <1>1 DEF CreateChild, Goto, lists, IInv, TypeOK, OnePlace, ArgInv, OwnerIsAlive, NoneFree
<1>4. NoUseAfterFree'
  BY <1>1, <1>2 DEF CreateChild, Goto, lists, IInv, TypeOK, NoUseAfterFree
<1>5. NoLeak'
  BY <1>2, NoLeakStays DEF CreateChild, Goto, lists, IInv, TypeOK, OwnerIsAlive
<1>6. OwnerIsAlive'
  BY <1>1, <1>2 DEF CreateChild, Goto, lists, IInv, TypeOK, OwnerIsAlive, ArgInv, NoneFree
<1>7. PagesOwned'
  BY <1>1, <1>2 DEF CreateChild, Goto, lists, IInv, TypeOK, PagesOwned
<1>8. ArgInv' /\ NoneFree'
  BY <1>1 DEF CreateChild, Goto, lists, IInv, TypeOK, ArgInv, NoneFree, OnePlace, OwnerIsAlive
<1> QED
  BY <1>1, <1>3, <1>4, <1>5, <1>6, <1>7, <1>8 DEF IInv

\* An element moves from the free list to the program.
LEMMA AllocIInv == ASSUME IInv, NEW c \in Pools, Alloc(c) PROVE IInv'
<1> USE ElementFacts, SlabAssumption
<1>1. TypeOK'
  BY DEF Alloc, Goto, lists, IInv, TypeOK
<1>2. \A e \in Elements : InUse(e)' <=> InUse(e)
  BY <1>1 DEF Alloc, Goto, lists, IInv, TypeOK, InUse, ArgInv, OwnerIsAlive, NoneFree
<1>3. OnePlace'
  BY <1>1 DEF Alloc, Goto, lists, IInv, TypeOK, OnePlace, ArgInv, OwnerIsAlive, NoneFree
<1>4. NoUseAfterFree'
  BY <1>1, <1>2 DEF Alloc, Goto, lists, IInv, TypeOK, NoUseAfterFree
<1>5. NoLeak'
  BY <1>2, NoLeakStays DEF Alloc, Goto, lists, IInv, TypeOK, OwnerIsAlive
<1>6. OwnerIsAlive'
  BY <1>1, <1>2 DEF Alloc, Goto, lists, IInv, TypeOK, OwnerIsAlive, ArgInv, NoneFree
<1>7. PagesOwned'
  BY <1>1, <1>2 DEF Alloc, Goto, lists, IInv, TypeOK, PagesOwned
<1>8. ArgInv' /\ NoneFree'
  BY <1>1 DEF Alloc, Goto, lists, IInv, TypeOK, ArgInv, NoneFree, OnePlace, OwnerIsAlive
<1> QED
  BY <1>1, <1>3, <1>4, <1>5, <1>6, <1>7, <1>8 DEF IInv

\* The migrated list becomes the free list.
LEMMA AllocCollectIInv == ASSUME IInv, NEW c \in Pools, AllocCollect(c) PROVE IInv'
<1> USE ElementFacts, SlabAssumption
<1>1. TypeOK'
  BY DEF AllocCollect, Goto, lists, IInv, TypeOK
<1>2. \A e \in Elements : InUse(e)' <=> InUse(e)
  BY <1>1 DEF AllocCollect, Goto, lists, IInv, TypeOK, InUse, ArgInv, OwnerIsAlive, NoneFree
<1>3. OnePlace'
  BY <1>1 DEF AllocCollect, Goto, lists, IInv, TypeOK, OnePlace, ArgInv, OwnerIsAlive, NoneFree
<1>4. NoUseAfterFree'
  BY <1>1, <1>2 DEF AllocCollect, Goto, lists, IInv, TypeOK, NoUseAfterFree
<1>5. NoLeak'
  BY <1>2, NoLeakStays DEF AllocCollect, Goto, lists, IInv, TypeOK, OwnerIsAlive
<1>6. OwnerIsAlive'
  BY <1>1, <1>2 DEF AllocCollect, Goto, lists, IInv, TypeOK, OwnerIsAlive, ArgInv, NoneFree
<1>7. PagesOwned'
  BY <1>1, <1>2 DEF AllocCollect, Goto, lists, IInv, TypeOK, PagesOwned
<1>8. ArgInv' /\ NoneFree'
  BY <1>1 DEF AllocCollect, Goto, lists, IInv, TypeOK, ArgInv, NoneFree, OnePlace, OwnerIsAlive
<1> QED
  BY <1>1, <1>3, <1>4, <1>5, <1>6, <1>7, <1>8 DEF IInv

\* Nothing changes but the place of the thread.
LEMMA AllocFailsIInv == ASSUME IInv, NEW c \in Pools, AllocFails(c) PROVE IInv'
<1> USE ElementFacts, SlabAssumption
<1>1. TypeOK'
  BY DEF AllocFails, Goto, lists, IInv, TypeOK
<1>2. \A e \in Elements : InUse(e)' <=> InUse(e)
  BY <1>1 DEF AllocFails, Goto, lists, IInv, TypeOK, InUse, ArgInv, OwnerIsAlive, NoneFree
<1>3. OnePlace'
  BY <1>1 DEF AllocFails, Goto, lists, IInv, TypeOK, OnePlace, ArgInv, OwnerIsAlive, NoneFree
<1>4. NoUseAfterFree'
  BY <1>1, <1>2 DEF AllocFails, Goto, lists, IInv, TypeOK, NoUseAfterFree
<1>5. NoLeak'
  BY <1>2, NoLeakStays DEF AllocFails, Goto, lists, IInv, TypeOK, OwnerIsAlive
<1>6. OwnerIsAlive'
  BY <1>1, <1>2 DEF AllocFails, Goto, lists, IInv, TypeOK, OwnerIsAlive, ArgInv, NoneFree
<1>7. PagesOwned'
  BY <1>1, <1>2 DEF AllocFails, Goto, lists, IInv, TypeOK, PagesOwned
<1>8. ArgInv' /\ NoneFree'
  BY <1>1 DEF AllocFails, Goto, lists, IInv, TypeOK, ArgInv, NoneFree, OnePlace, OwnerIsAlive
<1> QED
  BY <1>1, <1>3, <1>4, <1>5, <1>6, <1>7, <1>8 DEF IInv

\* An element moves from the program to the free list, or to slab_free.
LEMMA FreeIInv == ASSUME IInv, NEW c \in Pools, Free(c) PROVE IInv'
<1> USE ElementFacts, SlabAssumption
<1>1. TypeOK'
  BY DEF Free, Goto, lists, IInv, TypeOK
<1>2. \A e \in Elements : InUse(e)' <=> InUse(e)
  BY <1>1 DEF Free, Goto, lists, IInv, TypeOK, InUse, ArgInv, OwnerIsAlive, NoneFree
<1>3. OnePlace'
  <2> PICK e \in held :
         /\ held' = held \ {e}
         /\ \/ /\ owner[e] = c
               /\ free' = [free EXCEPT ![c] = free[c] \cup {e}]
               /\ UNCHANGED <<pc, arg>>
            \/ /\ owner[e] # c
               /\ arg' = [arg EXCEPT ![c] = e]
               /\ Goto(c, "free_lock")
               /\ UNCHANGED free
    BY DEF Free
  <2>0. migrated' = migrated /\ e \in Elements
    BY DEF Free, IInv, TypeOK
  <2>1. CASE owner[e] = c
    BY <2>0, <2>1 DEF IInv, TypeOK, OnePlace
  <2>2. CASE owner[e] # c
    <3>1. arg[c] = NoElement
      BY DEF Free, IInv, ArgInv
    <3> QED
      BY <2>0, <2>2, <3>1 DEF IInv, TypeOK, OnePlace
  <2> QED
    BY <2>1, <2>2
<1>4. NoUseAfterFree'
  BY <1>1, <1>2 DEF Free, Goto, lists, IInv, TypeOK, NoUseAfterFree
<1>5. NoLeak'
  BY <1>2, NoLeakStays DEF Free, Goto, lists, IInv, TypeOK, OwnerIsAlive
<1>6. OwnerIsAlive'
  BY <1>1, <1>2, SMTT(30) DEF Free, Goto, lists, IInv, TypeOK, OwnerIsAlive, ArgInv, NoneFree
<1>7. PagesOwned'
  BY <1>1, <1>2 DEF Free, Goto, lists, IInv, TypeOK, PagesOwned
<1>8. ArgInv' /\ NoneFree'
  BY <1>1 DEF Free, Goto, lists, IInv, TypeOK, ArgInv, NoneFree, OnePlace, OwnerIsAlive
<1> QED
  BY <1>1, <1>3, <1>4, <1>5, <1>6, <1>7, <1>8 DEF IInv

\* The element moves to its owner's migrated list, or is seen to be an orphan.
LEMMA FreeLockedIInv == ASSUME IInv, NEW c \in Pools, FreeLocked(c) PROVE IInv'
<1> USE ElementFacts, SlabAssumption
<1>0. /\ arg[c] \in Elements /\ InUse(arg[c])
      /\ owner[arg[c]] \in Pages => owner[arg[c]] = arg[c][1]
      /\ owner[arg[c]] \in Pools => pc[owner[arg[c]]] \notin {"none", "destroy"}
  BY DEF FreeLocked, IInv, TypeOK, ArgInv, InUse, OwnerIsAlive
<1>1. TypeOK'
  BY <1>0 DEF FreeLocked, Goto, IInv, TypeOK
<1>2. \A e \in Elements : InUse(e)' <=> InUse(e)
  BY <1>1 DEF FreeLocked, Goto, lists, IInv, TypeOK, InUse, ArgInv, OwnerIsAlive, NoneFree
<1>3. OnePlace'
  BY <1>1, SMTT(30) DEF FreeLocked, Goto, lists, IInv, TypeOK, OnePlace, ArgInv, OwnerIsAlive, NoneFree
<1>4. NoUseAfterFree'
  BY <1>1, <1>2 DEF FreeLocked, Goto, lists, IInv, TypeOK, NoUseAfterFree
<1>5. NoLeak'
  BY <1>2, NoLeakStays DEF FreeLocked, Goto, lists, IInv, TypeOK, OwnerIsAlive
<1>6. OwnerIsAlive'
  BY <1>0, <1>1, <1>2 DEF FreeLocked, Goto, IInv, TypeOK, OwnerIsAlive
<1>7. PagesOwned'
  BY <1>1, <1>2 DEF FreeLocked, Goto, lists, IInv, TypeOK, PagesOwned
<1>8. ArgInv' /\ NoneFree'
  BY <1>0, <1>1, SMTT(30) DEF FreeLocked, Goto, IInv, TypeOK, ArgInv, NoneFree
<1> QED
  BY <1>1, <1>3, <1>4, <1>5, <1>6, <1>7, <1>8 DEF IInv

\* The pool is gone; its lists were empty.
LEMMA DestroyedIInv == ASSUME IInv, NEW c \in Pools, Destroyed(c) PROVE IInv'
<1> USE ElementFacts, SlabAssumption
<1>1. TypeOK'
  BY DEF Destroyed, Goto, lists, IInv, TypeOK
<1>2. \A e \in Elements : InUse(e)' <=> InUse(e)
  BY <1>1 DEF Destroyed, Goto, lists, IInv, TypeOK, InUse, ArgInv, OwnerIsAlive, NoneFree
<1>3. OnePlace'
  BY <1>1 DEF Destroyed, Goto, lists, IInv, TypeOK, OnePlace, ArgInv, OwnerIsAlive, NoneFree
<1>4. NoUseAfterFree'
  BY <1>1, <1>2 DEF Destroyed, Goto, lists, IInv, TypeOK, NoUseAfterFree
<1>5. NoLeak'
  BY <1>2, NoLeakStays DEF Destroyed, Goto, lists, IInv, TypeOK, OwnerIsAlive
<1>6. OwnerIsAlive'
  BY <1>1, <1>2 DEF Destroyed, Goto, lists, IInv, TypeOK, OwnerIsAlive, ArgInv, NoneFree
<1>7. PagesOwned'
  BY <1>1, <1>2 DEF Destroyed, Goto, lists, IInv, TypeOK, PagesOwned
<1>8. ArgInv' /\ NoneFree'
  BY <1>1 DEF Destroyed, Goto, lists, IInv, TypeOK, ArgInv, NoneFree, OnePlace, OwnerIsAlive
<1> QED
  BY <1>1, <1>3, <1>4, <1>5, <1>6, <1>7, <1>8 DEF IInv

\* A fresh page: nobody has an element of it, and all of them become free.
LEMMA AllocPageIInv == ASSUME IInv, NEW c \in Pools, AllocPage(c) PROVE IInv'
<1> USE ElementFacts, SlabAssumption
<1>1. TypeOK'
  BY DEF AllocPage, Goto, lists, IInv, TypeOK
<1>0. PICK p \in Pages \ allocated :
         /\ allocated' = allocated \cup {p}
         /\ owner' = [e \in Elements |-> IF e \in On(p) THEN c ELSE owner[e]]
         /\ free' = [free EXCEPT ![c] = On(p)]
         /\ pages' = [pages EXCEPT ![c] = pages[c] \cup {p}]
  BY DEF AllocPage
<1>a. /\ \A e \in On(p) : ~InUse(e)
      /\ \A d \in Pools : p \notin pages[d]
      /\ \A d \in Pools, e \in Elements : e \in free[d] \cup migrated[d] \cup {arg[d]} => e[1] # p
      /\ free[c] = {} /\ arg[c] = NoElement
      /\ \A e \in Elements : e[1] = p <=> e \in On(p)
  BY DEF AllocPage, IInv, NoUseAfterFree, PagesOwned, InUse, ArgInv
<1>2. \A e \in Elements : InUse(e)' <=> InUse(e) \/ e \in On(p)
  BY <1>0, <1>a DEF AllocPage, IInv, TypeOK, InUse
<1>3. OnePlace'
  BY <1>0, <1>a, <1>1 DEF AllocPage, IInv, TypeOK, OnePlace, InUse
<1>4. NoUseAfterFree'
  BY <1>0, <1>a, <1>2 DEF IInv, NoUseAfterFree
<1>5. NoLeak'
  <2>1. ASSUME NEW q \in allocated
        PROVE  {e \in On(q) : InUse(e)}' = {e \in On(q) : InUse(e)}
    BY <1>0, <1>a, <1>2 DEF IInv, TypeOK
  <2>2. p \in pages'[c] /\ pc'[c] \notin {"none", "destroy"}
    BY <1>0 DEF AllocPage, IInv, TypeOK
  <2> QED
    BY <1>0, <2>1, <2>2, SMTT(30) DEF AllocPage, IInv, TypeOK, NoLeak
<1>6. OwnerIsAlive'
  BY <1>0, <1>a, <1>1, <1>2 DEF AllocPage, IInv, TypeOK, OwnerIsAlive
<1>7. PagesOwned'
  BY <1>0, <1>a, <1>1, <1>2 DEF AllocPage, IInv, TypeOK, PagesOwned
<1>8. ArgInv' /\ NoneFree'
  BY <1>0, <1>a, <1>1 DEF AllocPage, IInv, TypeOK, ArgInv, NoneFree, InUse
<1> QED
  BY <1>1, <1>3, <1>4, <1>5, <1>6, <1>7, <1>8 DEF IInv

\* slab_free_orphaned counts the element it frees, and frees the page with the
\* last one.
LEMMA FreeOrphanedFacts ==
    ASSUME IInv, NEW x \in Elements, InUse(x), owner[x] = x[1], FreeOrphaned(x),
           \A e \in Elements : InUse(e)' <=> InUse(e) /\ e # x,
           pages' = pages,
           \A c \in Pools : pc[c] \notin {"none", "destroy"} => pc'[c] \notin {"none", "destroy"}
    PROVE  /\ allocated' \in SUBSET Pages
           /\ num_remaining' \in [Pages -> Int]
           /\ NoUseAfterFree' /\ NoLeak'
           /\ \A c \in Pools : x[1] \notin pages[c] /\ pages[c] \subseteq allocated'
<1> USE ElementFacts, SlabAssumption
<1> DEFINE p == x[1]
           Left(q) == {e \in On(q) : InUse(e)}
<1>1. p \in Pages /\ p \in allocated /\ \A c \in Pools : p \notin pages[c]
  BY DEF IInv, NoUseAfterFree, PagesOwned
<1>2. /\ num_remaining' = [num_remaining EXCEPT ![p] = num_remaining[p] - 1]
      /\ allocated' = IF num_remaining[p] = 1 THEN allocated \ {p} ELSE allocated
  BY DEF FreeOrphaned
<1>3. num_remaining[p] > 0 /\ num_remaining[p] = Cardinality(Left(p))
  BY <1>1 DEF IInv, NoLeak
<1>4. IsFiniteSet(Left(p)) /\ x \in Left(p)
  BY <1>1, FS_Subset
<1>5. Left(p)' = Left(p) \ {x}
  BY <1>1
<1>6. IsFiniteSet(Left(p)') /\ Cardinality(Left(p)') = Cardinality(Left(p)) - 1
  <2>1. IsFiniteSet(Left(p) \ {x}) /\ Cardinality(Left(p) \ {x}) = Cardinality(Left(p)) - 1
    <3> HIDE DEF Left
    <3> QED
      BY <1>4, FS_RemoveElement, ZenonT(60)
  <2> QED
    BY <1>5, <2>1
<1>7. \A q \in Pages : q # p => Left(q)' = Left(q)
  OBVIOUS
<1>8. allocated' \in SUBSET Pages /\ num_remaining' \in [Pages -> Int]
  BY <1>2 DEF IInv, TypeOK
<1>9. NoUseAfterFree'
  <2>1. num_remaining[p] = 1 => Left(p)' = {}
    BY <1>3, <1>6, FS_EmptySet
  <2>2. ASSUME NEW e \in Elements, InUse(e)' PROVE e[1] \in allocated'
    <3>1. e[1] \in allocated
      BY <2>2 DEF IInv, NoUseAfterFree
    <3>2. e[1] = p => e \in Left(p)'
      BY <2>2
    <3> QED
      BY <1>2, <2>1, <3>1, <3>2
  <2> QED
    BY <2>2 DEF NoUseAfterFree
<1>10. NoLeak'
  <2>1. num_remaining'[p] = Cardinality(Left(p)')
    BY <1>1, <1>2, <1>3, <1>6 DEF IInv, TypeOK
  <2>2. p \in allocated' => num_remaining'[p] > 0
    BY <1>1, <1>2, <1>3 DEF IInv, TypeOK
  <2>3. ASSUME NEW q \in allocated', q # p
        PROVE  \/ \E c \in Pools : q \in pages'[c] /\ pc'[c] \notin {"none", "destroy"}
               \/ num_remaining'[q] > 0 /\ num_remaining'[q] = Cardinality(Left(q)')
    <3>1. q \in allocated /\ q \in Pages
      BY <1>2 DEF IInv, TypeOK
    <3>2. num_remaining'[q] = num_remaining[q] /\ Left(q)' = Left(q)
      BY <1>2, <1>7, <2>3, <3>1 DEF IInv, TypeOK
    <3> QED
      BY <3>1, <3>2 DEF IInv, NoLeak
  <2> QED
    BY <2>1, <2>2, <2>3 DEF NoLeak
<1>11. \A c \in Pools : pages[c] \subseteq allocated'
  BY <1>1, <1>2 DEF IInv, PagesOwned
<1> QED
  BY <1>1, <1>8, <1>9, <1>10, <1>11

\* slab_free frees an orphaned element.
LEMMA FreeOrphanIInv == ASSUME IInv, NEW c \in Pools, FreeOrphan(c) PROVE IInv'
<1> USE ElementFacts, SlabAssumption
<1> DEFINE x == arg[c]
<1>0. x \in Elements /\ InUse(x) /\ owner[x] = x[1]
  BY DEF FreeOrphan, IInv, TypeOK, ArgInv, InUse
<1>1. \A e \in Elements : InUse(e)' <=> InUse(e) /\ e # x
  BY <1>0 DEF FreeOrphan, lists, IInv, TypeOK, InUse, OnePlace
<1>2. /\ allocated' \in SUBSET Pages
      /\ num_remaining' \in [Pages -> Int]
      /\ NoUseAfterFree' /\ NoLeak'
      /\ \A d \in Pools : x[1] \notin pages[d] /\ pages[d] \subseteq allocated'
  <2>1. FreeOrphaned(x) /\ pages' = pages
    BY DEF FreeOrphan, lists
  <2>2. \A d \in Pools : pc[d] \notin {"none", "destroy"} => pc'[d] \notin {"none", "destroy"}
    BY DEF FreeOrphan, Goto, IInv, TypeOK
  <2> QED
    BY <1>0, <1>1, <2>1, <2>2, FreeOrphanedFacts
<1>3. TypeOK'
  BY <1>2 DEF FreeOrphan, Goto, lists, IInv, TypeOK
<1>4. OnePlace'
  BY DEF FreeOrphan, lists, IInv, TypeOK, OnePlace
<1>5. OwnerIsAlive'
  BY <1>1 DEF FreeOrphan, Goto, lists, IInv, TypeOK, OwnerIsAlive
<1>6. PagesOwned'
  BY <1>1, <1>2 DEF FreeOrphan, lists, IInv, TypeOK, PagesOwned
<1>7. ArgInv' /\ NoneFree'
  BY DEF FreeOrphan, Goto, lists, IInv, TypeOK, ArgInv, NoneFree
<1> QED
  BY <1>2, <1>3, <1>4, <1>5, <1>6, <1>7 DEF IInv

\* slab_destroy_child frees one element of the free list.
LEMMA DestroyFreeIInv == ASSUME IInv, NEW c \in Pools, DestroyFree(c) PROVE IInv'
<1> USE ElementFacts, SlabAssumption
<1>a. PICK x \in free[c] : free' = [free EXCEPT ![c] = free[c] \ {x}] /\ FreeOrphaned(x)
  BY DEF DestroyFree
<1>0. x \in Elements /\ InUse(x) /\ owner[x] = x[1]
  BY DEF DestroyFree, IInv, TypeOK, OwnerIsAlive, InUse
<1>1. \A e \in Elements : InUse(e)' <=> InUse(e) /\ e # x
  BY <1>a, <1>0 DEF DestroyFree, IInv, TypeOK, InUse, OnePlace
<1>2. /\ allocated' \in SUBSET Pages
      /\ num_remaining' \in [Pages -> Int]
      /\ NoUseAfterFree' /\ NoLeak'
      /\ \A d \in Pools : x[1] \notin pages[d] /\ pages[d] \subseteq allocated'
  <2>1. pages' = pages /\ pc' = pc
    BY DEF DestroyFree
  <2> QED
    BY <1>a, <1>0, <1>1, <2>1, FreeOrphanedFacts
<1>3. TypeOK'
  BY <1>a, <1>2 DEF DestroyFree, IInv, TypeOK
<1>4. OnePlace'
  BY <1>a DEF DestroyFree, IInv, TypeOK, OnePlace
<1>5. OwnerIsAlive'
  BY <1>a, <1>1 DEF DestroyFree, IInv, TypeOK, OwnerIsAlive
<1>6. PagesOwned'
  BY <1>a, <1>1, <1>2 DEF DestroyFree, IInv, TypeOK, PagesOwned
<1>7. ArgInv' /\ NoneFree'
  BY <1>a DEF DestroyFree, IInv, TypeOK, ArgInv, NoneFree
<1> QED
  BY <1>2, <1>3, <1>4, <1>5, <1>6, <1>7 DEF IInv

\* slab_destroy_child turns the pages of the pool into orphans that wait for the
\* elements that are not on its migrated list.
LEMMA DestroyChildIInv == ASSUME IInv, NEW c \in Pools, DestroyChild(c) PROVE IInv'
<1> USE ElementFacts, SlabAssumption
<1> DEFINE Left(q) == {e \in On(q) : InUse(e)}
<1>0. /\ pc[c] = "idle" /\ arg' = arg /\ held' = held /\ free' = free
      /\ pages' = [pages EXCEPT ![c] = {}] /\ migrated' = [migrated EXCEPT ![c] = {}]
      /\ owner' = [e \in Elements |-> IF e[1] \in pages[c] THEN e[1] ELSE owner[e]]
      /\ pc' = [pc EXCEPT ![c] = "destroy"]
  BY DEF DestroyChild, Goto
<1>a. /\ allocated' = {p \in allocated : p \in pages[c] => MigratedOn(c, p) # On(p)}
      /\ num_remaining' = [p \in Pages |->
            IF p \in pages[c] THEN NumElements - Cardinality(MigratedOn(c, p))
            ELSE num_remaining[p]]
  BY DEF DestroyChild
<1>b. \A p \in Pages : /\ MigratedOn(c, p) \in SUBSET On(p)
                        /\ IsFiniteSet(MigratedOn(c, p)) /\ Cardinality(MigratedOn(c, p)) \in Nat
  <2>1. \A p \in Pages : MigratedOn(c, p) \in SUBSET On(p)
    BY DEF MigratedOn
  <2> QED
    BY <2>1, FS_Subset, FS_CardinalityType
<1>1. TypeOK'
  BY <1>0, <1>a, <1>b DEF IInv, TypeOK
<1>2. \A e \in Elements : InUse(e)' <=> InUse(e) /\ e \notin migrated[c]
  BY <1>0 DEF IInv, TypeOK, InUse, OnePlace
<1>3. OnePlace'
  BY <1>0 DEF IInv, TypeOK, OnePlace
<1>4. \A e \in migrated[c] : e[1] \in pages[c] /\ e \in Elements
  BY DEF IInv, TypeOK, OwnerIsAlive, InUse
<1>5. ASSUME NEW p \in pages[c]
      PROVE  /\ p \in Pages /\ p \in allocated
             /\ Left(p)' = On(p) \ MigratedOn(c, p)
             /\ Cardinality(Left(p)') = NumElements - Cardinality(MigratedOn(c, p))
             /\ MigratedOn(c, p) # On(p) => Cardinality(Left(p)') # 0
  <2>1. p \in Pages /\ p \in allocated
    BY DEF IInv, TypeOK, PagesOwned
  <2>2. Left(p)' = On(p) \ MigratedOn(c, p)
    BY <1>2, <2>1 DEF MigratedOn, IInv, PagesOwned
  <2>3. On(p) \cap MigratedOn(c, p) = MigratedOn(c, p)
    BY <1>b, <2>1
  <2>4. IsFiniteSet(Left(p)') /\ Cardinality(Left(p)') = NumElements - Cardinality(MigratedOn(c, p))
    <3>1. /\ IsFiniteSet(On(p) \ MigratedOn(c, p))
          /\ Cardinality(On(p) \ MigratedOn(c, p)) = NumElements - Cardinality(MigratedOn(c, p))
      <4>1. IsFiniteSet(On(p)) /\ Cardinality(On(p)) = NumElements
        BY <2>1
      <4>2. /\ IsFiniteSet(On(p) \ MigratedOn(c, p))
            /\ Cardinality(On(p) \ MigratedOn(c, p))
                  = Cardinality(On(p)) - Cardinality(On(p) \cap MigratedOn(c, p))
        BY <4>1, FS_Difference
      <4> QED
        BY <2>3, <4>1, <4>2
    <3> QED
      BY <2>2, <3>1
  <2>5. MigratedOn(c, p) # On(p) => Left(p)' # {}
    BY <1>b, <2>1, <2>2
  <2> QED
    BY <2>1, <2>2, <2>4, <2>5, FS_EmptySet
<1>6. NoUseAfterFree'
  <2>1. ASSUME NEW e \in Elements, InUse(e)' PROVE e[1] \in allocated'
    <3>1. e[1] \in allocated /\ e \notin migrated[c]
      BY <1>2, <2>1 DEF IInv, NoUseAfterFree
    <3>2. MigratedOn(c, e[1]) # On(e[1])
      BY <3>1 DEF MigratedOn
    <3> QED
      BY <1>a, <3>1, <3>2
  <2> QED
    BY <2>1 DEF NoUseAfterFree
<1>7. NoLeak'
  <2>1. ASSUME NEW p \in allocated'
        PROVE  \/ \E d \in Pools : p \in pages'[d] /\ pc'[d] \notin {"none", "destroy"}
               \/ num_remaining'[p] > 0 /\ num_remaining'[p] = Cardinality(Left(p)')
    <3>1. p \in Pages /\ p \in allocated
      BY <1>a DEF IInv, TypeOK
    <3>2. CASE p \in pages[c]
      <4>1. MigratedOn(c, p) # On(p)
        BY <1>a, <3>2
      <4>2. num_remaining'[p] = Cardinality(Left(p)')
        BY <1>a, <1>5, <3>1, <3>2
      <4>3. IsFiniteSet(Left(p)')
        BY <3>1, FS_Subset
      <4>4. Cardinality(Left(p)') \in Nat
        BY <4>3, FS_CardinalityType
      <4> QED
        BY <1>5, <3>2, <4>1, <4>2, <4>4
    <3>3. CASE p \notin pages[c]
      <4>1. Left(p)' = Left(p)
        BY <1>2, <1>4, <3>1, <3>3
      <4>2. num_remaining'[p] = num_remaining[p]
        BY <1>a, <3>1, <3>3
      <4>3. ASSUME NEW d \in Pools, p \in pages[d], pc[d] \notin {"none", "destroy"}
            PROVE  p \in pages'[d] /\ pc'[d] \notin {"none", "destroy"}
        BY <1>0, <3>3, <4>3 DEF IInv, TypeOK
      <4> QED
        BY <3>1, <4>1, <4>2, <4>3 DEF IInv, NoLeak
    <3> QED
      BY <3>2, <3>3
  <2> QED
    BY <2>1 DEF NoLeak
<1>8. OwnerIsAlive'
  <2>1. ASSUME NEW e \in Elements, InUse(e)'
        PROVE  owner'[e] = e[1] \/ (owner'[e] \in Pools /\ e[1] \in pages'[owner'[e]])
    <3>1. CASE e[1] \in pages[c]
      BY <1>0, <3>1
    <3>2. CASE e[1] \notin pages[c]
      <4>1. owner'[e] = owner[e]
        BY <1>0, <3>2
      <4>2. owner[e] = e[1] \/ (owner[e] \in Pools /\ e[1] \in pages[owner[e]])
        BY <1>2, <2>1 DEF IInv, OwnerIsAlive
      <4> QED
        BY <1>0, <3>2, <4>1, <4>2 DEF IInv, TypeOK
    <3> QED
      BY <3>1, <3>2
  <2>2. \A e \in free[c] : e \in Elements /\ e[1] \in pages[c]
    BY <1>0 DEF IInv, TypeOK, OwnerIsAlive, InUse
  <2>3. ASSUME NEW d \in Pools, d # c, NEW e \in free[d] \cup migrated[d]
        PROVE  e \in Elements /\ owner'[e] = owner[e]
    BY <1>0, <2>3 DEF IInv, TypeOK, OwnerIsAlive, InUse, PagesOwned
  <2> QED
    <3>1. ASSUME NEW d \in Pools
          PROVE  /\ pc'[d] # "destroy" => \A e \in free'[d] : owner'[e] = d
                 /\ pc'[d] = "destroy" => \A e \in free'[d] : owner'[e] = e[1]
                 /\ \A e \in migrated'[d] : owner'[e] = d
                 /\ pc'[d] \in {"none", "destroy"} => pages'[d] = {} /\ migrated'[d] = {}
      <4>1. CASE d = c
        BY <1>0, <2>2, <4>1 DEF IInv, TypeOK
      <4>2. CASE d # c
        <5>1. /\ pc'[d] = pc[d] /\ free'[d] = free[d]
              /\ migrated'[d] = migrated[d] /\ pages'[d] = pages[d]
          BY <1>0, <4>2 DEF IInv, TypeOK
        <5>2. \A e \in free[d] \cup migrated[d] : owner'[e] = owner[e]
          BY <2>3, <4>2
        <5> QED
          BY <5>1, <5>2 DEF IInv, OwnerIsAlive
      <4> QED
        BY <4>1, <4>2
    <3> QED
      BY <2>1, <3>1 DEF OwnerIsAlive
<1>9. PagesOwned'
  <2>1. \A d \in Pools : pages'[d] \subseteq allocated'
    BY <1>0, <1>a DEF IInv, TypeOK, PagesOwned
  <2>2. \A d \in Pools : \A e \in Elements : e[1] \in pages'[d] => owner'[e] = d /\ InUse(e)'
    BY <1>0, <1>2, <1>4 DEF IInv, TypeOK, PagesOwned
  <2> QED
    BY <1>0, <2>1, <2>2 DEF IInv, TypeOK, PagesOwned
<1>10. ArgInv' /\ NoneFree'
  BY <1>0 DEF IInv, TypeOK, ArgInv, NoneFree
<1> QED
  BY <1>1, <1>3, <1>6, <1>7, <1>8, <1>9, <1>10 DEF IInv

\* Every step of the allocator preserves the invariant.
LEMMA NextIInv == IInv /\ [Next]_vars => IInv'
<1> SUFFICES ASSUME IInv, [Next]_vars PROVE IInv'
  OBVIOUS
<1>1. CASE Next
  BY <1>1, CreateChildIInv, AllocIInv, AllocCollectIInv, AllocPageIInv, AllocFailsIInv,
     FreeIInv, FreeLockedIInv, FreeOrphanIInv, DestroyChildIInv, DestroyFreeIInv, DestroyedIInv
     DEF Next
<1>2. CASE UNCHANGED vars
  <2> USE <1>2 DEF vars, lists
  <2>1. \A e : InUse(e)' <=> InUse(e)
    BY DEF InUse
  <2>2. NoLeak'
    BY <2>1, NoLeakStays
  <2> QED
    BY <2>1, <2>2 DEF IInv, TypeOK, OnePlace, NoUseAfterFree, OwnerIsAlive, PagesOwned, ArgInv, NoneFree
<1> QED
  BY <1>1, <1>2

LEMMA SpecIInv == Spec => []IInv
  BY InitIInv, NextIInv, PTL DEF Spec

\* No element of the allocator is handed out twice or on two lists, whichever
\* pools it is freed through and whichever of them are destroyed meanwhile.
THEOREM SlabOnePlace == Spec => []OnePlace
<1>1. IInv => OnePlace
  BY DEF IInv
<1> QED
  BY <1>1, SpecIInv, PTL

\* slab_free_orphaned and slab_destroy_child never free a page that somebody
\* still has an element of.
THEOREM SlabNoUseAfterFree == Spec => []NoUseAfterFree
<1>1. IInv => NoUseAfterFree
  BY DEF IInv
<1> QED
  BY <1>1, SpecIInv, PTL

\* A page is on the list of a living pool, or it is an orphan whose num_remaining
\* is the number of its elements that somebody still has, at least one.
THEOREM SlabNoLeak == Spec => []NoLeak
<1>1. IInv => NoLeak
  BY DEF IInv
<1> QED
  BY <1>1, SpecIInv, PTL

\* The owner that slab_free reads is never a pool that has been destroyed.
THEOREM SlabOwnerIsAlive == Spec => []OwnerIsAlive
<1>1. IInv => OwnerIsAlive
  BY DEF IInv
<1> QED
  BY <1>1, SpecIInv, PTL

=============================================================================
