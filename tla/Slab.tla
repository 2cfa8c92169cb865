-------------------------------- MODULE Slab --------------------------------
(***************************************************************************)
(* The slab allocator (src/util/slab.c): child pools of one parent, each   *)
(* used by one thread at a time, whose elements may be freed through any   *)
(* other child pool and may outlive the pool they come from.               *)
(*                                                                         *)
(* A child pool stands for the thread that uses it.  Lists are sets: which *)
(* free element is taken is left open.  What happens with the parent mutex *)
(* held is one step; only the comparison of elt->owner with the own pool   *)
(* and the counting down of an orphaned page are done without it.          *)
(***************************************************************************)
EXTENDS Integers, FiniteSets

CONSTANTS Pools,        \* addresses of child pools
          Pages,        \* addresses malloc may return for pages
          NumElements,  \* parent->num_elements
          NoElement

ASSUME SlabAssumption ==
    /\ NumElements \in Nat \ {0}
    /\ Pools \cap Pages = {}
    /\ NoElement \notin Pages \X (1 .. NumElements)

Elements == Pages \X (1 .. NumElements)

\* The elements of page p.
On(p) == {p} \X (1 .. NumElements)

VARIABLES
    allocated,      \* pages malloc has returned and that are not freed
    pages, free, migrated,  \* the lists of each child pool
    owner,          \* elt->owner: a pool, or the orphaned page of the element
    num_remaining,  \* page->u.num_remaining
    pc,             \* where the thread of each pool is; "none": no such pool
    arg,            \* the element slab_free was called with
    held            \* the elements the program has allocated and not freed

lists == <<pages, free, migrated>>
vars == <<allocated, lists, owner, num_remaining, pc, arg, held>>

Goto(c, l) == pc' = [pc EXCEPT ![c] = l]

Init ==
    /\ allocated = {}
    /\ pages = [c \in Pools |-> {}]
    /\ free = [c \in Pools |-> {}]
    /\ migrated = [c \in Pools |-> {}]
    /\ owner = [e \in Elements |-> e[1]]
    /\ num_remaining = [p \in Pages |-> 0]
    /\ pc = [c \in Pools |-> "none"]
    /\ arg = [c \in Pools |-> NoElement]
    /\ held = {}

\* slab_create_child.
CreateChild(c) ==
    /\ pc[c] = "none"
    /\ pages' = [pages EXCEPT ![c] = {}]
    /\ free' = [free EXCEPT ![c] = {}]
    /\ migrated' = [migrated EXCEPT ![c] = {}]
    /\ Goto(c, "idle")
    /\ UNCHANGED <<allocated, owner, num_remaining, arg, held>>
-----------------------------------------------------------------------------
(* slab_alloc                                                              *)

\* The free list is not empty.
Alloc(c) ==
    /\ pc[c] \in {"idle", "alloc"} /\ free[c] # {}
    /\ \E e \in free[c] :
          /\ free' = [free EXCEPT ![c] = free[c] \ {e}]
          /\ held' = held \cup {e}
    /\ Goto(c, "idle")
    /\ UNCHANGED <<allocated, pages, migrated, owner, num_remaining, arg>>

\* Mutant: the migrated list is not emptied.
AllocCollectCopies(c) ==
    /\ pc[c] = "idle" /\ free[c] = {}
    /\ free' = [free EXCEPT ![c] = migrated[c]]
    /\ Goto(c, "alloc")
    /\ UNCHANGED <<allocated, pages, migrated, owner, num_remaining, arg, held>>

\* "First, collect elements that belong to us but were freed from a different
\* child pool", under the mutex.
AllocCollect(c) ==
    /\ pc[c] = "idle" /\ free[c] = {}
    /\ free' = [free EXCEPT ![c] = migrated[c]]
    /\ migrated' = [migrated EXCEPT ![c] = {}]
    /\ Goto(c, "alloc")
    /\ UNCHANGED <<allocated, pages, owner, num_remaining, arg, held>>

\* slab_add_new_page, when nothing was collected.
AllocPage(c) ==
    /\ pc[c] = "alloc" /\ free[c] = {}
    /\ \E p \in Pages \ allocated :
          /\ allocated' = allocated \cup {p}
          /\ owner' = [e \in Elements |-> IF e \in On(p) THEN c ELSE owner[e]]
          /\ free' = [free EXCEPT ![c] = On(p)]
          /\ pages' = [pages EXCEPT ![c] = pages[c] \cup {p}]
    /\ UNCHANGED <<migrated, num_remaining, pc, arg, held>>

\* malloc fails: slab_alloc returns NULL.
AllocFails(c) ==
    /\ pc[c] = "alloc" /\ free[c] = {}
    /\ Goto(c, "idle")
    /\ UNCHANGED <<allocated, lists, owner, num_remaining, arg, held>>
-----------------------------------------------------------------------------
(* slab_free and slab_destroy_child                                        *)

\* Mutant: the test of p_atomic_dec_return is inverted.
FreeOrphanedInverted(e) ==
    /\ num_remaining' = [num_remaining EXCEPT ![owner[e]] = num_remaining[owner[e]] - 1]
    /\ allocated' = IF num_remaining[owner[e]] # 1 THEN allocated \ {owner[e]} ELSE allocated

\* slab_free_orphaned(e): the page goes with its last element.
FreeOrphaned(e) ==
    /\ num_remaining' = [num_remaining EXCEPT ![owner[e]] = num_remaining[owner[e]] - 1]
    /\ allocated' = IF num_remaining[owner[e]] = 1 THEN allocated \ {owner[e]} ELSE allocated

\* Mutant: an element goes to the free list of the pool it is freed through.
FreeAnywhere(c) ==
    /\ pc[c] = "idle"
    /\ \E e \in held :
          /\ held' = held \ {e}
          /\ owner[e] \in Pools
          /\ free' = [free EXCEPT ![c] = free[c] \cup {e}]
    /\ UNCHANGED <<allocated, pages, migrated, owner, num_remaining, pc, arg>>

\* slab_free(c, e) of any element the program holds: the owner is read without
\* the mutex, and an own element is put on the free list.
Free(c) ==
    /\ pc[c] = "idle"
    /\ \E e \in held :
          /\ held' = held \ {e}
          /\ \/ /\ owner[e] = c
                /\ free' = [free EXCEPT ![c] = free[c] \cup {e}]
                /\ UNCHANGED <<pc, arg>>
             \/ /\ owner[e] # c
                /\ arg' = [arg EXCEPT ![c] = e]
                /\ Goto(c, "free_lock")
                /\ UNCHANGED free
    /\ UNCHANGED <<allocated, pages, migrated, owner, num_remaining>>

\* The slow case, under the mutex: the owner is read again, and the element goes
\* to the owner's migrated list unless the owner has been destroyed.
FreeLocked(c) ==
    /\ pc[c] = "free_lock"
    /\ \/ /\ owner[arg[c]] \in Pools
          /\ migrated' = [migrated EXCEPT ![owner[arg[c]]] = migrated[owner[arg[c]]] \cup {arg[c]}]
          /\ arg' = [arg EXCEPT ![c] = NoElement]
          /\ Goto(c, "idle")
       \/ /\ owner[arg[c]] \in Pages
          /\ Goto(c, "free_orphan")
          /\ UNCHANGED <<migrated, arg>>
    /\ UNCHANGED <<allocated, pages, free, owner, num_remaining, held>>

\* slab_free_orphaned at the end of slab_free, after the mutex is released.
FreeOrphan(c) ==
    /\ pc[c] = "free_orphan"
    /\ FreeOrphaned(arg[c])
    /\ arg' = [arg EXCEPT ![c] = NoElement]
    /\ Goto(c, "idle")
    /\ UNCHANGED <<lists, owner, held>>

\* The elements of the pool that are on its migrated list, by page.
MigratedOn(c, p) == migrated[c] \cap On(p)

\* Mutant: the migrated list is forgotten.
DestroyChildForgets(c) ==
    /\ pc[c] = "idle"
    /\ owner' = [e \in Elements |-> IF e[1] \in pages[c] THEN e[1] ELSE owner[e]]
    /\ num_remaining' = [p \in Pages |-> IF p \in pages[c] THEN NumElements ELSE num_remaining[p]]
    /\ pages' = [pages EXCEPT ![c] = {}]
    /\ migrated' = [migrated EXCEPT ![c] = {}]
    /\ Goto(c, "destroy")
    /\ UNCHANGED <<allocated, free, arg, held>>

\* slab_destroy_child under the mutex: every page becomes an orphan, and the
\* elements of the migrated list are freed for good.
DestroyChild(c) ==
    /\ pc[c] = "idle"
    /\ owner' = [e \in Elements |-> IF e[1] \in pages[c] THEN e[1] ELSE owner[e]]
    /\ num_remaining' = [p \in Pages |->
          IF p \in pages[c] THEN NumElements - Cardinality(MigratedOn(c, p))
          ELSE num_remaining[p]]
    /\ allocated' = {p \in allocated : p \in pages[c] => MigratedOn(c, p) # On(p)}
    /\ pages' = [pages EXCEPT ![c] = {}]
    /\ migrated' = [migrated EXCEPT ![c] = {}]
    /\ Goto(c, "destroy")
    /\ UNCHANGED <<free, arg, held>>

\* The free list is freed without the mutex, one element after the other.
DestroyFree(c) ==
    /\ pc[c] = "destroy"
    /\ \E e \in free[c] :
          /\ free' = [free EXCEPT ![c] = free[c] \ {e}]
          /\ FreeOrphaned(e)
    /\ UNCHANGED <<pages, migrated, owner, pc, arg, held>>

\* pool->parent = NULL.
Destroyed(c) ==
    /\ pc[c] = "destroy" /\ free[c] = {}
    /\ Goto(c, "none")
    /\ UNCHANGED <<allocated, lists, owner, num_remaining, arg, held>>

Next ==
    \E c \in Pools :
       \/ CreateChild(c) \/ Alloc(c) \/ AllocCollect(c) \/ AllocPage(c) \/ AllocFails(c)
       \/ Free(c) \/ FreeLocked(c) \/ FreeOrphan(c)
       \/ DestroyChild(c) \/ DestroyFree(c) \/ Destroyed(c)

Spec == Init /\ [][Next]_vars
-----------------------------------------------------------------------------
\* Somebody still has element e: it is on a list, held by the program or on its
\* way through slab_free.
InUse(e) ==
    \/ e \in held
    \/ \E c \in Pools : e \in free[c] \cup migrated[c] \cup {arg[c]}

\* An element is in one place only: it is not handed out twice, not put on two
\* lists, and not on a list while the program holds it.
OnePlace ==
    /\ \A c \in Pools : held \cap (free[c] \cup migrated[c] \cup {arg[c]}) = {}
    /\ \A c \in Pools : free[c] \cap migrated[c] = {} /\ arg[c] \notin free[c] \cup migrated[c]
    /\ \A c, d \in Pools : c # d =>
          /\ (free[c] \cup migrated[c]) \cap (free[d] \cup migrated[d]) = {}
          /\ arg[c] \notin free[d] \cup migrated[d]
          /\ arg[c] = arg[d] => arg[c] = NoElement

\* Memory that somebody still has is not freed, whoever destroys which pool.
NoUseAfterFree == \A e \in Elements : InUse(e) => e[1] \in allocated

\* Every page that has not been freed is on the list of a living pool, or it is
\* an orphan that waits for exactly num_remaining elements, at least one: it is
\* freed with the last of them, "eventually freed when all objects in them are
\* freed".
NoLeak ==
    \A p \in allocated :
       \/ \E c \in Pools : p \in pages[c] /\ pc[c] \notin {"none", "destroy"}
       \/ /\ num_remaining[p] > 0
          /\ num_remaining[p] = Cardinality({e \in On(p) : InUse(e)})

\* A list holds only elements that belong to the pool, and the owner of an
\* element is never a pool that has been destroyed.
OwnerIsAlive ==
    /\ \A e \in Elements : InUse(e) => \/ owner[e] = e[1]
                                       \/ owner[e] \in Pools /\ e[1] \in pages[owner[e]]
    /\ \A c \in Pools : /\ pc[c] # "destroy" => \A e \in free[c] : owner[e] = c
                        /\ pc[c] = "destroy" => \A e \in free[c] : owner[e] = e[1]
                        /\ \A e \in migrated[c] : owner[e] = c
                        /\ pc[c] \in {"none", "destroy"} => pages[c] = {} /\ migrated[c] = {}
=============================================================================
