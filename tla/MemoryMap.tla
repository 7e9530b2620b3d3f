------------------------------ MODULE MemoryMap ------------------------------
(***************************************************************************)
(* The memory maps of processes                                             *)
(* (axon/source/arch_x86/memory/memory_map.c): trees of four levels of page *)
(* tables, each table a page of the physical page allocator.                *)
(*                                                                          *)
(* An operation runs under the lock of its map, which the callers take      *)
(* (memory_map.h), so a map has one operation at a time.  The operations of *)
(* different maps meet in the page allocator: each call of the allocator,   *)
(* with the writes to the map's own tables that follow it, is a step.       *)
(*                                                                          *)
(* The model stops (broken) where a page that a tree still points at has    *)
(* been given back: whoever gets it writes what it likes, and the next walk *)
(* of the tree reads that as a table.  It stops too where the destruction   *)
(* of a map faults with the allocator locked.                               *)
(*                                                                          *)
(* The kernel's own map is not here.  Its pml4 holds a virtual address      *)
(* (line 61) to which add, remove and translate add the offset of physical  *)
(* memory once more (lines 284, 381, 489), nothing defines axk_kmap_get,    *)
(* and so no operation on it can be carried out.                            *)
(***************************************************************************)
EXTENDS Integers, FiniteSets, SequencesExt

CONSTANTS
  PageCount,    \* g_page_count
  Reserved,     \* the pages that the loader's memory map keeps from use
  MaxOther,     \* bound: how many pages others hold at a time
  Slots,        \* the entries of a table
  Addresses,    \* the virtual pages in use, each a slot per level
  Uses,         \* bound: which of them each map uses
  Frames,       \* the physical pages that are mapped
  Maps,         \* the maps of processes
  None

ASSUME MapsAssumption ==
  /\ PageCount \in Nat \ {0} /\ MaxOther \in Nat /\ Reserved \subseteq Nat
  /\ Addresses \subseteq Slots \X Slots \X Slots \X Slots
  /\ Uses \in [Maps -> SUBSET Addresses]

Pages == 0 .. PageCount - 1

ASSUME ValuesAssumption ==
  /\ None \notin Pages
  /\ Frames \intersect (Pages \union {None}) = {}
  /\ Maps \intersect {"FREE", "RESERVED", "OTHER"} = {}

VARIABLES
  owner,    \* the allocator's record of each page
  tbl,      \* the entries of each page that is used as a table, else blank
  status,   \* of each map: none, live
  root,     \* in_map->pml4
  op,       \* the operation under way on each map
  broken

vars == <<owner, tbl, status, root, op, broken>>

Idle == [kind |-> "idle"]

Owners == {"FREE", "RESERVED", "OTHER"} \union Maps

Blank == [s \in Slots |-> None]

(* Page 0, which no upward scan gives out, may be reserved, free or taken   *)
(* by a scan from the top.                                                  *)
Init ==
  /\ \E o \in {"FREE", "RESERVED", "OTHER"} :
       owner = [p \in Pages |-> IF p = 0 THEN o
                                ELSE IF p \in Reserved THEN "RESERVED" ELSE "FREE"]
  /\ tbl = [t \in Pages |-> Blank]
  /\ status = [m \in Maps |-> "none"]
  /\ root = [m \in Maps |-> None]
  /\ op = [m \in Maps |-> Idle]
  /\ broken = FALSE

-----------------------------------------------------------------------------
(* The page allocator, for one page without flags. *)

Available == {p \in Pages \ {0} : owner[p] = "FREE"}

(* axk_page_acquire takes the lowest page. *)
Acquirable(p) == p \in Available /\ \A q \in Available : p <= q

(* axk_page_release without AXK_PAGE_FLAG_KERNEL_REL: the records after it. *)
Released(p) ==
  IF p \in Pages /\ owner[p] \in Maps \union {"OTHER"}
  THEN [owner EXCEPT ![p] = "FREE"] ELSE owner

(* axk_page_release_s: only the pages of the process. *)
ReleasedBy(p, m) ==
  IF p \in Pages /\ owner[p] = m THEN [owner EXCEPT ![p] = "FREE"] ELSE owner

(* Everybody else who uses pages. *)
OtherAcquire ==
  /\ Cardinality({p \in Pages \ {0} : owner[p] = "OTHER"}) < MaxOther
  /\ \E p \in Pages : Acquirable(p) /\ owner' = [owner EXCEPT ![p] = "OTHER"]
  /\ UNCHANGED <<tbl, status, root, op, broken>>

OtherRelease ==
  /\ \E p \in Pages : owner[p] = "OTHER" /\ owner' = Released(p)
  /\ UNCHANGED <<tbl, status, root, op, broken>>

-----------------------------------------------------------------------------
Ready(m) == status[m] = "live" /\ op[m] = Idle

Begin(m, o) == op' = [op EXCEPT ![m] = o]

Finish(m) == op' = [op EXCEPT ![m] = Idle]

Doing(m, kind) == op[m].kind = kind

(* The table the operation has come to, and the entry it looks at. *)
Here(m)  == Last(op[m].path)
Slot(m)  == op[m].addr[Len(op[m].path)]
Entry(m) == tbl[Here(m)][Slot(m)]

(* The tables on the way to an address, None from the first absent one on.  *)
Follow(t, s) == IF t \in Pages THEN tbl[t][s] ELSE None

Path(m, a) ==
  LET pdpt == Follow(root[m], a[1])
      pdt  == Follow(pdpt, a[2])
  IN  <<root[m], pdpt, pdt, Follow(pdt, a[3])>>

Translate(m, a) == Follow(Last(Path(m, a)), a[4])

-----------------------------------------------------------------------------
(* axk_memory_map_create. *)
Create(m) ==
  /\ status[m] = "none"
  /\ \E p \in Pages :
       /\ Acquirable(p)
       /\ owner' = [owner EXCEPT ![p] = m]
       /\ tbl' = [tbl EXCEPT ![p] = Blank]
       /\ root' = [root EXCEPT ![m] = p]
  /\ status' = [status EXCEPT ![m] = "live"]
  /\ UNCHANGED <<op, broken>>

-----------------------------------------------------------------------------
(* axk_memory_map_add. *)

(* The tables on the way to an address go n levels down. *)
Reaches(m, a, n) ==
  Path(m, a)[n] # None /\ (n < 4 => Path(m, a)[n + 1] = None)

(* An add on its way: the tables it has come through, those it has made.    *)
Adding(a, f, overwrite, path, fresh) ==
  [kind |-> "add", addr |-> a, frame |-> f, overwrite |-> overwrite,
   path |-> path, fresh |-> fresh]

(* The walk as far as the tables reach: only this operation changes them.   *)
Add(m, a, f, overwrite) ==
  /\ Ready(m)
  /\ \E n \in 1 .. 4 :
       /\ Reaches(m, a, n)
       /\ Begin(m, Adding(a, f, overwrite, SubSeq(Path(m, a), 1, n), {}))
  /\ UNCHANGED <<owner, tbl, status, root, broken>>

Deeper(m, t) ==
  LET o == op[m] IN
  Begin(m, Adding(o.addr, o.frame, o.overwrite, Append(o.path, t), o.fresh \union {t}))

(* Mutant: the page keeps what its last owner wrote. *)
MakeTableDirty(m) ==
  /\ Doing(m, "add") /\ Len(op[m].path) < 4
  /\ \E p \in Pages, left \in [Slots -> Frames \union {None}] :
       /\ Acquirable(p)
       /\ owner' = [owner EXCEPT ![p] = m]
       /\ tbl' = [tbl EXCEPT ![p] = left, ![Here(m)][Slot(m)] = p]
       /\ Deeper(m, p)
  /\ UNCHANGED <<status, root, broken>>

(* A table is missing: acquire a cleared page (AXK_PAGE_FLAG_CLEAR) and     *)
(* enter it.                                                                *)
MakeTable(m) ==
  /\ Doing(m, "add") /\ Len(op[m].path) < 4
  /\ \E p \in Pages :
       /\ Acquirable(p)
       /\ owner' = [owner EXCEPT ![p] = m]
       /\ tbl' = [tbl EXCEPT ![p] = Blank, ![Here(m)][Slot(m)] = p]
       /\ Deeper(m, p)
  /\ UNCHANGED <<status, root, broken>>

(* The tables still to be given back by a failing add. *)
Undo(m, tables) ==
  IF tables = {} THEN Finish(m) ELSE Begin(m, [kind |-> "rollback", fresh |-> tables])

(* No page to be had, or the address is mapped and must not be overwritten: *)
(* the add fails and gives back the tables it has made.                     *)
GiveUp(m) ==
  /\ Doing(m, "add")
  /\ \/ Len(op[m].path) < 4 /\ Available = {}
     \/ Len(op[m].path) = 4 /\ Entry(m) # None /\ ~ op[m].overwrite
  /\ Undo(m, op[m].fresh)
  /\ UNCHANGED <<owner, tbl, status, root, broken>>

(* One of them, by axk_page_release; the entry that points at it stays.     *)
Rollback(m) ==
  /\ Doing(m, "rollback")
  /\ \E p \in op[m].fresh : owner' = Released(p) /\ Undo(m, op[m].fresh \ {p})
  /\ broken' = (owner' # owner)
  /\ UNCHANGED <<tbl, status, root>>

(* Write the mapping, new or over an old one. *)
Enter(m) ==
  /\ Doing(m, "add") /\ Len(op[m].path) = 4
  /\ Entry(m) = None \/ op[m].overwrite
  /\ tbl' = [tbl EXCEPT ![Here(m)][Slot(m)] = op[m].frame]
  /\ Finish(m)
  /\ UNCHANGED <<owner, status, root, broken>>

-----------------------------------------------------------------------------
(* axk_memory_map_remove. *)

(* Mutant: no look at what the table still holds. *)
GoOnBlindly(m, a, path) ==
  IF Len(path) = 1 THEN Finish(m)
  ELSE Begin(m, [kind |-> "remove", addr |-> a, path |-> path])

(* An empty table goes next; the PML4 stays, and so does a table with       *)
(* entries and all above it.                                                *)
GoOn(m, a, path) ==
  IF Len(path) = 1 \/ tbl'[Last(path)] # Blank
  THEN Finish(m)
  ELSE Begin(m, [kind |-> "remove", addr |-> a, path |-> path])

(* Clear the entry of a mapped address; of another nothing changes. *)
Unmap(m, a) ==
  /\ Ready(m) /\ Translate(m, a) # None
  /\ tbl' = [tbl EXCEPT ![Last(Path(m, a))][a[4]] = None]
  /\ GoOn(m, a, Path(m, a))
  /\ UNCHANGED <<owner, status, root, broken>>

(* Mutants: the entry that led to the table stays; the walk back ends at    *)
(* the first table.                                                         *)
PruneKeepingEntry(m) ==
  /\ Doing(m, "remove")
  /\ tbl' = tbl
  /\ owner' = ReleasedBy(Here(m), m)
  /\ GoOn(m, op[m].addr, Front(op[m].path))
  /\ UNCHANGED <<status, root, broken>>

PruneOnce(m) ==
  /\ Doing(m, "remove")
  /\ LET up == Front(op[m].path) IN
     tbl' = [tbl EXCEPT ![Last(up)][op[m].addr[Len(up)]] = None]
  /\ owner' = ReleasedBy(Here(m), m)
  /\ Finish(m)
  /\ UNCHANGED <<status, root, broken>>

(* A table that has become empty goes back, with the entry that led to it.  *)
Prune(m) ==
  /\ Doing(m, "remove")
  /\ LET up == Front(op[m].path) IN
     /\ tbl' = [tbl EXCEPT ![Last(up)][op[m].addr[Len(up)]] = None]
     /\ GoOn(m, op[m].addr, up)
  /\ owner' = ReleasedBy(Here(m), m)
  /\ UNCHANGED <<status, root, broken>>

-----------------------------------------------------------------------------
(* axk_memory_map_destroy. *)

EntriesOf(T) == {tbl[t][s] : t \in T \intersect Pages, s \in Slots} \ {None}

PDPTs(m) == EntriesOf({root[m]})
PDTs(m)  == EntriesOf(PDPTs(m))
PTs(m)   == EntriesOf(PDTs(m))

TablesOf(m) == {root[m]} \union PDPTs(m) \union PDTs(m) \union PTs(m)

(* The loops release the PTs and the PDTs.  Line 251 masks the entry of the *)
(* PML4 with the present flag instead of the address: page 0 is released in *)
(* place of each PDPT (and by line 247 for each absent entry).  What the    *)
(* tables hold is not looked at again before it is cleared, so the model    *)
(* forgets it here.                                                         *)
Destroy(m) ==
  /\ Ready(m)
  /\ Begin(m, [kind |-> "destroy", doomed |-> PTs(m) \union PDTs(m) \union {0}])
  /\ tbl' = [t \in Pages |-> IF t \in TablesOf(m) THEN Blank ELSE tbl[t]]
  /\ UNCHANGED <<owner, status, root, broken>>

DestroyOne(m) ==
  /\ Doing(m, "destroy") /\ op[m].doomed # {}
  /\ \E p \in op[m].doomed :
       /\ owner' = Released(p)
       /\ Begin(m, [op[m] EXCEPT !.doomed = @ \ {p}])
  /\ UNCHANGED <<tbl, status, root, broken>>

(* Line 257 passes the number of the PML4's page where the address of a     *)
(* list is expected.  axk_page_release takes the allocator's lock and reads *)
(* there: addresses as low as that are unmapped since the start (lines      *)
(* 176-180), so the processor faults and nobody gets the lock any more.     *)
Destroyed(m) ==
  /\ Doing(m, "destroy") /\ op[m].doomed = {}
  /\ broken' = TRUE
  /\ UNCHANGED <<owner, tbl, status, root, op>>

-----------------------------------------------------------------------------
Step(m) ==
  \/ Create(m)
  \/ \E a \in Uses[m] : Unmap(m, a)
  \/ \E a \in Uses[m], f \in Frames, overwrite \in BOOLEAN : Add(m, a, f, overwrite)
  \/ MakeTable(m) \/ GiveUp(m) \/ Rollback(m) \/ Enter(m)
  \/ Prune(m)
  \/ Destroy(m) \/ DestroyOne(m) \/ Destroyed(m)

Next == ~ broken /\ (OtherAcquire \/ OtherRelease \/ \E m \in Maps : Step(m))

Spec == Init /\ [][Next]_vars

-----------------------------------------------------------------------------
Operations ==
  {Idle}
    \union [kind : {"add"}, addr : Addresses, frame : Frames, overwrite : BOOLEAN,
            path : Seq(Pages), fresh : SUBSET Pages]
    \union [kind : {"rollback"}, fresh : SUBSET Pages]
    \union [kind : {"remove"}, addr : Addresses, path : Seq(Pages)]
    \union [kind : {"destroy"}, doomed : SUBSET Pages]

TypeOK ==
  /\ owner \in [Pages -> Owners]
  /\ tbl \in [Pages -> [Slots -> Pages \union Frames \union {None}]]
  /\ status \in [Maps -> {"none", "live"}]
  /\ root \in [Maps -> Pages \union {None}]
  /\ op \in [Maps -> Operations]
  /\ broken \in BOOLEAN

(* The maps whose trees are in use. *)
Standing == {m \in Maps : status[m] = "live" /\ op[m].kind # "destroy"}

(* A standing map owns exactly the pages its tree is made of: no table was  *)
(* given back or given away, none is forgotten in the allocator.            *)
OwnsItsTables ==
  \A m \in Standing : {p \in Pages : owner[p] = m} = TablesOf(m)

(* The tree is a tree: one entry leads to each table, and the mapped pages  *)
(* are where the walk has gone four levels down.                            *)
IsTree ==
  \A m \in Standing :
    LET inner == {root[m]} \union PDPTs(m) \union PDTs(m) IN
    /\ root[m] \notin PDPTs(m) \union PDTs(m) \union PTs(m)
    /\ \A t, u \in inner : \A s, v \in Slots :
         tbl[t][s] = tbl[u][v] /\ tbl[t][s] # None => t = u /\ s = v
    /\ PDPTs(m) \union PDTs(m) \union PTs(m) \subseteq Pages
    /\ EntriesOf(PTs(m)) \subseteq Frames

TreeInv == TypeOK /\ (~ broken => OwnsItsTables /\ IsTree)

(* A map that no operation is under way on holds no empty table besides its *)
(* PML4 ("check if any of the page tables are empty and can be released",   *)
(* memory_map.c:407).                                                       *)
NoEmptyTables ==
  \A m \in Standing :
    ~ broken /\ op[m] = Idle => \A t \in TablesOf(m) \ {root[m]} : tbl[t] # Blank

(* An add that is refused because the address is mapped has made no table,  *)
(* so the rollback of lines 346-348 has nothing to give back.               *)
OverwriteRefusedBare ==
  \A m \in Maps :
    ~ broken /\ Doing(m, "add") /\ Len(op[m].path) = 4 /\ Entry(m) # None
      => op[m].fresh = {}

Spaces == INSTANCE AddressSpaces WITH
  space <- [m \in Maps |-> [a \in Addresses |->
              IF m \in Standing THEN Translate(m, a) ELSE None]],
  doing <- [m \in Maps |->
              CASE Doing(m, "idle") -> Idle
                [] Doing(m, "add")  ->
                     [kind |-> "add", addr |-> op[m].addr,
                      frame |-> op[m].frame, overwrite |-> op[m].overwrite]
                [] OTHER            -> [kind |-> "tidying"]]

(* The trees implement independent partial functions: an operation changes  *)
(* its own address once; the tables made and given back before and after,   *)
(* the pages that pass from one map to another and the interleaving with    *)
(* other maps never change what an address maps to.                         *)
KeepsSpaces == Spaces!Spec

(* No map in use points at a page the allocator would give to someone else: *)
(* axk_page_release "resets their status back to available"                 *)
(* (page_allocator.h:45).                                                   *)
NoEntryToFreePage ==
  \A m \in Standing : \A p \in TablesOf(m) : owner[p] # "FREE"

(* When destroy comes to its last call, the map has given back all of its   *)
(* pages but the PML4's: "release all of the physical pages used for each   *)
(* of them" (memory_map.c:223).                                             *)
DestroyReleasesAll ==
  \A m \in Maps :
    Doing(m, "destroy") /\ op[m].doomed = {}
      => \A p \in Pages : owner[p] = m => p = root[m]
=============================================================================
