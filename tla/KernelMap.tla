------------------------------ MODULE KernelMap ------------------------------
(***************************************************************************)
(* The page allocator (axon/source_old/memory/page_alloc.c) and the kernel's *)
(* memory map (arch_x86/kmap.c) of the previous kernel, which takes the pages *)
(* of its tables from it.  Calls are serialised by the locks of the two; the  *)
(* counters, added to after the lock is released, are added to with it.       *)
(***************************************************************************)
EXTENDS Integers, Sequences, FiniteSets, FiniteSetsExt

CONSTANTS
  MemoryMap,     \* boot parameters: entries with begin, end and status
  PageSize,      \* AXK_PAGE_SIZE, in the unit of the entries
  EntrySize,     \* of g_table, likewise
  Low, High,     \* the table lies above Low (1 MB) and below High (2 GB)
  ApPage,        \* AXK_AP_INIT_PAGE
  TableEntries,  \* entries of a page table, and pages of a huge page
  UserProcesses,
  Addresses,     \* <<pml4, pdpt, pdt, pt>>: the indices in the four tables
  MaxRequest,    \* bound: pages that one call acquires
  MaxMiscount    \* bound: the counters are wrong by no more

Kernel == "kernel"    \* AXK_PROCESS_KERNEL
PageOwners == UserProcesses \union {Kernel}

VARIABLES
  info,      \* g_table: owner and type of each page, Free or Reserved
  counters,  \* of available, kernel and reserved pages
  tables,    \* the kernel's page tables: page by the indices that lead to it
  leaf,      \* the entries of the lowest tables: page by address
  drift,     \* history: pages released that were free, less those not counted
  halted     \* a panic, or a loop that leaves g_table

kernelVars == <<info, counters, tables, leaf, drift, halted>>

PageCount == MemoryMap[Len(MemoryMap)].end \div PageSize

Pages == 0 .. PageCount - 1

TableSize == PageCount * EntrySize

Free == [owner |-> "none", type |-> "free"]
Reserved(type) == [owner |-> "none", type |-> type]

ReservedTypes == {"reserved", "acpi", "ramdisk"}

ASSUME KernelAssumption ==
  /\ PageSize \in Nat \ {0} /\ EntrySize \in Nat /\ TableEntries \in Nat \ {0}
  /\ MemoryMap \in Seq([begin : Nat, end : Nat,
                        status : ReservedTypes \union {"available", "kernel"}])
  /\ MemoryMap # <<>> /\ ApPage \in Pages
  /\ Kernel \notin UserProcesses /\ "none" \notin UserProcesses
  /\ Addresses \subseteq [1 .. 4 -> Nat]
  /\ MaxRequest \in Nat /\ MaxMiscount \in Nat

-----------------------------------------------------------------------------
(* axk_pagemgr_init.  A page takes the status of the last entry that it      *)
(* overlaps and that is not available, but each of them is counted; a page    *)
(* that no entry covers is free.                                             *)

Overlaps(i, e) ==
  LET begin == i * PageSize
      end   == begin + PageSize
  IN  (begin >= e.begin /\ begin < e.end) \/ (end > e.begin /\ end <= e.end)

Hits(i) ==
  {j \in DOMAIN MemoryMap : MemoryMap[j].status # "available" /\ Overlaps(i, MemoryMap[j])}

Marked(status) ==
  IF status = "kernel" THEN [owner |-> Kernel, type |-> "image"] ELSE Reserved(status)

Scanned(i) == IF Hits(i) = {} THEN Free ELSE Marked(MemoryMap[Max(Hits(i))].status)

HitsOf(statuses) ==
  {x \in Pages \X DOMAIN MemoryMap :
     x[2] \in Hits(x[1]) /\ MemoryMap[x[2]].status \in statuses}

Aligned(begin) == begin + (8 - (begin % 8))

Fits(e) ==
  /\ e.status = "available" /\ e.end - TableSize > Low
  /\ e.end - Aligned(e.begin) >= TableSize

(* The first entry that fits, unless one before it or itself reaches High. *)
TableOffset ==
  LET fit == {j \in DOMAIN MemoryMap : Fits(MemoryMap[j])}
  IN  IF fit = {} \/ \E j \in 1 .. Min(fit) : MemoryMap[j].begin + TableSize >= High THEN 0
      ELSE Max({Low, Aligned(MemoryMap[Min(fit)].begin)})

TablePages == TableOffset \div PageSize .. (TableOffset + TableSize) \div PageSize

(* No page holds the end of one taken entry and the begin of another, and the  *)
(* page in which the table ends is still in the memory that was available.     *)
ASSUME BootMapAssumption ==
  /\ \A i \in Pages : \A j, k \in Hits(i) : j = k
  /\ TableOffset # 0 => \A i \in TablePages : i \in Pages /\ Scanned(i) = Free

IsFree(p) == info[p] = Free

OfType(marks, types) == {p \in Pages : marks[p].type \in types}

(* The n pages that a loop over S finds first, downwards or upwards.          *)
Before(q, p, high) == IF high THEN q > p ELSE q < p

FoundFirst(S, n, high) ==
  {p \in S : Cardinality({q \in S : Before(q, p, high)}) < n}

(* The tables that axk_mapmgr_init acquires for the physical range: a PDT for  *)
(* each TableEntries huge pages but the first, and at least one; a PDPT for    *)
(* each TableEntries PDTs that the first PDPT has no room for.                 *)
CeilDiv(n, d) == (n + d - 1) \div d

PhysTables ==
  LET more   == Max({1, CeilDiv(CeilDiv(PageCount, TableEntries), TableEntries) - 1})
      beyond == Max({0, more - (TableEntries - 1)})
  IN  more + CeilDiv(beyond, TableEntries)

Placed(i) == IF i \in TablePages \union {ApPage} THEN Reserved("reserved") ELSE Scanned(i)

(* What both leave, unless they fail: each page of the table counts as one    *)
(* that was available.                                                        *)
KernelInit ==
  LET left  == {i \in Pages \ {0} : Placed(i) = Free}
      taken == FoundFirst(left, PhysTables, FALSE)
      moved == Cardinality(TablePages) + 1
  IN  /\ TableOffset # 0 /\ Scanned(ApPage) = Free /\ ApPage \notin TablePages
      /\ PhysTables <= Cardinality(left)
      /\ info = [p \in Pages |-> IF p \in taken THEN [owner |-> Kernel, type |-> "ptable"]
                                 ELSE Placed(p)]
      /\ counters =
           [available |-> Cardinality({i \in Pages : Scanned(i) = Free}) - moved - PhysTables,
            kernel    |-> Cardinality(HitsOf({"kernel"})) + PhysTables,
            reserved  |-> Cardinality(HitsOf(ReservedTypes)) + moved]
      /\ tables = [i \in {<<>>} |-> 0]
      /\ leaf = [a \in {} |-> 0]
      /\ drift = 0 /\ halted = FALSE

-----------------------------------------------------------------------------
Account(available, kernel, reserved) ==
  counters' = [available |-> counters.available + available,
               kernel    |-> counters.kernel + kernel,
               reserved  |-> counters.reserved + reserved]

TakePages(ps, n, process, type) ==
  /\ info' = [p \in Pages |-> IF p \in ps THEN [owner |-> process, type |-> type]
                              ELSE info[p]]
  /\ Account(- n, n, 0)

FreePages(ps) == info' = [p \in Pages |-> IF p \in ps THEN Free ELSE info[p]]

(* Page 0 is not acquired from below, but it is from above. *)
Available(high) == {p \in Pages : IsFree(p) /\ (p = 0 => high)}

ChosenPages(n, high) == FoundFirst(Available(high), n, high)

Acquire(n, process, high) ==
  /\ n <= Cardinality(Available(high))
  /\ TakePages(ChosenPages(n, high), n, process, "data")
  /\ UNCHANGED <<tables, leaf, drift, halted>>

(* From above the loop goes on below page 0: its condition is i >= i. *)
AcquireRunsOut(n) ==
  /\ n > Cardinality(Available(TRUE))
  /\ halted' = TRUE
  /\ UNCHANGED <<info, counters, tables, leaf, drift>>

Lock(ps, process) ==
  /\ \A p \in ps : p # 0 /\ IsFree(p)
  /\ TakePages(ps, Cardinality(ps), process, "data")
  /\ UNCHANGED <<tables, leaf, drift, halted>>

(* Mutant: reserved pages and the image are not told apart. *)
RefusedKernel(p, allowkernel) ==
  p = 0 \/ (info[p].owner = Kernel /\ ~ allowkernel)

Refused(p, allowkernel) ==
  \/ p = 0
  \/ info[p].type \in ReservedTypes \union {"image"}
  \/ info[p].owner = Kernel /\ ~ allowkernel

(* All of the list, or nothing. *)
Accepted(ps, allowkernel) ==
  IF \E p \in ps : Refused(p, allowkernel) THEN {} ELSE ps

(* A page that is free is released too, and counted. *)
Release(ps, allowkernel) ==
  LET done == Accepted(ps, allowkernel) IN
  /\ done # {}
  /\ FreePages(done) /\ Account(Cardinality(done), - Cardinality(done), 0)
  /\ drift' = drift + Cardinality({p \in done : IsFree(p)}) /\ drift' <= MaxMiscount
  /\ UNCHANGED <<tables, leaf, halted>>

(* axk_page_freeproc leaves the counters alone. *)
FreeProc(process) ==
  LET done == {p \in Pages : info[p].owner = process} IN
  /\ done # {}
  /\ FreePages(done)
  /\ drift' = drift - Cardinality(done) /\ -MaxMiscount <= drift'
  /\ UNCHANGED <<counters, tables, leaf, halted>>

(* axk_pagemgr_reclaim, once the processors have started. *)
Reclaim ==
  LET done == OfType(info, {"acpi", "ramdisk"}) \union {ApPage} IN
  /\ info[ApPage] = Reserved("reserved")
  /\ FreePages(done) /\ Account(Cardinality(done), 0, - Cardinality(done))
  /\ UNCHANGED <<tables, leaf, drift, halted>>

-----------------------------------------------------------------------------
Prefixes(a) == {SubSeq(a, 1, n) : n \in 1 .. 3}

Missing(a) == Prefixes(a) \ DOMAIN tables

(* axk_kcheckmap. *)
CheckMap(a) == IF Missing(a) = {} /\ a \in DOMAIN leaf THEN leaf[a] ELSE 0

Nth(S, n) == CHOOSE p \in S : Cardinality({q \in S : q < p}) = n

(* axk_kmap: missing tables are acquired from the upper one down.  An entry   *)
(* that is present is replaced; large pages lie outside the kmap range.       *)
KMap(a, page) ==
  LET n   == Cardinality(Missing(a))
      new == ChosenPages(n, FALSE)
  IN  /\ page # 0 /\ info[page] = [owner |-> Kernel, type |-> "data"]
      /\ \A b \in DOMAIN leaf : leaf[b] # page
      /\ n <= Cardinality(Available(FALSE))
      /\ TakePages(new, n, Kernel, "ptable")
      /\ tables' = [i \in DOMAIN tables \union Missing(a) |->
                      IF i \in DOMAIN tables THEN tables[i] ELSE Nth(new, Len(i) - (4 - n))]
      /\ leaf' = [b \in DOMAIN leaf \union {a} |-> IF b = a THEN page ELSE leaf[b]]
      /\ UNCHANGED <<drift, halted>>

KMapRunsOut(a) ==
  /\ Cardinality(Missing(a)) > Cardinality(Available(FALSE))
  /\ halted' = TRUE
  /\ UNCHANGED <<info, counters, tables, leaf, drift>>

(* Mutant: the upper tables go with the lowest one. *)
EmptiedTogether(rest, a) ==
  {i \in Prefixes(a) : \A b \in rest : SubSeq(a, 1, 3) \notin Prefixes(b)}

Emptied(rest, a) ==
  {i \in Prefixes(a) : \A b \in rest : i \notin Prefixes(b)}

(* axk_kunmap: the tables without an entry are released from the lowest up. *)
KUnmap(a) ==
  LET gone == Emptied(DOMAIN leaf \ {a}, a)
  IN  /\ a \in DOMAIN leaf
      /\ leaf' = [b \in DOMAIN leaf \ {a} |-> leaf[b]]
      /\ tables' = [i \in DOMAIN tables \ gone |-> tables[i]]
      /\ FreePages({tables[i] : i \in gone}) /\ Account(Cardinality(gone), - Cardinality(gone), 0)
      /\ UNCHANGED <<drift, halted>>

(* Callers release pages that they hold, do not map, and no tables; by       *)
(* mistake also pages that are not theirs to release.                        *)
Releasable == {p \in Pages : info[p].type # "ptable" /\ \A a \in DOMAIN leaf : leaf[a] # p}

Lists(ps) == {{p, q} : p \in ps, q \in ps}

KernelNext ==
  /\ ~ halted
  /\ \/ \E n \in 1 .. MaxRequest, process \in PageOwners, high \in BOOLEAN :
          Acquire(n, process, high)
     \/ \E n \in 1 .. MaxRequest : AcquireRunsOut(n)
     \/ \E process \in PageOwners : \E ps \in Lists(Pages) : Lock(ps, process)
     \/ \E allowkernel \in BOOLEAN : \E ps \in Lists(Releasable) : Release(ps, allowkernel)
     \/ \E process \in UserProcesses : FreeProc(process)
     \/ Reclaim
     \/ \E a \in Addresses : KMapRunsOut(a) \/ KUnmap(a) \/ \E page \in Pages : KMap(a, page)

KernelSpec == KernelInit /\ [][KernelNext]_kernelVars

-----------------------------------------------------------------------------
(* The tables of the kernel's map lie on pages of their own that the          *)
(* allocator gave to the kernel, each leads to a mapped page, and the way to   *)
(* each mapped page is complete, although pages come and go in any order.      *)
MapHeld ==
  /\ \A i \in DOMAIN tables \ {<<>>} :
       /\ info[tables[i]] = [owner |-> Kernel, type |-> "ptable"]
       /\ \A j \in DOMAIN tables \ {i} : tables[i] # tables[j]
       /\ \E a \in DOMAIN leaf : i \in Prefixes(a)
  /\ \A a \in DOMAIN leaf :
       /\ CheckMap(a) = leaf[a]
       /\ info[leaf[a]] = [owner |-> Kernel, type |-> "data"]

(* The counters tell how many pages are free, reserved and in use, but for    *)
(* the free pages that were released again (axk_page_release) and the pages    *)
(* of a process that were freed at once (axk_page_freeproc).                   *)
CountersExact ==
  counters = [available |-> Cardinality(OfType(info, {"free"})) + drift,
              kernel    |-> Cardinality(OfType(info, {"image", "ptable", "data"})) - drift,
              reserved  |-> Cardinality(OfType(info, ReservedTypes))]
=============================================================================
