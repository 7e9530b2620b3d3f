------------------------------ MODULE BootMemory ------------------------------
(***************************************************************************)
(* Memory from the firmware to the kernel: T-zero reads the firmware's map, *)
(* exits the boot services, converts, merges and sorts the map              *)
(* (finalize_memory_map, t-zero/arch_x86/main.c); the kernel makes a record *)
(* of every page from it (axk_page_allocator_init) and maps the memory it   *)
(* describes with huge pages (axk_kmap_init).  One processor, in order.     *)
(*                                                                          *)
(* Addresses are in pages: the firmware's descriptors are page aligned.     *)
(***************************************************************************)
EXTENDS Integers, SequencesExt

CONSTANTS
  Layouts,      \* bound: the maps that the firmware may have
  Sizes,        \* their numbers of descriptors
  Leftovers,    \* bound: what the pool's memory may hold, in the counts of the list
  KernelImage,  \* the pages of the kernel's image
  Framebuffer,  \* the pages of the framebuffer
  StartupPage,  \* the page other processors start at, 8
  PageSize,     \* AXK_PAGE_SIZE
  HugePage,     \* pages in a huge page, 512
  PDTEntries    \* huge pages that a PDT maps, 512

ASSUME BootAssumption ==
  /\ Layouts \subseteq Seq([type : STRING, first : Nat, count : Nat])
  /\ Sizes = {Len(map) : map \in Layouts} /\ Sizes \subseteq Nat \ {0}
  /\ {StartupPage, PageSize, HugePage, PDTEntries} \subseteq Nat \ {0}
  /\ Framebuffer \subseteq Nat /\ IsFiniteSet(Framebuffer)
  /\ Leftovers # {}
  /\ \A left \in Leftovers : \A n \in Sizes : \A k \in 1 .. n : left[k] \in Nat

Extra    == 5   \* entries allocated beyond the number given
Attempts == 5

VARIABLES
  stage,        \* the call or the loop to come next
  attempt,      \* i of the loop of attempts
  now,          \* how many descriptors the firmware's map has
  size,         \* mmap_size, in descriptors
  buffer,       \* what mmap_efi and the list point at: null, live or freed memory
  capacity,     \* how many entries the list has room for
  current,      \* whether the map read, and its key, are the firmware's map
  efi,          \* the map that was read last
  pool,         \* what the list's memory held in each entry's count
  list,         \* out_params->memory_map
  page,         \* the records of the page allocator, g_page_count of them
  table,        \* where they are, g_page_list
  active        \* the huge pages mapped at AXK_KERNEL_VA_PHYSICAL

handoff == <<attempt, now, size, buffer, capacity, current>>
memory  == <<efi, pool, list, page, table, active>>
vars    == <<stage, handoff, memory>>

Init ==
  /\ stage = "size" /\ attempt = 0
  /\ now \in Sizes /\ size = 0
  /\ buffer = "null" /\ capacity = 0 /\ current = FALSE
  /\ efi = <<>> /\ pool = <<>> /\ list = <<>> /\ page = <<>> /\ table = 0 /\ active = {}

-----------------------------------------------------------------------------
(* The attempts to read the map and leave the boot services. *)

(* Pool calls and the firmware's own events split and join descriptors, and *)
(* any of them makes the map that was read, and its key, an old one.        *)
FirmwareWorks ==
  /\ now' \in Sizes
  /\ current' = FALSE

Firmware ==
  /\ stage \in {"size", "alloc", "read", "exit"}
  /\ FirmwareWorks
  /\ UNCHANGED <<stage, attempt, size, buffer, capacity, memory>>

(* GetMemoryMap before the allocation.  It gives the size whether the size  *)
(* passed is too small or not; in the second case it also writes the map,   *)
(* where mmap_efi points.                                                   *)
GetSize ==
  /\ stage = "size"
  /\ size' = now
  /\ stage' = "alloc"
  /\ UNCHANGED <<attempt, now, buffer, capacity, current, memory>>

(* Mutant: the list is allocated in the first attempt only. *)
AllocateOnce ==
  /\ stage = "alloc"
  /\ FirmwareWorks
  /\ buffer' = "live"
  /\ capacity' = IF buffer = "null" THEN size + Extra ELSE capacity
  /\ stage' = "read"
  /\ UNCHANGED <<attempt, size, memory>>

(* Room for the map, and for the list made from it. *)
Allocate ==
  /\ stage = "alloc"
  /\ FirmwareWorks
  /\ buffer' = "live" /\ capacity' = size + Extra
  /\ stage' = "read"
  /\ UNCHANGED <<attempt, size, memory>>

(* tzero_alloc halts when the pool is exhausted. *)
OutOfPool ==
  /\ stage = "alloc"
  /\ stage' = "halt"
  /\ UNCHANGED <<handoff, memory>>

(* Mutant: the loop ends one attempt later. *)
TryAgainOnceMore ==
  /\ FirmwareWorks
  /\ buffer' = "freed" /\ capacity' = 0
  /\ attempt' = attempt + 1
  /\ stage' = IF attempt' > Attempts THEN "stray" ELSE "size"

(* Free both, and begin again or leave the loop.  The pointers stay, so the *)
(* check after the loop lets them pass: what follows reads freed memory as  *)
(* the map, with the boot services still at work, and the model stops.      *)
TryAgain ==
  /\ FirmwareWorks
  /\ buffer' = "freed" /\ capacity' = 0
  /\ attempt' = attempt + 1
  /\ stage' = IF attempt' = Attempts THEN "stray" ELSE "size"

(* GetMemoryMap again, with the size it gave and not the size allocated. *)
ReadMap ==
  /\ stage = "read" /\ now <= size
  /\ size' = now /\ current' = TRUE
  /\ stage' = "exit"
  /\ UNCHANGED <<attempt, now, buffer, capacity, memory>>

ReadFails ==
  /\ stage = "read" /\ now > size
  /\ size' = now
  /\ TryAgain
  /\ UNCHANGED memory

ExitFails ==
  /\ stage = "exit" /\ ~ current
  /\ TryAgain
  /\ UNCHANGED <<size, memory>>

(* ExitBootServices with the key of the present map.  With the boot         *)
(* services the firmware's books end, and the loop's variable.              *)
ExitBootServices ==
  /\ stage = "exit" /\ current
  /\ efi' \in Layouts /\ Len(efi') = size
  /\ pool' \in Leftovers
  /\ stage' = "parse"
  /\ attempt' = 0 /\ capacity' = 0
  /\ UNCHANGED <<now, size, buffer, current, list, page, table, active>>

-----------------------------------------------------------------------------
(* From the firmware's map to the list. *)

(* convert_memory_type. *)
Convert(type) ==
  CASE type \in {"LoaderCode", "LoaderData"}                 -> "BOOTLOADER"
    [] type \in {"BootServicesCode", "BootServicesData",
                 "Conventional"}                             -> "AVAILABLE"
    [] type = "ACPIReclaim"                                  -> "ACPI"
    [] type \in {"MappedIO", "MappedIOPortSpace"}            -> "MAPPED_IO"
    [] OTHER                                                 -> "RESERVED"

End(e) == e.first + e.count

PagesOf(e) == e.first .. End(e) - 1

(* What the firmware's maps are taken to be like.  Descriptors are apart,   *)
(* and the kernel's image lies in memory that is not free, as the loader    *)
(* has allocated it.  Between descriptors there may be holes, and free      *)
(* memory may begin at the startup page: the loader asks for that page and  *)
(* goes on if it cannot have it (main.c 53-62).                             *)
WellFormed(map) ==
  /\ \A i, j \in DOMAIN map : i # j => PagesOf(map[i]) \intersect PagesOf(map[j]) = {}
  /\ \A p \in KernelImage : \E i \in DOMAIN map :
       p \in PagesOf(map[i]) /\ Convert(map[i].type) # "AVAILABLE"

ASSUME FirmwareAssumption == \A map \in Layouts : WellFormed(map)

(* A section for the descriptor; its count begins with what the memory held.*)
Section(sections, d) ==
  [type |-> Convert(d.type), first |-> d.first,
   count |-> pool[Len(sections) + 1] + d.count]

(* Mutant: the pages of a section are set to its last descriptor's. *)
ExtendAnew(sections, d) ==
  IF sections # <<>> /\ sections[Len(sections)].type = Convert(d.type)
  THEN [sections EXCEPT ![Len(sections)].count = d.count]
  ELSE Append(sections, Section(sections, d))

(* A descriptor of the same class as the one before it makes the section    *)
(* longer, wherever it lies itself; any other begins a section.             *)
Extend(sections, d) ==
  IF sections # <<>> /\ sections[Len(sections)].type = Convert(d.type)
  THEN [sections EXCEPT ![Len(sections)].count = @ + d.count]
  ELSE Append(sections, Section(sections, d))

Parse ==
  /\ stage = "parse"
  /\ list' = FoldLeft(Extend, <<>>, efi)
  /\ stage' = "sort"
  /\ UNCHANGED <<handoff, efi, pool, page, table, active>>

Lowest(from) ==
  CHOOSE j \in from .. Len(list) :
    /\ \A k \in from .. Len(list) : list[j].first <= list[k].first
    /\ \A k \in from .. j - 1 : list[j].first < list[k].first

(* Mutant: one pass of the outer loop. *)
SortOnce ==
  /\ stage = "sort"
  /\ LET j == Lowest(1) IN
     list' = [list EXCEPT ![1] = list[j], ![j] = list[1]]
  /\ stage' = "records"
  /\ UNCHANGED <<handoff, efi, pool, page, table, active>>

(* The selection sort: entries 1 to i - 1 are in their places, and an entry *)
(* that is in its place already is not moved.                               *)
Sort ==
  /\ stage = "sort"
  /\ LET unplaced == {i \in 1 .. Len(list) - 1 : Lowest(i) # i} IN
     IF unplaced = {}
     THEN stage' = "records" /\ UNCHANGED list
     ELSE LET i == Min(unplaced)
              j == Lowest(i)
          IN  /\ list' = [list EXCEPT ![i] = list[j], ![j] = list[i]]
              /\ UNCHANGED stage
  /\ UNCHANGED <<handoff, efi, pool, page, table, active>>

-----------------------------------------------------------------------------
(* axk_page_allocator_init. *)

(* Memory that may be given out, at once or when it is reclaimed; the       *)
(* records go up to the highest page of it.                                 *)
Tracked == {"AVAILABLE", "ACPI", "BOOTLOADER"}

RecordCount == Max({End(e) : e \in {d \in ToSet(list) : d.type \in Tracked}} \union {0})

InfoSize(count) == count * 6

(* Mutant: the table begins at the page that is to be left alone. *)
PlaceInTooLow(e) == IF e.first < StartupPage THEN StartupPage ELSE e.first

(* The table is not put below the startup page, as it might reach it.       *)
PlaceIn(e) == IF e.first < StartupPage THEN StartupPage + 1 ELSE e.first

(* The sections of available memory that have room for the table; it goes   *)
(* into the first.                                                          *)
Roomy(count) ==
  {i \in DOMAIN list :
     /\ list[i].type = "AVAILABLE"
     /\ PlaceIn(list[i]) * PageSize + InfoSize(count) <= End(list[i]) * PageSize}

TablePages(at, count) ==
  {p \in 0 .. count - 1 : at <= p /\ p * PageSize < at * PageSize + InfoSize(count)}

Record(state, pid) == [state |-> state, pid |-> pid]

(* Mutant: the table's own pages are not looked for. *)
RecordOfForgetful(p, own) ==
  IF p \in KernelImage THEN Record("RESERVED", "KERNEL")
  ELSE LET found == {i \in DOMAIN list : p \in PagesOf(list[i])} IN
       IF p \notin Framebuffer /\ found # {} /\ list[Min(found)].type \in Tracked
       THEN Record(list[Min(found)].type, "INVALID")
       ELSE Record("RESERVED", "INVALID")

(* A page of the kernel's image, of the table's own or of the framebuffer,  *)
(* or else what the first entry with the page says.                         *)
RecordOf(p, own) ==
  IF p \in KernelImage THEN Record("RESERVED", "KERNEL")
  ELSE LET found == {i \in DOMAIN list : p \in PagesOf(list[i])} IN
       IF p \notin own \union Framebuffer /\ found # {} /\ list[Min(found)].type \in Tracked
       THEN Record(list[Min(found)].type, "INVALID")
       ELSE Record("RESERVED", "INVALID")

MakeRecords ==
  /\ stage = "records"
  /\ LET count == RecordCount
         roomy == Roomy(count)
         at    == PlaceIn(list[Min(roomy)])
         own   == TablePages(at, count)
     IN  /\ roomy # {}
         /\ table' = at
         /\ page' = [p \in 0 .. count - 1 |->
                       IF p = StartupPage THEN Record("RESERVED", "INVALID")
                       ELSE RecordOf(p, own)]
  /\ stage' = "map"
  /\ UNCHANGED <<handoff, efi, pool, list, active>>

NoRoom ==
  /\ stage = "records" /\ Roomy(RecordCount) = {}
  /\ stage' = "halt"
  /\ UNCHANGED <<handoff, memory>>

-----------------------------------------------------------------------------
(* axk_kmap_init. *)

HugeOf(p) == p \div HugePage

Overlaps(S, h) == \E p \in S : HugeOf(p) = h

(* The search in the sorted list ends at an entry behind the huge page. *)
Described(h) ==
  \E j \in DOMAIN list :
    /\ Overlaps(PagesOf(list[j]), h)
    /\ \A k \in 1 .. j - 1 : list[k].first <= (h + 1) * HugePage

HugePages ==
  LET top == Max({End(e) : e \in ToSet(list)} \union {p + 1 : p \in Framebuffer})
  IN  {h \in 0 .. HugeOf(top + HugePage - 1) - 1 : Described(h) \/ Overlaps(Framebuffer, h)}

(* A PDPT and the PDTs it needs, from the allocator. *)
TablesNeeded == 1 + Cardinality({h \div PDTEntries : h \in HugePages})

AvailablePages == {p \in DOMAIN page \ {0} : page[p].state = "AVAILABLE"}

LowestPages(n) ==
  {p \in AvailablePages : Cardinality({q \in AvailablePages : q < p}) < n}

MapMemory ==
  /\ stage = "map"
  /\ LET taken == LowestPages(TablesNeeded) IN
     /\ Cardinality(taken) = TablesNeeded
     /\ page' = [p \in DOMAIN page |->
                   IF p \in taken THEN Record("LOCKED", "KERNEL") ELSE page[p]]
  /\ active' = HugePages
  /\ stage' = "done"
  /\ UNCHANGED <<handoff, efi, pool, list, table>>

NoTables ==
  /\ stage = "map" /\ Cardinality(AvailablePages) < TablesNeeded
  /\ stage' = "halt"
  /\ UNCHANGED <<handoff, memory>>

-----------------------------------------------------------------------------
Loader ==
  \/ GetSize \/ Allocate \/ OutOfPool
  \/ ReadMap \/ ReadFails \/ ExitFails \/ ExitBootServices
  \/ Parse \/ Sort

Kernel == MakeRecords \/ NoRoom \/ MapMemory \/ NoTables

Next == Firmware \/ Loader \/ Kernel

Spec == Init /\ [][Next]_vars

-----------------------------------------------------------------------------
States == Tracked \union {"RESERVED", "LOCKED"}

TypeOK ==
  /\ stage \in {"size", "alloc", "read", "exit", "stray", "halt",
                "parse", "sort", "records", "map", "done"}
  /\ attempt \in 0 .. Attempts /\ now \in Sizes
  /\ size \in Sizes \union {0} /\ capacity \in {n + Extra : n \in Sizes} \union {0}
  /\ buffer \in {"null", "live", "freed"} /\ current \in BOOLEAN
  /\ \A p \in DOMAIN page : page[p] \in [state : States, pid : {"INVALID", "KERNEL"}]

(* A map that has been read and is the firmware's last fits the list        *)
(* allocated before it was read: the map may grow between the two calls,    *)
(* and the list was allocated for the size of the first.                    *)
ListHolds == stage = "exit" /\ current => buffer = "live" /\ now <= capacity

(* The class of a page in the firmware's map: what the records must say.    *)
ClassOf(p) ==
  IF \E i \in DOMAIN efi : p \in PagesOf(efi[i])
  THEN Convert(efi[CHOOSE i \in DOMAIN efi : p \in PagesOf(efi[i])].type)
  ELSE "RESERVED"

(* The sections of the firmware's map, and those that cannot come out       *)
(* right: where neighbours of a class do not adjoin, or where the memory of *)
(* the entry's count was not clear.                                         *)
Begins(i) == i = 1 \/ Convert(efi[i].type) # Convert(efi[i - 1].type)

SectionOf(i) == Cardinality({j \in 1 .. i : Begins(j)})

Faulty(i) ==
  \/ pool[SectionOf(i)] # 0
  \/ \E j \in 2 .. Len(efi) :
       ~ Begins(j) /\ SectionOf(j) = SectionOf(i) /\ efi[j].first # End(efi[j - 1])

(* What the list says of the pages in such a section cannot be relied on.   *)
Spoilt(p) ==
  \/ \E i \in DOMAIN efi : Faulty(i) /\ p \in PagesOf(efi[i])
  \/ \E i \in DOMAIN efi, k \in DOMAIN list :
       Faulty(i) /\ list[k].first = efi[i].first /\ p \in PagesOf(list[k])

(* Converted, merged and sorted, the map still says of every page what the  *)
(* firmware said: a page is given out only if it is usable and nothing else *)
(* is on it, and no usable page is forgotten.  A section that comes out     *)
(* wrong spoils its own pages and those it runs over, and no others.        *)
RecordsExact ==
  stage \in {"map", "done"} =>
    LET kept  == KernelImage \union Framebuffer \union {StartupPage}
                   \union TablePages(table, Cardinality(DOMAIN page))
        taken == {p \in DOMAIN page : page[p].state = "LOCKED"}
        Meant(p) == IF p \in kept \/ ClassOf(p) \notin Tracked THEN "RESERVED" ELSE ClassOf(p)
    IN  /\ \A p \in DOMAIN page :
             ~ Spoilt(p) => IF p \in taken THEN Meant(p) = "AVAILABLE"
                                            ELSE page[p].state = Meant(p)
        /\ \A i \in DOMAIN efi :
             ~ Faulty(i) /\ Convert(efi[i].type) \in Tracked
               => PagesOf(efi[i]) \subseteq DOMAIN page

(* The table of records lies in memory that was free to take, as far as     *)
(* that is known, and is put on the page kept for starting other processors *)
(* only where free memory begins at that page.                              *)
TableApart ==
  stage \in {"map", "done"} =>
    \A p \in TablePages(table, Cardinality(DOMAIN page)) :
      /\ ~ Spoilt(p) => ClassOf(p) = "AVAILABLE" /\ p \notin KernelImage
      /\ p = StartupPage =>
           \E i \in DOMAIN efi :
             Begins(i) /\ efi[i].first = StartupPage /\ Convert(efi[i].type) = "AVAILABLE"

(* Every page that is or may be given out can be reached after the          *)
(* firmware's mappings are gone, and so can the records themselves and the  *)
(* framebuffer, which the firmware's map need not list.                     *)
Reachable ==
  stage = "done" =>
    LET used == {p \in DOMAIN page : page[p].state # "RESERVED"}
                  \union TablePages(table, Cardinality(DOMAIN page)) \union Framebuffer
    IN  \A p \in used : HugeOf(p) \in active

(* A section of the list has the pages of the descriptors it was made from: *)
(* "we combine adjacent entries of similar type" (t-zero/arch_x86/          *)
(* main.c:518).                                                             *)
SectionsTrue ==
  stage = "sort" =>
    \A k \in DOMAIN list : \A p \in PagesOf(list[k]) : ClassOf(p) = list[k].type

(* The table leaves the startup page alone: "We need to ensure we dont mess *)
(* with 0x8000 to 0x9000" (axon/source/memory/page_allocator.c:86).         *)
StartupPageSpared ==
  stage \in {"map", "done"} =>
    StartupPage \notin TablePages(table, Cardinality(DOMAIN page))

(* Leaving the loop means having the firmware's map: "Check if we were able *)
(* to read the memory map" (t-zero/arch_x86/main.c:548).                    *)
MapWasRead == stage # "stray"
=============================================================================
