# A TLA+ model of Axon, the kernel of ExpressOS

ExpressOS is a kernel for 64-bit x86 machines, Axon (`axon/`), and its UEFI boot loader, T-zero (`t-zero/`). This directory holds TLA+ models of the parts of both that carry their logic, TLC runs over small instances, and proofs of the main properties. Where the model and a comment in the source disagree, the section *Findings* says so.

## Inventory

`axon/makefile` builds `axon/source`, `axon/arch_x86` and `libk`. `axon/source_old` holds the previous kernel's sources, which the current ones are a rewrite of; it is not built, but much of the concurrent code is only there.

| Part | State | Operations | Talks to | What is hard | What makes it right |
|---|---|---|---|---|---|
| Spinlock (`source/library/spinlock.c`, `arch_x86/kernel/utils.asm`) | a flag and the holder's RFLAGS per lock; the interrupt bit of each processor | init, acquire, release, is_locked | everything | interrupts on the same processor, nesting, a field shared by all holders | exclusion, handlers kept off holders, interrupt bit given back, somebody always gets the lock |
| Physical page allocator (`source/memory/page_allocator.c`) | a record (owner, state, type) per page, one lock | init, acquire, lock, release, release_s, status, find, count, reclaim | boot loader's memory map, memory maps, spinlock | two scan directions, all-or-nothing lists, refusals, exhaustion | one owner per page, kernel pages guarded, exact grants, the lock given back |
| Memory maps (`source/arch_x86/memory/memory_map.c`) | a four-level tree of tables per process, each table a page | kmap_init, create, destroy, lock, unlock, add, remove, translate, search, copy, copy_range | page allocator; callers must lock | rollback when the allocator refuses, empty tables given back, destroy, unlocked operations | every table page is owned by the map and reachable, no entry points at a free page |
| Start-up (`arch_x86/boot/entry.asm`, `source/arch_x86/main.c`) | none of its own | one sequence: terminal, counters, page allocator, kernel map | all of them | order | nothing is used before it is initialised |
| T-zero (`t-zero/arch_x86/main.c`, `util.c`, `console.c`) | the firmware's map, the kernel's segments, the payload parameters | load the kernel, choose the video mode, find ACPI tables, finalise the memory map, exit boot services, jump | firmware, page allocator | the map changes while it is read; five attempts; conversion, merging and sorting of ranges | the map handed over is the firmware's last one, covers exactly its pages, sorted |
| Panic (`source/kernel/panic.c`) | a flag, a lock | begin, prints, end | terminal | takes two locks; other processors are not stopped | one panic on the screen, none returns |
| Basic terminal (`source/gfx/basic_terminal.c`) | cursor, colours, mode, framebuffer | print, draw, scroll, set mode, lock | panic, page allocator | cursor arithmetic at the edges; callers must lock | the cursor stays on the screen |
| Counters (`source/system/sysinfo.c`, `public/axon/library/atomic.h`) | an array of 64-bit atomics | init, increment, decrement, read, write | - | wrap-around | no update lost |
| libk | none | string, memory and number functions | everybody | - | - |
| Interlink (`source_old/system/interlink.c`) | a queue with a lock and a handler table per processor; a counter in shared messages | send, broadcast, set_handler, handle_interrupt | interrupts, heap, vector, tree | handlers under the queue's lock, failed interrupts, shared messages | a message freed by its last handler and by nobody else |
| Interrupt table (`source_old/system/interrupts.c`) | owner and callback per vector, owner per external routing | acquire, lock, release, update handler; acquire, lock, release, update external; release of a process; invoke | drivers | boundaries of the vector range; registers written after the lock is released; a callback changed while invoked | a vector is its owner's until released, a routing leads to its owner |
| Heap (`source_old/memory/kheap.c`) | a list of tags in the heap's address range | alloc, realloc, free | page allocator, kernel map | split, merge, expansion | blocks do not overlap and lie on mapped pages |
| Page allocator and kernel map (`source_old/memory/page_alloc.c`, `arch_x86/kmap.c`) | owner and type per page, three counters; one four-level tree | init, acquire, lock, release, freeproc, reclaim; kmap, kunmap, checkmap | heap | where the table is put, counters beside the table, empty tables given back | a page mapped is the page translated to, tables are nobody else's, counters exact |
| Containers (`source_old/library/`) | red-black tree, vector | insert, erase, search, iterate | interlink, sysinfo, timers | rebalancing, moves | a map, a sequence |
| Start of the processors (`source_old/arch_x86/entry.c`, `timers_x86.c`, `system/sysinfo.c`) | flags, counters and a table that all processors share | start, wait, rendezvous, system information | everything | spinning on shared flags, a table freed while used, a tree read without its lock | own stack, identifier and scheduler each; the table is there when used; the rendezvous ends |
| Time (`source_old/system/time.c`, `arch_x86/time_x86.c`) | sync point, history of ticks, the last time returned | tick, since boot, read the real time clock, dates | timers | a tick during a computation, a clock that changes while read, leap seconds | time grows, rates are measured, dates and times agree |
| Timers (`source_old/system/timers.c`, `arch_x86/timers_x86.c`, `drivers/`) | the timers chosen, a calibration under way | choose, calibrate, delay, tick | time | an interrupt latched before or after it is wanted, a counter that wraps | periods measured, delays long enough |
| Schedulers (`source_old/scheduler/`) | queues per priority | insert | interlink, timers | unfinished | - |
| Drivers, ACPI, topology, exceptions (`source_old/arch_x86/`) | registers, parsed tables | - | - | mostly register access and text | - |

The components interact through direct calls only. There is no scheduler in the built kernel, and the previous one's never runs a thread: concurrency comes from several processors and from interrupts, and every shared structure is behind a spinlock. The lock order is panic, then terminal (`panic.c` 66-67); all other locks are taken alone in the built code.

## Modules

| Module | Extends | Models |
|---|---|---|
| `Spinlock` | | `spinlock.c`, `utils.asm`: one step per access |
| `PageSelect` | | which pages `axk_page_acquire` picks, as sets |
| `PageScan` | `PageSelect` | the loops of `axk_page_acquire`, an iteration per step |
| `PageLedger` | | the promise: one owner per page |
| `PageAllocator` | `PageSelect` | all operations of `page_allocator.c`, by several callers |
| `AddressSpaces` | | the promise of the memory maps: independent partial functions |
| `MemoryMap` | | `memory_map.c` for the maps of processes: trees of tables over the allocator's pages |
| `BootMemory` | | the firmware's memory map up to the kernel's page records and huge pages |
| `Terminal` | | `basic_terminal.c`: cursor, frames, numbers |
| `RBTree`, `Vector` | | `rbtree.c`, `vector.c` |
| `Heap` | | `kheap.c`: tags, splits, merges, pages |
| `KernelMap` | | `page_alloc.c` and `kmap.c` |
| `Interlink` | | `interlink.c`: messages between processors |
| `Interrupts` | | `interrupts.c` over the redirection registers of `xapic_driver.c` |
| `Startup` | | `entry.c`, `timers_x86.c`, `sysinfo.c`: all processors from the timers to the schedulers |
| `SystemTime` | | the clock of `time.c` and the reading of `time_x86.c` |
| `Calendar` | | dates and times of `time.c` |
| `Timers` | | the choice, calibration and use of the timers by `timers_x86.c` and the drivers |
| `MCSpinlock`, `MCPageScan`, `MCPageAllocator`, `MCMemoryMap`, `MCMemoryMaps`, `MCBootMemory`, `MCMemory`, `MCParts` | the above | instances for TLC |
| `PageScanProofs`, `PageAllocatorProofs`, `MemoryMapProofs`, `BootMemoryProofs`, `PartsProofs`, `StorageProofs`, `TreeProofs` | the above | theorems |
| `NumberLemmas` | | lemmas about numbers, finite sets, folds and recursive functions that the proofs share |

`MCMemory` has three parts, one each for `BootMemory`, `PageScan` and `PageAllocator`, `MCMemoryMaps` two scenarios of `MemoryMap`, and `MCParts` one part each for the modules from `Terminal` on: the first state of a behaviour chooses one and the behaviour stays in it, so that one run checks what would otherwise be many, each on its own instance. `MCMemoryMaps` extends `MemoryMap` for one scenario and instantiates it for the other, so the theorems of `MemoryMapProofs` are about the very properties it checks. `MCMemory` extends `BootMemory` and `PageScan` and instantiates `PageAllocator`. `MCParts` extends `SystemTime`, `Interrupts`, `Startup`, `Interlink`, `Heap`, `KernelMap`, `Vector`, `RBTree`, `Terminal`, `Calendar` and `Timers`, so that `PartsProofs`, `StorageProofs` and `TreeProofs` are about the very properties it checks. `Interrupts` runs twice, the vectors without externals and the externals without vectors, and so does `SystemTime`, with the real time clock and with processors that ask: the instances share the variables and differ in the constants.

Definitions marked *Mutant* are variants of the definition that follows them with a plausible bug; no specification uses them. Substituted for the definition they show that a property notices the bug.

### Spinlock

A *context* is a processor's ordinary code or its interrupt handler. `flag` and `saved` are the two fields of `axk_spinlock_t` (of RFLAGS only the interrupt bit), `iflag` the interrupt bit of each processor, `rf` and `target` the local and the argument of the call under way, `pc` the place in it. `held` and `want` are history: the locks a context has, and the interrupt bit it runs with outside any lock.

| Code | Action |
|---|---|
| `axk_interrupts_disable`: `pushfq; pop rax` | `ReadFlags` |
| `cli` | `Disable` |
| the test-and-set that succeeds | `TestAndSet` (the failing ones change nothing) |
| `lock->rflags = rflags` | `StoreFlags` |
| `rflags = lock->rflags` | `LoadFlags` |
| clear of the flag | `ClearFlag` |
| `axk_interrupts_restore` | `RestoreFlags` |
| interrupt gate, `iretq`, explicit `sti`/`cli` | `Interrupt`, `Return`, `SetInterrupts` |

The callers' discipline is in two guards: a context takes locks in ascending order (`InOrder`) and releases the one taken last (`Innermost`). The accesses are sequentially consistent: the flag is accessed with `MEMORY_ORDER_SEQ_CST`, and the plain field `rflags` is accessed only between the test-and-set and the clear. One level of handler is modelled, as the gates clear the interrupt bit and no handler of the source sets it.

### PageSelect, PageScan

`PageSelect` says in sets what `axk_page_acquire` selects: the first run of free pages that is long enough in scan order, otherwise the longest run completed with the first other pages. `PageScan` is the code: `StartRun`, `ExtendRun` and `EndRun` are the three branches of the first loop (lines 270-319), `TakeRun`, `GiveUp` and `TakeLargest` the choice after it (321-371), `Fill` an iteration of the second loop (337-350), `Refuse` the failure (352-359). Variables have the names of the code's locals; `searching` is `cons_search_state`. `LoopsSelect` ties the two together, which is why `PageAllocator` may use `PageSelect` for the body of an acquire. The definitions reproduce the scan as it is: downwards it misses the last page and reaches page 0, and the second pass compares positions with page numbers (line 343).

### PageLedger, PageAllocator

`PageLedger` is the abstract specification: an owner per page; free pages are granted to one owner, owned pages returned, boot classes reclaimed as a whole. `PageAllocator` has the page table (`page[p].state`, `.pid`), the lock's flag, and for each caller where it is (`pc`) and the call it makes (`call`). An operation is three steps: `Enter` (the call reaches the lock), `TakeLock`, and its body, which ends with the release. The body is one step because it reads and writes the table only with the lock held and `Spinlock` shows that the lock excludes. `AcquireGranted`, `AcquireRefused`, `Lock`, `Release`, `ReleaseS`, `Reclaim` are the bodies; `Unchanged` stands for status, find, and the refused lock and release calls. Arguments are drawn when the lock is taken, which is as general as drawing them at the call since nothing looks at them in between. A page list is a set: the operations first check every member and then change every member, so order and repetition make no difference.

Left out: the `type` byte, which no code reads; the `memset` of AXK_PAGE_FLAG_CLEAR; `axk_page_allocator_update_pointers`, which moves the table's address once during start-up; parameter checks that return before the lock. The initial tables are what the classification of `axk_page_allocator_init` can write (`BootRecords`).

`AcquireRefused` returns without the lock's release if the request was for consecutive pages, as the code does.

### AddressSpaces, MemoryMap

`AddressSpaces` is the abstract specification: per map a partial function from virtual to physical pages, changed at the one address an operation was called for, once, and emptied by a destroy; before an add is decided and while tables are given back (`doing`) nothing changes. `MemoryMap` has the trees: `tbl[p]` are the entries of the page `p` used as a table, `root` is `in_map->pml4`, `owner` is what the allocator records for each page (with `RESERVED` for what boot set aside and `OTHER` for every other user of pages), `op` is the operation under way on a map with its locals. The addresses are tuples of a slot per level. Slots and addresses are parameters, so a tree has as many entries per table as the instance needs.

| Code | Action |
|---|---|
| `axk_memory_map_create` | `Create` |
| `axk_memory_map_add`: walk as far as tables are present | `Add` |
| acquire of a table's page and the entry for it (lines 294-298, 306-315, 323-333) | `MakeTable` |
| refused: no page, or mapped and not to be overwritten | `GiveUp`, then one `Rollback` per `axk_page_release` |
| the mapping is written (353-366) | `Enter` |
| `axk_memory_map_remove`: the entry is cleared | `Unmap` |
| a table that has become empty: parent's entry cleared, page released | `Prune`, at most three times; `GoOn` looks for remaining entries |
| `axk_memory_map_destroy` | `Destroy`, `DestroyOne` per released page, `Destroyed` for line 257 |
| other users of the allocator | `OtherAcquire`, `OtherRelease` |

The locks are assumed, not modelled: `memory_map.h` (51-55) makes the map's lock the caller's duty, so one operation at a time runs on a map, and a call of the allocator is one step because `PageAllocator` and `Spinlock` show that it is atomic. Between two such steps of one map anything may happen in another. Acquire takes the lowest free page except page 0, as `PageSelect` gives for one page without flags.

The model stops (`broken`) after a page was given back that a tree still points at (a rollback): from there on the code reads what another owner wrote as a page table. `map_dangling` shows how it gets there; the other runs say what holds until then. It stops, too, at the end of a destroy: line 257 passes the number of a page where the address of a list is expected, and `axk_page_release` reads there with the allocator's lock held. `axk_kmap_init` has unmapped such low addresses (176-180), so the processor faults and the lock stays taken.

The kernel's own map is not modelled. `axk_kmap_init` sets `g_kernel_map.pml4` to the *virtual* address of `axk_pml4` (61), and add, remove and translate add AXK_KERNEL_VA_PHYSICAL to it again (284, 381, 489), which gives an address that is not canonical; the huge pages entered in its PDTs (169) would be followed as tables; and `axk_kmap_get`, by which callers would come by it (`memory_map.h` 120), is defined nowhere. No operation on it can be carried out. What `axk_kmap_init` itself maps is in `BootMemory`.

Left out: entry flags, `axk_memory_map_search` (reads only), `axk_memory_map_copy` (line 613 tests all bits of the address mask with `AXK_CHECK_FLAG`, so the call returns false before it changes anything), `axk_memory_map_copy_range` (empty). The file does not compile as committed (lines 237, 484 and 609); the model takes the evident reading.

### BootMemory

One processor, in order: the loader reads the firmware's map and leaves the boot services, makes the list out of it, and the kernel uses the list twice. Only the firmware's own work interleaves (`Firmware`), in the first part. `stage` is the call or loop to come next, `now` how many descriptors the firmware's map has, `current` whether the map read last is still the firmware's (its key is valid), `buffer` and `capacity` what has been allocated, `efi` the map that was read, `list` the loader's, `page` and `table` the kernel's records and where they are, `active` the huge pages mapped.

| Code | Action |
|---|---|
| first `GetMemoryMap` of an attempt (`main.c` 514) | `GetSize` |
| the two `tzero_alloc` (521-522), which halt on failure | `Allocate`, `OutOfPool` |
| second `GetMemoryMap` (525) | `ReadMap`, `ReadFails` |
| `ExitBootServices` (535) | `ExitBootServices`, `ExitFails` |
| the frees, and what follows the fifth (526-553) | `TryAgain` |
| count and merge (555-615), sort (617-638, a swap per step) | `Parse`, `Sort` |
| `axk_page_allocator_init` | `MakeRecords`, `NoRoom` |
| `axk_kmap_init` | `MapMemory`, `NoTables` |

Addresses are in pages and a size in bytes appears only for the records, 6 bytes each. The huge pages have one PDPT, as up to 512 GB have. What the firmware may do is any of the maps in `Layouts` at any moment; a map that was read stays valid until the firmware or a pool call changes it. After the fifth failure the code reads freed memory as a map, where the model stops (`stray`).

Two things that the code does not look for are in the model. Descriptors need not adjoin: a section begins where the first descriptor of a class does and has the sum of the pages (`Extend`), so behind a hole, such as the one from 0xA0000 to 0xFFFFF of ordinary machines, it lies in the wrong place. And the count that the pages are added to (613) is in pool memory that nobody has cleared: `pool` is what it held, one of `Leftovers`. `Faulty` says which sections cannot come out right for one of these reasons, and `Spoilt` which pages they have or run over; `RecordsExact` and `TableApart` are about all others, so they also say that a section that comes out wrong does no harm elsewhere. `SectionsTrue`, without the exception, is violated (`boot_holes`). Free memory may begin at page 8, where `PlaceIn` puts the table on the page that is kept for starting other processors: `TableApart` says that it gets there in no other way, and `boot_table` that it does.

Assumed and not checked: `GetMemoryMap` gives the size in any case; writing into the buffer freed by the last attempt harms nobody (the hazard at `main.c` 514); and `WellFormed` (`FirmwareAssumption`), that descriptors are apart and that the kernel's image lies in memory that is not free, as the loader has allocated it.

### Terminal

`mode` is `g_mode`, `cursor` `g_pos_x` and `g_pos_y`; `screen` is the set of rectangles drawn, each with the frame it belongs in; `number` the number printed last with its characters, `reprinted` whether a character of the console came over another. A print is one step, since callers hold the terminal's lock around it: `Printed` goes through the characters as `axk_basicterminal_prints` does, words split at the end of a line when they are long and moved to the next when not. `Decimal` and `Hex` are the loops of the two families of number functions; all four loops are recursive functions (`PrintChars`, `Printed`, `Decimal`, `Hex`), so that proofs can follow them. `Denoted` reads digits back. `Draw`, `DrawText`, `DrawTextBox`, `DrawBox` and `DrawPixel` are the graphics.

The first scroll ends the model: line 349 takes the lines to copy from the height of a character, the subtraction wraps and about four gigabytes are moved. A text with a character from 128 on ends it too, as the font is read past its end (668). Fonts and colours are left out. `basic_out.c` of the previous kernel is the same console and not modelled a second time.

### RBTree, Vector

A node of `RBTree` is named by its key. `root`, `leftmost`, `treeCount`, `red`, `up` and `kid` are the tree's fields and its nodes'; `treeCall` and `pos` the function under way and the node its loop has reached; `iter` an iterator with its stack. Descent, insertion, each case of the repair after an insertion and of the repair after a removal, and the iterator's operations are steps of their own. A step that dereferences NULL, or leaves nodes that are their own children, is an action whose name ends in `Breaks` and ends the model; the guards of these say exactly which trees and keys lead there, and `TreeSound` and `IteratorInOrder` hold up to it. What leads there:

- `erase` of a root with two children (NULL parent), and of a node whose successor is its own right child (216-257);
- the repair with a red sibling's child, where `c` is used before it is set (347);
- `copy` of an empty tree, and of any other, which reads stack slots as nodes (596-597);

Two kinds of iterators go wrong without leaving the structure: after `search` the stack holds every ancestor, so `next` goes backwards (705), and after `erase` by iterator it is that of the erased node (901-903). `origin` tells them apart, and `IteratorInOrder` is about those that `begin` set up. `axk_rbtree_begin` and `next` are promised the order; what `next` does at the last node is left open, since the header says that the iterator is not updated there (`rbtree.h` 213) and the code clears its node (see *Findings*).

The count is not decremented when a black leaf is removed; the model keeps `treeCount` as the code does, and `TreeSound` says only that it is not below the number of nodes. `LeftmostWithout` takes the least key that is left where the code walks to the left (386-402), which ends there in a tree that is searchable, as `TreeSound` says it is.

`Vector` has a buffer `cells` and a `count` per handle; `owned` counts the calls of the copy function less those of the finalize function per element, `promised` is the sequence the callers asked for. `Insert`, `Erase`, `Resize`, `Shrink`, `Reserve`, `Copy`, `Move` and `Clear` change whole buffers. `InsertPast` and `PopEmpty` end the model: an `insert_range` that does not fit into a buffer that is not full writes past it, and a `pop_back` of an empty vector wraps the count. `reserve` can end below what was asked for, which is not part of the property, and neither is what the elements that a `resize` adds are: the header and the code disagree about that (see *Findings*).

### Heap

Addresses are in units of a tag's 16 bytes. `mem` says what each unit holds, so a tag is read where it was written and nowhere else; `mapped` and `pages` are the pages, `scan` the allocation under way, one tag per step (`SkipPresent`, `PassTooSmall`, `PassFree`, `TakeEnd`), `blocks` the blocks callers have. `FreeBlock` merges with both neighbours and unmaps the pages inside. `SplitFails`, `ScanBreaks` and `FreeBreaks` end the model where the code panics, faults, or reads a tag where none is: a split leaves the next tag's `prev` as it was, and the pages of a block are mapped over ones that are mapped. A free block is prepared, even split, but never given out again, as nothing sets `b_avail` for it (234-240); `BlocksApart` is about what is given out. `realloc` frees before it allocates and copies nothing (293).

### KernelMap

`info` is `g_table`, `counters` the three counters, `tables` and `leaf` the tree of the map. Init classifies the boot map's entries and places the table. A page that no entry covers counts as free. Acquire takes the lowest or the highest free pages; the loop of AXK_FLAG_PREFER_HIGH that runs `i >= i` is `AcquireRunsOut`, which ends the model as it leaves the table. A release of a free page is counted again and `freeproc` does not count at all: `drift` records both, and `CountersExact` is that the counters are wrong by exactly that. `KMap` takes pages for missing tables, `KUnmap` gives back those that became empty. `axk_mapmgr_init` writes the entries of the per-process table from 1 on instead of 256 on; `kmap` returns with its lock held where it meets a huge page (236); an entry that is there is overwritten.

### Interlink

`queue`, `data_counter` and `handlers` are the code's; `sends` the send or broadcast under way on each processor, in its thread and in a callback on top of it; `serving` the processors in `axk_interlink_handle_interrupt`, which hold their queue's lock, and `calling` those of them in a callback; `pending` the interrupts sent and not taken. `Push` is a push with its lock, `Announce` the interrupt after it, which may fail to a processor in `Unreliable`; then the entry stays in the queue unannounced (`missed`), since the retraction compares the address of a slot with a message (119-120). The entry that `send` pushes is the first bytes of the message instead of its address (96), so a processor that handles it uses memory as a message that is none: `Misread`, which ends the model. `MessagesHeld` is therefore mostly about broadcasts: the counter of a message is the number of entries and pushes it still has.

Two processors whose callbacks broadcast wait for each other's lock for ever (232); the model can come there too. A callback that includes its own processor would wait for the lock it runs under; callbacks of the model do not.

### Interrupts

`handler` and `owner` are the processes in the two tables, `route` whose routing each redirection register holds. What is done under `g_lock` is one step, and `Program` is the driver's work of an acquire or lock after the lock is released: between the two, `calls` remembers the external. `held`, `granted`, `silenced` record what the processes know. `astray` collects the externals on which owner, register and user disagree for a reason in the code: two processes locked it (line 407 ignores `b_overwrite`), a clamped acquire took it along (336-, one free external per allowed entry, whatever its number), or its process was released, which leaves the registers. `RoutesFollowOwners` holds away from those. `lock_handler` refuses the lowest vector and `release_handler` ignores the vectors from the table's length on; `VectorsKept` says so. `update_handler` and `invoke` run callbacks and are left out; `get_handler_info` and `invoke` index by vector where all others subtract the lowest.

### Startup

Every loop that spins on a flag or a counter is a guard: `flags` are those that are set, `points` the two counters of the rendezvous, `table` whether its table is allocated. The first processor's place is `bsp`, the others' are `ap`. The start code of the others is assembly, known here by its use: it takes the stack, counts itself and waits. The model starts behind the halt that line 98 of `entry.c` has in front for now. Where there is no time stamp counter nobody resets the third point (`timers_x86.c` 354) and the others wait for ever. The system information is read twice without the lock under which the others insert theirs. The first time, in `InterlinkInit` (`entry.c` 229, `interlink.c` 39), the others may just be inserting: what a search finds that meets an insertion is a choice (`Answers`), and a miss is a panic, which ends the model. The second time is in `InitGlobal`, after the rendezvous. `StartupSound` promises that the others leave, and that the information is complete at the second reading, only where the counters were compared; it promises nothing of the first. `axk_get_cpu_id` of a processor whose local APIC runs as x2APIC is always 0: the model's processors have identifiers of their own.

### SystemTime, Calendar

`counter` counts up to `MaxDrift` between ticks; what the driver shows of it (`Shown`) begins again after `TopCount`. The history holds values that were shown, and their difference is one of `uint64_t` (`Word` is the number of its values): for a counter with fewer bits, as the HPET's may have, the rate of line 86 is wrong where the counter began again between the two, and `RateMeasured` speaks only of the others (`Comparable`). `Delta` is the code's own way to allow for that (147-149), one count short. `TickIgnored`, `TickReadsClock` and `TickCounts` are the branches of `axk_time_ext_tick`; `ReadLow` and `ReadHigh` the registers of the real time clock, read until two readings agree, which `ChangeClock` may disturb between any two of them. Of the fields the lowest and the rest are told apart. A caller of `axk_time_get_since_boot` copies the point (`Ask`), reads the counter and divides (`ReadCounter`), increments the last time (`Increment`) and exchanges it (`Exchange`, which may also fail for no reason). Threads ask once there is a sync point: a call before it divides by the driver's frequency from zero and would set the last time far ahead.

`Calendar` has the two directions of the conversion, with leap days and leap seconds as each computes them, and a sum and a difference. In the second halves of 2008 and 2012 the two disagree (`Disagree`); in the last second of a year with a leap second the month is 13. `axk_date_compare` compares a month with a year (453-454), `axk_date_add` returns nothing and `axk_time_compare` never 0; they are not modelled.

### Timers

The processor's code is `stage`, in the order of `axk_timers_init` and later uses: the HPET's comparator is chosen (`HpetInit`), the counter and the local APIC's timer are calibrated one after the other (`Prepare`, `StartCalibration`, `Callback`, `CallbackEnds`, `FinishCalibration`), delays are served (`BeginDelay`, `Overflow`, `EndDelay`), and the external timer ticks for the clock. `Pass` lets time go on; an interrupt is latched when it is due (`latched`), delivered up to `MaxLate` later and handled for up to `MaxService`. A start may raise an interrupt at once, as the PIT does, and a stop leaves a latched one, so the first ticks of a calibration may be early: the code drops the first, and `Calibrated` shows that this is enough.

Not in the model: register values, among them the `routing.b_active_low` that `hpet_start` does not set (366-373), and the page that `hpet_init` reserves when its registers span two (152). A failed start leaves the calibration's handler acquired. The deadline of the local APIC's timer is converted the wrong way round and one-shot timers are left out with it.

## Runs

| Run | Instance | Shows |
|---|---|---|
| `spinlock` | 2 processors with handlers, 2 locks | `SpinlockInv`, `MutualExclusion`, `HoldersMasked`, `InterruptsRestored`, `LockProgress` |
| `memory`, part `scan` | 7 pages, requests of 1 to 5, all sets of free pages, all flags | the loops end (`LoopsEnd`), compute the selection (`LoopsSelect`), grant soundly (`GrantSound`), refuse for a reason (`RefusalJustified`); `LoopsTyped` |
| `page_scan_twice` | as `scan` | violation of `NoPageTwice` |
| `allocator` | 5 pages, 2 callers, kernel and one process, requests of 1 to 4 | `AllocatorInv`, `KernelPagesGuarded`, `OthersUndisturbed`, `AcquireExact`, `KeepsLedger` |
| `memory`, part `serving` | 7 pages of which 4 are reserved, 2 callers, requests of 1 to 2, none consecutive | `KeepsServing` |
| `allocator_leak` | 3 pages, 2 callers, requests of 1 to 2 that may be consecutive | violation of `KeepsServing` |
| `maps`, scenario `alone` | one process's map, 8 pages, 3 addresses of which two share their PT and all their PDPT, tables of 2 entries | `TreeInv`, `NoEmptyTables`, `OverwriteRefusedBare`, `KeepsSpaces` |
| `maps`, scenario `together` | the maps of two processes, an address each, 8 pages of which 2 are reserved | the same |
| `map_dangling` | one process's map, 5 pages, an address | violation of `NoEntryToFreePage` |
| `map_destroy` | as `alone` | violation of `DestroyReleasesAll` |
| `memory`, part `boot` | 20 pages in up to 7 descriptors with up to two types each, with holes where one is absent, in four orders, and once in 20; pool memory that was clear or not; a huge page of 4 pages | `TypeOK`, `ListHolds`, `RecordsExact`, `TableApart`, `Reachable` |
| `boot_holes` | as `boot`, pool memory clear | violation of `SectionsTrue` |
| `boot_table` | as `boot_holes` | violation of `StartupPageSpared` |
| `boot_stray` | as `boot_holes` | violation of `MapWasRead` |
| `parts` | thirteen instances, see below | a property or two for each part |

| Part of `parts` | Instance | Properties |
|---|---|---|
| `tree` | six keys: enough for every case of the insertion's and the removal's repair | `TreeSound`, `IteratorInOrder` |
| `vector` | two handles, up to three elements, buffers of two cells and more | `VectorHolds` |
| `heap` | five pages of four units, blocks smaller and larger than a page, three in use | `BlocksApart` |
| `kernel` | eleven pages, entries that share pages, tables of four entries, three addresses that share a PDT, two of them a PT | `MapHeld`, `CountersExact` |
| `link` | two processors, one of which an interrupt may fail to reach, two messages | `MessagesHeld` |
| `vectors` | four entries from vector 1 on, two processes | `VectorsKept` |
| `externals` | two I/O APICs of one input each, of which one carries an NMI; lists of two allowed numbers | `RoutesFollowOwners` |
| `terminal` | two lines of nine characters, numbers around the powers of ten and of 256 | `ScreenHolds`, `NumbersRead` |
| `start` | three other processors | `StartupSound` |
| `ticks` | seven ticks, a history of two, a counter as wide as a word that begins again after six, a real time clock that changes five times while read | `ClockSound` (rate, date) |
| `asking` | two processors that ask for the time, six ticks, a counter that begins again after four, with fewer values than a word | `ClockSound` (time grows) |
| `timers` | a period and a calibration of three units, a comparator of each kind | `TimersMeasure` |
| `dates` | 2007 to 2017 with two seconds a day: leap years, and leap seconds in the middle and at the end of a year | `DatesSound` |

Bounds. Two processors and two locks are the smallest instance with a thread, its handler, a competitor and ABBA nesting. Seven pages hold two runs of different length, ties, a run at either end and page 0, and five pages asked for exceed what any pair of runs can give; all 128 free sets are initial states. In the allocator, five pages leave room for a scattered request between pages the boot reserved; two callers suffice because the lock admits one at a time. `PageCount`, `MaxCount`, `Callers`, `Users` and `Locks` bound everything; there are no further counters. In the scenario `alone` the three addresses need six tables with the PML4, and seven pages can be taken beside page 0, so every add can succeed while the other map has no more than its PML4, and every table can be shared, emptied and given back, at the PT and the PDT level apart; where the other map is taken first and destroyed the pages are the same ones again. In `together` two maps need eight tables, of five pages of which others may hold one, so adds fail at each of the three levels in both. `MaxOther` bounds what others hold, `Uses` says which map uses which addresses. Which physical page is mapped matters to the refinement only, so `alone`, which is checked against it with overwriting, has two and `together` one.

In the part `boot`, the pieces of memory lie below, at and above page 8, with and without each other, so the records go to either side of it, and onto it where free memory begins there; every class of memory occurs; sections merge two to three descriptors, some of them across a hole, which is also where huge pages are not described; and the framebuffer is behind the last entry. `Layouts` bounds the maps and `Leftovers` what the pool held: nothing, or three pages too many in the first or in the third entry of the list. The map's size jumps between 3 and 20 descriptors, which is more than the five that are allocated in advance; a page is 48 bytes here, so that the records of 20 pages need three.

In `parts`, `MaxCount`, `MaxNodes`, `MaxHeld`, `MaxPages`, `MaxRequest`, `MaxDrift`, `MaxAllowed`, `MaxDrawn`, `MaxLast`, `MaxTicks`, `MaxChanges`, `MaxLate`, `MaxService`, `MaxClock` and `TimeWidth` cap what has no end in the code; each is named as a bound where it is declared. `TimeWidth` is a period after which the time of `Timers` repeats, larger than the longest thing measured, so the instance is finite without stopping.

Deadlock is checked in `spinlock`. The other runs stop for good reasons: in `memory` a start that has come to its end and a scan that is finished (that the allocator does not stop while it is asked is `KeepsServing`), in `maps` and `parts` a model that breaks or a kernel that panics, in `allocator` the leaked lock, which is the finding shown by `allocator_leak`; and the remaining ones look for one violation.

Fairness. In `Spinlock` a context inside acquire or release keeps executing when it is on its processor (weak fairness of `Inside`), and a critical section ends (strong fairness of `LoadFlags`: the caller is at the release again and again while nested sections come and go). No fairness makes a context ask for a lock, an interrupt arrive, or one contender win. In `PageAllocator` the code under the lock is a bounded loop (weak fairness of `Body`) and some spinning caller gets a free lock (weak fairness of the disjunction of all `TakeLock`), which is what `LockProgress` gives; which one is not promised, so neither is that a given caller is served. In the part `scan` the loop runs on.

## Findings

- `allocator_leak`: an acquire with AXK_PAGE_FLAG_CONSECUTIVE that cannot be satisfied returns with the allocator's lock held and interrupts off (`page_allocator.c` 324). Every other return of the function after line 268 releases it.
- `page_scan_twice`: with AXK_PAGE_FLAG_PREFER_HIGH the second pass compares the loop position instead of the page (`page_allocator.c` 343, against its comment in 342), so a page can be listed twice, the caller gets fewer pages than asked for, and pages outside the range are skipped. `GrantSound`, `RefusalJustified` and `AcquireExact` are therefore stated for upward scans where they depend on it.
- `map_dangling`: an add that fails for want of a page releases the tables it made without clearing the entries that lead to them (`memory_map.c` 310, 327, 328). The map then points at available pages (`page_allocator.h` 45: release "resets their status back to available").
- `map_destroy`: destroy never releases a PDPT (`memory_map.c` 251, against the comment in 223): it takes the address out of the entry with the flag for present, and releases page 0 instead, to whomever it belongs. Then line 257 passes a page's number for the address of a list, so the processor faults in `axk_page_release`, with the allocator's lock held and the PML4 not released.
- `boot_holes`: descriptors of one class that follow each other are made one section whether they adjoin or not (t-zero's `main.c` 602-614, against the comment in 518, "adjacent"). Behind a hole the section says that pages of the hole are of the class, and forgets as many at its end. Apart from that, 613 adds to a count that nobody has cleared.
- `boot_table`: where free memory begins at page 8, the page table is put there (`page_allocator.c` 88 compares with `<`, against its comment in 86-87).
- `boot_stray`: after five failures the loader's check for success tests pointers that were freed and not cleared (`main.c` 549), so it does not halt.

These are shown by no run, as the model follows the code and no property of it can tell more than the two texts do:

- `axk_rbtree_next` at the last node clears the iterator's node (`rbtree.c`), though the header says that the iterator is not updated (`rbtree.h` 213). What the code does is in `IterNext`, and `IteratorInOrder` asks for neither.
- `axk_rbtree_search` and `axk_rbtree_erase_iterator` set up iterators that go backwards or are those of the erased node (705, 901-903), and `axk_rbtree_count` "gets the total number of nodes" (`rbtree.h` 121), while the removal of a black leaf leaves the count as it was.
- `axk_vector_resize` does zero the elements it adds (`vector.c` 357), though they "are not zero filled" (`vector.h` 178).
- `axk_interlink_init` queries the system information without its lock while the processors that `g_topology_sync` has released insert into it under the lock (`entry.c` 224-229, `interlink.c` 39, `sysinfo.c` 71 and 81). The model may miss and panic there (`InterlinkInit`).
- `axk_time_ext_tick` subtracts values of a counter as if it had 64 bits (`time.c` 86), so with one of 32 bits the rate is wrong after the counter has begun again; `axk_time_get_since_boot` allows for that (147) and comes out one count short.
- A delay that leads past the counter's end waits until the counter is below its start (`timers_x86.c` 385), and for ever if the start is 0. `TimersMeasure` says that no delay is short, not that every delay ends.
- The two directions of the calendar differ in the second halves of 2008 and 2012 (`time.c` 347 against 297).
- No operation works on the kernel's own memory map, and `axk_kmap_get` is defined nowhere (see *AddressSpaces, MemoryMap*).
- The terminal's scroll moves the wrong lines and too many of them (`basic_terminal.c` 349).

## Proofs

All theorems hold for every value of the constants that satisfies the named assumptions of the modules (`LocksAssumption`, `PageCountAssumption`, `MaxCountAssumption`, `AllocatorAssumption`, `MapsAssumption`, `ValuesAssumption`, `BootTablesAssumption`, `BootAssumption`, `FirmwareAssumption`, `InterruptsAssumption`, `OthersAssumption`, `LinkAssumption`, `HeapAssumption`, `KernelAssumption`, `BootMapAssumption`, `VectorAssumption`, `ScreenAssumption`, `FiguresAssumption`, `CalendarAssumption`, `TimersAssumption`, `KeysAssumption`), or of the condition that the theorem names (`ConstantsOK` of `SystemTime`, which `MCParts` assumes of its two instances).

- `PageScanProofs`. `GrantsAreSound` proves `GrantSound` by an invariant on runs: while a run is being extended its pages are free and adjacent to the position; the longest run is a run of free pages; the list of the second pass holds free pages, upwards distinct and none of them the next position or later. With it (`ScanInv`) two more invariants are kept:
  - `SelectInv`, for `LoopsAreTheSelection`. `PassedInv` says what the search has left behind: any run that begins before the one it is in is no longer than the longest (or is one page of several wanted). So a run that is long enough is the first of its length, and a search that ends without one has seen them all (`SearchOver`). `FirstInv` says that the longest run is the first of its length, since it is replaced by longer ones only. `FilledInv` says that the list is the longest run and what the second pass has seen outside it, as many pages as that makes; when the list is full that is what `FirstOf` says (`FirstOfFacts`), whatever the direction, the second pass's comparison of positions with pages included. The theorem is what lets `PageAllocator` take the selection for the loops.
  - `KeptInv`, for `RefusalsAreJustified`: going upwards every free page that was passed is in the list, so a list that stays short names all free pages.
- `PageAllocatorProofs`. `AllocatorInvariant`, then from it `KernelPagesAreGuarded`, `OthersAreUndisturbed`, and `AllocatorKeepsLedger`, the refinement: each body maps to a grant, a return or a reclaim of the ledger or leaves the owners alone. It rests on the lemma that the pages `PageSelect` selects are free. `AcquiresAreExact` counts them: the free pages but page 0 are those of the longest run and the others (`SplitFacts`), the longest run is shorter than the request when no run was found (`LongestIsShort`), and a set of numbers has as many first members as asked for (`FirstOfCount`, an induction).
- `MemoryMapProofs`, for any number of maps, pages, slots and addresses; of the constants it needs only that the numbers of pages, the tables, the frames and the owners' names are told apart. The inductive invariant is `MapsInv`, and what it says of a map (`MapOK`, while `~ broken`) is, clause by clause:
  - `Tree`: the tables below the root form a tree (`Shape`: no two entries of inner tables are equal, none leads back to the root, PTs hold frames only), and the pages that the allocator records for the map are exactly its nodes. The second half is what keeps maps apart: two maps share no table because each table is its owner's (`TreesApart`), so a write to a table is a write to one map.
  - `Walked`: the path that an operation has saved is the path of its address in the tree as it is now. It is needed because an add's acquires and a remove's releases are steps between which other maps run.
  - `TidyBut`, `AddOK`, `RemoveOK`: no table of a process's map is empty except the one that the operation stands on. For an add this is the table it has made last, which is blank where it stands; hence `RefusedBare`, since an add that finds its address mapped has made no table.
  - `RollbackOK`, and for a destroy the clause on `doomed`: what is still to be released belongs to the map. The first release of a rollback breaks the model, as `map_dangling` shows.

  `Grow` (a blank page entered in a free entry), `Shrink` (an entry of a blank table cleared) and `KeepLeaf` (an entry of a PT written) say what the three kinds of writes do to the sets of nodes. `TreesHold`, `NoneEmpty` and `RefusedBare` follow from `MapsInvariant`. The refinement `MapsImplementSpaces` needs the same three writes followed along a path: `LeadsEntry` (the entry written is the one that its address leads to), `LeadsAround` (no other address of the map passes through that entry, because the levels are apart), and `Unseen` (the other maps' addresses lead where they did). Every lemma about a step proves the invariant and the step it shows to `AddressSpaces` together.
- `BootMemoryProofs`. `ListAlwaysHolds` proves `ListHolds`: the second call of an attempt is made with the size that the list was allocated for, so a map that has grown beyond it is refused, and a map that is still valid has the size that was read. Nothing depends on how much the map changes; the five spare entries are not needed for it. What is made of the map is proved by `BootInvariant`, for any map that is `WellFormed`, any number of pages and any size of pages and huge pages. `BootInv` is `TypeOK`, the three properties and what connects the stages:
  - From its making on the list `Says` what the map says: each entry begins where a section of the map does and has its class, each section has its entry, and, unless something is wrong with the section (`Faulty`), the pages of the two are the same. `Parse` folds `Extend` over the map; `OneMore` is the step of that fold, `Sections` the induction. While the fold goes on, something may yet go wrong with the last section, so `SaysUpto` speaks of the sections with which nothing is wrong so far (`Sound`): a descriptor that merges and adjoins adds its own pages to the last section, one that merges and does not adjoin ends what is said of its section, and one that begins a section leaves all others alone. Sections are told apart by counting beginnings (`SectionStep`, `SectionOrder`).
  - After the sort the list is `Sorted`. A swap permutes the entries, so the list still `Says` the same (`SaysSame`) and the same pages are `Spoilt` (`FaultsStay`); the sort ends only when no pair is in the wrong order (`SortFacts`).
  - `RecordsAreExact` needs only `Says` and that descriptors are apart: of the entries that have a page which is not `Spoilt`, all are of its class. `TableIsApart` follows from where `PlaceIn` puts the records: below the startup page they are moved behind it, and an entry that begins at that page begins with a section. `AllReachable` needs `Sorted`: the search for a huge page's class gives up at the first entry behind it, and no later one can begin earlier (`LowestFacts`, `HugeFacts`).
- `PartsProofs`, about seven of the smaller parts.
  - The time. `TimeInvariant` and from it `TimeIsSound`, which is `ClockSound` for any number of processors, any depth of the history and a counter of any width up to a word's (`TopCount < Word`), which begins again. Time: what was returned is never above the last time, and a caller that waits for its exchange has a time above the last time it saw (`Ordered`); the exchange happens only while that is still the last time. Rate: the history holds what the driver showed at the last ticks that counted (`Recorded`), at values of the counter that only grow (`StampsGrow`); the difference of two that were shown, modulo a word, is the true one where the counter did not begin again in between or has all the bits of a word (`Differences`). Date: the high field of two readings that agree was shown before the low field and after it, and since the clock only moves on it is the same in between (`ReadingsShown`).
  - The interrupt table, for any number of processes, vectors and I/O APICs. `InterruptsAssumption` asks that no two inputs have the same number: the platform's tables give each chip a range of its own. `VectorsKept` is inductive with the types (`TableTypes`): a free entry is in nobody's hands, so giving it away disturbs nobody. `RoutesFollowOwners` needs to know who may call the driver next: whoever has taken an external and not programmed it yet, or uses it, owns it or it is astray (`UsersOwn`). Then the write that comes after the lock was released is the owner's, and a release by a user who is not the owner can only be of an external that is astray already.
  - The start, for any finite set of processors. `StartupInv` has a clause for each thing that is given out or counted: `StackInv` (one processor at a time is signalled, and its stack is newer than all that were taken), `IdInv` (as many identifiers as processors have entered, the first ones), `InfoInv` (who has written its information is in it, one at a time and under the lock), `MeetingInv` (the counter of a sync point is the number of processors that stand there, and where the first processor is bounds where the others can be), `SchedulersInv`. What `InterlinkInit` finds is arbitrary, and the invariant does not need it: a hit goes on, a miss is a panic. That all have come when a counter reaches the number of others is a fact about finite sets (`SubsetsCount`): a set of processors that is as large as all of them has all of them. `StartsSoundly` follows from the invariant without a further step (`StartupIsSound`).
  - The messages between processors, for any number of them and any finite set of messages. `MessagesHeld` is three facts: the counter of a message is the number of its entries and of the pushes it still has (`HoldersCounted`), the entries are of allocated messages (`EntriesAllocated`), and no queue that is not empty is forgotten (`QueuesAttended`). They are inductive with two more: a callback's message is allocated and first in its queue (`Called`), and what is yet to be pushed is allocated (`Sent`). The freeing step needs all of them: when the counter is one, the entry being handled is the only one and no push is left, so what is freed is in no other queue, in no other callback and in no send. `AppendAddsPlace` and `TailTakesPlace` count entries in queues under a push and a pop, the second by a one-to-one map of the entries behind the one that is popped; `PushTakesLeft`, `BeginAdds`, `BeginLeaves` and `SameLeft` do the same for the pushes that are left. Of the constants only `Last \in Nat` and that the messages are finitely many and not `Bytes` is assumed.
  - The basic terminal, for a frame buffer of any size, any texts and any drawings. `ScreenAssumption` asks for room for one character inside the border, which every mode of a frame buffer has, and `FiguresAssumption` that the places and bytes suffice for the numbers: ten and four for 32 bits, twenty and eight for 64. That a character covers no other (`reprinted`) is not inductive, since it speaks of what is drawn and not of where the cursor goes; `TerminalKept` adds that every character of the console stands before the cursor in the order of reading (`Before`) and that the cursor's line fits the screen. `Pens` says the same of a print under way, unless it had to scroll, where the model ends. Inside a word that is not long nothing looks at the end of the line any more, so `RoomLeft` says that the line has room for as many characters as are still to come; `PrintWord` establishes it by its new line, because such a word is shorter than a quarter of a line. For drawings, `Clipped` keeps a rectangle that begins on the screen inside screen and box. The numbers: after the place of worth `p`, the digits so far times `p` and what is left make the number, and what is left is less than `p` (`Partly`); after the byte of worth `w` the digits so far are the number divided by `w` (`Bytewise`), which holds although leading zeros are left out, as the digits left out denote nothing.
  - Dates, for any length of the day and any years from 2000 on. `CalendarKept` says only that the date shown is the one of the time shown, before and after a duration; the rest is about the two conversions. `YearFacts`, by induction over the years, gives the second in which a year begins in closed form (`YearAt`), which is the sum that `axk_date_to_time` computes; `TimeOfDate` then follows month by month and second by second, and shows that the two directions differ in the leap seconds of 2008 and 2012 and nowhere else, also in the thirteenth month. The order (`DatesFollow`) needs no closed form: the year found is the last that has begun, so a later time finds no earlier year, in the same year no earlier month (`YearParts`, `MonthParts`), and in the same month more seconds.
  - The timers, for any period, target and delays, any comparators and a counter of any width. A handler reads up to `MaxLate` after its tick and a calibration subtracts two such times, so the invariant cannot speak of times as such; it speaks of `Phase`, what has passed since the external timer was started or ticked last. An interrupt that waits may be left over from before the start, or the start's own, until a calibration has had its first call; from then on it is that of the last tick (`LatchesKept`), as the handler reads no later than `MaxLate` after its tick, and the next tick comes only after it has read (it may still run when that tick comes). So the value that the second call reads lies at most `MaxLate` after a tick as many periods back as there have been calls since, one more if an interrupt waits (`ValueKept`), and at the last call the difference is `Calibrated`. `LastTickKept` says the same of the clock, for which only the interrupt of the start may be early. For delays, `DelayKept` says where the counter is for the time that has passed, until it wraps around for the second time; after that it may be anywhere below, so a delay that ends late is still no shorter. `StagesKept` ties what the handlers may do to the processor's own code: the timer ticks to the vector `Calibrating` exactly while a calibration waits for it and has not had enough calls. `Modulo`, `AgoSteps` and `CounterSteps` do the arithmetic of a time and a counter that repeat. `ComparatorHolds` is an induction along the search (`BestConsidered`, by `Chains`).

    `TimersAssumption` asks that an interrupt is delivered before the next tick (`MaxLate < TimerPeriod`), without which a tick is lost and no calibration is right; that there are two calls at least; and, of the model only, that time repeats after a calibration's length and a whole number of the counter's rounds.
- `StorageProofs`, about the lock that both kernels share and the parts of the previous kernel that hand out storage.
  - The spinlock, for any processors and locks. `SpinlockInvariant` proves `SpinlockInv`, from which `SpinlockExcludes`, `SpinlockMasks` and `SpinlockRestores` follow. Exclusion needs little (a lock that is held has its flag set); the interrupt bit needs the rest: `FieldsOK` says that the field of a held lock is the bit from before *that* lock, `CallsOK` that a call's local is the bit it will put there or restore, `HandlersOK` that a handler runs over code that had interrupts on. One step per action, one below it per conjunct it can disturb.
  - The heap, for any number and size of pages. `HeapKept` says that there is a set of units, the tags, that is `SoundTags`. It has to be a set that exists, not one that is computed from memory: a split leaves the `prev` of the next tag as it was, so a later free can merge from a tag that left the chain, write a `next` into it and unmap pages with tags in them. What is kept all the same: a tag's `next` leads to the next tag above it unless that one was unmapped (`TagsChained`); a block in use lies between its tag and the next, on mapped pages, and no tag is read out of it (`BlocksTagged`); `prev` may be stale but skips no block in use (`TagsBehind`); a search is at a tag (`SearchInside`). So a merge never reaches over a block in use, and `BlocksApart` follows from the chain: of two blocks the higher begins at or behind the lower one's next tag.
  - The page allocator and the kernel's map, for any boot map, pages and addresses. `KernelKept` is the types, `CountersExact` and `MapKept`: the tables are exactly the prefixes of the addresses that are mapped, each on a page of its own that the allocator records for the kernel, and every mapped page is recorded as held. Since prefixes of prefixes are in the set, the tables that are missing for an address are its lowest ones (`MissingBelow`), so as many pages as there are missing tables are taken, each for one (`NewTablesApart`), and an unmap gives back those that lead to nothing else. The counters are kept by counting the pages of each class before and after an operation (`FoundAreCounted` for what an acquire chooses). At the start they are exact only because the loop over the map's entries counts a page once for each entry that covers it and once for the table.
  - The vector, for any number of handles and elements. `VectorKept` says that the count is inside the buffer, that the first cells are the sequence that was promised, and that for each element the calls of copy less those of finalize are the number of its copies in all vectors. What the loops over cells do is said once for each (`IntoFacts`, `ShiftedFacts`, `FilledFacts`): which cell comes from where; an insertion or an erasure is then a sequence cut in two and put together (`CutInTwo`, `OccursConcat`). Only one vector changes at a time, so only its share of the sum of copies does (`CopiesChange`); a copy or a move changes two.

  Of the constants the proofs assume what the code is given. `KernelAssumption` describes the boot map. `BootMapAssumption`: no page is covered by two entries that are taken, as the firmware's entries are made of whole pages; and the page in which the page table ends is memory that is available, since the loop that marks it goes one page too far where the table ends with its page, and would mark and count a page that is reserved or beyond the end. In `VectorAssumption` a zeroed element is none of the values: `resize` makes it without a call of copy.
- `TreeProofs`, for any finite set of keys. `TreeKept` says that there are two functions: `sub` gives what hangs from each node, `black` how many black nodes are on every way down from it. They have to be given and cannot be computed: what can be reached from a node is recursive, and during a call the ways down from a node differ. Its parts are:
  - `Tree`: a node, what hangs from its left child and what hangs from its right one make up what hangs from it, each on its side, and parents and children agree (`NodeOK`); what hangs from two nodes is apart or one in the other (`Nested`); and what lies between two nodes of a subtree is in it (`Convex`).
  - `Balanced` but for one side of one node, where a balance stands, and `Calm` (no red node has a red child) but for one node, where a mend stands.
  - `CallOK`: the key of an insertion belongs below the place that the search has reached (`Belongs`), so it is not in the tree when there is nothing more below.
  - `IterOK`: the stack of an iterator from the beginning holds the nodes above its own that are yet to come, and those only (`Pending`).

  Each way of changing the tree has a lemma on its shape and one on its colours: a rotation (`RotateKeeps`, `RotateBalances`), a new leaf (`AttachKeeps`, `AttachPaints`), a node taken out that has one child at most (`UnlinkKeeps`, `UnlinkPaints`), and the swap before it, which is a renaming of two nodes (`RenameKeeps`, `RenamePaints`). `MendKeeps` and `BalanceKeeps` put rotations and colours together as the cases of the code do. `TreeSound` follows with `WayOfNode`, an induction along the search (by `Chains`), and `AboveBlack`, which counts the black nodes above a leaf. For `IteratorInOrder`, the next node is the least of the right subtree or else the last on the stack (`AfterPends`), nothing being between (`Between`), and the first is the least of all (`FirstOfAll`). Where the code leaves the structure the model ends: the theorems say that the tree is sound as long as no step of the kind listed under *RBTree, Vector* was taken, and of iterators that came from `begin`. Of the last node they say only that no other node follows it.
- `NumberLemmas`. What the others need about numbers and loops. Induction over the natural numbers is stated about sets (`NatSteps`: a set that has 0 and with each number the next has them all), as the provers cannot instantiate a theorem with an operator for a parameter; it follows from the well-foundedness of `<`. `FoldExists` gives by such an induction a function that computes a fold over a finite set, so that the fold of `Parse` can be reasoned about. `Chains` does the same for a recursive function over `0 .. n` whose steps stay within given sets, and `ChainHolds` says that its values do: the two are the induction of every loop of the terminal and of every search in the tree. `Remainders`, `OneQuotient`, `PartsApart` and `Differences` are about the values of a counter that begins again.

Only model-checked: `LockProgress`, `KeepsServing` and `LoopsEnd`, since liveness is out of the prover's reach. All other properties of the passing runs are theorems.

## Plan

Modelled, checked and, but for liveness, proved: all that the plan named.

## Not modelled

- Threads and their queues (`source_old/scheduler`): threads are inserted and never taken out or run; only the schedulers' creation is in `Startup`.
- Panic, kernel entry, libk, the loader's console, ELF loading and the choice of a video mode: straight-line code, text and pixels.
- The counters of `sysinfo.c`: single atomic instructions.
- The kernel's own memory map: no operation on it can be carried out, see *AddressSpaces, MemoryMap*.
- The terminal's scroll, and what `realloc` of the heap leaves in a block: both are wrong at sight (*Terminal*, *Heap*), and the model ends at the first and has no contents for the second.
- ACPI tables, topology, exceptions and boot parameters of the previous kernel: parsing of firmware tables and text.
- Registers of drivers beyond what `Interrupts` and `Timers` use: their correctness is the layout of bits. In `xapic_driver.c` `send_ipi` uses parameters it does not set on one path (231), `get_external_routing` returns a local APIC's identifier as a processor; on a machine with x2APIC `axk_interrupts_init` uses the xAPIC driver and calls it X2APIC, so that `lapic_timer_init` fails.
