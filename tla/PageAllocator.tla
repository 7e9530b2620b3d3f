---------------------------- MODULE PageAllocator ----------------------------
(***************************************************************************)
(* The physical page allocator (axon/source/memory/page_allocator.c): a     *)
(* table with the state and the owner of every page, and the operations on  *)
(* it, called by several processors under one spinlock.                     *)
(*                                                                          *)
(* Everything an operation reads and writes in the table it does with       *)
(* g_lock held, so its body is one step between taking the lock and giving  *)
(* it back; Spinlock shows that the lock excludes.  A call that fails its   *)
(* parameter checks returns before the lock and changes nothing.            *)
(***************************************************************************)
EXTENDS PageSelect

CONSTANTS
  Callers,      \* processors that call the allocator
  Users,        \* process identifiers but the kernel's
  KERNEL,       \* AXK_PROCESS_KERNEL
  INVALID,      \* AXK_PROCESS_INVALID
  MaxCount,     \* the largest number of pages asked for
  HighFlags,    \* the values callers give AXK_PAGE_FLAG_PREFER_HIGH
  ConsFlags,    \* the values callers give AXK_PAGE_FLAG_CONSECUTIVE
  BootTables    \* the tables the boot can leave behind

ASSUME AllocatorAssumption ==
  /\ MaxCount \in Nat \ {0}
  /\ HighFlags \subseteq BOOLEAN /\ ConsFlags \subseteq BOOLEAN
  /\ KERNEL \notin Users /\ INVALID \notin Users /\ KERNEL # INVALID
  /\ (Users \union {KERNEL}) \intersect {"FREE", "FIXED", "ACPI", "BOOTLOADER"} = {}

(* The records axk_page_allocator_init writes: no page is locked, and only  *)
(* the kernel's image, which is reserved, has an owner.                     *)
BootRecords ==
  [state : {"RESERVED", "AVAILABLE", "ACPI", "BOOTLOADER"}, pid : {INVALID}]
    \union {[state |-> "RESERVED", pid |-> KERNEL]}

ASSUME BootTablesAssumption == BootTables \subseteq [Pages -> BootRecords]

Processes == Users \union {KERNEL}

BootClasses == {"ACPI", "BOOTLOADER"}

States == {"RESERVED", "AVAILABLE", "LOCKED"} \union BootClasses

VARIABLES
  page,    \* page[p]: the state and the process_id of page p
  g_lock,  \* the flag of the allocator's spinlock
  pc,      \* pc[c]: idle, spinning for the lock, or locked
  call     \* call[c]: the operation c is in and its arguments, once it has the lock

vars == <<page, g_lock, pc, call>>

NoCall == [op |-> "none"]

Acquires == [op : {"acquire"}, proc : Processes, count : 1 .. MaxCount,
             high : HighFlags, consecutive : ConsFlags]
Locks    == [op : {"lock"}, proc : Processes]
Releases == [op : {"release"}, kernel_rel : BOOLEAN]
ReleasesS == [op : {"release_s"}, proc : Processes, kernel_rel : BOOLEAN]
Reclaims == [op : {"reclaim"}, class : BootClasses]
Queries  == [op : {"query"}]

Calls == Acquires \union Locks \union Releases \union ReleasesS \union Reclaims \union Queries

Init ==
  /\ page \in BootTables
  /\ g_lock = FALSE
  /\ pc = [c \in Callers |-> "idle"]
  /\ call = [c \in Callers |-> NoCall]

InState(s) == {p \in Pages : page[p].state = s}

-----------------------------------------------------------------------------
(* axk_spinlock_acquire( &g_lock ) and what follows the body. *)

Enter(c) ==
  /\ pc[c] = "idle"
  /\ pc' = [pc EXCEPT ![c] = "spin"]
  /\ UNCHANGED <<page, g_lock, call>>

TakeLock(c) ==
  /\ pc[c] = "spin" /\ ~ g_lock
  /\ g_lock' = TRUE
  /\ pc' = [pc EXCEPT ![c] = "locked"]
  /\ \E a \in Calls : call' = [call EXCEPT ![c] = a]
  /\ UNCHANGED page

(* The call returns, having released the lock or not. *)
Return(c, released) ==
  /\ g_lock' = ~ released
  /\ pc' = [pc EXCEPT ![c] = "idle"]
  /\ call' = [call EXCEPT ![c] = NoCall]

InCall(c, op) == pc[c] = "locked" /\ call[c].op = op

(* Mutant: a page becomes free and keeps its owner. *)
SetFreeKeepingOwner(S) ==
  page' = [p \in Pages |-> IF p \in S THEN [page[p] EXCEPT !.state = "AVAILABLE"] ELSE page[p]]

(* S becomes locked by a process, or free. *)
Mark(S, proc) ==
  page' = [p \in Pages |-> IF p \in S THEN [state |-> "LOCKED", pid |-> proc] ELSE page[p]]

SetFree(S) ==
  page' = [p \in Pages |-> IF p \in S THEN [state |-> "AVAILABLE", pid |-> INVALID] ELSE page[p]]

-----------------------------------------------------------------------------
(* axk_page_acquire. *)

CanAcquire(a) == Succeeds(InState("AVAILABLE"), a.count, a.high, a.consecutive)

AcquireGranted(c) ==
  /\ InCall(c, "acquire") /\ CanAcquire(call[c])
  /\ Mark(Selected(InState("AVAILABLE"), call[c].count, call[c].high), call[c].proc)
  /\ Return(c, TRUE)

(* Mutant: no failing acquire releases the lock. *)
AcquireRefusedLocked(c) ==
  /\ InCall(c, "acquire") /\ ~ CanAcquire(call[c])
  /\ Return(c, FALSE)
  /\ UNCHANGED page

(* The early return for AXK_PAGE_FLAG_CONSECUTIVE, line 324, does not       *)
(* release the lock.                                                        *)
AcquireRefused(c) ==
  /\ InCall(c, "acquire") /\ ~ CanAcquire(call[c])
  /\ Return(c, ~ call[c].consecutive)
  /\ UNCHANGED page

(* Mutant: the list is not checked before it is marked. *)
LockUnchecked(c, S) ==
  /\ InCall(c, "lock")
  /\ Mark(S, call[c].proc)
  /\ Return(c, TRUE)

(* axk_page_lock: all the pages of the list, or none. *)
Lock(c, S) ==
  /\ InCall(c, "lock")
  /\ S \subseteq InState("AVAILABLE")
  /\ Mark(S, call[c].proc)
  /\ Return(c, TRUE)

(* Mutant: the flag for kernel pages is not looked at. *)
ReleasableAnyway(p, kernel_rel) == page[p].state \in {"LOCKED", "AVAILABLE"}

(* axk_page_release: any locked page of any process; free pages in the list *)
(* are accepted and left as they are.                                       *)
Releasable(p, kernel_rel) ==
  /\ page[p].state \in {"LOCKED", "AVAILABLE"}
  /\ page[p].pid = KERNEL => kernel_rel

Release(c, S) ==
  /\ InCall(c, "release")
  /\ \A p \in S : Releasable(p, call[c].kernel_rel)
  /\ SetFree(S \intersect InState("LOCKED"))
  /\ Return(c, TRUE)

(* Mutant: only the kernel's pages are protected from other processes. *)
ReleasableByAnyone(p, proc, kernel_rel) ==
  /\ page[p].pid = KERNEL => proc = KERNEL \/ kernel_rel
  /\ page[p].state \in {"LOCKED", "AVAILABLE"}

(* axk_page_release_s: locked pages of one process, and free ones. *)
ReleasableBy(p, proc, kernel_rel) ==
  /\ page[p].pid = KERNEL => proc = KERNEL \/ kernel_rel
  /\ page[p].state = "LOCKED" => page[p].pid = proc
  /\ page[p].state \in {"LOCKED", "AVAILABLE"}

ReleaseS(c, S) ==
  /\ InCall(c, "release_s")
  /\ \A p \in S : ReleasableBy(p, call[c].proc, call[c].kernel_rel)
  /\ SetFree(S)
  /\ Return(c, TRUE)

(* axk_page_reclaim. *)
Reclaim(c) ==
  /\ InCall(c, "reclaim")
  /\ SetFree(InState(call[c].class))
  /\ Return(c, TRUE)

(* axk_page_status and axk_page_find only read; a list with a page that     *)
(* cannot be locked or released, or is beyond the table, changes nothing.   *)
Unchanged(c) ==
  /\ \E op \in {"query", "lock", "release", "release_s"} : InCall(c, op)
  /\ Return(c, TRUE)
  /\ UNCHANGED page

-----------------------------------------------------------------------------
Body(c) ==
  \/ AcquireGranted(c) \/ AcquireRefused(c)
  \/ \E S \in SUBSET Pages \ {{}} : Lock(c, S) \/ Release(c, S) \/ ReleaseS(c, S)
  \/ Reclaim(c) \/ Unchanged(c)

Next == \E c \in Callers : Enter(c) \/ TakeLock(c) \/ Body(c)

Spec == Init /\ [][Next]_vars

(* The code under the lock is a bounded loop, so a caller that has the lock *)
(* finishes; some caller gets a free lock that callers spin for.  Which one *)
(* gets it is not promised.                                                 *)
Fairness ==
  /\ \A c \in Callers : WF_vars(Body(c))
  /\ WF_vars(\E c \in Callers : TakeLock(c))

FairSpec == Spec /\ Fairness

-----------------------------------------------------------------------------
TypeOK ==
  /\ page \in [Pages -> [state : States, pid : Processes \union {INVALID}]]
  /\ g_lock \in BOOLEAN
  /\ pc \in [Callers -> {"idle", "spin", "locked"}]
  /\ call \in [Callers -> Calls \union {NoCall}]

(* A page has an owner exactly when it is locked, the kernel's image apart: *)
(* a free page never keeps the process it last belonged to, which           *)
(* axk_page_find and the checks of release would still see.                 *)
RecordsAgree ==
  \A p \in Pages :
    /\ page[p].state = "LOCKED" => page[p].pid \in Processes
    /\ page[p].state \in {"AVAILABLE"} \union BootClasses => page[p].pid = INVALID
    /\ page[p].state = "RESERVED" => page[p].pid \in {INVALID, KERNEL}

(* One caller at a time has the lock and a call under way; nobody has it    *)
(* only if a consecutive acquire has been refused.                          *)
LockAgrees ==
  /\ \A c \in Callers : pc[c] = "locked" => g_lock /\ call[c] \in Calls
  /\ \A c \in Callers : pc[c] # "locked" => call[c] = NoCall
  /\ \A c, d \in Callers : pc[c] = "locked" /\ pc[d] = "locked" => c = d
  /\ g_lock /\ TRUE \notin ConsFlags => \E c \in Callers : pc[c] = "locked"

(* The inductive invariant. *)
AllocatorInv == TypeOK /\ RecordsAgree /\ LockAgrees

Touched == {p \in Pages : page'[p] # page[p]}

KernelStep ==
  \A p \in Touched : page[p].pid = KERNEL =>
    /\ page'[p].state = "AVAILABLE"
    /\ \E c \in Callers : \/ InCall(c, "release") /\ call[c].kernel_rel
                          \/ InCall(c, "release_s") /\ call[c].proc = KERNEL

(* A page the kernel has locked is freed only by a release that carries     *)
(* AXK_PAGE_FLAG_KERNEL_REL or by one made for the kernel itself; no call   *)
(* hands it to someone else ("Kernel pages can only be released if the      *)
(* 'AXK_PAGE_FLAG_KERNEL_REL' flag is specified!", page_allocator.h).       *)
KernelPagesGuarded == [][KernelStep]_vars

OthersStep ==
  \A c \in Callers : \A p \in Touched :
    /\ InCall(c, "acquire") \/ InCall(c, "lock") => page[p].state = "AVAILABLE"
    /\ InCall(c, "release_s") => page[p].pid = call[c].proc

(* A call made for one process disturbs no page of another: acquire and     *)
(* lock touch free pages only, release_s its own process's.                 *)
OthersUndisturbed == [][OthersStep]_vars

(* Scanning upwards, an acquire locks exactly the number of pages asked for,*)
(* page 0 never among them, or none; a scattered one is refused only when   *)
(* fewer pages are free.                                                    *)
AcquireExact ==
  [][\A c \in Callers :
       InCall(c, "acquire") /\ pc'[c] = "idle" /\ ~ call[c].high =>
         \/ Cardinality(Touched) = call[c].count /\ 0 \notin Touched
         \/ /\ Touched = {}
            /\ \/ call[c].consecutive
               \/ Cardinality(InState("AVAILABLE") \ {0}) < call[c].count]_vars

(* If processors spin for the lock, one of them gets it and so has its call *)
(* carried out: the allocator never stops serving.                          *)
KeepsServing ==
  (\E c \in Callers : pc[c] = "spin") ~> (\E c \in Callers : pc[c] = "locked")

-----------------------------------------------------------------------------
(* The owner of a page in the ledger. *)
OwnerOf(r) ==
  CASE r.state = "AVAILABLE" -> "FREE"
    [] r.state = "LOCKED" -> r.pid
    [] r.state \in BootClasses -> r.state
    [] OTHER -> "FIXED"

Ledger == INSTANCE PageLedger WITH
  Owners <- Processes, Free <- "FREE", Classes <- BootClasses, Fixed <- "FIXED",
  owner <- [p \in Pages |-> OwnerOf(page[p])]

(* Every operation, seen from the owners of the pages, is a step of the     *)
(* ledger: reserved memory is never given out, firmware and boot loader     *)
(* memory comes back as a class, a page passes from owner to owner only     *)
(* through the free pool.                                                   *)
KeepsLedger == Ledger!Spec
=============================================================================
