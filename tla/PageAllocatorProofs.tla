------------------------ MODULE PageAllocatorProofs ------------------------
(***************************************************************************)
(* The page allocator for any memory, any processes and any number of       *)
(* callers: its invariant, the two protections of pages that belong to      *)
(* somebody, and that it implements the ledger.                             *)
(***************************************************************************)
EXTENDS PageAllocator, NumberLemmas, WellFoundedInduction, TLAPS

(* A set of numbers has a least member, which is the one Min chooses.       *)
LEMMA MinExists ==
  ASSUME NEW S \in SUBSET Nat, S # {}
  PROVE  Min(S) \in S /\ \A m \in S : Min(S) <= m
<1>1. PICK m \in S : \A k \in S : ~ (<<k, m>> \in OpToRel(<, Nat))
  BY NatLessThanWellFounded, WFMin
<1>2. ASSUME NEW k \in S PROVE m <= k
  <2>1. k \in Nat /\ m \in Nat
    OBVIOUS
  <2>2. ~ (k < m)
    BY <1>1, <2>1 DEF OpToRel
  <2> QED BY <2>1, <2>2
<1> QED BY <1>2 DEF Min

(* A bounded set of numbers has a greatest member, the one Max chooses.     *)
LEMMA MaxExists ==
  ASSUME NEW N \in Nat, NEW S \in SUBSET (0 .. N), S # {}
  PROVE  Max(S) \in S /\ \A m \in S : m <= Max(S)
<1> DEFINE T == {N - m : m \in S}
<1>1. T \in SUBSET Nat /\ T # {}
  <2>1. \A m \in S : m \in 0 .. N
    OBVIOUS
  <2>2. \A m \in 0 .. N : N - m \in Nat
    OBVIOUS
  <2> QED BY <2>1, <2>2
<1>2. Min(T) \in T /\ \A t \in T : Min(T) <= t
  BY <1>1, MinExists
<1>3. PICK m \in S : Min(T) = N - m
  BY <1>2
<1>4. \A k \in S : N - m <= N - k
  BY <1>2, <1>3
<1>5. \A k \in S : k <= m
  BY <1>4
<1>6. \A k \in S : m >= k
  BY <1>5
<1> QED BY <1>6, <1>5 DEF Max

(* The first run of k free pages is made of free pages. *)
LEMMA RunIsFree ==
  ASSUME NEW free, NEW k \in Nat, NEW high, RunStarts(free, k, high) # {}
  PROVE  \A j \in FirstRun(free, k, high) : Index(j, high) \in free
<1>1. RunStarts(free, k, high) \in SUBSET Nat
  BY PageCountAssumption DEF RunStarts, Positions
<1>2. Min(RunStarts(free, k, high)) \in RunStarts(free, k, high)
  BY <1>1, MinExists
<1> QED BY <1>2 DEF FirstRun, RunStarts

(* The longest run, if there is one, is a run of at least two pages.        *)
LEMMA LongestRunIsRun ==
  ASSUME NEW free, NEW high
  PROVE  /\ LongestRun(free, high) \in Nat
         /\ LongestRun(free, high) # 0 => RunStarts(free, LongestRun(free, high), high) # {}
<1> DEFINE K == {0} \union {k \in 2 .. PageCount - 1 : RunStarts(free, k, high) # {}}
<1>1. K \in SUBSET (0 .. PageCount) /\ K # {} /\ PageCount \in Nat
  BY PageCountAssumption
<1>2. Max(K) \in K
  BY <1>1, MaxExists
<1>3. LongestRun(free, high) \in K
  BY <1>2 DEF LongestRun
<1>4. \A k \in K : k \in Nat /\ (k # 0 => RunStarts(free, k, high) # {})
  OBVIOUS
<1> QED BY <1>3, <1>4

(* Whatever the flags, an acquire selects free pages only. *)
LEMMA SelectedAreFree ==
  ASSUME NEW free, NEW n \in Nat, NEW high
  PROVE  Selected(free, n, high) \subseteq free
<1>1. CASE RunFound(free, n, high)
  BY <1>1, RunIsFree DEF RunFound, Selected, IndexesOf
<1>2. CASE ~ RunFound(free, n, high)
  <2>1. LargestRange(free, high) \subseteq free
    <3>1. CASE LongestRun(free, high) = 0
      BY <3>1 DEF LargestRange
    <3>2. CASE LongestRun(free, high) # 0
      BY <3>2, LongestRunIsRun, RunIsFree DEF LargestRange, IndexesOf
    <3> QED BY <3>1, <3>2
  <2>2. ASSUME NEW m PROVE IndexesOf(FirstOf(Remaining(free, high), m), high) \subseteq free
    BY DEF IndexesOf, FirstOf, Remaining
  <2> QED BY <1>2, <2>1, <2>2 DEF Selected
<1> QED BY <1>1, <1>2

-----------------------------------------------------------------------------
(* What the calls a caller can have in progress look like. *)
LEMMA CallFacts ==
  /\ NoCall \notin Calls
  /\ \A a \in Calls : a.op = "acquire" => /\ a.proc \in Processes
                                          /\ a.count \in Nat
                                          /\ a.high \in BOOLEAN
                                          /\ a.consecutive \in ConsFlags
  /\ \A a \in Calls : a.op \in {"lock", "release_s"} => a.proc \in Processes
  /\ \A a \in Calls : a.op = "reclaim" => a.class \in BootClasses
BY AllocatorAssumption DEF Calls, NoCall, Acquires, Locks, Releases, ReleasesS, Reclaims, Queries

LEMMA InitInv == Init => AllocatorInv
<1> SUFFICES ASSUME Init PROVE AllocatorInv
  OBVIOUS
<1>1. page \in [Pages -> BootRecords]
  BY BootTablesAssumption DEF Init
<1>2. \A r \in BootRecords :
        /\ r \in [state : States, pid : Processes \union {INVALID}]
        /\ r.state # "LOCKED" /\ r.pid \in {INVALID, KERNEL}
        /\ r.pid = KERNEL => r.state = "RESERVED"
  BY AllocatorAssumption DEF BootRecords, States, BootClasses, Processes
<1>3. TypeOK
  BY <1>1, <1>2 DEF Init, TypeOK
<1>4. RecordsAgree
  BY <1>1, <1>2 DEF RecordsAgree, BootClasses
<1>5. LockAgrees
  BY DEF Init, LockAgrees
<1> QED BY <1>3, <1>4, <1>5 DEF AllocatorInv

(* What the body of a call does to the table. *)
BodyEffect(c) ==
  \/ /\ InCall(c, "acquire") \/ InCall(c, "lock")
     /\ \E S \in SUBSET InState("AVAILABLE"), proc \in Processes : Mark(S, proc)
  \/ /\ InCall(c, "release")
     /\ \E S \in SUBSET InState("LOCKED") :
          /\ SetFree(S)
          /\ \A p \in S : page[p].pid = KERNEL => call[c].kernel_rel
  \/ /\ InCall(c, "release_s")
     /\ \E S \in SUBSET Pages :
          /\ SetFree(S)
          /\ \A p \in S : \/ page[p].state = "AVAILABLE"
                          \/ page[p].state = "LOCKED" /\ page[p].pid = call[c].proc
  \/ InCall(c, "reclaim") /\ \E k \in BootClasses : SetFree(InState(k))
  \/ UNCHANGED page

LEMMA BodyShape ==
  ASSUME AllocatorInv, NEW c \in Callers, Body(c)
  PROVE  /\ pc[c] = "locked"
         /\ BodyEffect(c)
         /\ \E released \in BOOLEAN : Return(c, released) /\ (released \/ TRUE \in ConsFlags)
<1>1. /\ InState("LOCKED") \in SUBSET Pages
      /\ pc[c] = "locked" => call[c] \in Calls
  BY DEF InState, AllocatorInv, LockAgrees
<1>2. CASE AcquireGranted(c)
  <2> DEFINE a == call[c]
             S == Selected(InState("AVAILABLE"), a.count, a.high)
  <2>1. a.proc \in Processes /\ a.count \in Nat
    BY <1>1, <1>2, CallFacts DEF AcquireGranted, InCall
  <2>2. S \in SUBSET InState("AVAILABLE")
    BY <2>1, SelectedAreFree
  <2>3. Mark(S, a.proc) /\ InCall(c, "acquire") /\ Return(c, TRUE)
    BY <1>2 DEF AcquireGranted
  <2> HIDE DEF S, a
  <2> QED BY <2>1, <2>2, <2>3 DEF BodyEffect, InCall
<1>3. CASE AcquireRefused(c)
  <2>1. pc[c] = "locked" /\ Return(c, ~ call[c].consecutive) /\ UNCHANGED page
    BY <1>3 DEF AcquireRefused, InCall
  <2>2. call[c].consecutive \in BOOLEAN /\ (call[c].consecutive => TRUE \in ConsFlags)
    BY <1>1, <1>3, CallFacts, AllocatorAssumption DEF AcquireRefused, InCall
  <2>3. Return(c, TRUE) \/ (Return(c, FALSE) /\ TRUE \in ConsFlags)
    BY <2>1, <2>2
  <2> QED BY <2>1, <2>3 DEF BodyEffect
<1>4. CASE \E S \in SUBSET Pages \ {{}} : Lock(c, S)
  <2>1. PICK S \in SUBSET Pages : Lock(c, S)
    BY <1>4
  <2>2. /\ Mark(S, call[c].proc) /\ InCall(c, "lock") /\ Return(c, TRUE)
        /\ S \in SUBSET InState("AVAILABLE")
    BY <2>1 DEF Lock
  <2>3. call[c].proc \in Processes
    BY <1>1, <2>2, CallFacts DEF InCall
  <2> QED BY <2>2, <2>3 DEF BodyEffect, InCall
<1>5. CASE \E S \in SUBSET Pages \ {{}} : Release(c, S)
  <2>1. PICK S \in SUBSET Pages : Release(c, S)
    BY <1>5
  <2>2. /\ SetFree(S \intersect InState("LOCKED")) /\ InCall(c, "release") /\ Return(c, TRUE)
        /\ \A p \in S : page[p].pid = KERNEL => call[c].kernel_rel
    BY <2>1 DEF Release, Releasable
  <2> QED BY <1>1, <2>2 DEF BodyEffect, InCall
<1>6. CASE \E S \in SUBSET Pages \ {{}} : ReleaseS(c, S)
  <2>1. PICK S \in SUBSET Pages : ReleaseS(c, S)
    BY <1>6
  <2>2. /\ SetFree(S) /\ InCall(c, "release_s") /\ Return(c, TRUE)
        /\ \A p \in S : \/ page[p].state = "AVAILABLE"
                        \/ page[p].state = "LOCKED" /\ page[p].pid = call[c].proc
    BY <2>1 DEF ReleaseS, ReleasableBy
  <2> QED BY <2>2 DEF BodyEffect, InCall
<1>7. CASE Reclaim(c)
  <2>1. call[c].class \in BootClasses
    BY <1>1, <1>7, CallFacts DEF Reclaim, InCall
  <2> QED BY <1>7, <2>1 DEF Reclaim, InCall, BodyEffect
<1>8. CASE Unchanged(c)
  BY <1>8 DEF Unchanged, InCall, BodyEffect
<1> QED BY <1>2, <1>3, <1>4, <1>5, <1>6, <1>7, <1>8 DEF Body

(* Locking pages for a process, or freeing them, keeps the table well       *)
(* formed; so does leaving it alone.                                        *)
LEMMA TableKept ==
  ASSUME AllocatorInv, NEW c \in Callers, BodyEffect(c)
  PROVE  page' \in [Pages -> [state : States, pid : Processes \union {INVALID}]] /\ RecordsAgree'
<1>1. ASSUME NEW S, NEW proc \in Processes, Mark(S, proc)
      PROVE page' \in [Pages -> [state : States, pid : Processes \union {INVALID}]] /\ RecordsAgree'
  BY <1>1 DEF AllocatorInv, TypeOK, RecordsAgree, Mark, States, BootClasses
<1>2. ASSUME NEW S, SetFree(S)
      PROVE page' \in [Pages -> [state : States, pid : Processes \union {INVALID}]] /\ RecordsAgree'
  BY <1>2 DEF AllocatorInv, TypeOK, RecordsAgree, SetFree, States, BootClasses
<1>3. CASE UNCHANGED page
  BY <1>3 DEF AllocatorInv, TypeOK, RecordsAgree
<1> QED BY <1>1, <1>2, <1>3 DEF BodyEffect

(* A call that returns leaves the lock free, unless it is a consecutive     *)
(* acquire that was refused.                                                *)
LEMMA LockKept ==
  ASSUME AllocatorInv, NEW c \in Callers, pc[c] = "locked", NEW released \in BOOLEAN,
         Return(c, released), released \/ TRUE \in ConsFlags
  PROVE  LockAgrees' /\ g_lock' \in BOOLEAN
         /\ pc' \in [Callers -> {"idle", "spin", "locked"}]
         /\ call' \in [Callers -> Calls \union {NoCall}]
BY CallFacts DEF AllocatorInv, TypeOK, LockAgrees, Return

LEMMA StepInv == AllocatorInv /\ [Next]_vars => AllocatorInv'
<1> SUFFICES ASSUME AllocatorInv, [Next]_vars PROVE AllocatorInv'
  OBVIOUS
<1>1. ASSUME NEW c \in Callers, Enter(c) PROVE AllocatorInv'
  BY <1>1 DEF Enter, AllocatorInv, TypeOK, RecordsAgree, LockAgrees
<1>2. ASSUME NEW c \in Callers, TakeLock(c) PROVE AllocatorInv'
  BY <1>2 DEF TakeLock, AllocatorInv, TypeOK, RecordsAgree, LockAgrees
<1>3. ASSUME NEW c \in Callers, Body(c) PROVE AllocatorInv'
  <2>1. page' \in [Pages -> [state : States, pid : Processes \union {INVALID}]] /\ RecordsAgree'
    BY <1>3, BodyShape, TableKept
  <2>2. LockAgrees' /\ g_lock' \in BOOLEAN
        /\ pc' \in [Callers -> {"idle", "spin", "locked"}]
        /\ call' \in [Callers -> Calls \union {NoCall}]
    BY <1>3, BodyShape, LockKept
  <2> QED BY <2>1, <2>2 DEF AllocatorInv, TypeOK
<1>4. CASE UNCHANGED vars
  BY <1>4 DEF vars, AllocatorInv, TypeOK, RecordsAgree, LockAgrees
<1> QED BY <1>1, <1>2, <1>3, <1>4 DEF Next

(* In every reachable state the table is well formed, a page has an owner   *)
(* exactly when it is locked, and the lock and the calls agree.             *)
THEOREM AllocatorInvariant == Spec => []AllocatorInv
BY InitInv, StepInv, PTL DEF Spec

(* No two callers are under the lock at once. *)
LEMMA OneCaller ==
  ASSUME AllocatorInv, NEW c \in Callers, pc[c] = "locked"
  PROVE  \A d \in Callers : \A op : InCall(d, op) => d = c
BY DEF AllocatorInv, LockAgrees, InCall

(* The table changes only in the body of a call. *)
LEMMA OnlyBodies ==
  ASSUME [Next]_vars
  PROVE  UNCHANGED page \/ \E c \in Callers : Body(c)
BY DEF Next, vars, Enter, TakeLock

-----------------------------------------------------------------------------
(* The protections. *)

LEMMA KernelStepHolds == AllocatorInv /\ [Next]_vars => KernelStep
<1> SUFFICES ASSUME AllocatorInv, NEW c \in Callers, Body(c), NEW p \in Touched,
                    page[p].pid = KERNEL
             PROVE  /\ page'[p].state = "AVAILABLE"
                    /\ \/ InCall(c, "release") /\ call[c].kernel_rel
                       \/ InCall(c, "release_s") /\ call[c].proc = KERNEL
  BY OnlyBodies DEF KernelStep, Touched
<1>1. BodyEffect(c) /\ p \in Pages /\ page'[p] # page[p]
  BY BodyShape DEF Touched
<1>2. page[p].state \in {"LOCKED", "RESERVED"}
  BY <1>1, AllocatorAssumption DEF AllocatorInv, TypeOK, RecordsAgree, States, BootClasses
<1>3. ASSUME NEW S \in SUBSET InState("AVAILABLE"), NEW proc, Mark(S, proc) PROVE FALSE
  BY <1>1, <1>2, <1>3 DEF Mark, InState, AllocatorInv, TypeOK
<1>4. ASSUME NEW S, SetFree(S) PROVE p \in S /\ page'[p].state = "AVAILABLE"
  BY <1>1, <1>4 DEF SetFree, AllocatorInv, TypeOK
<1>5. ~ \E k \in BootClasses : SetFree(InState(k))
  BY <1>2, <1>4 DEF InState, BootClasses
<1> QED BY <1>1, <1>2, <1>3, <1>4, <1>5 DEF BodyEffect

(* The kernel's pages are freed only with the flag or by the kernel.        *)
THEOREM KernelPagesAreGuarded == Spec => KernelPagesGuarded
<1>1. AllocatorInv /\ [Next]_vars => [KernelStep]_vars
  BY KernelStepHolds
<1> QED BY <1>1, AllocatorInvariant, PTL DEF Spec, KernelPagesGuarded

LEMMA OthersStepHolds == AllocatorInv /\ [Next]_vars => OthersStep
<1> SUFFICES ASSUME AllocatorInv, NEW c \in Callers, Body(c), NEW p \in Touched,
                    NEW d \in Callers
             PROVE  /\ InCall(d, "acquire") \/ InCall(d, "lock") => page[p].state = "AVAILABLE"
                    /\ InCall(d, "release_s") => page[p].pid = call[d].proc
  BY OnlyBodies DEF OthersStep, Touched
<1>1. BodyEffect(c) /\ p \in Pages /\ page'[p] # page[p]
  BY BodyShape DEF Touched
<1>2. \A op : InCall(d, op) => d = c
  BY BodyShape, OneCaller
<1>3. ASSUME NEW S, NEW proc, Mark(S, proc) PROVE p \in S
  BY <1>1, <1>3 DEF Mark, AllocatorInv, TypeOK
<1>4. ASSUME NEW S, SetFree(S)
      PROVE  p \in S /\ page[p] # [state |-> "AVAILABLE", pid |-> INVALID]
  BY <1>1, <1>4 DEF SetFree, AllocatorInv, TypeOK
<1>5. page[p].state = "AVAILABLE" => page[p] = [state |-> "AVAILABLE", pid |-> INVALID]
  BY <1>1 DEF AllocatorInv, TypeOK, RecordsAgree
<1>6. ASSUME InCall(c, "acquire") \/ InCall(c, "lock") PROVE page[p].state = "AVAILABLE"
  BY <1>1, <1>3, <1>6 DEF BodyEffect, InCall, InState
<1>7. ASSUME InCall(c, "release_s") PROVE page[p].pid = call[c].proc
  BY <1>1, <1>4, <1>5, <1>7 DEF BodyEffect, InCall
<1> QED BY <1>2, <1>6, <1>7

(* A call for one process leaves the pages of all others alone.             *)
THEOREM OthersAreUndisturbed == Spec => OthersUndisturbed
<1>1. AllocatorInv /\ [Next]_vars => [OthersStep]_vars
  BY OthersStepHolds
<1> QED BY <1>1, AllocatorInvariant, PTL DEF Spec, OthersUndisturbed

-----------------------------------------------------------------------------
(* The refinement. *)

Owner == [p \in Pages |-> OwnerOf(page[p])]

(* The owner of a page, read off its state. *)
LEMMA OwnerFacts ==
  ASSUME AllocatorInv, NEW p \in Pages
  PROVE  /\ page[p].state = "AVAILABLE" <=> Owner[p] = "FREE"
         /\ page[p].state = "LOCKED" <=> Owner[p] \in Processes
         /\ \A k \in BootClasses : page[p].state = k <=> Owner[p] = k
BY AllocatorAssumption
DEF AllocatorInv, TypeOK, RecordsAgree, States, BootClasses, Processes, Owner, OwnerOf

LEMMA LedgerInit == Init => Ledger!Init
<1> SUFFICES ASSUME Init PROVE Ledger!Init
  OBVIOUS
<1>1. page \in [Pages -> BootRecords]
  BY BootTablesAssumption DEF Init
<1>2. \A r \in BootRecords : OwnerOf(r) \in {"FREE", "FIXED"} \union BootClasses
  BY DEF BootRecords, OwnerOf, BootClasses
<1> QED BY <1>1, <1>2 DEF Ledger!Init

LEMMA LedgerStep == AllocatorInv /\ [Next]_vars => [Ledger!Next]_Owner
<1> SUFFICES ASSUME AllocatorInv, NEW c \in Callers, Body(c)
             PROVE  Ledger!Next \/ UNCHANGED Owner
  BY OnlyBodies DEF Owner
<1>0. BodyEffect(c)
  BY BodyShape
<1>1. ASSUME NEW S \in SUBSET InState("AVAILABLE"), NEW proc \in Processes, Mark(S, proc)
      PROVE  Ledger!Next \/ UNCHANGED Owner
  <2>1. \A p \in Pages : Owner'[p] = IF p \in S THEN proc ELSE Owner[p]
    BY <1>1 DEF Owner, OwnerOf, Mark, BootClasses
  <2>2. S \in SUBSET Ledger!OwnedBy("FREE")
    BY <1>1, OwnerFacts DEF InState, Ledger!OwnedBy, Owner
  <2>3. Ledger!Assign(S, proc)
    BY <2>1 DEF Ledger!Assign, Owner
  <2>4. CASE S = {}
    BY <2>1, <2>4 DEF Owner
  <2>5. CASE S # {}
    BY <2>2, <2>3, <2>5 DEF Ledger!Next, Ledger!Grant
  <2> QED BY <2>4, <2>5
<1>2. ASSUME NEW S \in SUBSET Pages, SetFree(S),
             \A p \in S : page[p].state \in {"AVAILABLE", "LOCKED"}
      PROVE  Ledger!Next \/ UNCHANGED Owner
  <2> DEFINE T == S \intersect InState("LOCKED")
  <2>1. \A p \in Pages : Owner'[p] = IF p \in S THEN "FREE" ELSE Owner[p]
    BY <1>2 DEF Owner, OwnerOf, SetFree, BootClasses
  <2>2. \A p \in Pages : Owner'[p] = IF p \in T THEN "FREE" ELSE Owner[p]
    BY <1>2, <2>1, OwnerFacts DEF InState
  <2>3. T \in SUBSET Pages /\ \A p \in T : Owner[p] \in Processes
    BY OwnerFacts DEF InState
  <2> HIDE DEF T
  <2>4. Ledger!Assign(T, "FREE")
    BY <2>2 DEF Ledger!Assign, Owner
  <2>5. CASE T = {}
    BY <2>2, <2>5 DEF Owner
  <2>6. CASE T # {}
    BY <2>3, <2>4, <2>6 DEF Ledger!Next, Ledger!Return, Owner
  <2> QED BY <2>5, <2>6
<1>3. ASSUME NEW k \in BootClasses, SetFree(InState(k))
      PROVE  Ledger!Next \/ UNCHANGED Owner
  <2>1. \A p \in Pages : Owner'[p] = IF p \in InState(k) THEN "FREE" ELSE Owner[p]
    BY <1>3 DEF Owner, OwnerOf, SetFree, BootClasses
  <2>2. InState(k) = Ledger!OwnedBy(k)
    BY <1>3, OwnerFacts DEF InState, Ledger!OwnedBy, Owner
  <2>3. Ledger!Assign(Ledger!OwnedBy(k), "FREE")
    BY <2>1, <2>2 DEF Ledger!Assign, Owner
  <2>4. CASE InState(k) = {}
    BY <2>1, <2>4 DEF Owner
  <2>5. CASE InState(k) # {}
    BY <2>2, <2>3, <2>5 DEF Ledger!Next, Ledger!Reclaim
  <2> QED BY <2>4, <2>5
<1>4. CASE UNCHANGED page
  BY <1>4 DEF Owner
<1> QED BY <1>0, <1>1, <1>2, <1>3, <1>4 DEF BodyEffect, InState

(* The allocator implements the ledger.                                     *)
THEOREM AllocatorKeepsLedger == Spec => KeepsLedger
<1>1. AllocatorInv /\ [Next]_vars => [Ledger!Next]_Owner
  BY LedgerStep
<1> QED
  BY <1>1, LedgerInit, AllocatorInvariant, PTL DEF Spec, KeepsLedger, Ledger!Spec, Owner

-----------------------------------------------------------------------------
(* How many pages an acquire locks, scanning upwards.                       *)

LEMMA Upwards == \A S : IndexesOf(S, FALSE) = S
BY DEF IndexesOf, Index

(* A set of numbers has as many first members as asked for. *)
LEMMA FirstOfCount ==
  ASSUME NEW S, S \subseteq Nat, IsFiniteSet(S)
  PROVE  \A n \in Nat : n <= Cardinality(S) => /\ IsFiniteSet(FirstOf(S, n))
                                               /\ Cardinality(FirstOf(S, n)) = n
<1> DEFINE Below(x) == {j \in S : j < x}
           First(n) == FirstOf(S, n)
           N == {n \in Nat : n <= Cardinality(S) => Cardinality(First(n)) = n}
<1>1. \A x : IsFiniteSet(Below(x)) /\ Cardinality(Below(x)) \in Nat
  BY FS_Subset, FS_CardinalityType
<1>2. \A n : First(n) = {x \in S : Cardinality(Below(x)) < n}
  BY DEF FirstOf
<1>3. \A n : IsFiniteSet(First(n)) /\ First(n) \subseteq S
  <2>1. \A n : First(n) \subseteq S
    BY <1>2
  <2> HIDE DEF First
  <2> QED BY <2>1, FS_Subset
<1>4. Cardinality(S) \in Nat
  BY FS_CardinalityType
<1> HIDE DEF First
<1>5. 0 \in N
  <2>1. First(0) = {}
    <3> HIDE DEF Below
    <3>1. \A x \in S : ~ (Cardinality(Below(x)) < 0)
      BY <1>1
    <3> QED BY <1>2, <3>1
  <2> QED BY <2>1, FS_EmptySet
<1>6. ASSUME NEW n \in Nat, n \in N PROVE n + 1 \in N
  <2> SUFFICES ASSUME n + 1 <= Cardinality(S) PROVE Cardinality(First(n + 1)) = n + 1
    BY <1>6
  <2>1. Cardinality(First(n)) = n
    BY <1>4, <1>6
  <2>2. S \ First(n) # {}
    <3> SUFFICES ASSUME S \ First(n) = {} PROVE FALSE
      OBVIOUS
    <3>1. First(n) = S
      BY <1>3
    <3> QED BY <1>4, <2>1, <3>1
  <2>3. PICK m \in S \ First(n) : \A y \in S \ First(n) : m <= y
    BY <2>2, NatLeast
  <2>4. m \in S /\ m \in Nat /\ ~ (Cardinality(Below(m)) < n)
    BY <1>2, <2>3
  <2>5. ASSUME NEW y \in S, y < m PROVE y \in First(n)
    <3>1. y \in Nat
      OBVIOUS
    <3> QED BY <2>3, <2>4, <2>5, <3>1
  <2>6. ASSUME NEW y \in First(n) PROVE y < m
    <3> SUFFICES ASSUME ~ (y < m) PROVE FALSE
      OBVIOUS
    <3>1. y \in S /\ y \in Nat /\ Cardinality(Below(y)) < n
      BY <1>2, <1>3
    <3>2. Below(m) \subseteq Below(y)
      <4>1. ASSUME NEW j \in S, j < m PROVE j < y
        <5>1. j \in Nat
          OBVIOUS
        <5> QED BY <2>4, <3>1, <4>1, <5>1
      <4> QED BY <4>1
    <3>3. Cardinality(Below(m)) <= Cardinality(Below(y))
      <4> HIDE DEF Below
      <4> QED BY <1>1, <3>2, FS_Subset
    <3> HIDE DEF Below
    <3> QED BY <1>1, <2>4, <3>1, <3>3
  <2>7. Below(m) = First(n)
    BY <1>3, <2>5, <2>6
  <2>8. m \in First(n + 1)
    <3>1. Cardinality(Below(m)) = n
      BY <2>1, <2>7
    <3> HIDE DEF Below
    <3> QED BY <1>2, <2>4, <3>1
  <2>9. ASSUME NEW y \in First(n) PROVE y \in First(n + 1)
    <3>1. y \in S /\ Cardinality(Below(y)) < n
      BY <1>2
    <3> HIDE DEF Below
    <3>2. Cardinality(Below(y)) < n + 1
      BY <1>1, <3>1
    <3> QED BY <1>2, <3>1, <3>2
  <2>10. ASSUME NEW y \in First(n + 1) PROVE y \in First(n) \/ y = m
    <3> SUFFICES ASSUME y \notin First(n), y # m PROVE FALSE
      OBVIOUS
    <3>1. y \in S /\ y \in Nat /\ m <= y /\ Cardinality(Below(y)) < n + 1
      BY <1>2, <2>3
    <3>2. m < y
      BY <2>4, <3>1
    <3>3. First(n) \union {m} \subseteq Below(y)
      <4>1. ASSUME NEW j \in First(n) PROVE j \in S /\ j < y
        <5>1. j \in S /\ j \in Nat /\ j < m
          BY <1>3, <2>6
        <5> QED BY <2>4, <3>1, <3>2, <5>1
      <4> QED BY <2>4, <3>2, <4>1
    <3>4. m \notin First(n)
      BY <2>3
    <3>5. Cardinality(First(n) \union {m}) = n + 1
      BY <1>3, <2>1, <3>4, FS_AddElement
    <3>6. Cardinality(First(n) \union {m}) <= Cardinality(Below(y))
      <4> HIDE DEF Below
      <4> QED BY <1>1, <3>3, FS_Subset
    <3> HIDE DEF Below
    <3> QED BY <1>1, <3>1, <3>5, <3>6
  <2>11. First(n + 1) = First(n) \union {m}
    BY <2>8, <2>9, <2>10
  <2> QED BY <1>3, <2>1, <2>3, <2>11, FS_AddElement
<1> HIDE DEF N
<1>7. Nat \subseteq N
  BY <1>5, <1>6, NatSteps
<1> QED BY <1>3, <1>7 DEF N, First

LEMMA IntervalCount ==
  ASSUME NEW s \in Nat, NEW k \in Nat
  PROVE  IsFiniteSet(s .. s + k - 1) /\ Cardinality(s .. s + k - 1) = k
<1>1. s \in Int /\ s + k - 1 \in Int
  OBVIOUS
<1>2. /\ IsFiniteSet(s .. s + k - 1)
      /\ Cardinality(s .. s + k - 1) = IF s > s + k - 1 THEN 0 ELSE (s + k - 1) - s + 1
  BY <1>1, FS_Interval
<1> QED BY <1>2

(* The first run of k pages has k pages, page 0 not among them. *)
LEMMA FirstRunFacts ==
  ASSUME NEW free, NEW k \in Nat \ {0}, RunStarts(free, k, FALSE) # {}
  PROVE  /\ IsFiniteSet(FirstRun(free, k, FALSE)) /\ Cardinality(FirstRun(free, k, FALSE)) = k
         /\ FirstRun(free, k, FALSE) \subseteq free \intersect Positions
         /\ 0 \notin FirstRun(free, k, FALSE)
<1> DEFINE s == Min(RunStarts(free, k, FALSE))
<1>1. RunStarts(free, k, FALSE) \subseteq Nat
  <2>1. RunStarts(free, k, FALSE) \subseteq Positions
    BY DEF RunStarts
  <2>2. Positions \subseteq Nat
    BY PageCountAssumption DEF Positions
  <2> QED BY <2>1, <2>2
<1>2. s \in RunStarts(free, k, FALSE)
  BY <1>1, MinExists
<1>3. FirstRun(free, k, FALSE) = s .. s + k - 1
  BY DEF FirstRun
<1> HIDE DEF s
<1>4. s \in Nat /\ \A j \in s .. s + k - 1 : j \in Positions /\ j \in free
  BY <1>1, <1>2 DEF RunStarts, Index
<1>5. 0 \notin Positions
  BY DEF Positions
<1> QED BY <1>3, <1>4, <1>5, IntervalCount

(* The longest run is shorter than any that was not found. *)
LEMMA LongestIsShort ==
  ASSUME NEW free, NEW n \in Nat \ {0}, RunStarts(free, n, FALSE) = {}
  PROVE  LongestRun(free, FALSE) < n
<1> DEFINE L == LongestRun(free, FALSE)
<1>1. L \in Nat /\ (L # 0 => RunStarts(free, L, FALSE) # {})
  BY LongestRunIsRun
<1> HIDE DEF L
<1>2. ASSUME n <= L PROVE FALSE
  <2>0. L # 0
    BY <1>1, <1>2
  <2>1. PICK s : s \in RunStarts(free, L, FALSE)
    BY <1>1, <2>0, Zenon
  <2>2. s \in Positions /\ \A j \in s .. s + L - 1 : j \in Positions /\ Index(j, FALSE) \in free
    BY <2>1 DEF RunStarts
  <2>3. s \in Nat
    BY <2>2 DEF Positions
  <2>4. \A j \in s .. s + n - 1 : j \in s .. s + L - 1
    BY <1>1, <1>2, <2>3
  <2>5. s \in RunStarts(free, n, FALSE)
    BY <2>2, <2>4 DEF RunStarts
  <2> QED BY <2>5
<1>3. L < n
  BY <1>1, <1>2
<1> QED BY <1>3 DEF L

(* The free pages but page 0 are those of the longest run and the others.   *)
LEMMA SplitFacts ==
  ASSUME NEW free, free \subseteq Pages
  PROVE  /\ IsFiniteSet(LargestRange(free, FALSE)) /\ IsFiniteSet(Remaining(free, FALSE))
         /\ Cardinality(LargestRange(free, FALSE)) = LongestRun(free, FALSE)
         /\ Cardinality(Remaining(free, FALSE)) \in Nat
         /\ Remaining(free, FALSE) \subseteq Nat
         /\ LargestRange(free, FALSE) \intersect Remaining(free, FALSE) = {}
         /\ free \ {0} = LargestRange(free, FALSE) \union Remaining(free, FALSE)
<1> DEFINE L == LongestRun(free, FALSE)
           R == LargestRange(free, FALSE)
           M == Remaining(free, FALSE)
<1>1. /\ IsFiniteSet(R) /\ Cardinality(R) = L /\ R \subseteq free \intersect Positions
  <2>1. L \in Nat /\ (L # 0 => RunStarts(free, L, FALSE) # {})
    BY LongestRunIsRun
  <2>2. CASE L = 0
    BY <2>2, FS_EmptySet DEF LargestRange
  <2>3. CASE L # 0
    <3>1. R = FirstRun(free, L, FALSE)
      BY <2>3, Upwards DEF LargestRange
    <3> HIDE DEF R, L
    <3> QED BY <2>1, <2>3, <3>1, FirstRunFacts
  <2> QED BY <2>2, <2>3
<1>2. M = {i \in Positions : i \notin R /\ i \in free}
  BY DEF Remaining, Index
<1>3. IsFiniteSet(Positions) /\ Positions \subseteq Nat /\ Pages \ {0} = Positions
  BY PageCountAssumption, FS_Interval DEF Positions, Pages
<1>4. 0 \notin Positions
  BY DEF Positions
<1> HIDE DEF R, M
<1>5. M \subseteq Positions /\ R \intersect M = {} /\ free \ {0} = R \union M
  BY <1>1, <1>2, <1>3, <1>4
<1>6. IsFiniteSet(M) /\ Cardinality(M) \in Nat
  BY <1>3, <1>5, FS_Subset, FS_CardinalityType
<1> QED BY <1>1, <1>3, <1>5, <1>6 DEF R, M

LEMMA SelectedCount ==
  ASSUME NEW free, free \subseteq Pages, NEW n \in Nat \ {0}, NEW cons,
         Succeeds(free, n, FALSE, cons)
  PROVE  Cardinality(Selected(free, n, FALSE)) = n /\ 0 \notin Selected(free, n, FALSE)
<1>1. CASE RunFound(free, n, FALSE)
  <2>1. RunStarts(free, n, FALSE) # {}
    BY <1>1 DEF RunFound
  <2>2. Selected(free, n, FALSE) = FirstRun(free, n, FALSE)
    BY <1>1, Upwards, Zenon DEF Selected
  <2>3. /\ Cardinality(FirstRun(free, n, FALSE)) = n
        /\ 0 \notin FirstRun(free, n, FALSE)
    BY ONLY <2>1, n \in Nat \ {0}, FirstRunFacts
  <2> QED BY ONLY <2>2, <2>3
<1>2. CASE ~ RunFound(free, n, FALSE)
  <2> DEFINE L == LongestRun(free, FALSE)
             R == LargestRange(free, FALSE)
             M == Remaining(free, FALSE)
             F == FirstOf(M, n - L)
  <2>1. L \in Nat /\ L < n
    BY <1>2, LongestIsShort, LongestRunIsRun DEF RunFound
  <2>2. /\ IsFiniteSet(R) /\ IsFiniteSet(M) /\ Cardinality(R) = L /\ Cardinality(M) \in Nat
        /\ M \subseteq Nat /\ R \intersect M = {} /\ free \ {0} = R \union M
    BY SplitFacts
  <2>3. Selected(free, n, FALSE) = R \union F
    BY <1>2, <2>2, Upwards DEF Selected
  <2>4. Cardinality(R) + Cardinality(M) >= n
    BY <1>2 DEF Succeeds, Enough
  <2>5. F \subseteq M
    BY DEF FirstOf
  <2> HIDE DEF L, R, M
  <2>6. n - L \in Nat /\ n - L <= Cardinality(M)
    BY <2>1, <2>2, <2>4
  <2>7. IsFiniteSet(F) /\ Cardinality(F) = n - L
    BY <2>2, <2>6, FirstOfCount
  <2> HIDE DEF F
  <2>8. Cardinality(R \union F) = n
    <3>1. R \intersect F = {}
      BY <2>2, <2>5
    <3>2. Cardinality(R \union F) = Cardinality(R) + Cardinality(F) - Cardinality(R \intersect F)
      BY <2>2, <2>7, FS_Union
    <3>3. Cardinality(R \intersect F) = 0
      BY <3>1, FS_EmptySet
    <3> QED BY <2>1, <2>2, <2>7, <3>2, <3>3
  <2>9. 0 \notin R \union F
    BY <2>2, <2>5
  <2> QED BY <2>3, <2>8, <2>9
<1> QED BY <1>1, <1>2

LEMMA RefusedCount ==
  ASSUME NEW free, free \subseteq Pages, NEW n \in Nat \ {0}, ~ Enough(free, n, FALSE)
  PROVE  Cardinality(free \ {0}) < n
<1> DEFINE R == LargestRange(free, FALSE)
           M == Remaining(free, FALSE)
<1>1. /\ IsFiniteSet(R) /\ IsFiniteSet(M) /\ Cardinality(R) = LongestRun(free, FALSE)
      /\ Cardinality(M) \in Nat /\ R \intersect M = {} /\ free \ {0} = R \union M
  BY SplitFacts
<1>2. ~ (Cardinality(R) + Cardinality(M) >= n)
  BY DEF Enough
<1> HIDE DEF R, M
<1>3. Cardinality(R) \in Nat
  BY <1>1, FS_CardinalityType
<1>4. /\ Cardinality(R \union M) = Cardinality(R) + Cardinality(M) - Cardinality(R \intersect M)
      /\ Cardinality(R \intersect M) = 0
  BY <1>1, FS_Union, FS_EmptySet
<1> DEFINE cr == Cardinality(R)
           cm == Cardinality(M)
<1>5. Cardinality(free \ {0}) = cr + cm - Cardinality(R \intersect M)
  BY <1>1, <1>4
<1>6. cr \in Nat /\ cm \in Nat /\ ~ (cr + cm >= n) /\ Cardinality(R \intersect M) = 0
  BY <1>1, <1>2, <1>3, <1>4
<1> HIDE DEF cr, cm
<1> QED BY ONLY <1>5, <1>6, n \in Nat \ {0}

(* A call returns in its own body only. *)
LEMMA AcquireReturns ==
  ASSUME AllocatorInv, [Next]_vars, NEW c \in Callers, InCall(c, "acquire"), pc'[c] = "idle"
  PROVE  AcquireGranted(c) \/ AcquireRefused(c)
<1>1. pc \in [Callers -> {"idle", "spin", "locked"}] /\ pc[c] = "locked"
  BY DEF AllocatorInv, TypeOK, InCall
<1>2. ASSUME NEW d \in Callers, Enter(d) \/ TakeLock(d) PROVE FALSE
  BY <1>1, <1>2 DEF Enter, TakeLock
<1>3. ~ UNCHANGED vars
  BY <1>1 DEF vars
<1>4. PICK d \in Callers : Body(d)
  BY <1>2, <1>3 DEF Next
<1>5. d = c
  <2>1. pc[d] = "locked"
    BY <1>4, BodyShape
  <2> QED BY <1>1, <2>1 DEF AllocatorInv, LockAgrees
<1>6. call[c].op = "acquire"
  BY DEF InCall
<1> QED BY <1>4, <1>5, <1>6 DEF Body, Lock, Release, ReleaseS, Reclaim, Unchanged, InCall

LEMMA ExactStep ==
  ASSUME AllocatorInv, [Next]_vars, NEW c \in Callers,
         InCall(c, "acquire"), pc'[c] = "idle", ~ call[c].high
  PROVE  \/ Cardinality(Touched) = call[c].count /\ 0 \notin Touched
         \/ /\ Touched = {}
            /\ \/ call[c].consecutive
               \/ Cardinality(InState("AVAILABLE") \ {0}) < call[c].count
<1> DEFINE free == InState("AVAILABLE")
           n == call[c].count
           cons == call[c].consecutive
<1>1. free \subseteq Pages /\ n \in Nat \ {0} /\ call[c].high = FALSE
  <2>1. call[c] \in Calls /\ call[c].op = "acquire"
    BY DEF InCall, AllocatorInv, LockAgrees
  <2>2. call[c] \in Acquires
    BY <2>1 DEF Calls, Acquires, Locks, Releases, ReleasesS, Reclaims, Queries
  <2>3. n \in 1 .. MaxCount /\ call[c].high \in BOOLEAN
    BY <2>2, AllocatorAssumption DEF Acquires
  <2> QED BY <2>3, AllocatorAssumption DEF InState
<1>2. CASE AcquireGranted(c)
  <2>1. Succeeds(free, n, FALSE, cons)
    BY <1>1, <1>2 DEF AcquireGranted, CanAcquire
  <2>2. Mark(Selected(free, n, FALSE), call[c].proc)
    BY <1>1, <1>2 DEF AcquireGranted
  <2>3. Selected(free, n, FALSE) \subseteq free
    BY <1>1, SelectedAreFree
  <2>4. \A p \in free : page[p].state = "AVAILABLE"
    BY DEF InState
  <2> HIDE DEF free
  <2>5. Touched = Selected(free, n, FALSE)
    <3> DEFINE S == Selected(free, n, FALSE)
               locked == [state |-> "LOCKED", pid |-> call[c].proc]
    <3>1. page' = [p \in Pages |-> IF p \in S THEN locked ELSE page[p]]
      BY <2>2 DEF Mark
    <3>2. locked.state = "LOCKED"
      OBVIOUS
    <3>3. S \subseteq Pages /\ \A p \in S : page[p].state = "AVAILABLE"
      BY <1>1, <2>3, <2>4
    <3> HIDE DEF S, locked
    <3>4. \A p \in Pages : page'[p] # page[p] <=> p \in S
      BY <3>1, <3>2, <3>3
    <3>5. Touched = S
      BY <3>3, <3>4 DEF Touched
    <3> QED BY <3>5 DEF S
  <2> HIDE DEF n, cons
  <2>6. Cardinality(Touched) = n /\ 0 \notin Touched
    BY <1>1, <2>1, <2>5, SelectedCount
  <2> QED BY <2>6 DEF n
<1>3. CASE AcquireRefused(c)
  <2>1. ~ Succeeds(free, n, FALSE, cons) /\ UNCHANGED page
    BY <1>1, <1>3 DEF AcquireRefused, CanAcquire
  <2>2. Touched = {}
    BY <2>1 DEF Touched
  <2>3. ~ cons => Cardinality(free \ {0}) < n
    <3>1. ~ cons => ~ Enough(free, n, FALSE)
      BY <2>1 DEF Succeeds
    <3> HIDE DEF free, n, cons
    <3> QED BY <1>1, <3>1, RefusedCount
  <2> QED BY <2>2, <2>3
<1> QED BY <1>2, <1>3, AcquireReturns

(* Scanning upwards, an acquire locks exactly as many pages as it was asked *)
(* for, page 0 never among them, or none; one of scattered pages is refused *)
(* only when too few are free (page_allocator.c:246-385).                   *)
THEOREM AcquiresAreExact == Spec => AcquireExact
<1> DEFINE Exact(c) == InCall(c, "acquire") /\ pc'[c] = "idle" /\ ~ call[c].high =>
                         \/ Cardinality(Touched) = call[c].count /\ 0 \notin Touched
                         \/ /\ Touched = {}
                            /\ \/ call[c].consecutive
                               \/ Cardinality(InState("AVAILABLE") \ {0}) < call[c].count
<1>1. AllocatorInv /\ [Next]_vars => \A c \in Callers : Exact(c)
  BY ExactStep
<1> QED BY <1>1, AllocatorInvariant, PTL DEF Spec, AcquireExact
============================================================================
