---------------------------- MODULE StorageProofs ----------------------------
(***************************************************************************)
(* The parts of the previous kernel that hand out storage, for any number of   *)
(* units, pages, processes and vectors: no two blocks of the heap overlap, the  *)
(* kernel map and the page allocator agree on every page and on every counter,  *)
(* and a vector keeps what was put into it, whatever its buffers do.  First the  *)
(* spinlock under which their operations are one step, and which both kernels   *)
(* share: it excludes, masks and restores for any processors and locks.         *)
(***************************************************************************)
EXTENDS Spinlock, Heap, KernelMap, Vector, NumberLemmas

-----------------------------------------------------------------------------
(* The spinlock of spinlock.c.  SpinlockInv is inductive. *)

(* A context is known by its processor and its kind, and only one of the two *)
(* contexts of a processor runs.                                            *)
LEMMA ContextsFacts ==
  /\ \A x \in Contexts : Cpu(x) \in CPUs /\ x[2] \in {"thread", "handler"}
                         /\ x = <<Cpu(x), x[2]>>
  /\ \A c \in CPUs : /\ <<c, "thread">> \in Contexts /\ Cpu(<<c, "thread">>) = c
                     /\ <<c, "handler">> \in Contexts /\ Cpu(<<c, "handler">>) = c
                     /\ <<c, "thread">> # <<c, "handler">>
  /\ \A x, y \in Contexts :
       Running(x) /\ Running(y) /\ Cpu(x) = Cpu(y) => x = y
BY DEF Contexts, Cpu, Running

LEMMA UnsetIsALock == Unset \in Locks
BY LocksAssumption DEF Unset

(* Taking a lock above a set of locks, and the part of a set below one of    *)
(* its locks.                                                               *)
LEMMA AboveAll ==
  ASSUME NEW S \in SUBSET Locks, NEW l \in Locks, \A m \in S : m < l
  PROVE  /\ l \notin S
         /\ \A m \in S \union {l} : m <= l
         /\ \A k \in S : {m \in S \union {l} : m < k} = {m \in S : m < k}
<1>1. \A m \in S : m \in Nat /\ l \in Nat
  BY LocksAssumption
<1>2. l \notin S /\ \A m \in S \union {l} : m <= l
  BY <1>1, LocksAssumption
<1>3. ASSUME NEW k \in S PROVE {m \in S \union {l} : m < k} = {m \in S : m < k}
  <2>1. ~ (l < k)
    BY <1>1
  <2> QED BY <2>1
<1> QED BY <1>2, <1>3

LEMMA BelowTop ==
  ASSUME NEW S \in SUBSET Locks, NEW l \in S, \A m \in S : m <= l
  PROVE  /\ {m \in S : m < l} = S \ {l}
         /\ \A k \in S \ {l} : {m \in S \ {l} : m < k} = {m \in S : m < k}
<1>1. \A m \in S : m \in Nat /\ l \in Nat
  BY LocksAssumption
<1>2. \A m \in S : m < l <=> m # l
  BY <1>1
<1>3. ASSUME NEW k \in S \ {l} PROVE {m \in S \ {l} : m < k} = {m \in S : m < k}
  <2>1. ~ (l < k)
    BY <1>1
  <2> QED BY <2>1
<1> QED BY <1>2, <1>3

LEMMA InitInv == Init => SpinlockInv
<1> SUFFICES ASSUME Init PROVE SpinlockInv
  OBVIOUS
<1>1. TypeOK
  BY ContextsFacts, UnsetIsALock DEF Init, TypeOK, PCs
<1>2. MutualExclusion /\ HoldersMasked /\ InterruptsRestored
  BY ContextsFacts DEF Init, MutualExclusion, HoldersMasked, InterruptsRestored,
                       Masked, Running
<1>3. CallsOK /\ FieldsOK /\ HandlersOK /\ FlagsOK
  BY ContextsFacts DEF Init, CallsOK, FlagsOK, FieldsOK, HandlersOK
<1> QED BY <1>1, <1>2, <1>3 DEF SpinlockInv

LEMMA StepInv == SpinlockInv /\ [Next]_vars => SpinlockInv'
<1> SUFFICES ASSUME SpinlockInv, [Next]_vars PROVE SpinlockInv'
  OBVIOUS
<1> USE LocksAssumption, ContextsFacts, UnsetIsALock DEF SpinlockInv
<1>1. ASSUME NEW x \in Contexts, NEW l \in Locks, ReadFlags(x, l) PROVE SpinlockInv'
  <2>1. TypeOK'
    BY <1>1 DEF ReadFlags, TypeOK, PCs
  <2>2. FlagsOK'
    BY <1>1 DEF ReadFlags, FlagsOK, TypeOK, IsLocked
  <2>3. MutualExclusion'
    BY <1>1 DEF ReadFlags, MutualExclusion, FlagsOK, TypeOK, IsLocked
  <2>4. HoldersMasked'
    BY <1>1 DEF ReadFlags, HoldersMasked, Masked, Running, TypeOK, HandlersOK
  <2>5. InterruptsRestored'
    BY <1>1 DEF ReadFlags, InterruptsRestored, HoldersMasked, Masked, Running, TypeOK, HandlersOK, CallsOK, BitUnder
  <2>6. CallsOK'
    BY <1>1 DEF ReadFlags, CallsOK, TypeOK, BitUnder, InOrder, Innermost, FieldsOK, HoldersMasked, Masked, InterruptsRestored, Running
  <2>7. FieldsOK'
    BY <1>1 DEF ReadFlags, FieldsOK, CallsOK, FlagsOK, MutualExclusion, TypeOK, BitUnder, InOrder, Innermost
  <2>8. HandlersOK'
    <3> SUFFICES ASSUME NEW c \in CPUs, x = <<c, "handler">> PROVE inHandler[c]
      BY <1>1 DEF ReadFlags, HandlersOK, TypeOK
    <3> QED BY <1>1 DEF ReadFlags, Running
  <2> QED BY <2>1, <2>2, <2>3, <2>4, <2>5, <2>6, <2>7, <2>8
<1>2. ASSUME NEW x \in Contexts, NEW l \in Locks, LoadFlags(x, l) PROVE SpinlockInv'
  <2>1. TypeOK'
    BY <1>2 DEF LoadFlags, TypeOK, PCs
  <2>2. FlagsOK'
    BY <1>2 DEF LoadFlags, FlagsOK, TypeOK, IsLocked
  <2>3. MutualExclusion'
    BY <1>2 DEF LoadFlags, MutualExclusion, FlagsOK, TypeOK, IsLocked
  <2>4. HoldersMasked'
    BY <1>2 DEF LoadFlags, HoldersMasked, Masked, Running, TypeOK, HandlersOK
  <2>5. InterruptsRestored'
    BY <1>2 DEF LoadFlags, InterruptsRestored, HoldersMasked, Masked, Running, TypeOK, HandlersOK, CallsOK, BitUnder
  <2>6. CallsOK'
    <3>1. saved[l] = BitUnder(x, held[x] \ {l})
      <4>1. {m \in held[x] : m < l} = held[x] \ {l}
        BY <1>2, BelowTop DEF LoadFlags, Innermost, TypeOK
      <4> QED BY <1>2, <4>1 DEF LoadFlags, Innermost, FieldsOK
    <3>2. BitUnder(x, held[x] \ {l}) \in BOOLEAN
      BY DEF BitUnder
    <3> QED
      BY <1>2, <3>1, <3>2 DEF LoadFlags, CallsOK, TypeOK, BitUnder, InOrder, Innermost
  <2>7. FieldsOK'
    BY <1>2 DEF LoadFlags, FieldsOK, CallsOK, FlagsOK, MutualExclusion, TypeOK, BitUnder, InOrder, Innermost
  <2>8. HandlersOK'
    <3> SUFFICES ASSUME NEW c \in CPUs, x = <<c, "handler">> PROVE inHandler[c]
      BY <1>2 DEF LoadFlags, HandlersOK, TypeOK
    <3> QED BY <1>2 DEF LoadFlags, Running
  <2> QED BY <2>1, <2>2, <2>3, <2>4, <2>5, <2>6, <2>7, <2>8
<1>3. ASSUME NEW x \in Contexts, Disable(x) PROVE SpinlockInv'
  <2>1. TypeOK'
    BY <1>3 DEF Disable, TypeOK, PCs
  <2>2. FlagsOK'
    BY <1>3 DEF Disable, FlagsOK, TypeOK, IsLocked
  <2>3. MutualExclusion'
    BY <1>3 DEF Disable, MutualExclusion, FlagsOK, TypeOK, IsLocked
  <2>4. HoldersMasked'
    BY <1>3 DEF Disable, HoldersMasked, Masked, Running, TypeOK, HandlersOK
  <2>5. InterruptsRestored'
    <3> SUFFICES ASSUME NEW y \in Contexts, Running(y), pc'[y] \in {"idle", "entered"},
                        held[y] = {}
                 PROVE iflag'[Cpu(y)] = want[y]
      BY <1>3 DEF Disable, InterruptsRestored, Running
    <3>1. x # y
      BY <1>3 DEF Disable, TypeOK
    <3>2. Cpu(x) # Cpu(y)
      BY <1>3, <3>1 DEF Disable
    <3> QED BY <1>3, <3>1, <3>2 DEF Disable, InterruptsRestored, TypeOK
  <2>6. CallsOK'
    BY <1>3 DEF Disable, CallsOK, TypeOK, BitUnder, InOrder, Innermost, FieldsOK, HoldersMasked, Masked, InterruptsRestored, Running
  <2>7. FieldsOK'
    BY <1>3 DEF Disable, FieldsOK, CallsOK, FlagsOK, MutualExclusion, TypeOK, BitUnder, InOrder, Innermost
  <2>8. HandlersOK'
    BY <1>3 DEF Disable, HandlersOK, Running, TypeOK
  <2> QED BY <2>1, <2>2, <2>3, <2>4, <2>5, <2>6, <2>7, <2>8
<1>4. ASSUME NEW x \in Contexts, TestAndSet(x) PROVE SpinlockInv'
  <2>1. TypeOK'
    BY <1>4 DEF TestAndSet, TypeOK, PCs
  <2>2. FlagsOK'
    BY <1>4 DEF TestAndSet, FlagsOK, TypeOK, IsLocked
  <2>3. MutualExclusion'
    BY <1>4 DEF TestAndSet, MutualExclusion, FlagsOK, TypeOK, IsLocked
  <2>4. HoldersMasked'
    BY <1>4 DEF TestAndSet, HoldersMasked, Masked, Running, TypeOK, HandlersOK
  <2>5. InterruptsRestored'
    BY <1>4 DEF TestAndSet, InterruptsRestored, HoldersMasked, Masked, Running, TypeOK, HandlersOK, CallsOK, BitUnder
  <2>6. CallsOK'
    <3>1. target[x] \notin held[x] /\ \A m \in held[x] \union {target[x]} : m <= target[x]
      BY <1>4, AboveAll DEF TestAndSet, CallsOK, InOrder, TypeOK
    <3>2. held'[x] \ {target[x]} = held[x] /\ held'[x] = held[x] \union {target[x]}
      BY <1>4, <3>1 DEF TestAndSet, TypeOK
    <3>3. Innermost(x, target[x])'
      BY <1>4, <3>1, <3>2 DEF TestAndSet, Innermost
    <3>4. rf[x] = BitUnder(x, held[x])
      BY <1>4 DEF TestAndSet, CallsOK
    <3>5. ASSUME NEW y \in Contexts, y # x
          PROVE  /\ pc'[y] = pc[y] /\ held'[y] = held[y] /\ target'[y] = target[y]
                 /\ rf'[y] = rf[y] /\ want'[y] = want[y]
      BY <1>4, <3>5 DEF TestAndSet, TypeOK
    <3>6. pc'[x] = "store" /\ rf'[x] = rf[x] /\ target'[x] = target[x] /\ want'[x] = want[x]
      BY <1>4 DEF TestAndSet, TypeOK
    <3> QED
      BY <3>2, <3>3, <3>4, <3>5, <3>6 DEF CallsOK, BitUnder, InOrder, Innermost
  <2>7. FieldsOK'
    <3> SUFFICES ASSUME NEW y \in Contexts, NEW k \in held'[y],
                        ~ (pc'[y] = "store" /\ target'[y] = k)
                 PROVE saved[k] = BitUnder(y, {m \in held'[y] : m < k})
      BY <1>4 DEF TestAndSet, FieldsOK, BitUnder
    <3>1. k \in held[y] /\ ~ (pc[y] = "store" /\ target[y] = k)
      BY <1>4 DEF TestAndSet, TypeOK
    <3>2. {m \in held'[y] : m < k} = {m \in held[y] : m < k}
      <4>1. CASE y = x
        <5>1. held'[y] = held[x] \union {target[x]}
          BY <1>4, <4>1 DEF TestAndSet, TypeOK
        <5>2. \A m \in held[x] : m < target[x]
          BY <1>4 DEF TestAndSet, CallsOK, InOrder
        <5>3. held[x] \in SUBSET Locks /\ target[x] \in Locks /\ k \in held[x]
          BY <3>1, <4>1 DEF TypeOK
        <5>4. \A j \in held[x] :
                {m \in held[x] \union {target[x]} : m < j} = {m \in held[x] : m < j}
          BY <5>2, <5>3, AboveAll
        <5> QED BY <4>1, <5>1, <5>3, <5>4
      <4>2. CASE y # x
        BY <1>4, <4>2 DEF TestAndSet, TypeOK
      <4> QED BY <4>1, <4>2
    <3> QED BY <3>1, <3>2 DEF FieldsOK
  <2>8. HandlersOK'
    BY <1>4 DEF TestAndSet, HandlersOK, Running, TypeOK
  <2> QED BY <2>1, <2>2, <2>3, <2>4, <2>5, <2>6, <2>7, <2>8
<1>5. ASSUME NEW x \in Contexts, StoreFlags(x) PROVE SpinlockInv'
  <2>1. TypeOK'
    BY <1>5 DEF StoreFlags, TypeOK, PCs
  <2>2. FlagsOK'
    BY <1>5 DEF StoreFlags, FlagsOK, TypeOK, IsLocked
  <2>3. MutualExclusion'
    BY <1>5 DEF StoreFlags, MutualExclusion, FlagsOK, TypeOK, IsLocked
  <2>4. HoldersMasked'
    BY <1>5 DEF StoreFlags, HoldersMasked, Masked, Running, TypeOK, HandlersOK
  <2>5. InterruptsRestored'
    <3> SUFFICES ASSUME NEW y \in Contexts, Running(y), pc'[y] \in {"idle", "entered"},
                        held[y] = {}
                 PROVE iflag[Cpu(y)] = want[y]
      BY <1>5 DEF StoreFlags, InterruptsRestored, Running
    <3>1. x # y
      BY <1>5 DEF StoreFlags, CallsOK, Innermost
    <3> QED BY <1>5, <3>1 DEF StoreFlags, InterruptsRestored, TypeOK
  <2>6. CallsOK'
    BY <1>5 DEF StoreFlags, CallsOK, TypeOK, BitUnder, InOrder, Innermost, FieldsOK, HoldersMasked, Masked, InterruptsRestored, Running
  <2>7. FieldsOK'
    <3>1. /\ target[x] \in held[x]
          /\ rf[x] = BitUnder(x, held[x] \ {target[x]})
          /\ \A m \in held[x] : m <= target[x]
      BY <1>5 DEF StoreFlags, CallsOK, Innermost
    <3>2. {m \in held[x] : m < target[x]} = held[x] \ {target[x]}
      BY <3>1, BelowTop DEF TypeOK
    <3> SUFFICES ASSUME NEW y \in Contexts, NEW k \in held[y],
                        ~ (pc'[y] = "store" /\ target'[y] = k)
                 PROVE saved'[k] = BitUnder(y, {m \in held[y] : m < k})
      BY <1>5 DEF StoreFlags, FieldsOK, BitUnder
    <3>3. CASE y = x /\ k = target[x]
      BY <1>5, <3>1, <3>2, <3>3 DEF StoreFlags, TypeOK
    <3>4. CASE k # target[x]
      <4>1. saved'[k] = saved[k]
        BY <1>5, <3>4 DEF StoreFlags, TypeOK
      <4>2. ~ (pc[y] = "store" /\ target[y] = k)
        BY <1>5, <3>4 DEF StoreFlags, TypeOK
      <4> QED BY <4>1, <4>2 DEF FieldsOK
    <3>5. k = target[x] => y = x
      BY <3>1 DEF MutualExclusion
    <3> QED BY <3>3, <3>4, <3>5
  <2>8. HandlersOK'
    BY <1>5 DEF StoreFlags, HandlersOK, Running, TypeOK
  <2> QED BY <2>1, <2>2, <2>3, <2>4, <2>5, <2>6, <2>7, <2>8
<1>6. ASSUME NEW x \in Contexts, ClearFlag(x) PROVE SpinlockInv'
  <2>1. TypeOK'
    BY <1>6 DEF ClearFlag, TypeOK, PCs
  <2>2. FlagsOK'
    <3>1. target[x] \in held[x]
      BY <1>6 DEF ClearFlag, CallsOK, Innermost
    <3> QED BY <1>6, <3>1 DEF ClearFlag, FlagsOK, MutualExclusion, TypeOK
  <2>3. MutualExclusion'
    BY <1>6 DEF ClearFlag, MutualExclusion, FlagsOK, TypeOK, IsLocked
  <2>4. HoldersMasked'
    <3>1. target[x] \in held[x]
      BY <1>6 DEF ClearFlag, CallsOK, Innermost
    <3> QED BY <1>6, <3>1 DEF ClearFlag, HoldersMasked, Masked, Running, TypeOK
  <2>5. InterruptsRestored'
    BY <1>6 DEF ClearFlag, InterruptsRestored, HoldersMasked, Masked, Running, TypeOK, HandlersOK, CallsOK, BitUnder
  <2>6. CallsOK'
    BY <1>6 DEF ClearFlag, CallsOK, TypeOK, BitUnder, InOrder, Innermost, FieldsOK, HoldersMasked, Masked, InterruptsRestored, Running
  <2>7. FieldsOK'
    <3>1. \A m \in held[x] : m <= target[x]
      BY <1>6 DEF ClearFlag, CallsOK, Innermost
    <3> SUFFICES ASSUME NEW y \in Contexts, NEW k \in held'[y],
                        ~ (pc'[y] = "store" /\ target'[y] = k)
                 PROVE saved[k] = BitUnder(y, {m \in held'[y] : m < k})
      BY <1>6 DEF ClearFlag, FieldsOK, BitUnder
    <3>2. k \in held[y] /\ ~ (pc[y] = "store" /\ target[y] = k)
      BY <1>6 DEF ClearFlag, TypeOK
    <3>3. {m \in held'[y] : m < k} = {m \in held[y] : m < k}
      <4>1. CASE y = x
        <5>1. held'[y] = held[x] \ {target[x]}
          BY <1>6, <4>1 DEF ClearFlag, TypeOK
        <5>2. target[x] \in held[x]
          BY <1>6 DEF ClearFlag, CallsOK, Innermost
        <5>3. held[x] \in SUBSET Locks /\ k \in held[x] \ {target[x]}
          BY <4>1, <5>1 DEF TypeOK
        <5>4. \A j \in held[x] \ {target[x]} :
                {m \in held[x] \ {target[x]} : m < j} = {m \in held[x] : m < j}
          BY <3>1, <5>2, <5>3, BelowTop
        <5> QED BY <4>1, <5>1, <5>3, <5>4
      <4>2. CASE y # x
        BY <1>6, <4>2 DEF ClearFlag, TypeOK
      <4> QED BY <4>1, <4>2
    <3> QED BY <3>2, <3>3 DEF FieldsOK
  <2>8. HandlersOK'
    BY <1>6 DEF ClearFlag, HandlersOK, Running, TypeOK
  <2> QED BY <2>1, <2>2, <2>3, <2>4, <2>5, <2>6, <2>7, <2>8
<1>7. ASSUME NEW x \in Contexts, RestoreFlags(x) PROVE SpinlockInv'
  <2>1. TypeOK'
    BY <1>7 DEF RestoreFlags, TypeOK, PCs
  <2>2. FlagsOK'
    BY <1>7 DEF RestoreFlags, FlagsOK, TypeOK, IsLocked
  <2>3. MutualExclusion'
    BY <1>7 DEF RestoreFlags, MutualExclusion, FlagsOK, TypeOK, IsLocked
  <2>4. HoldersMasked'
    <3> SUFFICES ASSUME NEW y \in Contexts, Masked(y)'
                 PROVE Running(y) /\ ~ iflag'[Cpu(y)]
      BY <1>7 DEF RestoreFlags, HoldersMasked, Running
    <3>1. Masked(y) /\ Running(y) /\ ~ iflag[Cpu(y)]
      BY <1>7 DEF RestoreFlags, HoldersMasked, Masked, TypeOK
    <3>2. CASE y = x
      <4>1. held[x] # {}
        BY <1>7, <3>2 DEF RestoreFlags, Masked, TypeOK
      <4>2. ~ rf[x]
        BY <1>7, <4>1 DEF RestoreFlags, CallsOK, BitUnder
      <4> QED BY <1>7, <3>1, <3>2, <4>2 DEF RestoreFlags, TypeOK
    <3>3. CASE y # x
      BY <1>7, <3>1, <3>3 DEF RestoreFlags, TypeOK
    <3> QED BY <3>2, <3>3
  <2>5. InterruptsRestored'
    <3> SUFFICES ASSUME NEW y \in Contexts, Running(y), pc'[y] \in {"idle", "entered"},
                        held[y] = {}
                 PROVE iflag'[Cpu(y)] = want[y]
      BY <1>7 DEF RestoreFlags, InterruptsRestored, Running
    <3>1. CASE y = x
      <4>1. rf[x] = want[x]
        BY <1>7, <3>1 DEF RestoreFlags, CallsOK, BitUnder, TypeOK
      <4> QED BY <1>7, <3>1, <4>1 DEF RestoreFlags, TypeOK
    <3>2. CASE y # x
      <4>1. Cpu(x) # Cpu(y)
        BY <1>7, <3>2 DEF RestoreFlags
      <4> QED BY <1>7, <3>2, <4>1 DEF RestoreFlags, InterruptsRestored, TypeOK
    <3> QED BY <3>1, <3>2
  <2>6. CallsOK'
    BY <1>7 DEF RestoreFlags, CallsOK, TypeOK, BitUnder, InOrder, Innermost, FieldsOK, HoldersMasked, Masked, InterruptsRestored, Running
  <2>7. FieldsOK'
    BY <1>7 DEF RestoreFlags, FieldsOK, CallsOK, FlagsOK, MutualExclusion, TypeOK, BitUnder, InOrder, Innermost
  <2>8. HandlersOK'
    BY <1>7 DEF RestoreFlags, HandlersOK, Running, TypeOK
  <2> QED BY <2>1, <2>2, <2>3, <2>4, <2>5, <2>6, <2>7, <2>8
<1>8. ASSUME NEW c \in CPUs, Interrupt(c) PROVE SpinlockInv'
  <2>1. TypeOK'
    BY <1>8 DEF Interrupt, TypeOK, PCs
  <2>2. FlagsOK'
    BY <1>8 DEF Interrupt, FlagsOK, TypeOK, IsLocked
  <2>3. MutualExclusion'
    BY <1>8 DEF Interrupt, MutualExclusion, FlagsOK, TypeOK, IsLocked
  <2>4. HoldersMasked'
    BY <1>8 DEF Interrupt, HoldersMasked, Masked, Running, TypeOK, HandlersOK
  <2>5. InterruptsRestored'
    <3> SUFFICES ASSUME NEW y \in Contexts, Running(y)', pc[y] \in {"idle", "entered"},
                        held[y] = {}
                 PROVE iflag'[Cpu(y)] = want[y]
      BY <1>8 DEF Interrupt, InterruptsRestored
    <3>1. CASE Cpu(y) = c
      <4>1. y = <<c, "handler">>
        BY <1>8, <3>1 DEF Interrupt, Running, TypeOK
      <4> QED BY <1>8, <3>1, <4>1 DEF Interrupt, HandlersOK, TypeOK
    <3>2. CASE Cpu(y) # c
      BY <1>8, <3>2 DEF Interrupt, InterruptsRestored, Running, TypeOK
    <3> QED BY <3>1, <3>2
  <2>6. CallsOK'
    BY <1>8 DEF Interrupt, CallsOK, TypeOK, BitUnder, InOrder, Innermost, FieldsOK, HoldersMasked, Masked, InterruptsRestored, Running
  <2>7. FieldsOK'
    BY <1>8 DEF Interrupt, FieldsOK, CallsOK, FlagsOK, MutualExclusion, TypeOK, BitUnder, InOrder, Innermost
  <2>8. HandlersOK'
    <3>1. want[<<c, "thread">>]
      <4>1. Running(<<c, "thread">>) /\ iflag[c]
        BY <1>8 DEF Interrupt, Running
      <4>2. ~ Masked(<<c, "thread">>)
        BY <4>1 DEF HoldersMasked
      <4>3. pc[<<c, "thread">>] \in {"idle", "entered"}
        BY <4>2 DEF CallsOK, Innermost, Masked, TypeOK, PCs
      <4> QED BY <4>1, <4>2, <4>3 DEF InterruptsRestored, Masked, TypeOK
    <3> QED BY <1>8, <3>1 DEF Interrupt, HandlersOK, TypeOK
  <2> QED BY <2>1, <2>2, <2>3, <2>4, <2>5, <2>6, <2>7, <2>8
<1>9. ASSUME NEW c \in CPUs, Return(c) PROVE SpinlockInv'
  <2>1. TypeOK'
    BY <1>9 DEF Return, TypeOK, PCs
  <2>2. FlagsOK'
    BY <1>9 DEF Return, FlagsOK, TypeOK, IsLocked
  <2>3. MutualExclusion'
    BY <1>9 DEF Return, MutualExclusion, FlagsOK, TypeOK, IsLocked
  <2>4. HoldersMasked'
    BY <1>9 DEF Return, HoldersMasked, Masked, Running, TypeOK, HandlersOK
  <2>5. InterruptsRestored'
    <3> SUFFICES ASSUME NEW y \in Contexts, Running(y)', pc[y] \in {"idle", "entered"},
                        held[y] = {}
                 PROVE iflag'[Cpu(y)] = want[y]
      BY <1>9 DEF Return, InterruptsRestored
    <3>1. CASE Cpu(y) = c
      <4>1. y = <<c, "thread">>
        BY <1>9, <3>1 DEF Return, Running, TypeOK
      <4> QED BY <1>9, <3>1, <4>1 DEF Return, HandlersOK, TypeOK
    <3>2. CASE Cpu(y) # c
      BY <1>9, <3>2 DEF Return, InterruptsRestored, Running, TypeOK
    <3> QED BY <3>1, <3>2
  <2>6. CallsOK'
    BY <1>9 DEF Return, CallsOK, TypeOK, BitUnder, InOrder, Innermost, FieldsOK, HoldersMasked, Masked, InterruptsRestored, Running
  <2>7. FieldsOK'
    BY <1>9 DEF Return, FieldsOK, CallsOK, FlagsOK, MutualExclusion, TypeOK, BitUnder, InOrder, Innermost
  <2>8. HandlersOK'
    <3>1. inHandler' = [inHandler EXCEPT ![c] = FALSE] /\ UNCHANGED <<pc, held, want>>
      BY <1>9 DEF Return
    <3>2. pc[<<c, "handler">>] = "idle" /\ held[<<c, "handler">>] = {}
      BY <1>9 DEF Return
    <3> QED BY <3>1, <3>2 DEF HandlersOK, TypeOK
  <2> QED BY <2>1, <2>2, <2>3, <2>4, <2>5, <2>6, <2>7, <2>8
<1>10. ASSUME NEW c \in CPUs, NEW on \in BOOLEAN, SetInterrupts(c, on) PROVE SpinlockInv'
  <2>1. TypeOK'
    BY <1>10 DEF SetInterrupts, TypeOK, PCs
  <2>2. FlagsOK'
    BY <1>10 DEF SetInterrupts, FlagsOK, TypeOK, IsLocked
  <2>3. MutualExclusion'
    BY <1>10 DEF SetInterrupts, MutualExclusion, FlagsOK, TypeOK, IsLocked
  <2>4. HoldersMasked'
    BY <1>10, ZenonT(40) DEF SetInterrupts, HoldersMasked, Masked, Running, TypeOK, HandlersOK
  <2>5. InterruptsRestored'
    BY <1>10 DEF SetInterrupts, InterruptsRestored, HoldersMasked, Masked, Running, TypeOK, HandlersOK, CallsOK, BitUnder
  <2>6. CallsOK'
    BY <1>10 DEF SetInterrupts, CallsOK, TypeOK, BitUnder, InOrder, Innermost, FieldsOK, HoldersMasked, Masked, InterruptsRestored, Running
  <2>7. FieldsOK'
    <3>1. held[<<c, "thread">>] = {}
      BY <1>10 DEF SetInterrupts
    <3> SUFFICES ASSUME NEW y \in Contexts, NEW k \in held[y],
                        ~ (pc[y] = "store" /\ target[y] = k)
                 PROVE saved[k] = BitUnder(y, {m \in held[y] : m < k})'
      BY <1>10 DEF SetInterrupts, FieldsOK
    <3>2. want'[y] = want[y] /\ held'[y] = held[y]
      BY <1>10, <3>1 DEF SetInterrupts, TypeOK
    <3>3. saved[k] = BitUnder(y, {m \in held[y] : m < k})
      BY DEF FieldsOK
    <3> QED BY <3>2, <3>3 DEF BitUnder
  <2>8. HandlersOK'
    <3>1. ~ inHandler[c]
      BY <1>10 DEF SetInterrupts, Running
    <3> QED BY <1>10, <3>1 DEF SetInterrupts, HandlersOK, TypeOK
  <2> QED BY <2>1, <2>2, <2>3, <2>4, <2>5, <2>6, <2>7, <2>8
<1>11. CASE UNCHANGED vars
  BY <1>11 DEF vars, TypeOK, FlagsOK, MutualExclusion, HoldersMasked, Masked,
     Running, InterruptsRestored, CallsOK, FieldsOK, HandlersOK, InOrder, Innermost, BitUnder
<1> QED
  BY <1>1, <1>2, <1>3, <1>4, <1>5, <1>6, <1>7, <1>8, <1>9, <1>10, <1>11
  DEF Next, Call, Inside, Processor

(* Every reachable state of the spinlock satisfies the inductive invariant. *)
THEOREM SpinlockInvariant == Spec => []SpinlockInv
BY InitInv, StepInv, PTL DEF Spec

(* At most one context is between test-and-set and clear of a lock.         *)
THEOREM SpinlockExcludes == Spec => []MutualExclusion
BY SpinlockInvariant, PTL DEF SpinlockInv

(* From cli to popfq a context runs undisturbed, interrupts off.            *)
THEOREM SpinlockMasks == Spec => []HoldersMasked
BY SpinlockInvariant, PTL DEF SpinlockInv

(* The interrupt bit comes back as it was before the outermost acquire.     *)
THEOREM SpinlockRestores == Spec => []InterruptsRestored
BY SpinlockInvariant, PTL DEF SpinlockInv

-----------------------------------------------------------------------------
(* The heap of kheap.c.  Its tags are a set T of units that are chained by     *)
(* their next fields; memory also holds tags that have left T, and prev fields  *)
(* still name some of these.                                                  *)

HeapTypes ==
  /\ mem \in [Units -> [next : Int, prev : Int, present : BOOLEAN]]
  /\ scan \in [size : Nat, pos : Int, movelow : BOOLEAN]
  /\ blocks \subseteq [at : Int, size : Nat]

(* Each tag leads to the next one above it, unless that was unmapped, or is the *)
(* last, which is free.                                                       *)
TagsChained(T) ==
  \A t \in T :
    /\ PageOf(t) \in mapped /\ mem[t] # Junk
    /\ mem[t].next = 0 => ~ mem[t].present /\ \A s \in T : s <= t
    /\ mem[t].next # 0 =>
         /\ t < mem[t].next /\ mem[t].next \in Units
         /\ mem[t].next \in T \/ mem[mem[t].next] = Junk
         /\ \A s \in T : s <= t \/ mem[t].next <= s

(* A block lies between its tag and the next.                                 *)
BlocksTagged(T) ==
  \A b \in blocks :
    /\ b.at \in T /\ mem[b.at].present /\ mem[b.at].next = b.at + 1 + b.size
    /\ \A u \in Extent(b) : PageOf(u) \in mapped
    /\ \A u \in Extent(b) \ {b.at} : mem[u] = Junk

(* The prev field of a tag may skip tags, or name what is none any more, but it  *)
(* skips no block, and what is no tag lies above the lowest.                   *)
TagsBehind(T) ==
  \A t \in T : mem[t].prev # t =>
    /\ mem[t].prev < t
    /\ \A c \in blocks : c.at <= mem[t].prev \/ t <= c.at
    /\ mem[t].prev \notin T => lowest < mem[t].prev

(* A search begins at a free tag and stays among the tags.                     *)
SearchInside(T) ==
  /\ lowest \in T /\ ~ mem[lowest].present
  /\ scan # NoScan =>
       /\ ~ scan.movelow
       /\ scan.pos \in Units /\ (scan.pos \in T \/ mem[scan.pos] = Junk)

SoundTags(T) ==
  /\ T \subseteq Units
  /\ TagsChained(T) /\ BlocksTagged(T) /\ TagsBehind(T) /\ SearchInside(T)

HeapKept == HeapTypes /\ \E T : SoundTags(T)

LEMMA UnitsNumbers == Units \subseteq Nat /\ 0 \in Units
<1>1. PageUnits \in Nat \ {0} /\ HeapPages \in Nat \ {0}
  BY HeapAssumption
<1>2. HeapPages * PageUnits \in Nat /\ PageUnits <= HeapPages * PageUnits
  BY <1>1, TimesMonotone, 1 \in Nat, 1 <= HeapPages, 1 * PageUnits = PageUnits
<1> QED BY <1>1, <1>2 DEF Units

LEMMA UnitsBelow ==
  ASSUME NEW v \in Units, NEW u \in Nat, u <= v
  PROVE  u \in Units
<1>1. HeapPages * PageUnits \in Int
  BY HeapAssumption
<1> QED BY <1>1 DEF Units

TagType == [next : Int, prev : Int, present : BOOLEAN]

LEMMA TagTaken ==
  ASSUME NEW r \in TagType, NEW e \in Int, NEW f, f = [r EXCEPT !.next = e, !.present = TRUE]
  PROVE  f \in TagType /\ f.next = e /\ f.prev = r.prev /\ f.present = TRUE
BY DEF TagType

LEMMA PagesOrdered ==
  ASSUME NEW u \in Int, NEW v \in Int
  PROVE  /\ PageOf(u) \in Int /\ PageOf(v) \in Int
         /\ u <= v => PageOf(u) <= PageOf(v)
<1>1. PageUnits \in Nat /\ PageUnits > 0
  BY HeapAssumption
<1> QED BY <1>1 DEF PageOf

(* The tags lie outside the blocks.                                           *)
LEMMA BlocksBetween ==
  ASSUME NEW T, HeapTypes, SoundTags(T), NEW b \in blocks, NEW t \in T
  PROVE  /\ b.at \in Nat /\ b.size \in Nat
         /\ t <= b.at \/ b.at + b.size < t
<1>1. b.at \in T /\ b.size \in Nat /\ mem[b.at].next = b.at + 1 + b.size
  BY DEF SoundTags, BlocksTagged, HeapTypes
<1>2. b.at \in Nat /\ t \in Nat
  BY <1>1, UnitsNumbers DEF SoundTags
<1>3. mem[b.at].next # 0
  BY <1>1, <1>2
<1>4. t <= b.at \/ mem[b.at].next <= t
  BY <1>1, <1>3 DEF SoundTags, TagsChained
<1> QED BY <1>1, <1>2, <1>4

(* Two blocks have two tags.                                                  *)
LEMMA BlocksDistinct ==
  ASSUME NEW T, HeapTypes, SoundTags(T), NEW b \in blocks, NEW c \in blocks, b.at = c.at
  PROVE  b = c
<1>1. b \in [at : Int, size : Nat] /\ c \in [at : Int, size : Nat]
  BY DEF HeapTypes
<1>2. b.at + 1 + b.size = b.at + 1 + c.size
  BY DEF SoundTags, BlocksTagged
<1>3. b.size = c.size
  BY <1>1, <1>2
<1> QED BY <1>1, <1>3

LEMMA KeptApart == HeapKept => BlocksApart
<1> SUFFICES ASSUME HeapTypes, NEW T, SoundTags(T), NEW b \in blocks
             PROVE  /\ \A u \in Extent(b) : PageOf(u) \in mapped
                    /\ mem[b.at] # Junk /\ mem[b.at].present
                    /\ \A u \in Extent(b) \ {b.at} : mem[u] = Junk
                    /\ \A c \in blocks \ {b} : Extent(b) \intersect Extent(c) = {}
  BY DEF HeapKept, BlocksApart
<1>1. b.at \in T
  BY DEF SoundTags, BlocksTagged
<1>2. mem[b.at] # Junk
  BY <1>1 DEF SoundTags, TagsChained
<1>3. ASSUME NEW c \in blocks \ {b} PROVE Extent(b) \intersect Extent(c) = {}
  <2>1. b.at # c.at
    BY BlocksDistinct
  <2>2. c.at \in T
    BY DEF SoundTags, BlocksTagged
  <2>3. /\ b.at \in Nat /\ b.size \in Nat /\ c.at \in Nat /\ c.size \in Nat
        /\ b.at <= c.at \/ c.at + c.size < b.at
        /\ c.at <= b.at \/ b.at + b.size < c.at
    BY <1>1, <2>2, BlocksBetween
  <2> QED BY <2>1, <2>3 DEF Extent
<1> QED BY <1>2, <1>3 DEF SoundTags, BlocksTagged

-----------------------------------------------------------------------------
LEMMA HeapStarts == HeapInit => HeapKept
<1> SUFFICES ASSUME HeapInit PROVE HeapKept
  OBVIOUS
<1>1. mem = [u \in Units |-> IF u = 0 THEN EndTag(0) ELSE Junk]
  BY DEF HeapInit
<1>2. 0 \in Units /\ mem[0] = EndTag(0) /\ PageOf(0) = 0
  BY <1>1, UnitsNumbers, HeapAssumption DEF PageOf
<1>3. EndTag(0) # Junk /\ EndTag(0).next = 0 /\ EndTag(0).prev = 0 /\ EndTag(0).present = FALSE
  BY DEF EndTag, Junk
<1>4. HeapTypes
  BY <1>1 DEF HeapInit, HeapTypes, EndTag, Junk, NoScan
<1>5. SoundTags({0})
  BY <1>2, <1>3 DEF HeapInit, SoundTags, TagsChained, BlocksTagged, TagsBehind, SearchInside
<1> QED BY <1>4, <1>5 DEF HeapKept

(* Steps of a search that look at a tag and go on.                            *)
LEMMA SearchGoesOn ==
  ASSUME NEW T, HeapTypes, SoundTags(T),
         UNCHANGED <<mem, mapped, blocks, lowest>>,
         scan' \in [size : Nat, pos : Int, movelow : BOOLEAN], ~ scan'.movelow,
         scan'.pos \in Units, scan'.pos \in T \/ mem[scan'.pos] = Junk
  PROVE  HeapKept'
<1>1. HeapTypes'
  BY DEF HeapTypes
<1>2. TagsChained(T)' /\ TagsBehind(T)'
  BY DEF SoundTags, TagsChained, TagsBehind
<1>3. BlocksTagged(T)'
  BY DEF SoundTags, BlocksTagged, Extent
<1>4. SearchInside(T)'
  BY DEF SoundTags, SearchInside
<1>5. SoundTags(T)'
  BY <1>2, <1>3, <1>4 DEF SoundTags
<1> QED BY <1>1, <1>5 DEF HeapKept

LEMMA AllocKeeps ==
  ASSUME HeapKept, NEW size \in Sizes, Alloc(size)
  PROVE  HeapKept'
<1>1. PICK T : SoundTags(T)
  BY DEF HeapKept
<1>2. lowest \in T /\ lowest \in Units /\ lowest \in Int /\ size \in Nat
  BY <1>1, HeapAssumption, UnitsNumbers DEF SoundTags, SearchInside
<1>3. scan' = [size |-> size, pos |-> lowest, movelow |-> FALSE]
  BY DEF Alloc
<1>4. HeapTypes /\ UNCHANGED <<mem, mapped, blocks, lowest>>
  BY DEF HeapKept, Alloc
<1> QED BY <1>1, <1>2, <1>3, <1>4, SearchGoesOn

(* The tag that a search looks at.                                            *)
LEMMA AtTag ==
  ASSUME NEW T, HeapTypes, SoundTags(T), Scanning
  PROVE  /\ scan.pos \in T /\ scan.pos \in Units /\ ~ scan.movelow
         /\ scan.pos # lowest \/ ~ mem[scan.pos].present
BY DEF SoundTags, SearchInside, Scanning, IsTag

LEMMA SkipKeeps ==
  ASSUME HeapKept, SkipPresent \/ PassTooSmall
  PROVE  HeapKept'
<1>1. PICK T : SoundTags(T)
  BY DEF HeapKept
<1>2. HeapTypes /\ Scanning /\ UNCHANGED <<mem, mapped, blocks, lowest>>
  BY DEF HeapKept, SkipPresent, PassTooSmall, FreeAt
<1>3. scan.pos \in T /\ scan.pos \in Units /\ ~ scan.movelow
  BY <1>1, <1>2, AtTag
<1>4. mem[scan.pos].next # 0
  BY <1>1, <1>3 DEF SkipPresent, PassTooSmall, FreeAt, IsLast, SoundTags, TagsChained
<1>5. mem[scan.pos].next \in Units /\ (mem[scan.pos].next \in T \/ mem[mem[scan.pos].next] = Junk)
  BY <1>1, <1>3, <1>4 DEF SoundTags, TagsChained
<1>6. scan \in [size : Nat, pos : Int, movelow : BOOLEAN] /\ mem[scan.pos].next \in Int
  BY <1>2, <1>3 DEF HeapTypes
<1>7. scan'.pos = mem[scan.pos].next /\ ~ scan'.movelow
      /\ scan' \in [size : Nat, pos : Int, movelow : BOOLEAN]
  <2>1. CASE PassTooSmall
    BY <2>1, <1>3, <1>6 DEF PassTooSmall
  <2>2. CASE SkipPresent
    <3>1. mem[scan.pos].present /\ scan.pos # lowest
      BY <2>2, <1>1, <1>2, AtTag DEF SkipPresent
    <3> QED BY <2>2, <3>1, <1>3, <1>6 DEF SkipPresent
  <2> QED BY <2>1, <2>2
<1> QED BY <1>1, <1>2, <1>5, <1>7, SearchGoesOn


(* The last tag becomes a block's, and another is written behind the block.    *)
LEMMA TakeEndKeeps ==
  ASSUME HeapKept, TakeEnd
  PROVE  HeapKept'
<1>1. PICK T : SoundTags(T)
  BY DEF HeapKept
<1>2. HeapTypes /\ Scanning
  BY DEF HeapKept, TakeEnd
<1>3. PICK at : at = scan.pos
  OBVIOUS
<1>4. PICK size : size = scan.size
  OBVIOUS
<1>5. PICK end : end = at + 1 + size
  OBVIOUS
<1>6. PICK new : new = PagesTo(at, end)
  OBVIOUS
<1>7. /\ at \in T /\ at \in Units /\ ~ scan.movelow
      /\ ~ mem[at].present /\ mem[at].next = 0 /\ end \in Units
  BY <1>1, <1>2, <1>3, <1>4, <1>5, AtTag DEF TakeEnd, IsLast
<1>8. /\ mem' = [u \in Units |->
                   CASE u = at  -> [mem[at] EXCEPT !.next = end, !.present = TRUE]
                     [] u = end -> EndTag(at)
                     [] u \in at + 1 .. end - 1 -> Junk
                     [] OTHER   -> Lost(mem, new)[u]]
      /\ mapped' = mapped \union new
      /\ lowest' = IF lowest = at THEN end ELSE lowest
      /\ blocks' = blocks \union {[at |-> at, size |-> size]}
      /\ scan' = NoScan
  BY <1>3, <1>4, <1>5, <1>6, <1>7 DEF TakeEnd
<1>9. /\ at \in Nat /\ size \in Nat /\ end \in Nat /\ at < end
      /\ Units \subseteq Nat /\ T \subseteq Units
      /\ mem \in [Units -> [next : Int, prev : Int, present : BOOLEAN]]
  BY <1>1, <1>2, <1>3, <1>4, <1>5, <1>7, UnitsNumbers DEF HeapTypes, SoundTags
<1>10. \A s \in T : s <= at
  BY <1>1, <1>7 DEF SoundTags, TagsChained
(* What is below the tag stays, what is mapped is mapped.                     *)
<1>11. ASSUME NEW u \in Units, u < at PROVE mem'[u] = mem[u]
  <2>1. u \in Nat /\ PageOf(u) \in Int /\ PageOf(at) \in Int /\ PageOf(u) <= PageOf(at)
    BY <1>9, <1>11, PagesOrdered
  <2>2. PageOf(u) \notin new
    BY <2>1, <1>6 DEF PagesTo
  <2> QED BY <2>1, <2>2, <1>8, <1>9, <1>11 DEF Lost
<1>12. mem'[at] = [mem[at] EXCEPT !.next = end, !.present = TRUE] /\ mem'[end] = EndTag(at)
  BY <1>7, <1>8, <1>9
<1>13. /\ mem'[at].next = end /\ mem'[at].present /\ mem'[at].prev = mem[at].prev
       /\ mem'[end].next = 0 /\ ~ mem'[end].present /\ mem'[end].prev = at
       /\ mem'[at] # Junk /\ mem'[end] # Junk
  <2>1. mem[at] \in [next : Int, prev : Int, present : BOOLEAN]
    BY <1>7, <1>9
  <2>3. mem'[at].next = end /\ mem'[at].prev = mem[at].prev /\ mem'[at].present = TRUE
    BY <1>9, <1>12, <2>1, TagTaken DEF TagType
  <2>2. /\ EndTag(at).next = 0 /\ ~ EndTag(at).present /\ EndTag(at).prev = at
        /\ Junk.present = FALSE /\ Junk.next = -1
    BY DEF EndTag, Junk
  <2>4. mem'[at] # Junk
    BY <2>2, <2>3
  <2>5. mem'[end] # Junk /\ mem'[end].next = 0 /\ ~ mem'[end].present /\ mem'[end].prev = at
    BY <1>12, <2>2
  <2> QED BY <2>3, <2>4, <2>5
<1>14. ASSUME NEW u \in Units, at <= u, u <= end PROVE PageOf(u) \in mapped'
  <2>1. /\ u \in Nat /\ PageOf(u) \in Int /\ PageOf(at) \in Int /\ PageOf(end) \in Int
        /\ PageOf(at) <= PageOf(u) /\ PageOf(u) <= PageOf(end)
    BY <1>9, <1>14, PagesOrdered
  <2>2. PageOf(at) \in mapped
    BY <1>1, <1>7 DEF SoundTags, TagsChained
  <2>3. PageOf(u) \in new \/ PageOf(u) = PageOf(at)
    BY <2>1, <1>6 DEF PagesTo
  <2> QED BY <2>2, <2>3, <1>8
<1>15. HeapTypes'
  <2>1. mem' \in [Units -> [next : Int, prev : Int, present : BOOLEAN]]
    <3>1. [mem[at] EXCEPT !.next = end, !.present = TRUE] \in [next : Int, prev : Int, present : BOOLEAN]
      <4>1. mem[at] \in TagType /\ end \in Int
        BY <1>7, <1>9 DEF TagType
      <4>2. PICK f : f = [mem[at] EXCEPT !.next = end, !.present = TRUE]
        OBVIOUS
      <4>3. f \in TagType
        BY <4>1, <4>2, TagTaken
      <4> QED BY <4>2, <4>3 DEF TagType
    <3>2. EndTag(at) \in [next : Int, prev : Int, present : BOOLEAN]
          /\ Junk \in [next : Int, prev : Int, present : BOOLEAN]
      BY <1>9 DEF EndTag, Junk
    <3>3. \A u \in Units : Lost(mem, new)[u] \in [next : Int, prev : Int, present : BOOLEAN]
      BY <3>2, <1>9 DEF Lost
    <3> QED BY <3>1, <3>2, <3>3, <1>8
  <2>2. [at |-> at, size |-> size] \in [at : Int, size : Nat]
    BY <1>9
  <2>3. blocks' \subseteq [at : Int, size : Nat]
    BY <2>2, <1>2, <1>8 DEF HeapTypes
  <2>4. scan' \in [size : Nat, pos : Int, movelow : BOOLEAN]
    BY <1>8 DEF NoScan
  <2> QED BY <2>1, <2>3, <2>4 DEF HeapTypes
<1>16. PICK S : S = T \union {end}
  OBVIOUS
<1>17. S \subseteq Units
  BY <1>7, <1>9, <1>16
<1>18. TagsChained(S)'
  <2>1. ASSUME NEW t \in S, t # at, t # end
        PROVE  /\ t \in T /\ t < at /\ mem'[t] = mem[t]
               /\ mem[t].next # 0 /\ t < mem[t].next /\ mem[t].next \in Units
               /\ mem[t].next <= at
    <3>1. t \in T /\ t < at /\ t \in Units
      BY <2>1, <1>9, <1>10, <1>16
    <3>2. mem[t].next # 0 /\ t < mem[t].next /\ mem[t].next \in Units
      BY <3>1, <1>1, <1>7, <1>9 DEF SoundTags, TagsChained
    <3>3. mem[t].next <= at
      BY <3>1, <3>2, <1>1, <1>7, <1>9 DEF SoundTags, TagsChained
    <3> QED BY <3>1, <3>2, <3>3, <1>11
  <2>2. ASSUME NEW t \in S, t # at, t # end
        PROVE  /\ PageOf(t) \in mapped' /\ mem'[t] # Junk
               /\ mem[t].next \in S \/ mem'[mem[t].next] = Junk
               /\ \A s \in S : s <= t \/ mem[t].next <= s
    <3>1. t \in T /\ mem'[t] = mem[t] /\ mem[t].next \in Units /\ mem[t].next <= at /\ mem[t].next # 0
      BY <2>1, <2>2
    <3>2. PageOf(t) \in mapped /\ mem[t] # Junk
      BY <3>1, <1>1 DEF SoundTags, TagsChained
    <3>3. mem[t].next \in T \/ mem[mem[t].next] = Junk
      BY <3>1, <1>1 DEF SoundTags, TagsChained
    <3>4. mem[t].next \in S \/ mem'[mem[t].next] = Junk
      <4>1. CASE mem[t].next = at
        BY <4>1, <1>7, <1>16
      <4>2. CASE mem[t].next < at
        BY <4>2, <3>1, <3>3, <1>11, <1>16
      <4> QED BY <4>1, <4>2, <3>1, <1>9
    <3>5. \A s \in T : s <= t \/ mem[t].next <= s
      BY <3>1, <1>1 DEF SoundTags, TagsChained
    <3>6. mem[t].next <= end
      BY <3>1, <1>9
    <3> QED BY <3>1, <3>2, <3>4, <3>5, <3>6, <1>8, <1>16
  <2>3. /\ PageOf(at) \in mapped' /\ PageOf(end) \in mapped'
        /\ \A s \in S : s <= end /\ (s <= at \/ end <= s)
    BY <1>7, <1>9, <1>10, <1>14, <1>16
  <2>4. end \in S /\ at \in S /\ end # 0
    BY <1>7, <1>9, <1>16
  <2> QED BY <2>1, <2>2, <2>3, <2>4, <1>7, <1>9, <1>13 DEF TagsChained
<1>19. BlocksTagged(S)'
  <2>1. ASSUME NEW b \in blocks
        PROVE  /\ b.at \in T /\ b.at \in Nat /\ b.size \in Nat /\ b.at + b.size < at
    <3>1. b.at \in T /\ mem[b.at].present
      BY <1>1 DEF SoundTags, BlocksTagged
    <3>2. b.at # at
      BY <3>1, <1>7
    <3>3. b.at \in Nat /\ b.size \in Nat /\ (at <= b.at \/ b.at + b.size < at)
      BY <1>1, <1>2, <1>7, BlocksBetween
    <3> QED BY <3>1, <3>2, <3>3, <1>9, <1>10
  <2>2. ASSUME NEW b \in blocks
        PROVE  /\ b.at \in S /\ mem'[b.at].present /\ mem'[b.at].next = b.at + 1 + b.size
               /\ \A u \in Extent(b) : PageOf(u) \in mapped'
               /\ \A u \in Extent(b) \ {b.at} : mem'[u] = Junk
    <3>1. \A u \in Extent(b) : u \in Units /\ mem'[u] = mem[u]
      <4>1. ASSUME NEW u \in Extent(b) PROVE u \in Units /\ u < at
        <5>1. u \in Nat /\ u < at
          BY <2>1, <1>9 DEF Extent
        <5> QED BY <5>1, <1>7, <1>9, UnitsBelow
      <4> QED BY <4>1, <1>11
    <3>2. b.at \in Extent(b)
      BY <2>1 DEF Extent
    <3>3. /\ mem[b.at].present /\ mem[b.at].next = b.at + 1 + b.size
          /\ \A u \in Extent(b) : PageOf(u) \in mapped
          /\ \A u \in Extent(b) \ {b.at} : mem[u] = Junk
      BY <1>1 DEF SoundTags, BlocksTagged
    <3> QED BY <2>1, <3>1, <3>2, <3>3, <1>8, <1>16
  <2>3. PICK c : c = [at |-> at, size |-> size]
    OBVIOUS
  <2>4. /\ c.at \in S /\ mem'[c.at].present /\ mem'[c.at].next = c.at + 1 + c.size
        /\ \A u \in Extent(c) : PageOf(u) \in mapped'
        /\ \A u \in Extent(c) \ {c.at} : mem'[u] = Junk
    <3>1. c.at = at /\ c.size = size
      BY <2>3
    <3>2. ASSUME NEW u \in Extent(c) PROVE u \in Units /\ at <= u /\ u < end
      <4>1. u \in Nat /\ at <= u /\ u < end
        BY <3>1, <1>5, <1>9 DEF Extent
      <4> QED BY <4>1, <1>7, <1>9, UnitsBelow
    <3>3. ASSUME NEW u \in Extent(c) PROVE PageOf(u) \in mapped'
      <4>1. u \in Units /\ at <= u /\ u <= end
        <5>1. u \in Units /\ at <= u /\ u < end
          BY <3>2
        <5>2. u \in Nat /\ end \in Nat
          BY <5>1, <1>9
        <5> QED BY <5>1, <5>2
      <4> QED BY <4>1, <1>14
    <3>4. \A u \in Extent(c) \ {at} : mem'[u] = Junk
      BY <3>2, <1>8, <1>9, SMTT(30)
    <3> QED BY <3>1, <3>3, <3>4, <1>5, <1>7, <1>13, <1>16
  <2>5. ASSUME NEW b \in blocks' PROVE b \in blocks \/ b = c
    BY <1>8, <2>3
  <2>6. ASSUME NEW b \in blocks'
        PROVE  /\ b.at \in S /\ mem'[b.at].present /\ mem'[b.at].next = b.at + 1 + b.size
               /\ \A u \in Extent(b) : PageOf(u) \in mapped'
               /\ \A u \in Extent(b) \ {b.at} : mem'[u] = Junk
    BY <2>2, <2>4, <2>5
  <2> QED BY <2>6 DEF BlocksTagged, Extent
<1>20. TagsBehind(S)'
  <2>1. ASSUME NEW t \in T, mem[t].prev # t
        PROVE  /\ mem[t].prev < t /\ mem[t].prev < at
               /\ \A c \in blocks' : c.at <= mem[t].prev \/ t <= c.at
               /\ mem[t].prev \notin S => lowest' < mem[t].prev
    <3>1. /\ mem[t].prev < t /\ mem[t].prev \in Int /\ t <= at /\ t \in Nat
          /\ \A c \in blocks : c.at <= mem[t].prev \/ t <= c.at
          /\ mem[t].prev \notin T => lowest < mem[t].prev
      BY <1>1, <1>9, <1>10, <2>1 DEF SoundTags, TagsBehind
    <3>2. \A c \in blocks' : c \in blocks \/ c.at = at
      BY <1>8
    <3>3. lowest \in Nat
      BY <1>1, <1>9 DEF SoundTags, SearchInside
    <3> QED BY <3>1, <3>2, <3>3, <1>8, <1>9, <1>16
  <2>2. ASSUME NEW t \in T PROVE mem'[t].prev = mem[t].prev
    <3>1. t \in Units /\ (t = at \/ t < at)
      BY <1>9, <1>10
    <3> QED BY <3>1, <1>11, <1>13
  <2>3. /\ at < end /\ at \in S
        /\ \A c \in blocks' : c.at <= at \/ end <= c.at
    <3>1. \A c \in blocks' : c \in blocks \/ c.at = at
      BY <1>8
    <3>2. \A c \in blocks : c.at \in T
      BY <1>1 DEF SoundTags, BlocksTagged
    <3> QED BY <3>1, <3>2, <1>7, <1>9, <1>10, <1>16
  <2> QED BY <2>1, <2>2, <2>3, <1>13, <1>16 DEF TagsBehind
<1>21. SearchInside(S)'
  <2>1. lowest \in T /\ ~ mem[lowest].present
    BY <1>1 DEF SoundTags, SearchInside
  <2>2. lowest' \in S /\ ~ mem'[lowest'].present
    BY <2>1, <1>8, <1>9, <1>10, <1>11, <1>13, <1>16
  <2> QED BY <2>2, <1>8 DEF SearchInside
<1>22. SoundTags(S)'
  BY <1>17, <1>18, <1>19, <1>20, <1>21 DEF SoundTags, Units
<1> QED BY <1>15, <1>22 DEF HeapKept


LEMMA TagFollows ==
  ASSUME NEW r \in TagType, NEW e \in Int, NEW f, f = [r EXCEPT !.prev = e]
  PROVE  f \in TagType /\ f.next = r.next /\ f.prev = e /\ f.present = r.present
BY DEF TagType

LEMMA TagLeads ==
  ASSUME NEW r \in TagType, NEW e \in Int, NEW f, f = [r EXCEPT !.next = e]
  PROVE  f \in TagType /\ f.next = e /\ f.prev = r.prev /\ f.present = r.present
BY DEF TagType

(* A free tag is split, or pages behind it are mapped.                         *)
LEMMA PassFreeKeeps ==
  ASSUME HeapKept, PassFree
  PROVE  HeapKept'
<1>1. PICK T : SoundTags(T)
  BY DEF HeapKept
<1>2. HeapTypes /\ Scanning
  BY DEF HeapKept, PassFree, FreeAt
<1>3. PICK at : at = scan.pos
  OBVIOUS
<1>4. PICK next : next = mem[at].next
  OBVIOUS
<1>5. PICK new : new = Needed(at)
  OBVIOUS
<1>6. PICK ps : ps = PagesIn(at)
  OBVIOUS
<1>7. PICK m : m = Lost(mem, ps)
  OBVIOUS
<1>8. /\ at \in T /\ at \in Units /\ ~ scan.movelow
      /\ ~ mem[at].present /\ next # 0 /\ Space(at) >= scan.size /\ ~ SplitFails(at)
  BY <1>1, <1>2, <1>3, <1>4, AtTag DEF PassFree, FreeAt, IsLast
<1>9. /\ mem' = IF Splits(at) THEN [m EXCEPT ![new] = [mem[at] EXCEPT !.prev = at],
                                             ![at].next = new]
                ELSE m
      /\ mapped' = mapped \union ps
      /\ scan' = [scan EXCEPT !.pos = mem'[at].next]
      /\ UNCHANGED <<lowest, blocks>>
  BY <1>3, <1>5, <1>6, <1>7 DEF PassFree
<1>10. /\ at \in Nat /\ scan.size \in Nat /\ Units \subseteq Nat /\ T \subseteq Units
       /\ mem \in [Units -> TagType] /\ MinAlloc \in Nat
  BY <1>1, <1>2, <1>3, <1>8, UnitsNumbers, HeapAssumption DEF HeapTypes, SoundTags, TagType
<1>11. /\ at < next /\ next \in Units /\ (next \in T \/ mem[next] = Junk)
       /\ \A s \in T : s <= at \/ next <= s
  BY <1>1, <1>4, <1>8 DEF SoundTags, TagsChained
<1>12. next \in Nat
  BY <1>10, <1>11
<1>13. /\ new \in Nat /\ new - 1 < next
       /\ Splits(at) => at < new /\ new < next
  BY <1>4, <1>5, <1>8, <1>10, <1>12 DEF Needed, Splits, Space
<1>14. Splits(at) => new \in Units
  <2> SUFFICES ASSUME Splits(at) PROVE new \in Units
    OBVIOUS
  <2>1. new \in Nat /\ next \in Units /\ new <= next
    BY <1>11, <1>12, <1>13
  <2> QED BY <2>1, UnitsBelow
(* The pages that are mapped lie between the tag and the next.                 *)
<1>15. ASSUME NEW u \in Units, u <= at \/ next <= u PROVE PageOf(u) \notin ps
  <2>1. PICK last : last = PageOf(new - 1)
    OBVIOUS
  <2>2. ps = PageOf(at) + 1 .. (IF PageOf(next) = last THEN last - 1 ELSE last)
    BY <2>1, <1>4, <1>5, <1>6 DEF PagesIn
  <2>3. u \in Int /\ at \in Int /\ next \in Int /\ new - 1 \in Int /\ new - 1 <= next
    BY <1>10, <1>12, <1>13
  <2>4. last \in Int /\ PageOf(u) \in Int /\ PageOf(at) \in Int /\ PageOf(next) \in Int
        /\ last <= PageOf(next)
    BY <2>1, <2>3, PagesOrdered
  <2>5. u <= at => PageOf(u) <= PageOf(at)
    BY <2>3, PagesOrdered
  <2>6. next <= u => PageOf(next) <= PageOf(u)
    BY <2>3, PagesOrdered
  <2> QED BY <2>2, <2>4, <2>5, <2>6, <1>15
<1>16. m \in [Units -> TagType]
       /\ \A u \in Units : /\ (u <= at \/ next <= u) => m[u] = mem[u]
                           /\ mem[u] = Junk => m[u] = Junk
  <2>1. Junk \in TagType
    BY DEF Junk, TagType
  <2>2. m = [u \in Units |-> IF PageOf(u) \in ps THEN Junk ELSE mem[u]]
    BY <1>7 DEF Lost
  <2> QED BY <2>1, <2>2, <1>10, <1>15
<1>17. m[at] = mem[at] /\ mem[at] \in TagType /\ mem[at] # Junk
  BY <1>1, <1>8, <1>10, <1>16 DEF SoundTags, TagsChained
<1>18. /\ mem' \in [Units -> TagType]
       /\ mem'[at].next = IF Splits(at) THEN new ELSE next
       /\ mem'[at].prev = mem[at].prev /\ mem'[at].present = mem[at].present
       /\ \A u \in Units \ {at} : u # new \/ ~ Splits(at) => mem'[u] = m[u]
       /\ Splits(at) => /\ mem'[new].next = next /\ mem'[new].prev = at
                        /\ mem'[new].present = mem[at].present
  <2>1. CASE ~ Splits(at)
    BY <2>1, <1>4, <1>9, <1>16, <1>17
  <2>2. CASE Splits(at)
    <3>1. PICK f : f = [mem[at] EXCEPT !.prev = at]
      OBVIOUS
    <3>2. PICK g : g = [mem[at] EXCEPT !.next = new]
      OBVIOUS
    <3>3. at \in Int /\ new \in Int
      BY <1>10, <1>13
    <3>4. f \in TagType /\ f.next = next /\ f.prev = at /\ f.present = mem[at].present
      <4>1. f \in TagType /\ f.next = mem[at].next /\ f.prev = at /\ f.present = mem[at].present
        BY <3>1, <3>3, <1>17, TagFollows
      <4> QED BY <4>1, <1>4
    <3>5. g \in TagType /\ g.next = new /\ g.prev = mem[at].prev /\ g.present = mem[at].present
      BY <3>2, <3>3, <1>17, TagLeads
    <3>6. at # new /\ new \in Units /\ at \in Units
      BY <2>2, <1>8, <1>10, <1>13, <1>14
    <3>7. mem' = [[m EXCEPT ![new] = f] EXCEPT ![at] = g]
      BY <2>2, <3>1, <3>2, <3>6, <1>9, <1>16, <1>17
    <3> QED BY <2>2, <3>4, <3>5, <3>6, <3>7, <1>16
  <2> QED BY <2>1, <2>2
<1>19. /\ \A t \in T : t # at => /\ mem'[t] = mem[t] /\ (t < at \/ next <= t)
                                 /\ Splits(at) => t # new
       /\ \A u \in Units : mem[u] = Junk /\ ~ (Splits(at) /\ u = new) => mem'[u] = Junk
  <2>1. ASSUME NEW t \in T, t # at PROVE t \in Units /\ t \in Nat /\ (t < at \/ next <= t)
    BY <2>1, <1>10, <1>11
  <2>2. ASSUME NEW t \in T, t # at PROVE Splits(at) => t # new
    BY <2>1, <2>2, <1>10, <1>12, <1>13
  <2>3. ASSUME NEW t \in T, t # at PROVE mem'[t] = mem[t]
    BY <2>1, <2>2, <2>3, <1>10, <1>12, <1>16, <1>18
  <2>4. \A u \in Units : mem[u] = Junk => u # at
    BY <1>17
  <2> QED BY <2>1, <2>2, <2>3, <2>4, <1>16, <1>18
<1>20. HeapTypes'
  <2>1. mem'[at].next \in Int
    BY <1>8, <1>18 DEF TagType
  <2>2. scan' \in [size : Nat, pos : Int, movelow : BOOLEAN]
    BY <2>1, <1>2, <1>9 DEF HeapTypes
  <2> QED BY <2>2, <1>2, <1>9, <1>18 DEF HeapTypes, TagType
<1>21. PICK S : S = IF Splits(at) THEN T \union {new} ELSE T
  OBVIOUS
<1>22. S \subseteq Units /\ T \subseteq S
  BY <1>10, <1>14, <1>21
<1>23. \A t \in S : PageOf(t) \in mapped'
  <2>1. \A t \in T : PageOf(t) \in mapped
    BY <1>1 DEF SoundTags, TagsChained
  <2>2. Splits(at) => PageOf(new) \in mapped \union ps
    BY <1>5, <1>6, <1>8 DEF SplitFails
  <2> QED BY <2>1, <2>2, <1>9, <1>21
<1>24. TagsChained(S)'
  <2>1. ASSUME NEW t \in T, t # at
        PROVE  /\ mem'[t] # Junk
               /\ mem'[t].next = 0 => ~ mem'[t].present /\ \A s \in S : s <= t
               /\ mem'[t].next # 0 =>
                    /\ t < mem'[t].next /\ mem'[t].next \in Units
                    /\ mem'[t].next \in S \/ mem'[mem'[t].next] = Junk
                    /\ \A s \in S : s <= t \/ mem'[t].next <= s
    <3>1. mem'[t] = mem[t] /\ t \in Nat /\ (t < at \/ next <= t)
      BY <2>1, <1>10, <1>19
    <3>2. mem[t] # Junk /\ mem[t].next \in Int
      BY <1>1, <1>10 DEF SoundTags, TagsChained, TagType
    <3>3. CASE mem[t].next = 0
      <4>1. ~ mem[t].present /\ \A s \in T : s <= t
        BY <3>3, <1>1 DEF SoundTags, TagsChained
      <4>2. Splits(at) => new <= t
        BY <4>1, <3>1, <1>8, <1>10, <1>12, <1>13
      <4> QED BY <4>1, <4>2, <3>1, <3>2, <3>3, <1>21
    <3>4. CASE mem[t].next # 0
      <4>1. /\ t < mem[t].next /\ mem[t].next \in Units
            /\ mem[t].next \in T \/ mem[mem[t].next] = Junk
            /\ \A s \in T : s <= t \/ mem[t].next <= s
        BY <3>4, <1>1 DEF SoundTags, TagsChained
      <4>2. mem[t].next <= at \/ at < t
        BY <4>1, <3>1, <3>2, <1>8, <1>10, <2>1
      <4>3. Splits(at) => mem[t].next # new /\ (new <= t \/ mem[t].next <= new)
        BY <4>1, <4>2, <3>1, <3>2, <1>10, <1>12, <1>13
      <4>4. mem[t].next \in T \/ mem'[mem[t].next] = Junk
        BY <4>1, <4>3, <1>19
      <4> QED BY <4>1, <4>3, <4>4, <3>1, <3>2, <3>4, <1>21, <1>22
    <3> QED BY <3>3, <3>4
  <2>2. /\ mem'[at] # Junk
        /\ at < mem'[at].next /\ mem'[at].next \in Units
        /\ mem'[at].next \in S \/ mem'[mem'[at].next] = Junk
        /\ \A s \in S : s <= at \/ mem'[at].next <= s
    <3>1. mem'[at].next >= 0 /\ Junk.next = -1
      BY <1>12, <1>13, <1>18 DEF Junk
    <3>2. CASE Splits(at)
      BY <3>1, <3>2, <1>10, <1>11, <1>12, <1>13, <1>14, <1>18, <1>21
    <3>3. CASE ~ Splits(at)
      <4>1. next \in S \/ mem'[next] = Junk
        BY <3>3, <1>11, <1>19, <1>21
      <4> QED BY <3>1, <3>3, <4>1, <1>11, <1>18, <1>21
    <3> QED BY <3>2, <3>3
  <2>3. ASSUME Splits(at)
        PROVE  /\ mem'[new] # Junk /\ mem'[new].next = next
               /\ new < next /\ next \in Units
               /\ next \in S \/ mem'[next] = Junk
               /\ \A s \in S : s <= new \/ next <= s
    <3>1. Junk.next = -1
      BY DEF Junk
    <3>2. next \in T \/ mem'[next] = Junk
      BY <1>11, <1>12, <1>13, <1>19, <2>3
    <3>3. \A s \in T : s <= new \/ next <= s
      BY <1>10, <1>11, <1>13, <2>3
    <3> QED BY <2>3, <3>1, <3>2, <3>3, <1>11, <1>12, <1>13, <1>18, <1>21
  <2>4. at # 0 \/ next # 0
    BY <1>8
  <2>5. mem'[at].next # 0 /\ next # 0
    BY <2>2, <1>8, <1>10, <1>18, <1>13
  <2>6. \A t \in S : t \in T \/ (Splits(at) /\ t = new)
    BY <1>21
  <2> QED BY <2>1, <2>2, <2>3, <2>5, <2>6, <1>23 DEF TagsChained
<1>25. BlocksTagged(S)'
  <2>1. ASSUME NEW b \in blocks
        PROVE  /\ b.at \in S /\ mem'[b.at].present /\ mem'[b.at].next = b.at + 1 + b.size
               /\ \A u \in Extent(b) : PageOf(u) \in mapped'
               /\ \A u \in Extent(b) \ {b.at} : mem'[u] = Junk
    <3>1. /\ b.at \in T /\ mem[b.at].present /\ mem[b.at].next = b.at + 1 + b.size
          /\ \A u \in Extent(b) : PageOf(u) \in mapped
          /\ \A u \in Extent(b) \ {b.at} : mem[u] = Junk
      BY <1>1 DEF SoundTags, BlocksTagged
    <3>2. b.at # at /\ mem'[b.at] = mem[b.at]
      BY <3>1, <1>8, <1>19
    <3>3. /\ b.at \in Nat /\ b.size \in Nat
          /\ at <= b.at \/ b.at + b.size < at
      BY <1>1, <1>2, <1>8, BlocksBetween
    <3>4. b.at < at \/ next <= b.at
      BY <3>1, <3>2, <1>19
    <3>5. ASSUME NEW u \in Extent(b) \ {b.at} PROVE mem'[u] = Junk
      <4>1. u \in Nat /\ b.at <= u /\ u <= b.at + b.size
        BY <3>3 DEF Extent
      <4>2. ~ (Splits(at) /\ u = new)
        BY <4>1, <3>3, <3>4, <1>10, <1>12, <1>13
      <4>3. mem[b.at].next \in Units
        BY <3>1, <3>3, <1>1 DEF SoundTags, TagsChained
      <4>4. u \in Units
        BY <4>1, <4>3, <3>1, <3>3, UnitsBelow
      <4> QED BY <4>2, <4>4, <3>1, <1>19
    <3> QED BY <3>1, <3>2, <3>5, <1>9, <1>22
  <2> QED BY <2>1, <1>9 DEF BlocksTagged, Extent
<1>26. TagsBehind(S)'
  <2>1. ASSUME NEW t \in T, mem[t].prev # t
        PROVE  /\ mem[t].prev < t
               /\ \A c \in blocks : c.at <= mem[t].prev \/ t <= c.at
               /\ mem[t].prev \notin S => lowest < mem[t].prev
    BY <2>1, <1>1, <1>22 DEF SoundTags, TagsBehind
  <2>2. ASSUME NEW t \in T PROVE mem'[t].prev = mem[t].prev
    BY <1>18, <1>19
  <2>3. ASSUME Splits(at)
        PROVE  /\ mem'[new].prev = at /\ at < new /\ at \in S
               /\ \A c \in blocks : c.at <= at \/ new <= c.at
    <3>1. \A c \in blocks : c.at \in T /\ c.at \in Nat
      BY <1>1, <1>10 DEF SoundTags, BlocksTagged
    <3> QED BY <2>3, <3>1, <1>8, <1>10, <1>11, <1>12, <1>13, <1>18, <1>22
  <2>4. \A t \in S : t \in T \/ (Splits(at) /\ t = new)
    BY <1>21
  <2> QED BY <2>1, <2>2, <2>3, <2>4, <1>9 DEF TagsBehind
<1>27. SearchInside(S)'
  <2>1. lowest \in T /\ ~ mem[lowest].present
    BY <1>1 DEF SoundTags, SearchInside
  <2>2. lowest' \in S /\ ~ mem'[lowest'].present
    BY <2>1, <1>8, <1>9, <1>18, <1>19, <1>22
  <2>3. scan'.pos = mem'[at].next /\ ~ scan'.movelow
    BY <1>2, <1>8, <1>9 DEF HeapTypes
  <2>4. mem'[at].next \in Units /\ (mem'[at].next \in S \/ mem'[mem'[at].next] = Junk)
    <3>1. mem'[at].next # 0
      BY <1>8, <1>10, <1>13, <1>18
    <3> QED BY <3>1, <1>8, <1>22, <1>24 DEF TagsChained, Units
  <2> QED BY <2>2, <2>3, <2>4 DEF SearchInside, Units
<1>28. SoundTags(S)'
  BY <1>22, <1>24, <1>25, <1>26, <1>27 DEF SoundTags, Units
<1> QED BY <1>20, <1>28 DEF HeapKept

(* What a free finds: the merged block reaches from begin to end.  It begins at *)
(* the block or at a free tag before it, with no other block between, and ends   *)
(* at a tag.                                                                  *)
Reaches(T, b, begin, end, last) ==
  /\ begin \in Units /\ mem[begin] # Junk /\ PageOf(begin) \in mapped
  /\ begin = b.at \/ (begin < b.at /\ ~ mem[begin].present)
  /\ begin \notin T => lowest < begin
  /\ end \in T /\ b.at < end
  /\ last => mem[end].next = 0
  /\ \A c \in blocks \ {b} : c.at + c.size < begin \/ (end <= c.at /\ ~ last)

LEMMA FreeReaches ==
  ASSUME NEW T, HeapTypes, SoundTags(T), NEW b \in blocks, ~ FreeFails(b.at)
  PROVE  Reaches(T, b, Merged(b.at).begin, Merged(b.at).end, IsLast(mem[b.at].next))
<1>1. PICK at : at = b.at
  OBVIOUS
<1>2. PICK prev : prev = mem[at].prev
  OBVIOUS
<1>3. PICK next : next = mem[at].next
  OBVIOUS
<1>4. PICK begin : begin = Merged(at).begin
  OBVIOUS
<1>5. PICK end : end = Merged(at).end
  OBVIOUS
<1>6. /\ IsTag(at) /\ ~ IsLast(at) /\ IsTag(prev) /\ IsTag(next) /\ IsTag(end)
  BY <1>1, <1>2, <1>3, <1>5 DEF FreeFails
<1>7. /\ at \in T /\ mem[at].present /\ at \in Nat /\ T \subseteq Units /\ Units \subseteq Nat
      /\ prev \in Units /\ prev \in Nat /\ next \in Units /\ next \in Nat /\ end \in Units /\ end \in Nat
      /\ mem[prev] # Junk /\ mem[next] # Junk /\ mem[end] # Junk /\ PageOf(prev) \in mapped
  BY <1>1, <1>6, UnitsNumbers DEF SoundTags, BlocksTagged, IsTag
<1>8. /\ next # 0 /\ at < next /\ next \in T /\ \A s \in T : s <= at \/ next <= s
  BY <1>3, <1>6, <1>7 DEF IsLast, SoundTags, TagsChained
<1>9. begin = IF mem[prev].present THEN at ELSE prev
  BY <1>2, <1>4, <1>7 DEF Merged, PrevFree, None
<1>10. PICK n : n = NextFree(at)
  OBVIOUS
<1>11. n = IF IsLast(next) \/ mem[next].present THEN -1 ELSE next
  BY <1>3, <1>10 DEF NextFree, None
<1>12. end = IF IsLast(next) \/ mem[next].present THEN next ELSE mem[next].next
  BY SMTT(30), <1>3, <1>5, <1>7, <1>10, <1>11 DEF Merged, None
<1>13. /\ begin \in Units /\ begin \in Nat /\ mem[begin] # Junk /\ PageOf(begin) \in mapped
       /\ begin = at \/ (begin < at /\ ~ mem[begin].present)
       /\ begin \notin T => lowest < begin
       /\ \A c \in blocks : c.at <= begin \/ at <= c.at
  <2>1. CASE mem[prev].present
    <3>1. begin = at
      BY <2>1, <1>9
    <3>2. mem[at] # Junk /\ PageOf(at) \in mapped
      BY <1>7 DEF SoundTags, TagsChained
    <3>3. \A c \in blocks : c.at \in Nat
      BY <1>7 DEF SoundTags, BlocksTagged
    <3> QED BY <3>1, <3>2, <3>3, <1>7
  <2>2. CASE ~ mem[prev].present
    <3>1. begin = prev /\ prev # at
      BY <2>2, <1>7, <1>9
    <3>2. /\ prev < at
          /\ \A c \in blocks : c.at <= prev \/ at <= c.at
          /\ prev \notin T => lowest < prev
      BY <3>1, <1>2, <1>7 DEF SoundTags, TagsBehind
    <3> QED BY <2>2, <3>1, <3>2, <1>7
  <2> QED BY <2>1, <2>2
<1>14. /\ end \in T /\ at < end
       /\ \A c \in blocks : c.at <= at \/ end <= c.at
       /\ IsLast(next) => end = next
  <2>1. CASE IsLast(next) \/ mem[next].present
    <3>1. \A c \in blocks : c.at \in T
      BY DEF SoundTags, BlocksTagged
    <3> QED BY <2>1, <3>1, <1>8, <1>12
  <2>2. CASE ~ IsLast(next) /\ ~ mem[next].present
    <3>1. end = mem[next].next /\ mem[next].next # 0
      BY <2>2, <1>12 DEF IsLast
    <3>2. next < end /\ end \in T /\ \A s \in T : s <= next \/ end <= s
      BY <3>1, <1>7, <1>8 DEF SoundTags, TagsChained
    <3>3. \A c \in blocks : c.at \in T /\ c.at # next /\ c.at \in Nat
      BY <2>2, <1>7 DEF SoundTags, BlocksTagged
    <3> QED BY <2>2, <3>2, <3>3, <1>7, <1>8
  <2> QED BY <2>1, <2>2
<1>15. ASSUME NEW c \in blocks \ {b}
       PROVE  c.at + c.size < begin \/ (end <= c.at /\ ~ IsLast(next))
  <2>1. /\ c.at \in T /\ mem[c.at].present /\ mem[c.at].next = c.at + 1 + c.size
        /\ \A u \in Extent(c) \ {c.at} : mem[u] = Junk
    BY DEF SoundTags, BlocksTagged
  <2>2. c.at # at
    BY <1>1, BlocksDistinct
  <2>3. /\ c.at \in Nat /\ c.size \in Nat
    BY <1>7, BlocksBetween
  <2>4. c.at < begin \/ end <= c.at
    <3>1. c.at # begin
      BY <1>13, <2>1, <2>2
    <3>2. c.at <= begin \/ at <= c.at
      BY <1>13
    <3>3. c.at <= at \/ end <= c.at
      BY <1>14
    <3> QED BY <3>1, <3>2, <3>3, <2>2, <2>3, <1>7, <1>13
  <2>5. ASSUME c.at < begin PROVE c.at + c.size < begin
    <3>1. begin \notin Extent(c)
      BY <2>1, <2>5, <1>13
    <3> QED BY <3>1, <2>3, <2>5, <1>13 DEF Extent
  <2>6. ASSUME end <= c.at PROVE ~ IsLast(next)
    <3> SUFFICES ASSUME IsLast(next) PROVE FALSE
      OBVIOUS
    <3>1. end = next /\ mem[next].next = 0
      BY <1>14 DEF IsLast
    <3>2. c.at <= next
      BY <3>1, <2>1, <1>8 DEF SoundTags, TagsChained
    <3>3. c.at = next
      BY <3>1, <3>2, <2>3, <2>6, <1>7
    <3> QED BY <3>1, <3>3, <2>1, <2>3
  <2> QED BY <2>4, <2>5, <2>6
<1>16. IsLast(next) => mem[end].next = 0
  BY <1>14 DEF IsLast
<1> QED BY <1>1, <1>3, <1>4, <1>5, <1>13, <1>14, <1>15, <1>16 DEF Reaches

(* A block is merged with what is free around it, and the pages inside go.      *)
LEMMA FreeBlockKeeps ==
  ASSUME HeapKept, NEW b \in blocks, FreeBlock(b)
  PROVE  HeapKept'
<1>1. PICK T : SoundTags(T)
  BY DEF HeapKept
<1>2. HeapTypes /\ ~ FreeFails(b.at) /\ scan = NoScan
  BY DEF HeapKept, FreeBlock
<1>3. PICK begin : begin = Merged(b.at).begin
  OBVIOUS
<1>4. PICK end : end = Merged(b.at).end
  OBVIOUS
<1>5. PICK last \in BOOLEAN : last = IsLast(mem[b.at].next)
  BY DEF IsLast
<1>6. PICK gone : gone = mapped \intersect (Inner(begin, end) \union
                    (IF last /\ PageOf(end) > PageOf(begin) THEN {PageOf(end)} ELSE {}))
  OBVIOUS
<1>7. PICK joined : joined = [mem EXCEPT ![begin].next = IF last THEN 0 ELSE end,
                                         ![begin].present = FALSE,
                                         ![end].prev = begin]
  OBVIOUS
<1>8. /\ mem' = Lost(joined, gone) /\ mapped' = mapped \ gone
      /\ lowest' = IF begin < lowest THEN begin ELSE lowest
      /\ blocks' = blocks \ {b} /\ scan' = scan
  BY <1>3, <1>4, <1>5, <1>6, <1>7 DEF FreeBlock
<1>9. Reaches(T, b, begin, end, last)
  BY <1>1, <1>2, <1>3, <1>4, <1>5, FreeReaches
<1>10. /\ T \subseteq Units /\ Units \subseteq Nat /\ mem \in [Units -> TagType]
       /\ begin \in Units /\ begin \in Nat /\ end \in Units /\ end \in Nat /\ end \in T
       /\ b.at \in Nat /\ begin < end /\ mem[begin] # Junk /\ mem[end] # Junk
  <2>1. T \subseteq Units /\ Units \subseteq Nat /\ mem \in [Units -> TagType] /\ b.at \in T
    BY <1>1, <1>2, UnitsNumbers DEF HeapTypes, TagType, SoundTags, BlocksTagged
  <2>2. begin \in Units /\ end \in T /\ b.at < end /\ mem[begin] # Junk
        /\ (begin = b.at \/ begin < b.at)
    BY <1>9 DEF Reaches
  <2>3. mem[end] # Junk
    BY <2>2, <1>1 DEF SoundTags, TagsChained
  <2>4. begin \in Nat /\ b.at \in Nat /\ end \in Units /\ end \in Nat
    BY <2>1, <2>2
  <2>5. begin < end
    BY <2>2, <2>4
  <2> QED BY <2>1, <2>2, <2>3, <2>4, <2>5
(* The pages that go lie above the first tag, and below the end unless that is   *)
(* the last.                                                                  *)
<1>11. ASSUME NEW u \in Units, PageOf(u) \in gone PROVE begin < u /\ (u < end \/ last)
  <2>1. u \in Int /\ begin \in Int /\ end \in Int
    BY <1>10
  <2>2. /\ PageOf(u) \in Int /\ PageOf(begin) \in Int /\ PageOf(end) \in Int
        /\ u <= begin => PageOf(u) <= PageOf(begin)
    BY <2>1, PagesOrdered
  <2>3. end <= u => PageOf(end) <= PageOf(u)
    BY <2>1, PagesOrdered
  <2>4. PageOf(begin) < PageOf(u) /\ (PageOf(u) < PageOf(end) \/ last)
    BY <2>2, <1>6, <1>11 DEF Inner
  <2> QED BY <2>1, <2>2, <2>3, <2>4
<1>12. /\ joined \in [Units -> TagType]
       /\ joined[begin].next = IF last THEN 0 ELSE end
       /\ joined[begin].prev = mem[begin].prev /\ ~ joined[begin].present
       /\ joined[end].next = mem[end].next /\ joined[end].prev = begin
       /\ joined[end].present = mem[end].present
       /\ \A u \in Units \ {begin, end} : joined[u] = mem[u]
  <2>1. PICK to \in Int : to = IF last THEN 0 ELSE end
    BY <1>10
  <2>2. PICK f : f = [mem[begin] EXCEPT !.next = to]
    OBVIOUS
  <2>3. PICK g : g = [f EXCEPT !.present = FALSE]
    OBVIOUS
  <2>4. PICK h : h = [mem[end] EXCEPT !.prev = begin]
    OBVIOUS
  <2>5. mem[begin] \in TagType /\ mem[end] \in TagType /\ begin \in Int
    BY <1>10
  <2>6. f \in TagType /\ f.next = to /\ f.prev = mem[begin].prev
    BY <2>2, <2>5, TagLeads
  <2>7. g \in TagType /\ g.next = to /\ g.prev = mem[begin].prev /\ g.present = FALSE
    BY <2>3, <2>6 DEF TagType
  <2>8. h \in TagType /\ h.next = mem[end].next /\ h.prev = begin /\ h.present = mem[end].present
    BY <2>4, <2>5, TagFollows
  <2>9. joined = [[[mem EXCEPT ![begin] = f] EXCEPT ![begin] = g] EXCEPT ![end] = h]
    <3>1. PICK j : j = [mem EXCEPT ![begin] = f]
      OBVIOUS
    <3>2. PICK k : k = [j EXCEPT ![begin] = g]
      OBVIOUS
    <3>3. begin \in Units /\ end \in Units /\ begin # end /\ mem \in [Units -> TagType]
      BY <1>10
    <3>4. j = [mem EXCEPT ![begin].next = to] /\ j \in [Units -> TagType] /\ j[begin] = f
      BY <2>2, <2>6, <3>1, <3>3
    <3>5. k = [j EXCEPT ![begin].present = FALSE] /\ k[end] = mem[end]
      BY <2>3, <3>1, <3>2, <3>3, <3>4
    <3>6. joined = [k EXCEPT ![end].prev = begin]
      BY ONLY <1>7, <2>1, <3>4, <3>5
    <3>7. joined = [k EXCEPT ![end] = h]
      BY <2>4, <3>5, <3>6
    <3> QED BY <3>1, <3>2, <3>7
  <2> QED BY <2>1, <2>7, <2>8, <2>9, <1>10
<1>13. /\ mem' \in [Units -> TagType]
       /\ \A u \in Units : PageOf(u) \in gone => mem'[u] = Junk
       /\ \A u \in Units : PageOf(u) \notin gone => mem'[u] = joined[u]
       /\ \A u \in Units : mem[u] = Junk => mem'[u] = Junk
  <2>1. Junk \in TagType
    BY DEF Junk, TagType
  <2>2. mem' = [u \in Units |-> IF PageOf(u) \in gone THEN Junk ELSE joined[u]]
    BY <1>8 DEF Lost
  <2>3. \A u \in Units : mem[u] = Junk => u # begin /\ u # end
    BY <1>10
  <2> QED BY <2>1, <2>2, <2>3, <1>12
<1>14. PageOf(begin) \notin gone /\ mem'[begin] = joined[begin]
  BY <1>10, <1>11, <1>13
<1>15. HeapTypes'
  <2>1. blocks' \subseteq [at : Int, size : Nat] /\ scan' \in [size : Nat, pos : Int, movelow : BOOLEAN]
    BY <1>2, <1>8 DEF HeapTypes
  <2> QED BY <2>1, <1>13 DEF HeapTypes, TagType
<1>16. PICK S : S = {t \in T : /\ PageOf(t) \notin gone
                               /\ begin \in T => t <= begin \/ (end <= t /\ ~ last)}
  OBVIOUS
<1>17. /\ S \subseteq T /\ S \subseteq Units
       /\ begin \in T => begin \in S
       /\ \A t \in S : PageOf(t) \in mapped' /\ PageOf(t) \notin gone
  <2>1. \A t \in T : PageOf(t) \in mapped
    BY <1>1 DEF SoundTags, TagsChained
  <2>2. S \subseteq T /\ \A t \in S : PageOf(t) \notin gone
    BY <1>16
  <2>3. begin \in T => begin \in S
    BY <1>10, <1>14, <1>16
  <2> QED BY <2>1, <2>2, <2>3, <1>8, <1>10
<1>18. ASSUME NEW t \in S, t # begin
       PROVE  /\ t \in T /\ mem'[t].next = mem[t].next /\ mem'[t].present = mem[t].present
              /\ mem'[t] # Junk
              /\ t # end => mem'[t] = mem[t]
  <2>1. t \in T /\ t \in Units /\ mem'[t] = joined[t]
    BY <1>13, <1>17
  <2>2. mem[t] # Junk
    BY <2>1, <1>1 DEF SoundTags, TagsChained
  <2>3. CASE t = end
    <3>1. mem[end].next \in Int /\ joined[end].next = mem[end].next
      BY <1>10, <1>12 DEF TagType
    <3>2. mem[end].next >= 0
      <4>1. mem[end].next = 0 \/ mem[end].next \in Units
        BY <1>1, <1>10 DEF SoundTags, TagsChained
      <4>2. mem[end].next \in Nat
        <5>1. Units \subseteq Nat
          BY <1>10
        <5>2. CASE mem[end].next = 0
          BY <5>2
        <5>3. CASE mem[end].next \in Units
          BY ONLY <5>1, <5>3
        <5> QED BY <4>1, <5>2, <5>3
      <4> QED BY <4>2
    <3>3. mem'[end] # Junk
      BY <2>1, <2>3, <3>1, <3>2 DEF Junk
    <3> QED BY <2>1, <2>3, <3>3, <1>12
  <2>4. CASE t # end
    BY <2>1, <2>2, <2>4, <1>12, <1>18
  <2> QED BY <2>3, <2>4
<1>19. TagsChained(S)'
  <2>1. ASSUME begin \in S
        PROVE  /\ mem'[begin] # Junk
               /\ mem'[begin].next = 0 => ~ mem'[begin].present /\ \A s \in S : s <= begin
               /\ mem'[begin].next # 0 =>
                    /\ begin < mem'[begin].next /\ mem'[begin].next \in Units
                    /\ mem'[begin].next \in S
                    /\ \A s \in S : s <= begin \/ mem'[begin].next <= s
    <3>1. begin \in T /\ \A s \in S : s <= begin \/ (end <= s /\ ~ last)
      BY <2>1, <1>16, <1>17
    <3>2. CASE last
      <4>1. mem'[begin].next = 0 /\ Junk.next = -1
        BY <3>2, <1>12, <1>14 DEF Junk
      <4> QED BY <3>1, <3>2, <4>1, <1>12, <1>14
    <3>3. CASE ~ last
      <4>1. mem'[begin].next = end /\ Junk.next = -1 /\ end # 0 /\ end # -1
        BY <3>3, <1>10, <1>12, <1>14 DEF Junk
      <4>2. end \in S
        BY <3>3, <1>10, <1>11, <1>16
      <4> QED BY <3>1, <4>1, <4>2, <1>10
    <3> QED BY <3>2, <3>3
  <2>2. ASSUME NEW t \in S, t # begin
        PROVE  /\ mem[t].next = 0 => ~ mem[t].present /\ \A s \in S : s <= t
               /\ mem[t].next # 0 =>
                    /\ t < mem[t].next /\ mem[t].next \in Units
                    /\ mem[t].next \in S \/ mem'[mem[t].next] = Junk
                    /\ \A s \in S : s <= t \/ mem[t].next <= s
    <3>1. t \in T /\ t \in Nat
      BY <1>10, <1>17
    <3>2. CASE mem[t].next = 0
      BY <3>1, <3>2, <1>1, <1>17 DEF SoundTags, TagsChained
    <3>3. CASE mem[t].next # 0
      <4>1. /\ t < mem[t].next /\ mem[t].next \in Units
            /\ mem[t].next \in T \/ mem[mem[t].next] = Junk
            /\ \A s \in T : s <= t \/ mem[t].next <= s
        BY <3>1, <3>3, <1>1 DEF SoundTags, TagsChained
      <4>2. mem[t].next \in Nat
        BY <4>1, <1>10
      <4>3. mem[t].next \in S \/ mem'[mem[t].next] = Junk
        <5>1. CASE mem[mem[t].next] = Junk
          BY <5>1, <4>1, <1>13
        <5>2. CASE PageOf(mem[t].next) \in gone
          BY <5>2, <4>1, <1>13
        <5>3. CASE mem[t].next \in T /\ PageOf(mem[t].next) \notin gone
          <6>1. begin \in T => t < begin \/ (end <= t /\ ~ last)
            BY <2>2, <3>1, <1>10, <1>16
          <6>2. begin \in T => mem[t].next <= begin \/ (end <= mem[t].next /\ ~ last)
            BY <6>1, <3>1, <4>1, <4>2, <1>10
          <6> QED BY <5>3, <6>2, <1>16
        <5> QED BY <5>1, <5>2, <5>3, <4>1
      <4> QED BY <3>3, <4>1, <4>3, <1>17
    <3> QED BY <3>2, <3>3
  <2>3. ASSUME NEW t \in S
        PROVE  /\ PageOf(t) \in mapped' /\ mem'[t] # Junk
               /\ mem'[t].next = 0 => ~ mem'[t].present /\ \A s \in S : s <= t
               /\ mem'[t].next # 0 =>
                    /\ t < mem'[t].next /\ mem'[t].next \in Units
                    /\ mem'[t].next \in S \/ mem'[mem'[t].next] = Junk
                    /\ \A s \in S : s <= t \/ mem'[t].next <= s
    <3>1. CASE t = begin
      BY <2>1, <3>1, <1>17
    <3>2. CASE t # begin
      BY <2>2, <3>2, <1>17, <1>18
    <3> QED BY <3>1, <3>2
  <2> QED BY <2>3 DEF TagsChained, Units
<1>20. ASSUME NEW c \in blocks'
       PROVE  /\ c \in blocks /\ c \in blocks \ {b} /\ c.at \in Nat /\ c.size \in Nat
              /\ c.at + c.size < begin \/ (end <= c.at /\ ~ last)
              /\ c.at \in S /\ c.at # begin
  <2>1. c \in blocks /\ c \in blocks \ {b}
    BY <1>8
  <2>2. c.at + c.size < begin \/ (end <= c.at /\ ~ last)
    BY <2>1, <1>9 DEF Reaches
  <2>3. c.at \in T /\ c.at \in Nat /\ c.size \in Nat /\ c.at \in Units
    BY <2>1, <1>1, <1>2, <1>10, BlocksBetween DEF SoundTags, BlocksTagged
  <2>4. PageOf(c.at) \notin gone /\ c.at # begin
    BY <2>2, <2>3, <1>10, <1>11
  <2>5. c.at <= begin \/ (end <= c.at /\ ~ last)
    BY <2>2, <2>3, <1>10
  <2> QED BY <2>1, <2>2, <2>3, <2>4, <2>5, <1>16
<1>21. BlocksTagged(S)'
  <2>1. ASSUME NEW c \in blocks'
        PROVE  /\ mem'[c.at].present /\ mem'[c.at].next = c.at + 1 + c.size
               /\ \A u \in Extent(c) : PageOf(u) \in mapped'
               /\ \A u \in Extent(c) \ {c.at} : mem'[u] = Junk
    <3>1. /\ mem[c.at].present /\ mem[c.at].next = c.at + 1 + c.size
          /\ \A u \in Extent(c) : PageOf(u) \in mapped
          /\ \A u \in Extent(c) \ {c.at} : mem[u] = Junk
          /\ c.at \in T
      BY <1>1, <1>20 DEF SoundTags, BlocksTagged
    <3>2. mem'[c.at].present /\ mem'[c.at].next = c.at + 1 + c.size
      BY <3>1, <1>18, <1>20
    <3>3. ASSUME NEW u \in Extent(c) PROVE u \in Units /\ PageOf(u) \notin gone
      <4>1. u \in Nat /\ c.at <= u /\ u <= c.at + c.size
        BY <1>20 DEF Extent
      <4>2. mem[c.at].next \in Units
        BY <3>1, <1>1, <1>20 DEF SoundTags, TagsChained
      <4>3. u \in Units
        BY <4>1, <4>2, <3>1, <1>20, UnitsBelow
      <4>4. u < begin \/ (end <= u /\ ~ last)
        BY <4>1, <1>10, <1>20
      <4> QED BY <4>1, <4>3, <4>4, <1>10, <1>11
    <3> QED BY <3>1, <3>2, <3>3, <1>8, <1>13
  <2> QED BY <2>1, <1>20 DEF BlocksTagged, Extent
<1>22. /\ lowest \in Nat /\ lowest' \in Nat /\ lowest' <= begin /\ lowest' <= lowest
       /\ begin \notin T => lowest' = lowest /\ lowest < begin
  <2>1. lowest \in Nat
    BY <1>1, <1>10 DEF SoundTags, SearchInside
  <2>2. begin \notin T => lowest < begin
    BY <1>9 DEF Reaches
  <2> QED BY <2>1, <2>2, <1>8, <1>10
<1>23. TagsBehind(S)'
  <2>1. ASSUME NEW t \in S, t # end, mem'[t].prev # t
        PROVE  /\ mem'[t].prev < t
               /\ \A c \in blocks' : c.at <= mem'[t].prev \/ t <= c.at
               /\ mem'[t].prev \notin S => lowest' < mem'[t].prev
    <3>1. mem'[t].prev = mem[t].prev /\ t \in T
      BY <2>1, <1>12, <1>14, <1>17, <1>18
    <3>2. mem[t].prev \in Int
      BY <3>1, <1>10 DEF TagType
    <3>3. /\ mem[t].prev < t
          /\ \A c \in blocks : c.at <= mem[t].prev \/ t <= c.at
          /\ mem[t].prev \notin T => lowest < mem[t].prev
      BY <2>1, <3>1, <1>1 DEF SoundTags, TagsBehind
    <3>4. ASSUME mem[t].prev \in T, mem[t].prev \notin S PROVE begin < mem[t].prev
      <4>1. mem[t].prev \in Units /\ mem[t].prev \in Nat
        BY <3>4, <1>10
      <4>2. CASE PageOf(mem[t].prev) \in gone
        BY <4>1, <4>2, <1>11
      <4>3. CASE PageOf(mem[t].prev) \notin gone
        BY <3>4, <4>1, <4>3, <1>10, <1>16
      <4> QED BY <4>2, <4>3
    <3>5. mem[t].prev \notin S => lowest' < mem[t].prev
      <4>1. PICK q : q = mem[t].prev
        OBVIOUS
      <4>2. q \in Int /\ lowest \in Nat /\ lowest' \in Nat /\ begin \in Nat
            /\ lowest' <= begin /\ lowest' <= lowest
        BY <4>1, <3>2, <1>10, <1>22
      <4>3. q \notin S => begin < q \/ lowest < q
        BY <4>1, <3>3, <3>4
      <4>4. q \notin S => lowest' < q
        BY <4>2, <4>3
      <4> QED BY <4>1, <4>4
    <3> QED BY <3>1, <3>3, <3>5, <1>20
  <2>2. ASSUME end \in S
        PROVE  /\ mem'[end].prev = begin /\ begin < end
               /\ \A c \in blocks' : c.at <= begin \/ end <= c.at
               /\ begin \notin S => lowest' < begin
    <3>1. mem'[end].prev = begin
      BY <2>2, <1>10, <1>12, <1>13, <1>17
    <3>2. \A c \in blocks' : c.at <= begin \/ end <= c.at
      BY <1>10, <1>20
    <3>3. begin \notin S => lowest' < begin
      BY <1>10, <1>17, <1>22
    <3> QED BY <3>1, <3>2, <3>3, <1>10
  <2> QED BY <2>1, <2>2 DEF TagsBehind
<1>24. SearchInside(S)'
  <2>1. lowest \in T /\ ~ mem[lowest].present
    BY <1>1 DEF SoundTags, SearchInside
  <2>2. lowest' \in T
    BY <2>1, <1>8, <1>10, <1>22
  <2>3. PageOf(lowest') \notin gone
    <3>1. lowest' \in Units /\ ~ (begin < lowest')
      BY <2>2, <1>10, <1>22
    <3> QED BY <3>1, <1>11
  <2>4. lowest' \in S
    <3>1. lowest' <= begin
      BY <1>22
    <3> QED BY <2>2, <2>3, <3>1, <1>16
  <2>5. ~ mem'[lowest'].present
    <3>1. CASE lowest' = begin
      BY <3>1, <1>12, <1>14
    <3>2. CASE lowest' # begin
      <4>1. lowest' = lowest
        BY <3>2, <1>8
      <4> QED BY <3>2, <4>1, <2>1, <2>4, <1>18
    <3> QED BY <3>1, <3>2
  <2>6. scan' = NoScan
    BY <1>2, <1>8
  <2> QED BY <2>4, <2>5, <2>6 DEF SearchInside
<1>25. SoundTags(S)'
  BY <1>17, <1>19, <1>20, <1>21, <1>23, <1>24 DEF SoundTags, Units, BlocksTagged
<1> QED BY <1>15, <1>25 DEF HeapKept

-----------------------------------------------------------------------------
(* The invariant of the heap: every step keeps the tags as they are described. *)
THEOREM HeapInvariant == HeapSpec => []HeapKept
<1>1. HeapKept /\ [HeapNext]_heapVars => HeapKept'
  <2> SUFFICES ASSUME HeapKept, [HeapNext]_heapVars PROVE HeapKept'
    OBVIOUS
  <2>1. ASSUME UNCHANGED <<mem, mapped, lowest, scan, blocks>> PROVE HeapKept'
    <3>1. PICK T : SoundTags(T)
      BY DEF HeapKept
    <3>2. SoundTags(T)'
      BY <2>1, <3>1 DEF SoundTags, TagsChained, BlocksTagged, TagsBehind, SearchInside, Extent
    <3>3. HeapTypes'
      BY <2>1 DEF HeapKept, HeapTypes
    <3> QED BY <3>2, <3>3 DEF HeapKept
  <2>2. CASE UNCHANGED heapVars
    BY <2>1, <2>2 DEF heapVars
  <2>3. CASE \E size \in Sizes : Alloc(size)
    BY <2>3, AllocKeeps
  <2>4. CASE SkipPresent \/ PassTooSmall
    BY <2>4, SkipKeeps
  <2>5. CASE TakeEnd
    BY <2>5, TakeEndKeeps
  <2>6. CASE PassFree
    BY <2>6, PassFreeKeeps
  <2>7. CASE ScanBreaks \/ \E b \in blocks : FreeBreaks(b)
    BY <2>1, <2>7 DEF ScanBreaks, FreeBreaks, Break
  <2>8. CASE \E b \in blocks : FreeBlock(b)
    BY <2>8, FreeBlockKeeps
  <2> QED BY <2>2, <2>3, <2>4, <2>5, <2>6, <2>7, <2>8 DEF HeapNext
<1> QED BY <1>1, HeapStarts, PTL DEF HeapSpec

(* The blocks that the heap has handed out are apart from each other, mapped and *)
(* behind their tags, whatever is split, merged and unmapped (kheap.c).         *)
THEOREM BlocksStayApart == HeapSpec => []BlocksApart
BY HeapInvariant, KeptApart, PTL
-----------------------------------------------------------------------------
(* The kernel map.  Which marks a page may have, and which pages have marks   *)
(* of which types.                                                            *)
Image == [owner |-> Kernel, type |-> "image"]
Held(process, type) == [owner |-> process, type |-> type]

PageMarks ==
  {Free, Image} \union {Reserved(t) : t \in ReservedTypes} \union
  {Held(o, t) : o \in PageOwners, t \in {"ptable", "data"}}

TakenTypes == {"image", "ptable", "data"}

LEMMA QuotientNat ==
  ASSUME NEW x \in Nat, NEW d \in Nat, d > 0
  PROVE  x \div d \in Nat
OBVIOUS

LEMMA PagesFinite ==
  /\ PageCount \in Nat /\ Pages \subseteq Nat /\ IsFiniteSet(Pages)
  /\ \A S \in SUBSET Pages : IsFiniteSet(S) /\ Cardinality(S) \in Nat
<1> DEFINE R == [begin : Nat, end : Nat, status : ReservedTypes \union {"available", "kernel"}]
<1>0. \A e \in R : e.end \in Nat
  OBVIOUS
<1>1. MemoryMap \in Seq(R) /\ MemoryMap # <<>>
  BY KernelAssumption
<1> HIDE DEF R
<1>2. MemoryMap[Len(MemoryMap)] \in R
  <2>1. Len(MemoryMap) \in Nat /\ Len(MemoryMap) # 0
    BY <1>1
  <2> QED BY <1>1, <2>1
<1>3. PageCount \in Nat
  <2>1. PageSize \in Nat /\ PageSize > 0
    BY KernelAssumption
  <2> QED BY <1>0, <1>2, <2>1, QuotientNat DEF PageCount
<1>4. Pages \subseteq Nat
  BY <1>3 DEF Pages
<1>5. IsFiniteSet(Pages)
  BY <1>3, FS_Interval DEF Pages
<1> QED BY <1>3, <1>4, <1>5, FS_Subset, FS_CardinalityType

LEMMA PagesJoin ==
  ASSUME NEW S \in SUBSET Pages, NEW D \in SUBSET Pages
  PROVE  /\ S \intersect D = {} =>
              Cardinality(S \union D) = Cardinality(S) + Cardinality(D)
         /\ D \subseteq S => Cardinality(S \ D) = Cardinality(S) - Cardinality(D)
         /\ Cardinality(D \ S) = Cardinality(D) - Cardinality(D \intersect S)
         /\ Cardinality(S) \in Nat /\ Cardinality(D) \in Nat
<1>1. /\ IsFiniteSet(S) /\ IsFiniteSet(D) /\ Cardinality(S) \in Nat /\ Cardinality(D) \in Nat
      /\ S \ D \in SUBSET Pages /\ D \ S \in SUBSET Pages /\ D \intersect S \in SUBSET Pages
  BY PagesFinite
<1>2. /\ IsFiniteSet(S \ D) /\ Cardinality(S \ D) \in Nat
      /\ IsFiniteSet(D \ S) /\ Cardinality(D \ S) \in Nat
      /\ IsFiniteSet(D \intersect S) /\ Cardinality(D \intersect S) \in Nat
  BY <1>1, PagesFinite
<1>3. ASSUME S \intersect D = {}
      PROVE Cardinality(S \union D) = Cardinality(S) + Cardinality(D)
  <2>1. Cardinality(S \union D) = Cardinality(S) + Cardinality(D) - Cardinality({})
    BY <1>1, <1>3, FS_Union
  <2>2. Cardinality({}) = 0
    BY FS_EmptySet
  <2> QED BY <2>1, <2>2, <1>1
<1>4. ASSUME D \subseteq S
      PROVE Cardinality(S \ D) = Cardinality(S) - Cardinality(D)
  <2>1. (S \ D) \union D = S /\ (S \ D) \intersect D = {}
    BY <1>4
  <2>2. Cardinality(S) = Cardinality(S \ D) + Cardinality(D) - Cardinality({})
    BY <2>1, <1>1, <1>2, FS_Union
  <2>3. Cardinality({}) = 0
    BY FS_EmptySet
  <2> QED BY <2>2, <2>3, <1>1, <1>2
<1>5. Cardinality(D \ S) = Cardinality(D) - Cardinality(D \intersect S)
  <2>1. (D \ S) \union (D \intersect S) = D /\ (D \ S) \intersect (D \intersect S) = {}
    OBVIOUS
  <2>2. Cardinality(D) = Cardinality(D \ S) + Cardinality(D \intersect S) - Cardinality({})
    BY <2>1, <1>1, <1>2, FS_Union
  <2>3. Cardinality({}) = 0
    BY FS_EmptySet
  <2> QED BY <2>2, <2>3, <1>1, <1>2
<1> QED BY <1>1, <1>3, <1>4, <1>5

LEMMA FirstThere ==
  ASSUME NEW S, S \subseteq Nat, IsFiniteSet(S), S # {}, NEW high \in BOOLEAN
  PROVE  \E m \in S : \A q \in S : q = m \/ Before(m, q, high)
<1>1. CASE high
  <2>1. PICK b \in Nat : \A t \in S : t <= b
    BY FiniteBounded
  <2>2. PICK m \in S : \A q \in S : q <= m
    BY <2>1, NatGreatest
  <2> QED BY <2>2, <1>1 DEF Before
<1>2. CASE ~ high
  <2>1. PICK m \in S : \A q \in S : m <= q
    BY NatLeast
  <2> QED BY <2>1, <1>2 DEF Before
<1> QED BY <1>1, <1>2

LEMMA BeforeOrders ==
  ASSUME NEW p \in Nat, NEW q \in Nat, NEW r \in Nat, NEW high \in BOOLEAN
  PROVE  /\ ~ Before(p, p, high)
         /\ Before(p, q, high) /\ Before(q, r, high) => Before(p, r, high)
         /\ p = q \/ Before(p, q, high) \/ Before(q, p, high)
BY DEF Before

(* A loop over S finds as many pages as it is told to, if there are as many.  *)
LEMMA FoundAreCounted ==
  ASSUME NEW S, S \subseteq Nat, IsFiniteSet(S), NEW high \in BOOLEAN,
         NEW n \in Nat, n <= Cardinality(S)
  PROVE  /\ FoundFirst(S, n, high) \subseteq S
         /\ IsFiniteSet(FoundFirst(S, n, high))
         /\ Cardinality(FoundFirst(S, n, high)) = n
<1> DEFINE Ahead(p) == {q \in S : Before(q, p, high)}
           F(k) == FoundFirst(S, k, high)
           N == {k \in Nat : k <= Cardinality(S) => Cardinality(F(k)) = k}
<1>1. \A p \in S : IsFiniteSet(Ahead(p)) /\ Cardinality(Ahead(p)) \in Nat
  BY FS_Subset, FS_CardinalityType, Ahead({}) = Ahead({})
<1>2. \A k \in Nat : F(k) \subseteq S /\ IsFiniteSet(F(k)) /\ Cardinality(F(k)) \in Nat
  <2>1. \A k \in Nat : F(k) \subseteq S
    BY DEF FoundFirst
  <2> QED BY <2>1, FS_Subset, FS_CardinalityType
<1>3. \A k \in Nat : \A p \in S : p \in F(k) <=> Cardinality(Ahead(p)) < k
  BY DEF FoundFirst
<1>4. 0 \in N
  <2> HIDE DEF F, Ahead
  <2>1. \A p \in F(0) : p \in S /\ Cardinality(Ahead(p)) < 0
    BY <1>2, <1>3
  <2>2. ASSUME NEW p \in F(0) PROVE FALSE
    <3>1. Cardinality(Ahead(p)) \in Nat /\ Cardinality(Ahead(p)) < 0
      BY <2>1, <1>1
    <3> QED BY <3>1
  <2>3. F(0) = {}
    BY <2>2
  <2> QED BY <2>3, FS_EmptySet
<1>5. ASSUME NEW k \in Nat, k \in N PROVE k + 1 \in N
  <2> SUFFICES ASSUME k + 1 <= Cardinality(S) PROVE Cardinality(F(k + 1)) = k + 1
    OBVIOUS
  <2>1. Cardinality(S) \in Nat
    BY FS_CardinalityType
  <2>2. Cardinality(F(k)) = k /\ F(k) \subseteq S
    BY <2>1, <1>2, <1>5
  <2>3. S \ F(k) # {}
    <3> SUFFICES ASSUME S \ F(k) = {} PROVE FALSE
      OBVIOUS
    <3>1. S = F(k)
      BY <2>2
    <3> QED BY <3>1, <2>1, <2>2
  <2>4. IsFiniteSet(S \ F(k)) /\ S \ F(k) \subseteq Nat
    BY FS_Subset
  <2> HIDE DEF F
  <2>5. PICK m \in S \ F(k) : \A q \in S \ F(k) : q = m \/ Before(m, q, high)
    BY <2>3, <2>4, FirstThere
  <2>6. Ahead(m) = F(k)
    <3>1. ASSUME NEW q \in S, Before(q, m, high) PROVE q \in F(k)
      <4> SUFFICES ASSUME q \notin F(k) PROVE FALSE
        OBVIOUS
      <4>1. q = m \/ Before(m, q, high)
        BY <2>5
      <4> QED BY <4>1, <3>1, BeforeOrders
    <3>2. ASSUME NEW q \in F(k) PROVE q \in S /\ Before(q, m, high)
      <4>1. q \in S /\ q # m
        BY <2>2, <2>5
      <4> SUFFICES ASSUME ~ Before(q, m, high) PROVE FALSE
        BY <4>1
      <4>2. Before(m, q, high)
        BY <4>1, BeforeOrders
      <4>3. Ahead(m) \subseteq Ahead(q)
        <5>1. ASSUME NEW x \in S, Before(x, m, high) PROVE Before(x, q, high)
          BY <5>1, <4>1, <4>2, <2>5, BeforeOrders
        <5> QED BY <5>1
      <4>4. Cardinality(Ahead(m)) <= Cardinality(Ahead(q))
        BY <4>1, <4>3, <1>1, FS_Subset
      <4>5. Cardinality(Ahead(q)) < k
        BY <1>3, <4>1
      <4>6. Cardinality(Ahead(m)) < k
        BY <4>4, <4>5, <4>1, <1>1
      <4> QED BY <4>6, <1>3, <2>5
    <3> QED BY <3>1, <3>2
  <2>7. F(k + 1) = F(k) \union {m}
    <3>1. Cardinality(Ahead(m)) = k
      BY <2>6, <2>2
    <3>2. m \in F(k + 1)
      BY <3>1, <1>3, <2>5
    <3>3. F(k) \subseteq F(k + 1)
      <4>1. ASSUME NEW p \in F(k) PROVE p \in F(k + 1)
        <5>1. p \in S /\ Cardinality(Ahead(p)) < k /\ Cardinality(Ahead(p)) \in Nat
          BY <1>1, <1>2, <1>3
        <5>2. Cardinality(Ahead(p)) < k + 1 /\ k + 1 \in Nat
          BY <5>1
        <5> QED BY <5>1, <5>2, <1>3
      <4> QED BY <4>1
    <3>4. ASSUME NEW p \in F(k + 1), p \notin F(k), p # m PROVE FALSE
      <4>1. p \in S /\ Before(m, p, high)
        <5>1. p \in S /\ p \in S \ F(k)
          BY <3>4, <1>2
        <5> QED BY <5>1, <3>4, <2>5
      <4>2. Ahead(m) \union {m} \subseteq Ahead(p)
        <5>1. ASSUME NEW x \in S, Before(x, m, high) PROVE Before(x, p, high)
          BY <5>1, <4>1, <2>5, BeforeOrders
        <5> QED BY <5>1, <4>1, <2>5
      <4>3. m \notin Ahead(m)
        BY BeforeOrders
      <4>4. Cardinality(Ahead(m) \union {m}) = k + 1 /\ IsFiniteSet(Ahead(m) \union {m})
        BY <4>3, <3>1, <1>1, FS_AddElement
      <4>5. k + 1 <= Cardinality(Ahead(p))
        BY <4>1, <4>2, <4>4, <1>1, FS_Subset
      <4>6. Cardinality(Ahead(p)) < k + 1
        BY <4>1, <3>4, <1>3
      <4> QED BY <4>5, <4>6, <4>1, <1>1
    <3> QED BY <3>2, <3>3, <3>4
  <2>8. m \notin F(k) /\ IsFiniteSet(F(k))
    BY <2>5, <1>2
  <2> QED BY <2>2, <2>7, <2>8, FS_AddElement
<1> HIDE DEF N
<1>6. Nat \subseteq N
  BY <1>4, <1>5, NatSteps
<1> QED BY <1>6, <1>2 DEF N

(* The n-th of a set of numbers, counted from 0, is there.                    *)
LEMMA NthThere ==
  ASSUME NEW S, S \subseteq Nat, IsFiniteSet(S), NEW n \in Nat, n < Cardinality(S)
  PROVE  Nth(S, n) \in S /\ Cardinality({q \in S : q < Nth(S, n)}) = n
<1> DEFINE Less(p) == {q \in S : q < p}
<1>1. Cardinality(S) \in Nat
  BY FS_CardinalityType
<1>2. /\ FoundFirst(S, n, FALSE) \subseteq S /\ IsFiniteSet(FoundFirst(S, n, FALSE))
      /\ Cardinality(FoundFirst(S, n, FALSE)) = n
  BY <1>1, FALSE \in BOOLEAN, n <= Cardinality(S), FoundAreCounted
<1>3. /\ FoundFirst(S, n + 1, FALSE) \subseteq S
      /\ Cardinality(FoundFirst(S, n + 1, FALSE)) = n + 1
  BY <1>1, FALSE \in BOOLEAN, n + 1 <= Cardinality(S), n + 1 \in Nat, FoundAreCounted
<1>4. ~ (FoundFirst(S, n + 1, FALSE) \subseteq FoundFirst(S, n, FALSE))
  <2> SUFFICES ASSUME FoundFirst(S, n + 1, FALSE) \subseteq FoundFirst(S, n, FALSE) PROVE FALSE
    OBVIOUS
  <2>1. Cardinality(FoundFirst(S, n + 1, FALSE)) <= Cardinality(FoundFirst(S, n, FALSE))
    BY <1>2, FS_Subset
  <2>2. n + 1 <= n
    BY <2>1, <1>2, <1>3, Zenon
  <2> QED BY <2>2
<1>5. PICK p \in S : p \in FoundFirst(S, n + 1, FALSE) /\ p \notin FoundFirst(S, n, FALSE)
  BY <1>3, <1>4
<1>6. {q \in S : Before(q, p, FALSE)} = Less(p)
  BY DEF Before
<1>7. Cardinality(Less(p)) < n + 1 /\ ~ (Cardinality(Less(p)) < n)
  BY <1>5, <1>6 DEF FoundFirst
<1>8. Cardinality(Less(p)) \in Nat
  BY FS_Subset, FS_CardinalityType
<1>9. Cardinality(Less(p)) = n
  BY <1>7, <1>8
<1> QED BY <1>9 DEF Nth

LEMMA MarkFacts ==
  /\ Free.type = "free" /\ Free.owner = "none" /\ Image.type = "image"
  /\ \A o, t : Held(o, t).type = t /\ Held(o, t).owner = o
  /\ \A t : Reserved(t).type = t
  /\ Free \in PageMarks /\ Image \in PageMarks
  /\ \A t \in ReservedTypes : Reserved(t) \in PageMarks
  /\ \A o \in PageOwners, t \in {"ptable", "data"} : Held(o, t) \in PageMarks
  /\ \A r \in PageMarks :
       /\ r.type \in TakenTypes \union ReservedTypes \union {"free"}
       /\ r.type = "free" => r = Free
       /\ r.owner \in UserProcesses => r.type \in {"ptable", "data"}
<1>1. /\ Free.type = "free" /\ Free.owner = "none" /\ Image.type = "image"
      /\ Image.owner = Kernel
  BY DEF Free, Image
<1>2. \A o, t : Held(o, t).type = t /\ Held(o, t).owner = o
  BY DEF Held
<1>3. \A t : Reserved(t).type = t /\ Reserved(t).owner = "none"
  BY DEF Reserved
<1>4. ASSUME NEW r \in PageMarks
      PROVE  /\ r.type \in TakenTypes \union ReservedTypes \union {"free"}
             /\ r.type = "free" => r = Free
             /\ r.owner \in UserProcesses => r.type \in {"ptable", "data"}
  <2>1. CASE r = Free
    BY <2>1, <1>1, KernelAssumption
  <2>2. CASE r = Image
    BY <2>2, <1>1, KernelAssumption DEF TakenTypes
  <2>3. CASE \E t \in ReservedTypes : r = Reserved(t)
    BY <2>3, <1>3, KernelAssumption DEF ReservedTypes
  <2>4. CASE \E o \in PageOwners, t \in {"ptable", "data"} : r = Held(o, t)
    BY <2>4, <1>2 DEF TakenTypes
  <2> QED BY <2>1, <2>2, <2>3, <2>4 DEF PageMarks
<1>5. /\ Free \in PageMarks /\ Image \in PageMarks
      /\ \A t \in ReservedTypes : Reserved(t) \in PageMarks
      /\ \A o \in PageOwners, t \in {"ptable", "data"} : Held(o, t) \in PageMarks
  BY DEF PageMarks
<1> QED BY <1>1, <1>2, <1>3, <1>4, <1>5

-----------------------------------------------------------------------------
InfoTypes == info \in [Pages -> PageMarks] /\ drift \in Int

(* Where the tables and the mapped pages lie: the tables are those on the way   *)
(* to the mapped pages, and nothing else.                                     *)
MapKept ==
  /\ DOMAIN leaf \subseteq Addresses
  /\ DOMAIN tables = {<<>>} \union UNION {Prefixes(a) : a \in DOMAIN leaf}
  /\ tables[<<>>] = 0
  /\ \A i \in DOMAIN tables \ {<<>>} :
       /\ tables[i] \in Pages \ {0} /\ info[tables[i]] = Held(Kernel, "ptable")
       /\ \A j \in DOMAIN tables \ {i} : tables[i] # tables[j]
  /\ \A a \in DOMAIN leaf : leaf[a] \in Pages /\ info[leaf[a]] = Held(Kernel, "data")

KernelKept == InfoTypes /\ CountersExact /\ MapKept

LEMMA TypesApart ==
  ASSUME InfoTypes
  PROVE  /\ OfType(info, {"free"}) \in SUBSET Pages
         /\ OfType(info, TakenTypes) \in SUBSET Pages
         /\ OfType(info, ReservedTypes) \in SUBSET Pages
         /\ OfType(info, {"free"}) \intersect OfType(info, TakenTypes) = {}
         /\ OfType(info, {"free"}) \intersect OfType(info, ReservedTypes) = {}
         /\ OfType(info, TakenTypes) \intersect OfType(info, ReservedTypes) = {}
         /\ \A p \in Pages :
              /\ IsFree(p) <=> p \in OfType(info, {"free"})
              /\ \/ p \in OfType(info, {"free"}) \/ p \in OfType(info, TakenTypes)
                 \/ p \in OfType(info, ReservedTypes)
<1>1. \A p \in Pages : info[p] \in PageMarks
  BY DEF InfoTypes
<1>2. \A p \in Pages : IsFree(p) <=> p \in OfType(info, {"free"})
  BY <1>1, MarkFacts DEF IsFree, OfType
<1>3. \A p \in Pages : \/ p \in OfType(info, {"free"}) \/ p \in OfType(info, TakenTypes)
                        \/ p \in OfType(info, ReservedTypes)
  BY <1>1, MarkFacts DEF OfType
<1>4. /\ OfType(info, {"free"}) \in SUBSET Pages
      /\ OfType(info, TakenTypes) \in SUBSET Pages
      /\ OfType(info, ReservedTypes) \in SUBSET Pages
      /\ OfType(info, {"free"}) \intersect OfType(info, TakenTypes) = {}
      /\ OfType(info, {"free"}) \intersect OfType(info, ReservedTypes) = {}
      /\ OfType(info, TakenTypes) \intersect OfType(info, ReservedTypes) = {}
  BY DEF OfType, TakenTypes, ReservedTypes
<1> QED BY <1>2, <1>3, <1>4

LEMMA CountersMeans ==
  CountersExact <=>
    counters = [available |-> Cardinality(OfType(info, {"free"})) + drift,
                kernel    |-> Cardinality(OfType(info, TakenTypes)) - drift,
                reserved  |-> Cardinality(OfType(info, ReservedTypes))]
BY DEF CountersExact, TakenTypes

(* Free pages are taken, and counted. *)
LEMMA TakeCounts ==
  ASSUME KernelKept, NEW ps \in SUBSET Pages, \A p \in ps : IsFree(p),
         NEW process \in PageOwners, NEW type \in {"ptable", "data"},
         NEW n, n = Cardinality(ps), TakePages(ps, n, process, type), drift' = drift
  PROVE  /\ InfoTypes' /\ CountersExact'
         /\ \A p \in Pages : info'[p] = IF p \in ps THEN Held(process, type) ELSE info[p]
<1>1. InfoTypes /\ CountersExact
  BY DEF KernelKept
<1>2. info' = [p \in Pages |-> IF p \in ps THEN Held(process, type) ELSE info[p]]
  BY DEF TakePages, Held
<1>3. info \in [Pages -> PageMarks] /\ drift \in Int
  BY <1>1 DEF InfoTypes
<1>4. Held(process, type) \in PageMarks /\ Held(process, type).type = type
  BY MarkFacts
<1>5. /\ info' \in [Pages -> PageMarks]
      /\ \A p \in Pages : info'[p] = IF p \in ps THEN Held(process, type) ELSE info[p]
      /\ OfType(info', {"free"}) = OfType(info, {"free"}) \ ps
      /\ OfType(info', TakenTypes) = OfType(info, TakenTypes) \union ps
      /\ OfType(info', ReservedTypes) = OfType(info, ReservedTypes) \ ps
  <2>1. /\ info' \in [Pages -> PageMarks]
        /\ \A p \in Pages : info'[p] = IF p \in ps THEN Held(process, type) ELSE info[p]
        /\ \A types : OfType(info', types) =
             IF Held(process, type).type \in types THEN OfType(info, types) \union ps
             ELSE OfType(info, types) \ ps
    <3> DEFINE g == info'
               mark == Held(process, type)
    <3>1. /\ info \in [Pages -> PageMarks] /\ ps \in SUBSET Pages /\ mark \in PageMarks
          /\ g = [p \in Pages |-> IF p \in ps THEN mark ELSE info[p]]
      BY <1>2, <1>3, <1>4
    <3> HIDE DEF g, mark
    <3>2. /\ g \in [Pages -> PageMarks]
          /\ \A p \in Pages : g[p] = IF p \in ps THEN mark ELSE info[p]
      BY <3>1
    <3>3. ASSUME NEW types
          PROVE  OfType(g, types) =
                   IF mark.type \in types THEN OfType(info, types) \union ps
                   ELSE OfType(info, types) \ ps
      BY <3>2 DEF OfType
    <3> QED BY <3>2, <3>3 DEF g, mark
  <2>2. type \notin {"free"} /\ type \in TakenTypes /\ type \notin ReservedTypes
    BY DEF TakenTypes, ReservedTypes
  <2> QED BY <2>1, <2>2, <1>4
<1>6. /\ ps \subseteq OfType(info, {"free"}) /\ OfType(info, TakenTypes) \intersect ps = {}
      /\ OfType(info, ReservedTypes) \ ps = OfType(info, ReservedTypes)
  BY <1>1, TypesApart
<1>7. /\ Cardinality(OfType(info', {"free"})) = Cardinality(OfType(info, {"free"})) - Cardinality(ps)
      /\ Cardinality(OfType(info', TakenTypes)) = Cardinality(OfType(info, TakenTypes)) + Cardinality(ps)
      /\ Cardinality(ps) \in Nat /\ Cardinality(OfType(info, {"free"})) \in Nat
      /\ Cardinality(OfType(info, TakenTypes)) \in Nat /\ Cardinality(OfType(info, ReservedTypes)) \in Nat
  <2>1. /\ OfType(info, {"free"}) \in SUBSET Pages /\ OfType(info, TakenTypes) \in SUBSET Pages
        /\ OfType(info, ReservedTypes) \in SUBSET Pages
    BY <1>1, TypesApart
  <2>2. /\ Cardinality(OfType(info, {"free"}) \ ps)
             = Cardinality(OfType(info, {"free"})) - Cardinality(ps)
        /\ Cardinality(ps) \in Nat /\ Cardinality(OfType(info, {"free"})) \in Nat
    BY <2>1, <1>6, PagesJoin
  <2>3. /\ Cardinality(OfType(info, TakenTypes) \union ps)
             = Cardinality(OfType(info, TakenTypes)) + Cardinality(ps)
        /\ Cardinality(OfType(info, TakenTypes)) \in Nat
    BY <2>1, <1>6, PagesJoin
  <2>4. Cardinality(OfType(info, ReservedTypes)) \in Nat
    BY <2>1, PagesJoin
  <2> QED BY <2>2, <2>3, <2>4, <1>5
<1>8. /\ counters.available = Cardinality(OfType(info, {"free"})) + drift
      /\ counters.kernel = Cardinality(OfType(info, TakenTypes)) - drift
      /\ counters.reserved = Cardinality(OfType(info, ReservedTypes))
  BY <1>1, CountersMeans
<1>9. /\ counters.available + (- n) = Cardinality(OfType(info', {"free"})) + drift'
      /\ counters.kernel + n = Cardinality(OfType(info', TakenTypes)) - drift'
      /\ counters.reserved + 0 = Cardinality(OfType(info', ReservedTypes))
  <2>1. drift \in Int /\ drift' = drift
    BY <1>3
  <2>2. Cardinality(OfType(info', ReservedTypes)) = Cardinality(OfType(info, ReservedTypes))
    BY <1>5, <1>6
  <2> QED BY <2>1, <2>2, <1>7, <1>8
<1>10. counters' = [available |-> counters.available + (- n),
                    kernel    |-> counters.kernel + n,
                    reserved  |-> counters.reserved + 0]
  BY DEF TakePages, Account
<1>11. CountersExact'
  BY <1>9, <1>10, Zenon DEF CountersExact, TakenTypes
<1> QED BY <1>3, <1>5, <1>11 DEF InfoTypes

(* Pages that are free or in use are freed, counted or not. *)
LEMMA FreeCounts ==
  ASSUME KernelKept, NEW ps \in SUBSET Pages, ps \intersect OfType(info, ReservedTypes) = {},
         NEW n \in Int,
         counters' = [available |-> counters.available + n,
                      kernel    |-> counters.kernel + (- n),
                      reserved  |-> counters.reserved + 0],
         drift' = drift + n - Cardinality({p \in ps : ~ IsFree(p)}),
         FreePages(ps)
  PROVE  /\ InfoTypes' /\ CountersExact'
         /\ \A p \in Pages : info'[p] = IF p \in ps THEN Free ELSE info[p]
<1> DEFINE used == {p \in ps : ~ IsFree(p)}
<1>1. InfoTypes /\ CountersExact
  BY DEF KernelKept
<1>2. info' = [p \in Pages |-> IF p \in ps THEN Free ELSE info[p]]
  BY DEF FreePages
<1>3. info \in [Pages -> PageMarks] /\ drift \in Int
  BY <1>1 DEF InfoTypes
<1>5. /\ info' \in [Pages -> PageMarks]
      /\ \A p \in Pages : info'[p] = IF p \in ps THEN Free ELSE info[p]
      /\ OfType(info', {"free"}) = OfType(info, {"free"}) \union ps
      /\ OfType(info', TakenTypes) = OfType(info, TakenTypes) \ ps
      /\ OfType(info', ReservedTypes) = OfType(info, ReservedTypes) \ ps
  <2>1. /\ info' \in [Pages -> PageMarks]
        /\ \A p \in Pages : info'[p] = IF p \in ps THEN Free ELSE info[p]
        /\ \A types : OfType(info', types) =
             IF Free.type \in types THEN OfType(info, types) \union ps
             ELSE OfType(info, types) \ ps
    <3> DEFINE g == info'
               mark == Free
    <3>1. /\ info \in [Pages -> PageMarks] /\ ps \in SUBSET Pages /\ mark \in PageMarks
          /\ g = [p \in Pages |-> IF p \in ps THEN mark ELSE info[p]]
      BY <1>2, <1>3, MarkFacts
    <3> HIDE DEF g, mark
    <3>2. /\ g \in [Pages -> PageMarks]
          /\ \A p \in Pages : g[p] = IF p \in ps THEN mark ELSE info[p]
      BY <3>1
    <3>3. ASSUME NEW types
          PROVE  OfType(g, types) =
                   IF mark.type \in types THEN OfType(info, types) \union ps
                   ELSE OfType(info, types) \ ps
      BY <3>2 DEF OfType
    <3> QED BY <3>2, <3>3 DEF g, mark
  <2>2. /\ Free.type = "free" /\ "free" \in {"free"} /\ "free" \notin TakenTypes
        /\ "free" \notin ReservedTypes
    BY MarkFacts DEF TakenTypes, ReservedTypes
  <2> QED BY <2>1, <2>2
<1>6. /\ used \subseteq OfType(info, TakenTypes) /\ OfType(info, {"free"}) \intersect used = {}
      /\ OfType(info', {"free"}) = OfType(info, {"free"}) \union used
      /\ OfType(info', TakenTypes) = OfType(info, TakenTypes) \ used
      /\ OfType(info', ReservedTypes) = OfType(info, ReservedTypes)
      /\ used \in SUBSET Pages
  BY <1>1, <1>5, TypesApart
<1> HIDE DEF used
<1>7. /\ Cardinality(OfType(info', {"free"})) = Cardinality(OfType(info, {"free"})) + Cardinality(used)
      /\ Cardinality(OfType(info', TakenTypes)) = Cardinality(OfType(info, TakenTypes)) - Cardinality(used)
      /\ Cardinality(used) \in Nat /\ Cardinality(OfType(info, {"free"})) \in Nat
      /\ Cardinality(OfType(info, TakenTypes)) \in Nat /\ Cardinality(OfType(info, ReservedTypes)) \in Nat
  <2>1. /\ OfType(info, {"free"}) \in SUBSET Pages /\ OfType(info, TakenTypes) \in SUBSET Pages
        /\ OfType(info, ReservedTypes) \in SUBSET Pages
    BY <1>1, TypesApart
  <2>2. /\ Cardinality(OfType(info, {"free"}) \union used)
             = Cardinality(OfType(info, {"free"})) + Cardinality(used)
        /\ Cardinality(used) \in Nat /\ Cardinality(OfType(info, {"free"})) \in Nat
    BY <2>1, <1>6, PagesJoin
  <2>3. /\ Cardinality(OfType(info, TakenTypes) \ used)
             = Cardinality(OfType(info, TakenTypes)) - Cardinality(used)
        /\ Cardinality(OfType(info, TakenTypes)) \in Nat
    BY <2>1, <1>6, PagesJoin
  <2>4. Cardinality(OfType(info, ReservedTypes)) \in Nat
    BY <2>1, PagesJoin
  <2> QED BY <2>2, <2>3, <2>4, <1>6
<1>8. /\ counters.available = Cardinality(OfType(info, {"free"})) + drift
      /\ counters.kernel = Cardinality(OfType(info, TakenTypes)) - drift
      /\ counters.reserved = Cardinality(OfType(info, ReservedTypes))
  BY <1>1, CountersMeans
<1>4. drift' = drift + n - Cardinality(used) /\ drift' \in Int
  BY <1>3, <1>7 DEF used
<1>9. /\ counters.available + n = Cardinality(OfType(info', {"free"})) + drift'
      /\ counters.kernel + (- n) = Cardinality(OfType(info', TakenTypes)) - drift'
      /\ counters.reserved + 0 = Cardinality(OfType(info', ReservedTypes))
  BY <1>3, <1>4, <1>6, <1>7, <1>8
<1>11. CountersExact'
  BY <1>9, Zenon DEF CountersExact, TakenTypes
<1> QED BY <1>4, <1>5, <1>11 DEF InfoTypes

(* A call that leaves the tables and the mapped pages alone.                   *)
LEMMA MapStays ==
  ASSUME MapKept, UNCHANGED <<tables, leaf>>,
         \A p \in Pages : info[p] = Held(Kernel, "ptable") => info'[p] = info[p],
         \A a \in DOMAIN leaf : leaf[a] \in Pages => info'[leaf[a]] = info[leaf[a]]
  PROVE  MapKept'
BY DEF MapKept

-----------------------------------------------------------------------------
LEMMA PrefixFacts ==
  ASSUME NEW a \in Addresses, NEW b \in Addresses, NEW n \in 1 .. 3, NEW m \in 1 .. 3
  PROVE  /\ Len(SubSeq(a, 1, n)) = n
         /\ SubSeq(a, 1, n) = SubSeq(b, 1, m) =>
              n = m /\ \A k \in 1 .. n : SubSeq(a, 1, k) = SubSeq(b, 1, k)
<1>1. a \in [1 .. 4 -> Nat] /\ b \in [1 .. 4 -> Nat]
  BY KernelAssumption
<1>2. a \in Seq(Nat) /\ Len(a) = 4 /\ b \in Seq(Nat) /\ Len(b) = 4
  <2>1. ASSUME NEW c \in [1 .. 4 -> Nat] PROVE c \in Seq(Nat) /\ Len(c) = 4
    <3>1. c = [k \in 1 .. 4 |-> c[k]] /\ DOMAIN c = 1 .. 4 /\ \A k \in 1 .. 4 : c[k] \in Nat
      OBVIOUS
    <3>2. c \in Seq(Nat)
      BY <3>1, 4 \in Nat
    <3>3. Len(c) = 4
      BY <3>1, <3>2, 4 \in Nat
    <3> QED BY <3>2, <3>3
  <2> QED BY <1>1, <2>1
<1>3. \A c \in {a, b} : \A k \in 1 .. 3 :
        /\ Len(SubSeq(c, 1, k)) = k /\ SubSeq(c, 1, k) \in Seq(Nat)
        /\ \A x \in 1 .. k : SubSeq(c, 1, k)[x] = c[x]
  BY <1>2
<1>4. ASSUME SubSeq(a, 1, n) = SubSeq(b, 1, m)
      PROVE  n = m /\ \A k \in 1 .. n : SubSeq(a, 1, k) = SubSeq(b, 1, k)
  <2>1. n = m
    BY <1>3, <1>4
  <2>2. \A x \in 1 .. n : a[x] = b[x]
    BY <1>3, <1>4, <2>1
  <2>3. ASSUME NEW k \in 1 .. n PROVE SubSeq(a, 1, k) = SubSeq(b, 1, k)
    <3>1. /\ SubSeq(a, 1, k) \in Seq(Nat) /\ SubSeq(b, 1, k) \in Seq(Nat)
          /\ Len(SubSeq(a, 1, k)) = k /\ Len(SubSeq(b, 1, k)) = k
          /\ \A x \in 1 .. k : SubSeq(a, 1, k)[x] = SubSeq(b, 1, k)[x]
      BY <1>3, <2>2
    <3> QED BY <3>1
  <2> QED BY <2>1, <2>3
<1> QED BY <1>3, <1>4

LEMMA PrefixesLead ==
  ASSUME NEW a \in Addresses, NEW i \in Prefixes(a)
  PROVE  /\ Len(i) \in 1 .. 3 /\ i = SubSeq(a, 1, Len(i)) /\ i # <<>>
         /\ \A b \in Addresses : i \in Prefixes(b) =>
              \A k \in 1 .. Len(i) : SubSeq(a, 1, k) \in Prefixes(b)
<1>1. PICK n \in 1 .. 3 : i = SubSeq(a, 1, n)
  BY DEF Prefixes
<1>2. Len(i) = n
  BY <1>1, PrefixFacts
<1>3. ASSUME NEW b \in Addresses, i \in Prefixes(b), NEW k \in 1 .. n
      PROVE  SubSeq(a, 1, k) \in Prefixes(b)
  <2>1. PICK m \in 1 .. 3 : i = SubSeq(b, 1, m)
    BY <1>3 DEF Prefixes
  <2>2. SubSeq(a, 1, k) = SubSeq(b, 1, k)
    BY <1>1, <2>1, PrefixFacts
  <2>3. k \in 1 .. 3
    OBVIOUS
  <2> QED BY <2>2, <2>3 DEF Prefixes
<1>4. i # <<>>
  BY <1>2
<1> QED BY <1>1, <1>2, <1>3, <1>4

(* The tables that an address lacks are the lowest ones on its way.           *)
LEMMA MissingBelow ==
  ASSUME MapKept, NEW a \in Addresses
  PROVE  \E c \in 1 .. 4 :
           /\ Cardinality(Missing(a)) = 4 - c
           /\ \A i \in Missing(a) : Len(i) \in c .. 3
           /\ \A i, j \in Missing(a) : Len(i) = Len(j) => i = j
<1> DEFINE L == {k \in 1 .. 3 : SubSeq(a, 1, k) \notin DOMAIN tables}
           f == [k \in 1 .. 3 |-> SubSeq(a, 1, k)]
<1>1. ASSUME NEW k \in L, NEW l \in 1 .. 3, k <= l PROVE l \in L
  <2> SUFFICES ASSUME SubSeq(a, 1, l) \in DOMAIN tables PROVE FALSE
    OBVIOUS
  <2>1. SubSeq(a, 1, l) \in Prefixes(a)
    BY DEF Prefixes
  <2>2. SubSeq(a, 1, l) # <<>> /\ Len(SubSeq(a, 1, l)) = l
    BY <2>1, PrefixesLead, PrefixFacts
  <2>3. PICK b \in DOMAIN leaf : SubSeq(a, 1, l) \in Prefixes(b)
    BY <2>2 DEF MapKept
  <2>4. b \in Addresses
    BY <2>3 DEF MapKept
  <2>5. \A x \in 1 .. Len(SubSeq(a, 1, l)) : SubSeq(a, 1, x) \in Prefixes(b)
    BY <2>1, <2>3, <2>4, PrefixesLead
  <2>6. SubSeq(a, 1, k) \in Prefixes(b)
    BY <2>2, <2>5, <1>1
  <2>7. SubSeq(a, 1, k) \in DOMAIN tables
    BY <2>6 DEF MapKept
  <2> QED BY <2>7
<1>2. PICK c \in 1 .. 4 : L = c .. 3
  <2> HIDE DEF L
  <2>1. L \subseteq {1, 2, 3}
    BY DEF L
  <2>2. (1 \in L => 2 \in L /\ 3 \in L) /\ (2 \in L => 3 \in L)
    BY <1>1
  <2>3. CASE 1 \in L
    <3>1. L = {1, 2, 3}
      BY <2>1, <2>2, <2>3
    <3>2. 1 .. 3 = {1, 2, 3}
      OBVIOUS
    <3> QED BY <3>1, <3>2
  <2>4. CASE 1 \notin L /\ 2 \in L
    <3>1. L = {2, 3}
      BY <2>1, <2>2, <2>4
    <3>2. 2 .. 3 = {2, 3}
      OBVIOUS
    <3> QED BY <3>1, <3>2
  <2>5. CASE 1 \notin L /\ 2 \notin L /\ 3 \in L
    <3>1. L = {3}
      BY <2>1, <2>5
    <3>2. 3 .. 3 = {3}
      OBVIOUS
    <3> QED BY <3>1, <3>2
  <2>6. CASE 1 \notin L /\ 2 \notin L /\ 3 \notin L
    <3>1. L = 4 .. 3
      BY <2>1, <2>6
    <3> QED BY <3>1
  <2> QED BY <2>3, <2>4, <2>5, <2>6
<1>3. Cardinality(L) = 4 - c /\ IsFiniteSet(L)
  <2>1. IsFiniteSet(c .. 3) /\ Cardinality(c .. 3) = IF c > 3 THEN 0 ELSE 3 - c + 1
    BY FS_Interval
  <2>2. Cardinality(c .. 3) = 4 - c
    BY <2>1
  <2> QED BY <1>2, <2>1, <2>2
<1>4. \A k \in 1 .. 3 : f[k] = SubSeq(a, 1, k) /\ Len(f[k]) = k
  BY PrefixFacts
<1>5. \A k \in L : k \in 1 .. 3 /\ f[k] \in Missing(a)
  BY DEF Missing, Prefixes
<1>6. \A i \in Missing(a) : \E k \in L : i = f[k]
  BY DEF Missing, Prefixes
<1> HIDE DEF L, f
<1>7. \A k, l \in L : f[k] = f[l] => k = l
  BY <1>4, <1>5
<1>8. Cardinality(Missing(a)) = Cardinality(L)
  BY <1>3, <1>5, <1>6, <1>7, SameSize
<1>9. ASSUME NEW i \in Missing(a) PROVE Len(i) \in L /\ i = f[Len(i)]
  <2>1. PICK k \in L : i = f[k]
    BY <1>6
  <2>2. Len(f[k]) = k
    BY <1>4, <1>5
  <2>3. Len(i) = k
    BY <2>1, <2>2
  <2> QED BY <2>1, <2>3
<1> QED BY <1>2, <1>3, <1>8, <1>9

(* The pages that kmap takes for the missing tables are theirs alone.          *)
LEMMA NewTablesApart ==
  ASSUME InfoTypes, MapKept, NEW a \in Addresses, NEW n, n = Cardinality(Missing(a)),
         n <= Cardinality(Available(FALSE)), NEW new, new = ChosenPages(n, FALSE)
  PROVE  /\ new \in SUBSET Pages
         /\ \A p \in new : IsFree(p) /\ p # 0
         /\ n \in Nat /\ Cardinality(new) = n
         /\ \A i \in Missing(a) : Nth(new, Len(i) - (4 - n)) \in new
         /\ \A i, j \in Missing(a) :
              Nth(new, Len(i) - (4 - n)) = Nth(new, Len(j) - (4 - n)) => i = j
<1>1. PICK c \in 1 .. 4 :
        /\ n = 4 - c
        /\ \A i \in Missing(a) : Len(i) \in c .. 3
        /\ \A i, j \in Missing(a) : Len(i) = Len(j) => i = j
  BY MissingBelow
<1>2. Available(FALSE) \subseteq Pages /\ \A p \in Available(FALSE) : IsFree(p) /\ p # 0
  BY DEF Available
<1>3. Available(FALSE) \subseteq Nat /\ IsFiniteSet(Available(FALSE))
  BY <1>2, PagesFinite
<1>4. n \in Nat
  BY <1>1
<1>5. new \subseteq Available(FALSE) /\ IsFiniteSet(new) /\ Cardinality(new) = n
  BY <1>3, <1>4, FALSE \in BOOLEAN, FoundAreCounted DEF ChosenPages
<1>6. new \subseteq Nat
  BY <1>3, <1>5
<1>7. ASSUME NEW k \in Nat, k < n
      PROVE  Nth(new, k) \in new /\ Cardinality({q \in new : q < Nth(new, k)}) = k
  <2>1. k < Cardinality(new)
    BY <1>5, <1>7
  <2>2. new \subseteq Nat /\ IsFiniteSet(new) /\ k \in Nat
    BY <1>5, <1>6, <1>7
  <2> QED BY <2>1, <2>2, NthThere, ZenonT(40)
<1>8. \A i \in Missing(a) : Len(i) - (4 - n) \in Nat /\ Len(i) - (4 - n) < n
  BY <1>1
<1>9. \A i \in Missing(a) : Nth(new, Len(i) - (4 - n)) \in new
  BY <1>7, <1>8
<1>10. ASSUME NEW i \in Missing(a), NEW j \in Missing(a),
              Nth(new, Len(i) - (4 - n)) = Nth(new, Len(j) - (4 - n))
       PROVE  i = j
  <2> DEFINE x == Len(i) - (4 - n)
             y == Len(j) - (4 - n)
  <2>1. x \in Nat /\ x < n /\ y \in Nat /\ y < n
    BY <1>8
  <2> HIDE DEF x, y
  <2>2. /\ Cardinality({q \in new : q < Nth(new, x)}) = x
        /\ Cardinality({q \in new : q < Nth(new, y)}) = y
    BY <2>1, <1>7
  <2>3. Nth(new, x) = Nth(new, y)
    BY <1>10 DEF x, y
  <2>4. x = y
    BY <2>2, <2>3
  <2>5. Len(i) = Len(j)
    BY <2>4, <1>1 DEF x, y
  <2> QED BY <2>5, <1>1
<1> QED BY <1>2, <1>4, <1>5, <1>9, <1>10

-----------------------------------------------------------------------------
(* Each call keeps the invariant. *)
LEMMA HeldFacts ==
  ASSUME InfoTypes
  PROVE  /\ \A p \in Pages : info[p] = Held(Kernel, "ptable") =>
              /\ info[p].type = "ptable" /\ info[p].owner = Kernel /\ ~ IsFree(p)
              /\ p \notin OfType(info, ReservedTypes)
         /\ \A p \in Pages : info[p] = Held(Kernel, "data") =>
              /\ info[p].type = "data" /\ info[p].owner = Kernel /\ ~ IsFree(p)
              /\ p \notin OfType(info, ReservedTypes)
         /\ Held(Kernel, "ptable") # Held(Kernel, "data")
<1>1. /\ Held(Kernel, "ptable").type = "ptable" /\ Held(Kernel, "ptable").owner = Kernel
      /\ Held(Kernel, "data").type = "data" /\ Held(Kernel, "data").owner = Kernel
      /\ Free.type = "free"
  BY MarkFacts
<1> QED BY <1>1 DEF IsFree, OfType, ReservedTypes

(* Pages are taken from those that are free. *)
LEMMA TakenAside ==
  ASSUME KernelKept, NEW ps \in SUBSET Pages, \A p \in ps : IsFree(p),
         NEW process \in PageOwners, NEW n, n = Cardinality(ps),
         TakePages(ps, n, process, "data"), UNCHANGED <<tables, leaf, drift>>
  PROVE  KernelKept'
<1>1. InfoTypes /\ MapKept
  BY DEF KernelKept
<1>2. /\ InfoTypes' /\ CountersExact'
      /\ \A p \in Pages : info'[p] = IF p \in ps THEN Held(process, "data") ELSE info[p]
  BY TakeCounts, "data" \in {"ptable", "data"}
<1>3. /\ \A p \in Pages : info[p] = Held(Kernel, "ptable") => info'[p] = info[p]
      /\ \A a \in DOMAIN leaf : leaf[a] \in Pages => info'[leaf[a]] = info[leaf[a]]
  <2>1. \A p \in Pages : info[p] = Held(Kernel, "ptable") \/ info[p] = Held(Kernel, "data")
          => info'[p] = info[p]
    BY <1>1, <1>2, HeldFacts
  <2>2. \A a \in DOMAIN leaf : leaf[a] \in Pages /\ info[leaf[a]] = Held(Kernel, "data")
    BY <1>1 DEF MapKept
  <2> QED BY <2>1, <2>2
<1>4. MapKept'
  BY <1>1, <1>3, MapStays
<1> QED BY <1>2, <1>4 DEF KernelKept

LEMMA AcquireKeeps ==
  ASSUME KernelKept, NEW n \in 1 .. MaxRequest, NEW process \in PageOwners,
         NEW high \in BOOLEAN, Acquire(n, process, high)
  PROVE  KernelKept'
<1>1. Available(high) \subseteq Pages /\ \A p \in Available(high) : IsFree(p)
  BY DEF Available
<1>2. Available(high) \subseteq Nat /\ IsFiniteSet(Available(high))
  BY <1>1, PagesFinite
<1>3. n \in Nat /\ n <= Cardinality(Available(high))
  BY KernelAssumption DEF Acquire
<1>4. /\ ChosenPages(n, high) \subseteq Available(high)
      /\ Cardinality(ChosenPages(n, high)) = n
  BY <1>2, <1>3, FoundAreCounted DEF ChosenPages
<1>5. /\ TakePages(ChosenPages(n, high), n, process, "data")
      /\ UNCHANGED <<tables, leaf, drift>>
  BY DEF Acquire
<1>6. ChosenPages(n, high) \in SUBSET Pages /\ \A p \in ChosenPages(n, high) : IsFree(p)
  BY <1>1, <1>4
<1> QED BY <1>4, <1>5, <1>6, TakenAside

LEMMA LockKeeps ==
  ASSUME KernelKept, NEW process \in PageOwners, NEW ps \in Lists(Pages), Lock(ps, process)
  PROVE  KernelKept'
<1>1. ps \in SUBSET Pages
  BY DEF Lists
<1>2. /\ \A p \in ps : IsFree(p)
      /\ TakePages(ps, Cardinality(ps), process, "data")
      /\ UNCHANGED <<tables, leaf, drift>>
  BY DEF Lock
<1> QED BY <1>1, <1>2, TakenAside

(* Pages that are no tables and not mapped are freed. *)
LEMMA FreedAside ==
  ASSUME KernelKept, NEW ps \in SUBSET Pages, InfoTypes', CountersExact',
         \A p \in Pages : info'[p] = IF p \in ps THEN Free ELSE info[p],
         \A p \in ps : info[p] # Held(Kernel, "ptable"),
         \A a \in DOMAIN leaf : leaf[a] \notin ps,
         UNCHANGED <<tables, leaf>>
  PROVE  KernelKept'
<1>1. InfoTypes /\ MapKept
  BY DEF KernelKept
<1>2. /\ \A p \in Pages : info[p] = Held(Kernel, "ptable") => info'[p] = info[p]
      /\ \A a \in DOMAIN leaf : leaf[a] \in Pages => info'[leaf[a]] = info[leaf[a]]
  OBVIOUS
<1>3. MapKept'
  BY <1>1, <1>2, MapStays
<1> QED BY <1>3 DEF KernelKept

LEMMA ReleaseKeeps ==
  ASSUME KernelKept, NEW allowkernel \in BOOLEAN, NEW ps \in Lists(Releasable),
         Release(ps, allowkernel)
  PROVE  KernelKept'
<1> DEFINE done == Accepted(ps, allowkernel)
           used == {p \in done : ~ IsFree(p)}
           free == {p \in done : IsFree(p)}
<1>1. InfoTypes /\ MapKept
  BY DEF KernelKept
<1>2. /\ done \in SUBSET Pages
      /\ \A p \in done : /\ info[p].type # "ptable" /\ \A a \in DOMAIN leaf : leaf[a] # p
                         /\ info[p].type \notin ReservedTypes
  BY DEF Accepted, Refused, Lists, Releasable
<1>3. done \intersect OfType(info, ReservedTypes) = {}
  BY <1>2 DEF OfType
<1>4. /\ FreePages(done) /\ Account(Cardinality(done), - Cardinality(done), 0)
      /\ drift' = drift + Cardinality(free)
      /\ UNCHANGED <<tables, leaf>>
  BY DEF Release
<1> HIDE DEF done
<1>5. /\ Cardinality(done) \in Nat
      /\ Cardinality(free) = Cardinality(done) - Cardinality(used)
      /\ Cardinality(used) \in Nat
  <2>1. done \in SUBSET Pages /\ used \in SUBSET Pages /\ used \subseteq done
        /\ free = done \ used
    BY <1>2
  <2> HIDE DEF used, free
  <2>2. Cardinality(done \ used) = Cardinality(done) - Cardinality(used)
    BY <2>1, PagesJoin
  <2>3. Cardinality(done) \in Nat /\ Cardinality(used) \in Nat
    BY <2>1, PagesFinite
  <2> QED BY <2>1, <2>2, <2>3
<1>6. drift \in Int
  BY <1>1 DEF InfoTypes
<1> HIDE DEF used, free
<1>7. drift' = drift + Cardinality(done) - Cardinality(used)
  BY <1>4, <1>5, <1>6
<1>8. counters' = [available |-> counters.available + Cardinality(done),
                   kernel    |-> counters.kernel + (- Cardinality(done)),
                   reserved  |-> counters.reserved + 0]
  BY <1>4 DEF Account
<1>9. /\ InfoTypes' /\ CountersExact'
      /\ \A p \in Pages : info'[p] = IF p \in done THEN Free ELSE info[p]
  <2>1. Cardinality(done) \in Int
    BY <1>5
  <2> QED BY <2>1, <1>2, <1>3, <1>4, <1>7, <1>8, FreeCounts DEF used
<1>10. \A p \in done : info[p] # Held(Kernel, "ptable")
  BY <1>1, <1>2, HeldFacts
<1> QED BY <1>2, <1>4, <1>9, <1>10, FreedAside

LEMMA FreeProcKeeps ==
  ASSUME KernelKept, NEW process \in UserProcesses, FreeProc(process)
  PROVE  KernelKept'
<1> DEFINE done == {p \in Pages : info[p].owner = process}
<1>1. InfoTypes /\ MapKept /\ CountersExact
  BY DEF KernelKept
<1>2. done \in SUBSET Pages /\ \A p \in done : info[p] \in PageMarks /\ info[p].owner = process
  BY <1>1 DEF InfoTypes
<1>3. \A p \in done : info[p].type \in {"ptable", "data"}
  BY <1>2, MarkFacts
<1>4. /\ FreePages(done) /\ drift' = drift - Cardinality(done)
      /\ UNCHANGED <<counters, tables, leaf>>
  BY DEF FreeProc
<1> HIDE DEF done
<1>5. done \intersect OfType(info, ReservedTypes) = {}
  BY <1>3 DEF OfType, ReservedTypes
<1>6. {p \in done : ~ IsFree(p)} = done
  BY <1>3, MarkFacts DEF IsFree
<1>7. drift \in Int /\ Cardinality(done) \in Nat
  BY <1>1, <1>2, PagesFinite DEF InfoTypes
<1>8. drift' = drift + 0 - Cardinality({p \in done : ~ IsFree(p)})
  BY <1>4, <1>6, <1>7
<1>9. counters' = [available |-> counters.available + 0,
                   kernel    |-> counters.kernel + (- 0),
                   reserved  |-> counters.reserved + 0]
  <2>1. counters = [available |-> Cardinality(OfType(info, {"free"})) + drift,
                    kernel    |-> Cardinality(OfType(info, TakenTypes)) - drift,
                    reserved  |-> Cardinality(OfType(info, ReservedTypes))]
    BY <1>1, CountersMeans
  <2>2. /\ Cardinality(OfType(info, {"free"})) \in Nat
        /\ Cardinality(OfType(info, TakenTypes)) \in Nat
        /\ Cardinality(OfType(info, ReservedTypes)) \in Nat
    BY <1>1, TypesApart, PagesFinite
  <2>3. /\ counters.available + 0 = counters.available
        /\ counters.kernel + (- 0) = counters.kernel
        /\ counters.reserved + 0 = counters.reserved
    BY <2>1, <2>2, <1>7
  <2>4. counters = [available |-> counters.available, kernel |-> counters.kernel,
                    reserved |-> counters.reserved]
    BY <2>1
  <2> QED BY <2>3, <2>4, <1>4
<1>10. /\ InfoTypes' /\ CountersExact'
       /\ \A p \in Pages : info'[p] = IF p \in done THEN Free ELSE info[p]
  BY 0 \in Int, <1>2, <1>4, <1>5, <1>8, <1>9, FreeCounts
<1>11. \A p \in done : info[p] # Held(Kernel, "ptable") /\ info[p] # Held(Kernel, "data")
  <2>1. process # Kernel
    BY KernelAssumption
  <2>2. Held(Kernel, "ptable").owner = Kernel /\ Held(Kernel, "data").owner = Kernel
    BY MarkFacts
  <2> QED BY <2>1, <2>2, <1>2
<1>12. \A a \in DOMAIN leaf : leaf[a] \notin done
  BY <1>1, <1>11 DEF MapKept
<1> QED BY <1>2, <1>4, <1>10, <1>11, <1>12, FreedAside

LEMMA ReclaimKeeps ==
  ASSUME KernelKept, Reclaim
  PROVE  KernelKept'
<1> DEFINE done == OfType(info, {"acpi", "ramdisk"}) \union {ApPage}
<1>1. InfoTypes /\ MapKept /\ CountersExact
  BY DEF KernelKept
<1>2. /\ info[ApPage] = Reserved("reserved")
      /\ FreePages(done) /\ Account(Cardinality(done), 0, - Cardinality(done))
      /\ UNCHANGED <<tables, leaf, drift>>
  BY DEF Reclaim
<1>3. ApPage \in Pages
  BY KernelAssumption
<1>4. done \subseteq OfType(info, ReservedTypes) /\ done \in SUBSET Pages
  <2>1. info[ApPage].type = "reserved"
    BY <1>2, MarkFacts
  <2> QED BY <2>1, <1>3 DEF OfType, ReservedTypes
<1> HIDE DEF done
<1>5. /\ info \in [Pages -> PageMarks] /\ drift \in Int
      /\ info' = [p \in Pages |-> IF p \in done THEN Free ELSE info[p]]
  BY <1>1, <1>2 DEF InfoTypes, FreePages
<1>6. /\ info' \in [Pages -> PageMarks]
      /\ \A p \in Pages : info'[p] = IF p \in done THEN Free ELSE info[p]
  <2>1. Free \in PageMarks
    BY MarkFacts
  <2> QED BY <2>1, <1>5
<1>7. /\ OfType(info', {"free"}) = OfType(info, {"free"}) \union done
      /\ OfType(info', TakenTypes) = OfType(info, TakenTypes) \ done
      /\ OfType(info', ReservedTypes) = OfType(info, ReservedTypes) \ done
  <2>1. Free.type = "free"
    BY MarkFacts
  <2> QED BY <2>1, <1>4, <1>6 DEF OfType, TakenTypes, ReservedTypes
<1>8. /\ OfType(info, {"free"}) \intersect done = {}
      /\ OfType(info, TakenTypes) \ done = OfType(info, TakenTypes)
      /\ OfType(info, {"free"}) \in SUBSET Pages /\ OfType(info, TakenTypes) \in SUBSET Pages
      /\ OfType(info, ReservedTypes) \in SUBSET Pages
  BY <1>1, <1>4, TypesApart
<1>9. /\ Cardinality(OfType(info', {"free"})) = Cardinality(OfType(info, {"free"})) + Cardinality(done)
      /\ Cardinality(OfType(info, {"free"})) \in Nat /\ Cardinality(done) \in Nat
  <2>1. /\ Cardinality(OfType(info, {"free"}) \union done)
             = Cardinality(OfType(info, {"free"})) + Cardinality(done)
        /\ Cardinality(OfType(info, {"free"})) \in Nat /\ Cardinality(done) \in Nat
    BY <1>4, <1>8, PagesJoin
  <2> QED BY <2>1, <1>7
<1>10. /\ Cardinality(OfType(info', ReservedTypes))
            = Cardinality(OfType(info, ReservedTypes)) - Cardinality(done)
       /\ Cardinality(OfType(info, ReservedTypes)) \in Nat
  <2>1. /\ Cardinality(OfType(info, ReservedTypes) \ done)
             = Cardinality(OfType(info, ReservedTypes)) - Cardinality(done)
        /\ Cardinality(OfType(info, ReservedTypes)) \in Nat
    BY <1>4, <1>8, PagesJoin
  <2> QED BY <2>1, <1>7
<1>11. /\ Cardinality(OfType(info', TakenTypes)) = Cardinality(OfType(info, TakenTypes))
       /\ Cardinality(OfType(info, TakenTypes)) \in Nat
  BY <1>7, <1>8, PagesFinite
<1>12. /\ counters.available = Cardinality(OfType(info, {"free"})) + drift
       /\ counters.kernel = Cardinality(OfType(info, TakenTypes)) - drift
       /\ counters.reserved = Cardinality(OfType(info, ReservedTypes))
  BY <1>1, CountersMeans
<1>13. /\ counters.available + Cardinality(done) = Cardinality(OfType(info', {"free"})) + drift'
       /\ counters.kernel + 0 = Cardinality(OfType(info', TakenTypes)) - drift'
       /\ counters.reserved + (- Cardinality(done)) = Cardinality(OfType(info', ReservedTypes))
  <2>1. drift' = drift
    BY <1>2
  <2> QED BY <2>1, <1>5, <1>9, <1>10, <1>11, <1>12
<1>14. counters' = [available |-> counters.available + Cardinality(done),
                    kernel    |-> counters.kernel + 0,
                    reserved  |-> counters.reserved + (- Cardinality(done))]
  BY <1>2 DEF Account
<1>15. CountersExact'
  BY <1>13, <1>14, Zenon DEF CountersExact, TakenTypes
<1>16. InfoTypes'
  BY <1>2, <1>5, <1>6 DEF InfoTypes
<1>17. \A p \in done : info[p] # Held(Kernel, "ptable") /\ info[p] # Held(Kernel, "data")
  BY <1>1, <1>4, HeldFacts
<1>18. \A a \in DOMAIN leaf : leaf[a] \notin done
  BY <1>1, <1>17 DEF MapKept
<1> QED BY <1>2, <1>4, <1>6, <1>15, <1>16, <1>17, <1>18, FreedAside

LEMMA KMapKeeps ==
  ASSUME KernelKept, NEW a \in Addresses, NEW page \in Pages, KMap(a, page)
  PROVE  KernelKept'
<1>1. InfoTypes /\ MapKept
  BY DEF KernelKept
<1>2. PICK n : n = Cardinality(Missing(a))
  OBVIOUS
<1>3. PICK new : new = ChosenPages(n, FALSE)
  OBVIOUS
<1>4. PICK missing : missing = Missing(a)
  OBVIOUS
<1>5. /\ info[page] = Held(Kernel, "data") /\ n <= Cardinality(Available(FALSE))
      /\ TakePages(new, n, Kernel, "ptable")
      /\ tables' = [i \in DOMAIN tables \union missing |->
                      IF i \in DOMAIN tables THEN tables[i] ELSE Nth(new, Len(i) - (4 - n))]
      /\ leaf' = [b \in DOMAIN leaf \union {a} |-> IF b = a THEN page ELSE leaf[b]]
      /\ UNCHANGED drift
  BY <1>2, <1>3, <1>4 DEF KMap, Held
<1>6. /\ new \in SUBSET Pages
      /\ \A p \in new : IsFree(p) /\ p # 0
      /\ n \in Nat /\ Cardinality(new) = n
      /\ \A i \in missing : Nth(new, Len(i) - (4 - n)) \in new
      /\ \A i, j \in missing :
           Nth(new, Len(i) - (4 - n)) = Nth(new, Len(j) - (4 - n)) => i = j
  <2>1. n <= Cardinality(Available(FALSE))
    BY <1>5
  <2>2. /\ new \in SUBSET Pages
        /\ \A p \in new : IsFree(p) /\ p # 0
        /\ n \in Nat /\ Cardinality(new) = n
        /\ \A i \in Missing(a) : Nth(new, Len(i) - (4 - n)) \in new
        /\ \A i, j \in Missing(a) :
             Nth(new, Len(i) - (4 - n)) = Nth(new, Len(j) - (4 - n)) => i = j
    BY <1>1, <1>2, <1>3, <2>1, NewTablesApart, ZenonT(40)
  <2> QED BY <2>2, <1>4
<1>7. /\ InfoTypes' /\ CountersExact'
      /\ \A p \in Pages : info'[p] = IF p \in new THEN Held(Kernel, "ptable") ELSE info[p]
  BY <1>5, <1>6, "ptable" \in {"ptable", "data"}, Kernel \in PageOwners, TakeCounts
     DEF PageOwners
<1>8. /\ \A p \in Pages : info[p] = Held(Kernel, "ptable") => p \notin new /\ info'[p] = info[p]
      /\ \A p \in Pages : info[p] = Held(Kernel, "data") => info'[p] = info[p]
  BY <1>1, <1>6, <1>7, HeldFacts
<1>9. missing = Prefixes(a) \ DOMAIN tables /\ <<>> \notin missing
  BY <1>4, PrefixesLead DEF Missing
<1>11. /\ DOMAIN tables' = DOMAIN tables \union missing
       /\ \A i \in DOMAIN tables : tables'[i] = tables[i]
       /\ \A i \in missing : tables'[i] = Nth(new, Len(i) - (4 - n))
  BY <1>5, <1>9
<1>12. /\ DOMAIN leaf' = DOMAIN leaf \union {a} /\ leaf'[a] = page
       /\ \A b \in DOMAIN leaf \ {a} : leaf'[b] = leaf[b]
  BY <1>5
<1>13. /\ DOMAIN leaf \subseteq Addresses
       /\ DOMAIN tables = {<<>>} \union UNION {Prefixes(b) : b \in DOMAIN leaf}
       /\ tables[<<>>] = 0 /\ <<>> \in DOMAIN tables
       /\ \A i \in DOMAIN tables \ {<<>>} :
            /\ tables[i] \in Pages \ {0} /\ info[tables[i]] = Held(Kernel, "ptable")
            /\ \A j \in DOMAIN tables \ {i} : tables[i] # tables[j]
       /\ \A b \in DOMAIN leaf : leaf[b] \in Pages /\ info[leaf[b]] = Held(Kernel, "data")
  BY <1>1 DEF MapKept
<1>14. DOMAIN leaf' \subseteq Addresses
  BY <1>12, <1>13
<1>15. DOMAIN tables' = {<<>>} \union UNION {Prefixes(b) : b \in DOMAIN leaf'}
  <2>1. DOMAIN tables' = DOMAIN tables \union Prefixes(a)
    BY <1>9, <1>11
  <2>2. UNION {Prefixes(b) : b \in DOMAIN leaf'}
          = Prefixes(a) \union UNION {Prefixes(b) : b \in DOMAIN leaf}
    BY <1>12
  <2> QED BY <2>1, <2>2, <1>13
<1>16. tables'[<<>>] = 0
  BY <1>11, <1>13
<1>17. ASSUME NEW i \in DOMAIN tables' \ {<<>>}
       PROVE  /\ tables'[i] \in Pages \ {0} /\ info'[tables'[i]] = Held(Kernel, "ptable")
              /\ \A j \in DOMAIN tables' \ {i} : tables'[i] # tables'[j]
  <2>1. CASE i \in DOMAIN tables
    <3>1. /\ tables'[i] = tables[i] /\ tables[i] \in Pages \ {0} /\ tables[i] \notin new
          /\ info'[tables[i]] = Held(Kernel, "ptable")
      BY <2>1, <1>8, <1>11, <1>13
    <3>2. ASSUME NEW j \in DOMAIN tables' \ {i} PROVE tables'[i] # tables'[j]
      <4>1. CASE j \in DOMAIN tables
        BY <4>1, <2>1, <1>11, <1>13
      <4>2. CASE j \in missing
        BY <4>2, <3>1, <1>6, <1>11
      <4> QED BY <4>1, <4>2, <1>11
    <3> QED BY <3>1, <3>2
  <2>2. CASE i \in missing
    <3>1. tables'[i] \in new /\ tables'[i] \in Pages \ {0}
      BY <2>2, <1>6, <1>11
    <3>2. info'[tables'[i]] = Held(Kernel, "ptable")
      BY <3>1, <1>7
    <3>3. ASSUME NEW j \in DOMAIN tables' \ {i} PROVE tables'[i] # tables'[j]
      <4>1. CASE j \in missing
        BY <4>1, <2>2, <1>6, <1>11
      <4>2. CASE j = <<>>
        BY <4>2, <3>1, <1>16
      <4>3. CASE j \in DOMAIN tables \ {<<>>}
        <5>1. tables'[j] = tables[j] /\ tables[j] \notin new
          BY <4>3, <1>8, <1>11, <1>13
        <5> QED BY <5>1, <3>1
      <4> QED BY <4>1, <4>2, <4>3, <1>11
    <3> QED BY <3>1, <3>2, <3>3
  <2> QED BY <2>1, <2>2, <1>11
<1>18. \A b \in DOMAIN leaf' : leaf'[b] \in Pages /\ info'[leaf'[b]] = Held(Kernel, "data")
  BY <1>5, <1>8, <1>12, <1>13
<1>19. MapKept'
  BY <1>14, <1>15, <1>16, <1>17, <1>18 DEF MapKept
<1> QED BY <1>7, <1>19 DEF KernelKept

LEMMA KUnmapKeeps ==
  ASSUME KernelKept, NEW a \in Addresses, KUnmap(a)
  PROVE  KernelKept'
<1>1. InfoTypes /\ MapKept
  BY DEF KernelKept
<1>2. PICK gone : gone = Emptied(DOMAIN leaf \ {a}, a)
  OBVIOUS
<1>3. PICK ps : ps = {tables[i] : i \in gone}
  OBVIOUS
<1>4. /\ a \in DOMAIN leaf /\ leaf' = [b \in DOMAIN leaf \ {a} |-> leaf[b]]
      /\ tables' = [i \in DOMAIN tables \ gone |-> tables[i]]
      /\ FreePages(ps) /\ Account(Cardinality(gone), - Cardinality(gone), 0)
      /\ UNCHANGED drift
  BY <1>2, <1>3 DEF KUnmap
<1>5. /\ gone \subseteq Prefixes(a)
      /\ \A i \in gone : \A b \in DOMAIN leaf \ {a} : i \notin Prefixes(b)
      /\ \A i \in Prefixes(a) : i \in gone \/ \E b \in DOMAIN leaf \ {a} : i \in Prefixes(b)
  BY <1>2 DEF Emptied
<1>6. <<>> \notin Prefixes(a)
  BY PrefixesLead
<1>7. /\ DOMAIN leaf \subseteq Addresses
      /\ DOMAIN tables = {<<>>} \union UNION {Prefixes(b) : b \in DOMAIN leaf}
      /\ tables[<<>>] = 0 /\ <<>> \in DOMAIN tables
      /\ \A i \in DOMAIN tables \ {<<>>} :
           /\ tables[i] \in Pages \ {0} /\ info[tables[i]] = Held(Kernel, "ptable")
           /\ \A j \in DOMAIN tables \ {i} : tables[i] # tables[j]
      /\ \A b \in DOMAIN leaf : leaf[b] \in Pages /\ info[leaf[b]] = Held(Kernel, "data")
  BY <1>1 DEF MapKept
<1>8. gone \subseteq DOMAIN tables \ {<<>>}
  BY <1>4, <1>5, <1>6, <1>7
<1>9. /\ ps \in SUBSET Pages
      /\ \A p \in ps : info[p] = Held(Kernel, "ptable")
  BY <1>3, <1>7, <1>8
<1>10. IsFiniteSet(ps) /\ Cardinality(ps) \in Nat /\ Cardinality(gone) = Cardinality(ps)
  <2>1. IsFiniteSet(ps) /\ Cardinality(ps) \in Nat
    BY <1>9, PagesFinite
  <2>2. IsFiniteSet(gone)
    <3>1. IsFiniteSet(1 .. 3)
      BY 1 \in Int, 3 \in Int, FS_Interval
    <3> DEFINE f == [k \in 1 .. 3 |-> SubSeq(a, 1, k)]
    <3>2. \A i \in Prefixes(a) : \E k \in 1 .. 3 : i = f[k]
      BY DEF Prefixes
    <3> HIDE DEF f
    <3>3. IsFiniteSet(Prefixes(a))
      BY <3>1, <3>2, ImageFinite
    <3> QED BY <3>3, <1>5, FS_Subset
  <2>3. /\ \A i \in gone : tables[i] \in ps
        /\ \A i, j \in gone : tables[i] = tables[j] => i = j
        /\ \A p \in ps : \E i \in gone : p = tables[i]
    BY <1>3, <1>7, <1>8
  <2>4. Cardinality(ps) = Cardinality(gone)
    BY <2>2, <2>3, SameSize
  <2> QED BY <2>1, <2>4
<1>11. {p \in ps : ~ IsFree(p)} = ps /\ ps \intersect OfType(info, ReservedTypes) = {}
  BY <1>1, <1>9, HeldFacts
<1>12. drift \in Int
  BY <1>1 DEF InfoTypes
<1>13. drift' = drift + Cardinality(gone) - Cardinality({p \in ps : ~ IsFree(p)})
  BY <1>4, <1>10, <1>11, <1>12
<1>14. counters' = [available |-> counters.available + Cardinality(gone),
                    kernel    |-> counters.kernel + (- Cardinality(gone)),
                    reserved  |-> counters.reserved + 0]
  BY <1>4 DEF Account
<1>15. /\ InfoTypes' /\ CountersExact'
       /\ \A p \in Pages : info'[p] = IF p \in ps THEN Free ELSE info[p]
  <2>1. Cardinality(gone) \in Int /\ FreePages(ps)
    BY <1>4, <1>10
  <2> QED BY <2>1, <1>9, <1>11, <1>13, <1>14, FreeCounts
<1>16. /\ DOMAIN tables' = DOMAIN tables \ gone
       /\ \A i \in DOMAIN tables \ gone : tables'[i] = tables[i]
       /\ DOMAIN leaf' = DOMAIN leaf \ {a}
       /\ \A b \in DOMAIN leaf \ {a} : leaf'[b] = leaf[b]
  BY <1>4
<1>17. DOMAIN leaf' \subseteq Addresses
  BY <1>7, <1>16
<1>18. DOMAIN tables' = {<<>>} \union UNION {Prefixes(b) : b \in DOMAIN leaf'}
  <2>1. ASSUME NEW i \in DOMAIN tables'
        PROVE  i = <<>> \/ \E b \in DOMAIN leaf' : i \in Prefixes(b)
    <3>1. i \in DOMAIN tables /\ i \notin gone
      BY <1>16
    <3> SUFFICES ASSUME i # <<>> PROVE \E b \in DOMAIN leaf' : i \in Prefixes(b)
      OBVIOUS
    <3>2. PICK b \in DOMAIN leaf : i \in Prefixes(b)
      BY <3>1, <1>7
    <3>3. CASE b = a
      BY <3>1, <3>2, <3>3, <1>5, <1>16
    <3> QED BY <3>2, <3>3, <1>16
  <2>2. ASSUME NEW b \in DOMAIN leaf', NEW i \in Prefixes(b) PROVE i \in DOMAIN tables'
    BY <1>5, <1>7, <1>16
  <2>3. <<>> \in DOMAIN tables'
    BY <1>7, <1>8, <1>16
  <2> QED BY <2>1, <2>2, <2>3
<1>19. tables'[<<>>] = 0
  BY <1>7, <1>8, <1>16
<1>20. ASSUME NEW i \in DOMAIN tables' \ {<<>>}
       PROVE  /\ tables'[i] \in Pages \ {0} /\ info'[tables'[i]] = Held(Kernel, "ptable")
              /\ \A j \in DOMAIN tables' \ {i} : tables'[i] # tables'[j]
  <2>1. i \in DOMAIN tables \ {<<>>} /\ i \notin gone /\ tables'[i] = tables[i]
    BY <1>16
  <2>2. tables[i] \notin ps
    BY <2>1, <1>3, <1>7, <1>8
  <2>3. tables'[i] \in Pages \ {0} /\ info'[tables'[i]] = Held(Kernel, "ptable")
    BY <2>1, <2>2, <1>7, <1>15
  <2>4. ASSUME NEW j \in DOMAIN tables' \ {i} PROVE tables'[i] # tables'[j]
    BY <2>1, <1>7, <1>16
  <2> QED BY <2>3, <2>4
<1>21. ASSUME NEW b \in DOMAIN leaf'
       PROVE  leaf'[b] \in Pages /\ info'[leaf'[b]] = Held(Kernel, "data")
  <2>1. leaf'[b] = leaf[b] /\ leaf[b] \in Pages /\ info[leaf[b]] = Held(Kernel, "data")
    BY <1>7, <1>16
  <2>2. leaf[b] \notin ps
    BY <2>1, <1>1, <1>9, HeldFacts
  <2> QED BY <2>1, <2>2, <1>15
<1>22. MapKept'
  BY <1>17, <1>18, <1>19, <1>20, <1>21 DEF MapKept
<1> QED BY <1>15, <1>22 DEF KernelKept

-----------------------------------------------------------------------------
(* The initialisation.  Under the assumption on the boot memory map each page  *)
(* counts for one entry at most.                                              *)
LEMMA OneHit ==
  ASSUME NEW i \in Pages, NEW j \in Hits(i)
  PROVE  /\ Hits(i) = {j} /\ Max(Hits(i)) = j /\ j \in DOMAIN MemoryMap
         /\ MemoryMap[j].status \in ReservedTypes \union {"kernel"}
         /\ Scanned(i) = Marked(MemoryMap[j].status)
<1>1. j \in DOMAIN MemoryMap /\ MemoryMap[j].status # "available"
  BY DEF Hits
<1>2. Hits(i) = {j}
  BY BootMapAssumption
<1>3. j \in Int
  <2> DEFINE R == [begin : Nat, end : Nat, status : ReservedTypes \union {"available", "kernel"}]
  <2>1. MemoryMap \in Seq(R)
    BY KernelAssumption
  <2> HIDE DEF R
  <2> QED BY <2>1, <1>1
<1>4. Max(Hits(i)) = j
  <2>1. j \in {j} /\ \A y \in {j} : j >= y
    BY <1>3
  <2> QED BY <2>1, <1>2 DEF Max
<1>5. MemoryMap[j].status \in ReservedTypes \union {"kernel"}
  <2> DEFINE R == [begin : Nat, end : Nat, status : ReservedTypes \union {"available", "kernel"}]
  <2>1. MemoryMap \in Seq(R) /\ \A e \in R : e.status \in ReservedTypes \union {"available", "kernel"}
    BY KernelAssumption
  <2> HIDE DEF R
  <2>2. MemoryMap[j] \in R
    BY <2>1, <1>1
  <2> QED BY <2>1, <2>2, <1>1
<1> QED BY <1>1, <1>2, <1>4, <1>5 DEF Scanned

LEMMA ScannedMarks ==
  ASSUME NEW i \in Pages
  PROVE  /\ Scanned(i) \in PageMarks
         /\ Scanned(i) = Free <=> Hits(i) = {}
         /\ Scanned(i).type \in {"free", "image"} \union ReservedTypes
         /\ \A j \in Hits(i) : /\ Scanned(i).type = "image" <=> MemoryMap[j].status = "kernel"
                              /\ \A t \in ReservedTypes :
                                   Scanned(i).type = t <=> MemoryMap[j].status = t
<1>1. /\ Free.type = "free" /\ Image.type = "image" /\ \A t : Reserved(t).type = t
      /\ Free \in PageMarks /\ Image \in PageMarks
      /\ \A t \in ReservedTypes : Reserved(t) \in PageMarks
  BY MarkFacts
<1>2. CASE Hits(i) = {}
  BY <1>1, <1>2 DEF Scanned
<1>3. ASSUME NEW j \in Hits(i)
      PROVE  /\ Scanned(i) \in PageMarks /\ Scanned(i) # Free
             /\ Scanned(i).type \in {"image"} \union ReservedTypes
             /\ Scanned(i).type = "image" <=> MemoryMap[j].status = "kernel"
             /\ \A t \in ReservedTypes : Scanned(i).type = t <=> MemoryMap[j].status = t
  <2>1. /\ Scanned(i) = Marked(MemoryMap[j].status)
        /\ MemoryMap[j].status \in ReservedTypes \union {"kernel"}
    BY OneHit
  <2>2. CASE MemoryMap[j].status = "kernel"
    <3>1. Scanned(i) = Image
      BY <2>1, <2>2 DEF Marked, Image
    <3> QED BY <3>1, <2>2, <1>1 DEF ReservedTypes
  <2>3. CASE MemoryMap[j].status \in ReservedTypes /\ MemoryMap[j].status # "kernel"
    <3>1. Scanned(i) = Reserved(MemoryMap[j].status)
      BY <2>1, <2>3 DEF Marked
    <3>2. Scanned(i).type = MemoryMap[j].status
      BY <3>1, <1>1
    <3>3. Scanned(i) \in PageMarks
      BY <3>1, <2>3, <1>1
    <3>4. "free" \notin ReservedTypes /\ "image" \notin ReservedTypes
      BY DEF ReservedTypes
    <3> QED BY <3>2, <3>3, <3>4, <2>3, <1>1
  <2> QED BY <2>1, <2>2, <2>3
<1> QED BY <1>2, <1>3

LEMMA HitsCounted ==
  ASSUME NEW statuses, NEW S, S \in SUBSET Pages,
         \A i \in S : \E j \in Hits(i) : MemoryMap[j].status \in statuses,
         \A i \in Pages : \A j \in Hits(i) : MemoryMap[j].status \in statuses => i \in S
  PROVE  Cardinality(HitsOf(statuses)) = Cardinality(S)
<1> DEFINE f == [i \in S |-> <<i, CHOOSE j : j \in Hits(i)>>]
<1>1. IsFiniteSet(S)
  BY PagesFinite
<1>2. ASSUME NEW i \in S
      PROVE  f[i] \in HitsOf(statuses) /\ f[i][1] = i
  <2>1. PICK j \in Hits(i) : MemoryMap[j].status \in statuses
    OBVIOUS
  <2>2. Hits(i) = {j} /\ j \in DOMAIN MemoryMap
    BY OneHit
  <2>3. (CHOOSE k : k \in Hits(i)) = j
    BY <2>2
  <2>4. f[i] = <<i, j>>
    BY <2>3
  <2> HIDE DEF f
  <2> QED BY <2>1, <2>2, <2>4 DEF HitsOf
<1>3. ASSUME NEW x \in HitsOf(statuses)
      PROVE  \E i \in S : x = f[i]
  <2>1. PICK i \in Pages, j \in DOMAIN MemoryMap :
          x = <<i, j>> /\ j \in Hits(i) /\ MemoryMap[j].status \in statuses
    BY DEF HitsOf
  <2>2. i \in S
    BY <2>1
  <2>3. Hits(i) = {j}
    BY <2>1, OneHit
  <2>4. (CHOOSE k : k \in Hits(i)) = j
    BY <2>3
  <2>5. f[i] = <<i, j>>
    BY <2>2, <2>4
  <2> QED BY <2>1, <2>2, <2>5
<1>4. /\ \A i \in S : f[i] \in HitsOf(statuses)
      /\ \A i, k \in S : f[i] = f[k] => i = k
      /\ \A x \in HitsOf(statuses) : \E i \in S : x = f[i]
  BY <1>2, <1>3
<1> HIDE DEF f
<1> QED BY <1>1, <1>4, SameSize

LEMMA PhysTablesNat == PhysTables \in Nat
<1>1. ASSUME NEW x \in Int, NEW y \in Int
      PROVE  Max({x, y}) \in Int /\ x <= Max({x, y})
  <2>1. CASE x >= y
    <3>1. x \in {x, y} /\ \A z \in {x, y} : x >= z
      BY <2>1
    <3>2. \A w \in {x, y} : (\A z \in {x, y} : w >= z) => w = x \/ (w = y /\ y >= x)
      OBVIOUS
    <3>3. Max({x, y}) \in {x, y} /\ \A z \in {x, y} : Max({x, y}) >= z
      BY <3>1 DEF Max
    <3> QED BY <3>3
  <2>2. CASE ~ (x >= y)
    <3>1. y \in {x, y} /\ \A z \in {x, y} : y >= z
      BY <2>2
    <3>2. Max({x, y}) \in {x, y} /\ \A z \in {x, y} : Max({x, y}) >= z
      BY <3>1 DEF Max
    <3> QED BY <3>2
  <2> QED BY <2>1, <2>2
<1>2. TableEntries \in Nat /\ TableEntries > 0
  BY KernelAssumption
<1>3. ASSUME NEW n \in Nat PROVE CeilDiv(n, TableEntries) \in Nat
  <2>1. n + TableEntries - 1 \in Nat
    BY <1>2
  <2> QED BY <2>1, <1>2, QuotientNat DEF CeilDiv
<1> DEFINE needed == CeilDiv(CeilDiv(PageCount, TableEntries), TableEntries) - 1
           more == Max({1, needed})
           beyond == Max({0, more - (TableEntries - 1)})
<1>4. needed \in Int
  BY <1>3, PagesFinite
<1> HIDE DEF needed
<1>5. more \in Int /\ 1 <= more
  BY <1>1, <1>4
<1> HIDE DEF more
<1>6. beyond \in Int /\ 0 <= beyond
  <2>1. more - (TableEntries - 1) \in Int /\ 0 \in Int
    BY <1>2, <1>5
  <2> QED BY <2>1, <1>1
<1> HIDE DEF beyond
<1>7. CeilDiv(beyond, TableEntries) \in Nat
  BY <1>3, <1>6
<1>8. more + CeilDiv(beyond, TableEntries) \in Nat
  BY <1>5, <1>7
<1> QED BY <1>8 DEF PhysTables, more, beyond, needed

LEMMA KernelStarts == KernelInit => KernelKept
<1> SUFFICES ASSUME KernelInit PROVE KernelKept
  OBVIOUS
<1> DEFINE unused == {i \in Pages : Scanned(i) = Free}
           image == {i \in Pages : Scanned(i).type = "image"}
           kept == {i \in Pages : Scanned(i).type \in ReservedTypes}
           moved == TablePages \union {ApPage}
           left == {i \in Pages \ {0} : Placed(i) = Free}
           taken == FoundFirst(left, PhysTables, FALSE)
<1>1. /\ TableOffset # 0 /\ Scanned(ApPage) = Free /\ ApPage \notin TablePages
      /\ PhysTables <= Cardinality(left)
      /\ info = [p \in Pages |-> IF p \in taken THEN Held(Kernel, "ptable") ELSE Placed(p)]
      /\ counters =
           [available |-> Cardinality(unused) - (Cardinality(TablePages) + 1) - PhysTables,
            kernel    |-> Cardinality(HitsOf({"kernel"})) + PhysTables,
            reserved  |-> Cardinality(HitsOf(ReservedTypes)) + (Cardinality(TablePages) + 1)]
      /\ tables = [i \in {<<>>} |-> 0] /\ leaf = [a \in {} |-> 0]
      /\ drift = 0
  BY DEF KernelInit, Held
<1>2. /\ TablePages \subseteq Pages /\ ApPage \in Pages
      /\ \A i \in moved : i \in Pages /\ Scanned(i) = Free
  BY <1>1, BootMapAssumption, KernelAssumption
<1>3. Cardinality(moved) = Cardinality(TablePages) + 1 /\ Cardinality(TablePages) \in Nat
  <2>1. IsFiniteSet(TablePages) /\ Cardinality(TablePages) \in Nat
    BY <1>2, PagesFinite
  <2> QED BY <2>1, <1>1, FS_AddElement
<1>4. \A i \in Pages : Placed(i) = IF i \in moved THEN Reserved("reserved") ELSE Scanned(i)
  BY DEF Placed
<1>5. left \subseteq Pages /\ left \subseteq Nat /\ IsFiniteSet(left)
  <2>1. left \subseteq Pages
    OBVIOUS
  <2> QED BY <2>1, PagesFinite
<1>6. taken \subseteq left /\ Cardinality(taken) = PhysTables /\ PhysTables \in Nat
  BY <1>1, <1>5, PhysTablesNat, FALSE \in BOOLEAN, FoundAreCounted
<1>7. /\ unused \in SUBSET Pages /\ image \in SUBSET Pages /\ kept \in SUBSET Pages
      /\ moved \in SUBSET Pages /\ moved \subseteq unused
  BY <1>2
<1>8. /\ Reserved("reserved").type = "reserved" /\ Reserved("reserved") \in PageMarks
      /\ Reserved("reserved") # Free
      /\ Held(Kernel, "ptable").type = "ptable" /\ Held(Kernel, "ptable") \in PageMarks
      /\ Free.type = "free"
  <2>1. "reserved" \in ReservedTypes /\ Kernel \in PageOwners
    BY DEF ReservedTypes, PageOwners
  <2> QED BY <2>1, MarkFacts
<1>9. taken \subseteq unused \ moved
  <2>1. \A i \in left : i \in Pages /\ i \notin moved /\ Scanned(i) = Free
    BY <1>4, <1>8
  <2> QED BY <2>1, <1>6
<1> DEFINE g == info
<1>10. /\ DOMAIN g = Pages
       /\ \A p \in taken : g[p] = Held(Kernel, "ptable")
       /\ \A p \in moved : g[p] = Reserved("reserved")
       /\ \A p \in Pages : p \notin taken /\ p \notin moved => g[p] = Scanned(p)
       /\ g = [p \in Pages |-> g[p]]
  BY <1>1, <1>2, <1>4, <1>7, <1>9
<1>11. \A p \in Pages :
         /\ Scanned(p) \in PageMarks
         /\ Scanned(p).type \in {"free", "image"} \union ReservedTypes
         /\ p \in unused <=> Scanned(p).type = "free"
  BY ScannedMarks, MarkFacts
<1> HIDE DEF g, taken, moved, left, unused, image, kept
<1>12. g \in [Pages -> PageMarks]
  BY <1>8, <1>10, <1>11
<1>13. /\ OfType(g, {"free"}) = (unused \ moved) \ taken
       /\ OfType(g, TakenTypes) = image \union taken
       /\ OfType(g, ReservedTypes) = kept \union moved
  <2>1. \A p \in Pages :
          /\ g[p].type = "free" <=> p \in unused /\ p \notin moved /\ p \notin taken
          /\ g[p].type \in TakenTypes <=> p \in image \/ p \in taken
          /\ g[p].type \in ReservedTypes <=> p \in kept \/ p \in moved
    <3> SUFFICES ASSUME NEW p \in Pages
                 PROVE  /\ g[p].type = "free" <=> p \in unused /\ p \notin moved /\ p \notin taken
                        /\ g[p].type \in TakenTypes <=> p \in image \/ p \in taken
                        /\ g[p].type \in ReservedTypes <=> p \in kept \/ p \in moved
      OBVIOUS
    <3>1. /\ p \in image <=> Scanned(p).type = "image"
          /\ p \in kept <=> Scanned(p).type \in ReservedTypes
          /\ p \in unused <=> Scanned(p).type = "free"
      BY <1>11 DEF image, kept
    <3>2. CASE p \in taken
      <4>1. g[p].type = "ptable" /\ Scanned(p).type = "free" /\ p \notin moved
        BY <3>1, <3>2, <1>8, <1>9, <1>10
      <4> QED BY <4>1, <3>1, <3>2 DEF TakenTypes, ReservedTypes
    <3>3. CASE p \in moved
      <4>1. g[p].type = "reserved" /\ Scanned(p).type = "free" /\ p \notin taken
        BY <3>1, <3>3, <1>7, <1>8, <1>9, <1>10
      <4> QED BY <4>1, <3>1, <3>3 DEF TakenTypes, ReservedTypes
    <3>4. CASE p \notin taken /\ p \notin moved
      <4>1. g[p].type = Scanned(p).type
        BY <3>4, <1>10
      <4> QED BY <4>1, <3>1, <3>4, <1>11 DEF TakenTypes, ReservedTypes
    <3> QED BY <3>2, <3>3, <3>4
  <2>2. taken \subseteq Pages
    BY <1>7, <1>9
  <2> QED BY <2>1, <2>2, <1>7 DEF OfType
<1>14. /\ image \intersect taken = {} /\ kept \intersect moved = {}
       /\ taken \in SUBSET Pages /\ unused \ moved \in SUBSET Pages
  <2>1. \A p \in Pages : ~ (p \in unused /\ p \in image) /\ ~ (p \in unused /\ p \in kept)
    BY <1>11 DEF image, kept, ReservedTypes
  <2> QED BY <2>1, <1>7, <1>9
<1>15. Cardinality(HitsOf({"kernel"})) = Cardinality(image)
  <2>1. \A i \in image : \E j \in Hits(i) : MemoryMap[j].status \in {"kernel"}
    <3> SUFFICES ASSUME NEW i \in image PROVE \E j \in Hits(i) : MemoryMap[j].status \in {"kernel"}
      OBVIOUS
    <3>1. i \in Pages /\ Scanned(i).type = "image"
      BY DEF image
    <3>2. PICK j : j \in Hits(i)
      BY <3>1, <1>8, ScannedMarks
    <3> QED BY <3>1, <3>2, ScannedMarks
  <2>2. \A i \in Pages : \A j \in Hits(i) : MemoryMap[j].status \in {"kernel"} => i \in image
    BY ScannedMarks DEF image
  <2> QED BY <2>1, <2>2, <1>7, HitsCounted
<1>16. Cardinality(HitsOf(ReservedTypes)) = Cardinality(kept)
  <2>1. \A i \in kept : \E j \in Hits(i) : MemoryMap[j].status \in ReservedTypes
    <3> SUFFICES ASSUME NEW i \in kept PROVE \E j \in Hits(i) : MemoryMap[j].status \in ReservedTypes
      OBVIOUS
    <3>1. i \in Pages /\ Scanned(i).type \in ReservedTypes
      BY DEF kept
    <3>2. "free" \notin ReservedTypes
      BY DEF ReservedTypes
    <3>3. PICK j : j \in Hits(i)
      BY <3>1, <3>2, <1>8, ScannedMarks
    <3> QED BY <3>1, <3>3, ScannedMarks
  <2>2. \A i \in Pages : \A j \in Hits(i) : MemoryMap[j].status \in ReservedTypes => i \in kept
    BY ScannedMarks DEF kept
  <2> QED BY <2>1, <2>2, <1>7, HitsCounted
<1>17. /\ Cardinality(unused \ moved) = Cardinality(unused) - Cardinality(moved)
       /\ Cardinality(unused) \in Nat
  BY <1>7, PagesJoin
<1>18. Cardinality((unused \ moved) \ taken) = Cardinality(unused \ moved) - Cardinality(taken)
  BY <1>9, <1>14, PagesJoin
<1>19. Cardinality(image \union taken) = Cardinality(image) + Cardinality(taken) /\ Cardinality(image) \in Nat
  BY <1>7, <1>14, PagesJoin
<1>20. Cardinality(kept \union moved) = Cardinality(kept) + Cardinality(moved) /\ Cardinality(kept) \in Nat
  BY <1>7, <1>14, PagesJoin
<1>21. counters =
         [available |-> Cardinality(unused) - (Cardinality(TablePages) + 1) - PhysTables,
          kernel    |-> Cardinality(HitsOf({"kernel"})) + PhysTables,
          reserved  |-> Cardinality(HitsOf(ReservedTypes)) + (Cardinality(TablePages) + 1)]
  BY <1>1 DEF unused
<1>22. /\ Cardinality(unused) - (Cardinality(TablePages) + 1) - PhysTables
            = Cardinality(OfType(g, {"free"})) + 0
       /\ Cardinality(HitsOf({"kernel"})) + PhysTables = Cardinality(OfType(g, TakenTypes)) - 0
       /\ Cardinality(HitsOf(ReservedTypes)) + (Cardinality(TablePages) + 1)
            = Cardinality(OfType(g, ReservedTypes))
  BY <1>3, <1>6, <1>13, <1>15, <1>16, <1>17, <1>18, <1>19, <1>20
<1>23. CountersExact
  <2>1. drift = 0
    BY <1>1
  <2> QED BY <2>1, <1>21, <1>22, Zenon DEF CountersExact, TakenTypes, g
<1>24. InfoTypes
  BY <1>1, <1>12 DEF InfoTypes, g
<1>25. MapKept
  <2>1. /\ DOMAIN leaf = {} /\ DOMAIN tables = {<<>>} /\ tables[<<>>] = 0
    BY <1>1
  <2>2. UNION {Prefixes(a) : a \in DOMAIN leaf} = {}
    BY <2>1
  <2> QED BY <2>1, <2>2 DEF MapKept
<1> QED BY <1>23, <1>24, <1>25 DEF KernelKept

LEMMA KernelStepKeeps == KernelKept /\ [KernelNext]_kernelVars => KernelKept'
<1> SUFFICES ASSUME KernelKept, [KernelNext]_kernelVars PROVE KernelKept'
  OBVIOUS
<1>1. ASSUME NEW n \in 1 .. MaxRequest, NEW process \in PageOwners, NEW high \in BOOLEAN,
             Acquire(n, process, high)
      PROVE  KernelKept'
  BY <1>1, AcquireKeeps
<1>2. ASSUME NEW process \in PageOwners, NEW ps \in Lists(Pages), Lock(ps, process)
      PROVE  KernelKept'
  BY <1>2, LockKeeps
<1>3. ASSUME NEW allowkernel \in BOOLEAN, NEW ps \in Lists(Releasable), Release(ps, allowkernel)
      PROVE  KernelKept'
  BY <1>3, ReleaseKeeps
<1>4. ASSUME NEW process \in UserProcesses, FreeProc(process) PROVE KernelKept'
  BY <1>4, FreeProcKeeps
<1>5. CASE Reclaim
  BY <1>5, ReclaimKeeps
<1>6. ASSUME NEW a \in Addresses, NEW page \in Pages, KMap(a, page) PROVE KernelKept'
  BY <1>6, KMapKeeps
<1>7. ASSUME NEW a \in Addresses, KUnmap(a) PROVE KernelKept'
  BY <1>7, KUnmapKeeps
<1>8. ASSUME UNCHANGED <<info, counters, tables, leaf, drift>> PROVE KernelKept'
  BY <1>8 DEF KernelKept, InfoTypes, CountersExact, MapKept, OfType
<1>9. CASE \E n \in 1 .. MaxRequest : AcquireRunsOut(n)
  BY <1>8, <1>9 DEF AcquireRunsOut
<1>10. CASE \E a \in Addresses : KMapRunsOut(a)
  BY <1>8, <1>10 DEF KMapRunsOut
<1>11. CASE UNCHANGED kernelVars
  BY <1>8, <1>11 DEF kernelVars
<1> QED BY <1>1, <1>2, <1>3, <1>4, <1>5, <1>6, <1>7, <1>9, <1>10, <1>11 DEF KernelNext

LEMMA KernelKeptHolds == KernelKept => MapHeld /\ CountersExact
<1> SUFFICES ASSUME KernelKept PROVE MapHeld
  BY DEF KernelKept
<1>1. MapKept
  BY DEF KernelKept
<1>2. ASSUME NEW i \in DOMAIN tables \ {<<>>}
      PROVE  /\ info[tables[i]] = [owner |-> Kernel, type |-> "ptable"]
             /\ \A j \in DOMAIN tables \ {i} : tables[i] # tables[j]
             /\ \E a \in DOMAIN leaf : i \in Prefixes(a)
  BY <1>1 DEF MapKept, Held
<1>3. ASSUME NEW a \in DOMAIN leaf
      PROVE  CheckMap(a) = leaf[a] /\ info[leaf[a]] = [owner |-> Kernel, type |-> "data"]
  <2>1. Missing(a) = {}
    BY <1>1 DEF MapKept, Missing
  <2> QED BY <2>1, <1>1 DEF MapKept, CheckMap, Held
<1> QED BY <1>2, <1>3 DEF MapHeld

(* The invariant of the page allocator and the kernel's map: the counters are  *)
(* exact, and the tables are those on the way to the mapped pages.            *)
THEOREM KernelInvariant == KernelSpec => []KernelKept
<1>1. KernelInit => KernelKept
  BY KernelStarts
<1>2. KernelKept /\ [KernelNext]_kernelVars => KernelKept'
  BY KernelStepKeeps
<1> QED BY <1>1, <1>2, PTL DEF KernelSpec

(* Tables lie on pages of their own and lead to what is mapped. *)
THEOREM MapStaysHeld == KernelSpec => []MapHeld
<1>1. KernelKept => MapHeld
  BY KernelKeptHolds
<1> QED BY <1>1, KernelInvariant, PTL

(* The counters tell how many pages are free, in use and reserved. *)
THEOREM CountersStayExact == KernelSpec => []CountersExact
<1>1. KernelKept => CountersExact
  BY KernelKeptHolds
<1> QED BY <1>1, KernelInvariant, PTL
-----------------------------------------------------------------------------
(* The vectors.  How often an element occurs in what is put together of        *)
(* sequences.                                                                 *)
Elements == Values \union {Zero}

VectorType == {v \in [cells : Seq(Elements), count : Nat, plain : BOOLEAN] : v.count <= Len(v.cells)}

(* What the calls of copy and finalize owe to x in v. *)
Weight(x, v) == IF v.plain THEN 0 ELSE Occurs(x, ContentsOf(v))

VectorTypes ==
  /\ vec \in [Handles -> VectorType] /\ \A h \in Handles : vec[h].count <= MaxCount
  /\ owned \in [Values -> Int]
  /\ promised \in [Handles -> Seq(Elements)]

(* More than is promised: what a resize adds is zero in the code as it is. *)
ContentsExact == \A h \in Handles : Contents(h) = promised[h]

VectorKept == VectorTypes /\ ContentsExact /\ CopiesCounted

LEMMA OccursNat ==
  ASSUME NEW S, NEW s \in Seq(S), NEW x
  PROVE  /\ IsFiniteSet({i \in DOMAIN s : s[i] = x}) /\ Occurs(x, s) \in Nat
         /\ (\A i \in DOMAIN s : s[i] # x) => Occurs(x, s) = 0
<1>1. IsFiniteSet(DOMAIN s)
  <2>1. DOMAIN s = 1 .. Len(s) /\ Len(s) \in Nat
    OBVIOUS
  <2> QED BY <2>1, FS_Interval
<1>2. IsFiniteSet({i \in DOMAIN s : s[i] = x})
  BY <1>1, FS_Subset
<1>3. Occurs(x, s) \in Nat
  BY <1>2, FS_CardinalityType DEF Occurs
<1>4. ASSUME \A i \in DOMAIN s : s[i] # x PROVE Occurs(x, s) = 0
  <2>1. {i \in DOMAIN s : s[i] = x} = {}
    BY <1>4
  <2> QED BY <2>1, FS_EmptySet DEF Occurs
<1> QED BY <1>2, <1>3, <1>4

LEMMA OccursConcat ==
  ASSUME NEW S, NEW s \in Seq(S), NEW t \in Seq(S), NEW x
  PROVE  s \o t \in Seq(S) /\ Occurs(x, s \o t) = Occurs(x, s) + Occurs(x, t)
<1> DEFINE A == {i \in DOMAIN s : s[i] = x}
           B == {i \in DOMAIN t : t[i] = x}
           C == {i \in DOMAIN (s \o t) : (s \o t)[i] = x}
           f == [i \in DOMAIN t |-> i + Len(s)]
           D == {f[i] : i \in B}
<1>1. /\ DOMAIN s = 1 .. Len(s) /\ DOMAIN t = 1 .. Len(t) /\ Len(s) \in Nat /\ Len(t) \in Nat
      /\ s \o t \in Seq(S) /\ DOMAIN (s \o t) = 1 .. Len(s) + Len(t)
      /\ \A i \in 1 .. Len(s) : (s \o t)[i] = s[i]
      /\ \A i \in 1 .. Len(t) : (s \o t)[i + Len(s)] = t[i]
  OBVIOUS
<1>2. IsFiniteSet(A) /\ IsFiniteSet(B)
  BY OccursNat
<1>3. \A i \in DOMAIN t : f[i] = i + Len(s)
  OBVIOUS
<1>4. IsFiniteSet(D) /\ Cardinality(D) = Cardinality(B)
  <2>1. \A i \in B : f[i] \in D
    OBVIOUS
  <2>2. \A d \in D : \E i \in B : d = f[i]
    OBVIOUS
  <2>3. \A i, j \in B : f[i] = f[j] => i = j
    BY <1>1
  <2> HIDE DEF D, f
  <2> QED BY <1>2, <2>1, <2>2, <2>3, SameSize
<1>5. C = A \union D /\ A \intersect D = {}
  <2>1. ASSUME NEW i \in C PROVE i \in A \/ i \in D
    <3>1. i \in 1 .. Len(s) + Len(t) /\ (s \o t)[i] = x
      BY <1>1
    <3>2. CASE i <= Len(s)
      <4>1. i \in 1 .. Len(s)
        BY <3>1, <3>2, <1>1
      <4> QED BY <4>1, <3>1, <1>1
    <3>3. CASE ~ (i <= Len(s))
      <4>1. i - Len(s) \in 1 .. Len(t) /\ (i - Len(s)) + Len(s) = i
        BY <3>1, <3>3, <1>1
      <4>2. t[i - Len(s)] = x
        BY <4>1, <3>1, <1>1
      <4>3. i - Len(s) \in B /\ f[i - Len(s)] = i
        BY <4>1, <4>2, <1>1, <1>3
      <4> QED BY <4>3
    <3> QED BY <3>2, <3>3
  <2>2. ASSUME NEW i \in A PROVE i \in C /\ i <= Len(s)
    BY <1>1
  <2>3. ASSUME NEW d \in D PROVE d \in C /\ d > Len(s)
    <3>1. PICK i \in B : d = f[i]
      OBVIOUS
    <3>2. i \in 1 .. Len(t) /\ t[i] = x /\ d = i + Len(s)
      BY <3>1, <1>1, <1>3
    <3>3. d \in 1 .. Len(s) + Len(t) /\ (s \o t)[d] = x
      BY <3>2, <1>1
    <3> QED BY <3>2, <3>3, <1>1
  <2>4. A \intersect D = {}
    <3> SUFFICES ASSUME NEW i \in A, i \in D PROVE FALSE
      OBVIOUS
    <3>1. i <= Len(s) /\ i > Len(s) /\ i \in Nat
      BY <2>2, <2>3, <1>1
    <3> QED BY <3>1, <1>1
  <2> QED BY <2>1, <2>2, <2>3, <2>4
<1> HIDE DEF A, B, C, D
<1>6. Cardinality(C) = Cardinality(A) + Cardinality(D) - Cardinality({})
  BY <1>2, <1>4, <1>5, FS_Union
<1>7. Cardinality({}) = 0 /\ Cardinality(A) \in Nat /\ Cardinality(D) \in Nat
  BY <1>2, <1>4, FS_EmptySet, FS_CardinalityType
<1>8. Cardinality(C) = Cardinality(A) + Cardinality(B)
  BY <1>4, <1>6, <1>7
<1> QED BY <1>1, <1>8 DEF Occurs, A, B, C

LEMMA SameSequence ==
  ASSUME NEW S, NEW s \in Seq(S), NEW t \in Seq(S), Len(s) = Len(t),
         \A i \in 1 .. Len(s) : s[i] = t[i]
  PROVE  s = t
OBVIOUS

LEMMA LenConcat ==
  ASSUME NEW S, NEW s \in Seq(S), NEW t \in Seq(S)
  PROVE  s \o t \in Seq(S) /\ Len(s \o t) = Len(s) + Len(t)
OBVIOUS

LEMMA SecondPart ==
  ASSUME NEW S, NEW s \in Seq(S), NEW t \in Seq(S), NEW i \in 1 .. Len(t)
  PROVE  (s \o t)[Len(s) + i] = t[i]
OBVIOUS

(* A sequence, cut in two. *)
LEMMA CutInTwo ==
  ASSUME NEW S, NEW s \in Seq(S), NEW k \in 0 .. Len(s)
  PROVE  /\ SubSeq(s, 1, k) \in Seq(S) /\ Len(SubSeq(s, 1, k)) = k
         /\ \A i \in 1 .. k : SubSeq(s, 1, k)[i] = s[i]
         /\ SubSeq(s, k + 1, Len(s)) \in Seq(S) /\ Len(SubSeq(s, k + 1, Len(s))) = Len(s) - k
         /\ \A i \in 1 .. Len(s) - k : SubSeq(s, k + 1, Len(s))[i] = s[i + k]
         /\ s = SubSeq(s, 1, k) \o SubSeq(s, k + 1, Len(s))
<1>1. /\ SubSeq(s, 1, k) \in Seq(S) /\ Len(SubSeq(s, 1, k)) = k
      /\ \A i \in 1 .. k : SubSeq(s, 1, k)[i] = s[i]
  OBVIOUS
<1>2. /\ SubSeq(s, k + 1, Len(s)) \in Seq(S) /\ Len(SubSeq(s, k + 1, Len(s))) = Len(s) - k
      /\ \A i \in 1 .. Len(s) - k : SubSeq(s, k + 1, Len(s))[i] = s[i + k]
  OBVIOUS
<1>3. s = SubSeq(s, 1, k) \o SubSeq(s, k + 1, Len(s))
  <2> DEFINE a == SubSeq(s, 1, k)
             b == SubSeq(s, k + 1, Len(s))
  <2> HIDE DEF a, b
  <2>1. /\ a \in Seq(S) /\ b \in Seq(S) /\ Len(a) = k /\ Len(b) = Len(s) - k
        /\ \A i \in 1 .. k : a[i] = s[i]
        /\ \A i \in 1 .. Len(s) - k : b[i] = s[i + k]
    BY <1>1, <1>2 DEF a, b
  <2>2. a \o b \in Seq(S) /\ Len(a \o b) = Len(s)
    BY <2>1, SMTT(30)
  <2>3. ASSUME NEW i \in 1 .. Len(s) PROVE (a \o b)[i] = s[i]
    <3>1. CASE i <= k
      BY <3>1, <2>1
    <3>2. CASE ~ (i <= k)
      <4>1. i - k \in 1 .. Len(b) /\ (a \o b)[i] = b[i - k]
        BY <3>2, <2>1
      <4> QED BY <4>1, <2>1
    <3> QED BY <3>1, <3>2
  <2>4. s = a \o b
    BY <2>2, <2>3, SameSequence
  <2> QED BY <2>4 DEF a, b
<1> QED BY <1>1, <1>2, <1>3

LEMMA TypeFacts ==
  ASSUME NEW v \in VectorType
  PROVE  /\ v.cells \in Seq(Elements) /\ v.count \in Nat /\ v.plain \in BOOLEAN
         /\ v.count <= Len(v.cells) /\ Len(v.cells) \in Nat
         /\ ContentsOf(v) \in Seq(Elements) /\ Len(ContentsOf(v)) = v.count
         /\ \A i \in 1 .. v.count : ContentsOf(v)[i] = v.cells[i]
<1>1. /\ v.cells \in Seq(Elements) /\ v.count \in Nat /\ v.plain \in BOOLEAN
      /\ v.count <= Len(v.cells)
  BY DEF VectorType
<1>2. Len(v.cells) \in Nat /\ v.count \in 0 .. Len(v.cells)
  BY <1>1
<1> QED BY <1>1, <1>2, CutInTwo DEF ContentsOf

(* The copies in one vector are its weight. *)
LEMMA CopiesHere ==
  ASSUME NEW f \in [Handles -> VectorType], NEW h \in Handles, f[h].count <= MaxCount, NEW x
  PROVE  /\ IsFiniteSet({p \in Copies(f, x) : p[1] = h})
         /\ Cardinality({p \in Copies(f, x) : p[1] = h}) = Weight(x, f[h])
         /\ Weight(x, f[h]) \in Nat
<1> DEFINE H == {p \in Copies(f, x) : p[1] = h}
           v == f[h]
           I == {i \in DOMAIN ContentsOf(v) : ContentsOf(v)[i] = x}
           g == [i \in DOMAIN ContentsOf(v) |-> <<h, i>>]
<1>1. v \in VectorType
  OBVIOUS
<1>2. /\ ContentsOf(v) \in Seq(Elements) /\ DOMAIN ContentsOf(v) = 1 .. v.count
      /\ v.count \in Nat /\ \A i \in 1 .. v.count : ContentsOf(v)[i] = v.cells[i]
  BY <1>1, TypeFacts
<1>3. CASE v.plain
  <2>1. H = {}
    BY <1>3 DEF Copies
  <2>2. Weight(x, v) = 0
    BY <1>3 DEF Weight
  <2> QED BY <2>1, <2>2, FS_EmptySet
<1>4. CASE ~ v.plain
  <2>1. IsFiniteSet(I) /\ Cardinality(I) = Weight(x, v) /\ Weight(x, v) \in Nat
    <3>1. IsFiniteSet(I) /\ Occurs(x, ContentsOf(v)) \in Nat
      BY <1>2, OccursNat
    <3>2. Occurs(x, ContentsOf(v)) = Cardinality(I)
      BY DEF Occurs
    <3>3. Weight(x, v) = Occurs(x, ContentsOf(v))
      BY <1>4 DEF Weight
    <3> QED BY <3>1, <3>2, <3>3
  <2>2. ASSUME NEW i \in I PROVE g[i] \in H /\ g[i] = <<h, i>>
    <3>1. i \in 1 .. v.count /\ v.cells[i] = x /\ i \in 1 .. MaxCount
      BY <1>2, VectorAssumption
    <3>2. <<h, i>>[1] = h /\ <<h, i>>[2] = i /\ <<h, i>> \in Handles \X (1 .. MaxCount)
      BY <3>1
    <3>3. <<h, i>> \in Copies(f, x)
      BY <3>1, <3>2, <1>4 DEF Copies
    <3> QED BY <3>2, <3>3
  <2>3. ASSUME NEW p \in H PROVE \E i \in I : p = g[i]
    <3>1. /\ p \in Handles \X (1 .. MaxCount) /\ p[1] = h
          /\ p[2] <= v.count /\ v.cells[p[2]] = x
      BY DEF Copies
    <3>2. p = <<h, p[2]>> /\ p[2] \in 1 .. v.count
      BY <3>1, <1>2, VectorAssumption
    <3>3. p[2] \in I /\ g[p[2]] = p
      BY <3>1, <3>2, <1>2
    <3> QED BY <3>3
  <2>4. /\ \A i \in I : g[i] \in H
        /\ \A i, j \in I : g[i] = g[j] => i = j
        /\ \A p \in H : \E i \in I : p = g[i]
    <3>1. \A i, j \in I : g[i] = g[j] => i = j
      BY <2>2
    <3> QED BY <2>2, <2>3, <3>1
  <2> HIDE DEF g, I, H
  <2>5. IsFiniteSet(H) /\ Cardinality(H) = Cardinality(I)
    BY <2>1, <2>4, SameSize
  <2> QED BY <2>1, <2>5 DEF H
<1> QED BY <1>3, <1>4

(* When one vector changes, its weight is what changes of the copies. *)
LEMMA CopiesChange ==
  ASSUME NEW f \in [Handles -> VectorType], NEW h \in Handles, f[h].count <= MaxCount,
         NEW w \in VectorType, w.count <= MaxCount,
         NEW g \in [Handles -> VectorType], g[h] = w,
         \A k \in Handles : k # h => g[k] = f[k], NEW x
  PROVE  /\ Cardinality(Copies(f, x)) \in Nat
         /\ Cardinality(Copies(g, x)) = Cardinality(Copies(f, x)) - Weight(x, f[h]) + Weight(x, w)
         /\ Weight(x, f[h]) \in Nat /\ Weight(x, w) \in Nat
<1> DEFINE Here(u) == {p \in Copies(u, x) : p[1] = h}
           There(u) == {p \in Copies(u, x) : p[1] # h}
<1>1. /\ g \in [Handles -> VectorType] /\ g[h] = w
      /\ \A k \in Handles : k # h => g[k] = f[k]
  OBVIOUS
<1>2. There(g) = There(f)
  <2>1. \A p \in Handles \X (1 .. MaxCount) : p[1] \in Handles
    OBVIOUS
  <2> QED BY <1>1, <2>1 DEF Copies
<1>3. ASSUME NEW u
      PROVE  /\ Copies(u, x) = There(u) \union Here(u) /\ There(u) \intersect Here(u) = {}
             /\ IsFiniteSet(Copies(u, x)) /\ IsFiniteSet(There(u)) /\ IsFiniteSet(Here(u))
             /\ Cardinality(There(u)) \in Nat /\ Cardinality(Here(u)) \in Nat
             /\ Cardinality(Copies(u, x)) = Cardinality(There(u)) + Cardinality(Here(u))
  <2>1. IsFiniteSet(Handles \X (1 .. MaxCount))
    <3>1. IsFiniteSet(1 .. MaxCount) /\ IsFiniteSet(Handles)
      BY VectorAssumption, 1 \in Int, MaxCount \in Int, FS_Interval
    <3> QED BY <3>1, FS_Product
  <2>2. Copies(u, x) \subseteq Handles \X (1 .. MaxCount)
    BY DEF Copies
  <2>3. Copies(u, x) = There(u) \union Here(u) /\ There(u) \intersect Here(u) = {}
    OBVIOUS
  <2>4. There(u) \subseteq Copies(u, x) /\ Here(u) \subseteq Copies(u, x)
    OBVIOUS
  <2> HIDE DEF There, Here
  <2>5. IsFiniteSet(Copies(u, x))
    BY <2>1, <2>2, FS_Subset
  <2>6. IsFiniteSet(There(u)) /\ IsFiniteSet(Here(u))
    BY <2>4, <2>5, FS_Subset
  <2>7. Cardinality(There(u)) \in Nat /\ Cardinality(Here(u)) \in Nat
    BY <2>6, FS_CardinalityType
  <2>8. Cardinality(Copies(u, x)) = Cardinality(There(u)) + Cardinality(Here(u)) - Cardinality({})
    BY <2>3, <2>6, FS_Union
  <2>9. Cardinality({}) = 0
    BY FS_EmptySet
  <2>10. Cardinality(Copies(u, x)) = Cardinality(There(u)) + Cardinality(Here(u))
    BY <2>7, <2>8, <2>9
  <2> QED BY <2>3, <2>5, <2>6, <2>7, <2>10
<1>4. Cardinality(Here(f)) = Weight(x, f[h])
  BY CopiesHere
<1>5. Cardinality(Here(g)) = Weight(x, w)
  BY <1>1, CopiesHere
<1> HIDE DEF There, Here
<1>6. /\ Cardinality(Copies(f, x)) = Cardinality(There(f)) + Weight(x, f[h])
      /\ Cardinality(Copies(g, x)) = Cardinality(There(f)) + Weight(x, w)
      /\ Cardinality(There(f)) \in Nat /\ Weight(x, f[h]) \in Nat /\ Weight(x, w) \in Nat
  BY <1>2, <1>3, <1>4, <1>5
<1> QED BY <1>6

(* A call that changes one vector. *)
LEMMA OneChanges ==
  ASSUME VectorKept, NEW h \in Handles, NEW w \in VectorType, w.count <= MaxCount,
         NEW q, q = ContentsOf(w),
         vec' = [vec EXCEPT ![h] = w], promised' = [promised EXCEPT ![h] = q],
         owned' \in [Values -> Int],
         \A x \in Values : owned'[x] = owned[x] - Weight(x, vec[h]) + Weight(x, w)
  PROVE  VectorKept'
<1>1. VectorTypes /\ ContentsExact /\ CopiesCounted
  BY DEF VectorKept
<1>2. /\ vec \in [Handles -> VectorType] /\ \A k \in Handles : vec[k].count <= MaxCount
      /\ owned \in [Values -> Int] /\ promised \in [Handles -> Seq(Elements)]
  BY <1>1 DEF VectorTypes
<1>3. q \in Seq(Elements)
  BY TypeFacts
<1>4. /\ vec' \in [Handles -> VectorType] /\ vec'[h] = w
      /\ \A k \in Handles : k # h => vec'[k] = vec[k]
      /\ promised' \in [Handles -> Seq(Elements)] /\ promised'[h] = q
      /\ \A k \in Handles : k # h => promised'[k] = promised[k]
  BY <1>2, <1>3
<1>5. VectorTypes'
  BY <1>2, <1>4 DEF VectorTypes
<1>6. ContentsExact'
  BY <1>1, <1>4 DEF ContentsExact, Contents
<1>7. ASSUME NEW x \in Values PROVE owned'[x] = Cardinality(Copies(vec', x))
  <2>1. vec[h].count <= MaxCount
    BY <1>2
  <2>2. /\ Cardinality(Copies(vec, x)) \in Nat
        /\ Cardinality(Copies(vec', x))
             = Cardinality(Copies(vec, x)) - Weight(x, vec[h]) + Weight(x, w)
        /\ Weight(x, vec[h]) \in Nat /\ Weight(x, w) \in Nat
    <3> DEFINE f == vec
               g == vec'
    <3> HIDE DEF f, g
    <3>1. /\ f \in [Handles -> VectorType] /\ f[h].count <= MaxCount
          /\ w \in VectorType /\ w.count <= MaxCount
          /\ g \in [Handles -> VectorType] /\ g[h] = w
          /\ \A k \in Handles : k # h => g[k] = f[k]
      BY <1>2, <1>4, <2>1 DEF f, g
    <3>2. /\ Cardinality(Copies(f, x)) \in Nat
          /\ Cardinality(Copies(g, x)) = Cardinality(Copies(f, x)) - Weight(x, f[h]) + Weight(x, w)
          /\ Weight(x, f[h]) \in Nat /\ Weight(x, w) \in Nat
      BY <3>1, CopiesChange
    <3> QED BY <3>2 DEF f, g
  <2>3. owned[x] = Cardinality(Copies(vec, x))
    BY <1>1 DEF CopiesCounted
  <2>4. owned'[x] = owned[x] - Weight(x, vec[h]) + Weight(x, w)
    OBVIOUS
  <2> QED BY <2>2, <2>3, <2>4
<1>8. CopiesCounted'
  BY <1>7 DEF CopiesCounted
<1> QED BY <1>5, <1>6, <1>8 DEF VectorKept

(* What the calls of finalize and copy add up to. *)
LEMMA CallsCounted ==
  ASSUME NEW c \in [Values -> Int], NEW plain \in BOOLEAN, NEW s \in Seq(Elements)
  PROVE  /\ Finalized(c, plain, s) \in [Values -> Int]
         /\ Copied(c, plain, s) \in [Values -> Int]
         /\ \A x \in Values :
              /\ Occurs(x, s) \in Nat /\ c[x] \in Int
              /\ Finalized(c, plain, s)[x] = c[x] - (IF plain THEN 0 ELSE Occurs(x, s))
              /\ Copied(c, plain, s)[x] = c[x] + (IF plain THEN 0 ELSE Occurs(x, s))
<1>1. \A x \in Values : Occurs(x, s) \in Nat /\ c[x] \in Int
  BY OccursNat
<1>2. CASE plain
  BY <1>1, <1>2 DEF Finalized, Copied
<1>3. CASE ~ plain
  <2>1. /\ Finalized(c, plain, s) = [x \in Values |-> c[x] - Occurs(x, s)]
        /\ Copied(c, plain, s) = [x \in Values |-> c[x] + Occurs(x, s)]
    BY <1>3 DEF Finalized, Copied
  <2>2. \A x \in Values : c[x] - Occurs(x, s) \in Int /\ c[x] + Occurs(x, s) \in Int
    BY <1>1
  <2> HIDE DEF Finalized, Copied
  <2> QED BY <1>1, <1>3, <2>1, <2>2
<1> QED BY <1>2, <1>3

LEMMA DiscardedCounts ==
  ASSUME VectorKept, NEW h \in Handles
  PROVE  /\ Discarded(h) \in [Values -> Int]
         /\ \A x \in Values : /\ Discarded(h)[x] = owned[x] - Weight(x, vec[h])
                              /\ owned[x] \in Int /\ Weight(x, vec[h]) \in Nat
<1>1. vec[h] \in VectorType /\ owned \in [Values -> Int]
  BY DEF VectorKept, VectorTypes
<1>2. ContentsOf(vec[h]) \in Seq(Elements) /\ vec[h].plain \in BOOLEAN
  BY <1>1, TypeFacts
<1>3. /\ Discarded(h) = Finalized(owned, vec[h].plain, ContentsOf(vec[h]))
  BY DEF Discarded, Contents
<1>4. \A x \in Values : Weight(x, vec[h]) = IF vec[h].plain THEN 0 ELSE Occurs(x, ContentsOf(vec[h]))
  BY DEF Weight
<1> QED BY <1>1, <1>2, <1>3, <1>4, CallsCounted

LEMMA ZeroesFacts ==
  ASSUME NEW n \in Nat
  PROVE  /\ Zeroes(n) \in Seq(Elements) /\ Len(Zeroes(n)) = n
         /\ \A i \in 1 .. n : Zeroes(n)[i] = Zero
         /\ \A x \in Values : Occurs(x, Zeroes(n)) = 0
<1>1. /\ Zeroes(n) \in Seq(Elements) /\ Len(Zeroes(n)) = n
      /\ \A i \in 1 .. n : Zeroes(n)[i] = Zero
  BY DEF Zeroes, Elements
<1>2. ASSUME NEW x \in Values PROVE Occurs(x, Zeroes(n)) = 0
  <2>1. \A i \in DOMAIN Zeroes(n) : Zeroes(n)[i] # x
    BY <1>1, VectorAssumption
  <2> QED BY <1>1, <2>1, OccursNat
<1> QED BY <1>1, <1>2

(* A vector without elements. *)
LEMMA NothingHeld ==
  ASSUME NEW n \in Nat, NEW plain \in BOOLEAN, NEW w,
         w = [cells |-> Zeroes(n), count |-> 0, plain |-> plain] \/ w = NoVector
  PROVE  /\ w \in VectorType /\ w.count = 0 /\ ContentsOf(w) = <<>>
         /\ \A x : Weight(x, w) = 0
<1>1. /\ w.count = 0 /\ w.cells \in Seq(Elements) /\ w.plain \in BOOLEAN
      /\ w = [cells |-> w.cells, count |-> 0, plain |-> w.plain]
  <2>1. CASE w = NoVector
    <3>1. <<>> \in Seq(Elements) /\ TRUE \in BOOLEAN
      OBVIOUS
    <3> QED BY <2>1, <3>1 DEF NoVector
  <2>2. CASE w = [cells |-> Zeroes(n), count |-> 0, plain |-> plain]
    <3>1. Zeroes(n) \in Seq(Elements)
      BY ZeroesFacts
    <3> HIDE DEF Zeroes
    <3> QED BY <2>2, <3>1
  <2> QED BY <2>1, <2>2
<1>2. w \in VectorType
  BY <1>1 DEF VectorType
<1>3. Len(ContentsOf(w)) = 0 /\ ContentsOf(w) \in Seq(Elements)
  BY <1>1, <1>2, TypeFacts
<1>4. ContentsOf(w) = <<>>
  BY <1>3
<1>5. ASSUME NEW x PROVE Weight(x, w) = 0
  <2>1. \A i \in DOMAIN ContentsOf(w) : ContentsOf(w)[i] # x
    BY <1>3
  <2>2. Occurs(x, ContentsOf(w)) = 0
    BY <1>3, <2>1, OccursNat
  <2> QED BY <2>2 DEF Weight
<1> QED BY <1>1, <1>2, <1>4, <1>5

LEMMA EmptiedKeeps ==
  ASSUME VectorKept, NEW h \in Handles, NEW n \in Nat, NEW plain \in BOOLEAN, NEW w,
         w = [cells |-> Zeroes(n), count |-> 0, plain |-> plain] \/ w = NoVector,
         vec' = [vec EXCEPT ![h] = w], promised' = [promised EXCEPT ![h] = <<>>],
         owned' = Discarded(h)
  PROVE  VectorKept'
<1>1. /\ w \in VectorType /\ w.count = 0 /\ <<>> = ContentsOf(w)
      /\ \A x : Weight(x, w) = 0
  BY NothingHeld
<1>2. w.count <= MaxCount
  BY <1>1, VectorAssumption
<1>3. /\ owned' \in [Values -> Int]
      /\ \A x \in Values : owned'[x] = owned[x] - Weight(x, vec[h]) + Weight(x, w)
  BY <1>1, DiscardedCounts
<1> QED BY <1>1, <1>2, <1>3, OneChanges

LEMMA CapacityEnough ==
  ASSUME NEW n \in Nat
  PROVE  Capacity(n) \in Nat /\ n <= Capacity(n) /\ AtLeastTwo(n) \in Nat
<1>1. n \div 10 \in Nat /\ Growth \div 6 \in Nat
  BY VectorAssumption
<1>2. \A m \in Nat : Clamp(m, 5, 1024) \in Nat /\ Clamp(m, 1, 10) \in Nat
  BY DEF Clamp
<1>3. ASSUME NEW a \in Nat, NEW b \in Nat PROVE a * b \in Nat
  OBVIOUS
<1> DEFINE extra == Clamp(n \div 10, 5, 1024) * Clamp(Growth \div 6, 1, 10)
<1>4. extra \in Nat
  BY <1>1, <1>2, <1>3
<1>5. Capacity(n) = AtLeastTwo(extra + n)
  BY DEF Capacity
<1> HIDE DEF extra
<1> QED BY <1>4, <1>5 DEF AtLeastTwo

LEMMA CreateKeeps ==
  ASSUME VectorKept, NEW h \in Handles, NEW plain \in BOOLEAN, NEW c \in Nat,
         Create(h, c, plain)
  PROVE  VectorKept'
BY EmptiedKeeps DEF Create

LEMMA DestroyKeeps ==
  ASSUME VectorKept, NEW h \in Handles, Destroy(h)
  PROVE  VectorKept'
BY 0 \in Nat, TRUE \in BOOLEAN, EmptiedKeeps DEF Destroy

LEMMA ClearKeeps ==
  ASSUME VectorKept, NEW h \in Handles, Clear(h)
  PROVE  VectorKept'
<1>1. Capacity(0) \in Nat
  BY CapacityEnough
<1>2. vec[h].plain \in BOOLEAN
  BY TypeFacts DEF VectorKept, VectorTypes
<1> QED BY <1>1, <1>2, EmptiedKeeps DEF Clear

(* A vector with its elements in a new buffer, and with zeroes behind them. *)
LEMMA IntoFacts ==
  ASSUME NEW v \in VectorType, NEW capacity \in Nat, NEW count \in Nat,
         v.count <= count, count <= capacity
  PROVE  /\ Into(v, capacity, count) \in VectorType
         /\ Into(v, capacity, count).count = count
         /\ Into(v, capacity, count).plain = v.plain
         /\ Len(Into(v, capacity, count).cells) = capacity
         /\ ContentsOf(Into(v, capacity, count)) = ContentsOf(v) \o Zeroes(count - v.count)
         /\ count = v.count => ContentsOf(Into(v, capacity, count)) = ContentsOf(v)
         /\ \A x \in Values : Weight(x, Into(v, capacity, count)) = Weight(x, v)
<1> DEFINE c == ContentsOf(v)
           w == Into(v, capacity, count)
           z == Zeroes(count - v.count)
<1>1. /\ c \in Seq(Elements) /\ Len(c) = v.count /\ v.count \in Nat /\ v.plain \in BOOLEAN
  BY TypeFacts
<1>2. /\ z \in Seq(Elements) /\ Len(z) = count - v.count /\ count - v.count \in Nat
      /\ \A i \in 1 .. count - v.count : z[i] = Zero
      /\ \A x \in Values : Occurs(x, z) = 0
  BY <1>1, ZeroesFacts, SMTT(30)
<1>3. /\ Zeroes(capacity) \in Seq(Elements) /\ Len(Zeroes(capacity)) = capacity
      /\ \A i \in 1 .. capacity : Zeroes(capacity)[i] = Zero
  BY ZeroesFacts
<1>4. /\ w.cells = Filled(Zeroes(capacity), 1, c) /\ w.count = count /\ w.plain = v.plain
      /\ w = [cells |-> w.cells, count |-> count, plain |-> v.plain]
  BY DEF Into
<1> HIDE DEF c, w, z
<1>5. /\ w.cells \in Seq(Elements) /\ Len(w.cells) = capacity
      /\ \A i \in 1 .. capacity : w.cells[i] = IF i <= v.count THEN c[i] ELSE Zero
  <2>1. w.cells = [i \in 1 .. capacity |-> IF i <= v.count THEN c[i] ELSE Zero]
    <3>1. DOMAIN Zeroes(capacity) = 1 .. capacity
      BY <1>3
    <3>2. w.cells = [i \in 1 .. capacity |->
                       IF i \in 1 .. 1 + Len(c) - 1 THEN c[i - 1 + 1] ELSE Zeroes(capacity)[i]]
      BY <1>4, <3>1 DEF Filled
    <3>3. ASSUME NEW i \in 1 .. capacity
          PROVE  (IF i \in 1 .. 1 + Len(c) - 1 THEN c[i - 1 + 1] ELSE Zeroes(capacity)[i])
                    = (IF i <= v.count THEN c[i] ELSE Zero)
      <4>1. i \in 1 .. 1 + Len(c) - 1 <=> i <= v.count
        BY <1>1
      <4>2. i - 1 + 1 = i /\ Zeroes(capacity)[i] = Zero
        BY <1>3
      <4> QED BY <4>1, <4>2
    <3> QED BY <3>2, <3>3
  <2>2. \A i \in 1 .. capacity : (IF i <= v.count THEN c[i] ELSE Zero) \in Elements
    <3> SUFFICES ASSUME NEW i \in 1 .. capacity, i <= v.count PROVE c[i] \in Elements
      BY DEF Elements
    <3>1. i \in 1 .. Len(c)
      BY <1>1
    <3> QED BY <3>1, <1>1
  <2> QED BY <2>1, <2>2
<1>6. w \in VectorType
  BY <1>1, <1>4, <1>5 DEF VectorType
<1>7. ContentsOf(w) = c \o z
  <2>1. /\ ContentsOf(w) \in Seq(Elements) /\ Len(ContentsOf(w)) = count
        /\ \A i \in 1 .. count : ContentsOf(w)[i] = w.cells[i]
    BY <1>4, <1>6, TypeFacts
  <2>2. c \o z \in Seq(Elements) /\ Len(c \o z) = count
    <3>1. c \o z \in Seq(Elements)
      BY <1>1, <1>2, OccursConcat
    <3>2. Len(c \o z) = Len(c) + Len(z)
      BY <1>1, <1>2
    <3> QED BY <1>1, <1>2, <3>1, <3>2
  <2>3. ASSUME NEW i \in 1 .. count PROVE (c \o z)[i] = w.cells[i]
    <3>1. i \in 1 .. capacity /\ i \in Nat
      OBVIOUS
    <3>2. CASE i <= v.count
      <4>1. (c \o z)[i] = c[i]
        BY <3>1, <3>2, <1>1, <1>2
      <4> QED BY <4>1, <3>1, <3>2, <1>5
    <3>3. CASE ~ (i <= v.count)
      <4>1. i - v.count \in 1 .. count - v.count
        BY <3>1, <3>3, <1>1
      <4>2. (c \o z)[i] = z[i - v.count]
        BY <3>1, <3>3, <4>1, <1>1, <1>2, SMTT(30)
      <4> QED BY <4>1, <4>2, <3>1, <3>3, <1>2, <1>5
    <3> QED BY <3>2, <3>3
  <2> HIDE DEF ContentsOf
  <2> QED BY <2>1, <2>2, <2>3, SameSequence
<1>8. count = v.count => ContentsOf(w) = c
  <2> SUFFICES ASSUME count = v.count PROVE c \o z = c
    BY <1>7
  <2>1. z = <<>>
    BY <1>1, <1>2
  <2> QED BY <2>1, <1>1
<1>9. ASSUME NEW x \in Values PROVE Weight(x, w) = Weight(x, v)
  <2>1. Occurs(x, c \o z) = Occurs(x, c) + Occurs(x, z)
    BY <1>1, <1>2, OccursConcat
  <2>2. Occurs(x, c) \in Nat /\ Occurs(x, z) = 0
    BY <1>1, <1>2, OccursNat
  <2>3. Occurs(x, ContentsOf(w)) = Occurs(x, ContentsOf(v))
    BY <2>1, <2>2, <1>7 DEF c
  <2> QED BY <2>3, <1>4 DEF Weight
<1> QED BY <1>4, <1>5, <1>6, <1>7, <1>8, <1>9 DEF c, w, z

(* A vector that another takes the place of, with the same elements. *)
LEMMA VectorFacts ==
  ASSUME VectorKept, NEW h \in Handles
  PROVE  /\ vec[h] \in VectorType /\ vec[h].count <= MaxCount
         /\ promised[h] = ContentsOf(vec[h]) /\ promised[h] \in Seq(Elements)
         /\ Len(promised[h]) = vec[h].count /\ vec[h].count \in Nat /\ vec[h].plain \in BOOLEAN
         /\ Len(vec[h].cells) \in Nat /\ vec[h].count <= Len(vec[h].cells)
         /\ owned \in [Values -> Int]
         /\ \A x \in Values : Weight(x, vec[h]) \in Nat /\ owned[x] \in Int
         /\ \A x \in Values :
              Weight(x, vec[h]) = IF vec[h].plain THEN 0 ELSE Occurs(x, promised[h])
<1>1. /\ vec \in [Handles -> VectorType] /\ vec[h].count <= MaxCount
      /\ owned \in [Values -> Int] /\ promised[h] \in Seq(Elements)
      /\ promised[h] = ContentsOf(vec[h])
  BY DEF VectorKept, VectorTypes, ContentsExact, Contents
<1>2. vec[h] \in VectorType
  BY <1>1
<1>3. \A x \in Values : Weight(x, vec[h]) \in Nat
  BY DiscardedCounts
<1>4. \A x \in Values :
        Weight(x, vec[h]) = IF vec[h].plain THEN 0 ELSE Occurs(x, promised[h])
  BY <1>1 DEF Weight
<1>5. \A x \in Values : owned[x] \in Int
  BY <1>1
<1> HIDE DEF ContentsOf
<1> QED BY <1>1, <1>2, <1>3, <1>4, <1>5, TypeFacts

LEMMA CopyKeeps ==
  ASSUME VectorKept, NEW dest \in Handles, NEW source \in Handles, CopyTo(dest, source)
  PROVE  VectorKept'
<1>1. CASE Destroy(dest)
  BY <1>1, DestroyKeeps
<1>2. CASE /\ vec' = [vec EXCEPT ![dest] =
                  Into(vec[source], Len(vec[source].cells), vec[source].count)]
           /\ owned' = Copied(Discarded(dest), vec[source].plain, Contents(source))
           /\ promised' = [promised EXCEPT ![dest] = promised[source]]
  <2> DEFINE v == vec[source]
             w == Into(v, Len(v.cells), v.count)
  <2>1. /\ v \in VectorType /\ v.count <= MaxCount /\ promised[source] = ContentsOf(v)
        /\ promised[source] \in Seq(Elements) /\ v.count \in Nat /\ v.plain \in BOOLEAN
        /\ Len(v.cells) \in Nat /\ v.count <= Len(v.cells)
        /\ \A x \in Values : Weight(x, v) = IF v.plain THEN 0 ELSE Occurs(x, promised[source])
    BY VectorFacts
  <2>2. /\ vec' = [vec EXCEPT ![dest] = w]
        /\ owned' = Copied(Discarded(dest), v.plain, promised[source])
    BY <1>2, <2>1 DEF Contents
  <2> HIDE DEF v
  <2>3. /\ w \in VectorType /\ w.count = v.count /\ ContentsOf(w) = ContentsOf(v)
        /\ \A x \in Values : Weight(x, w) = Weight(x, v)
    BY <2>1, IntoFacts
  <2> HIDE DEF w
  <2>4. /\ Discarded(dest) \in [Values -> Int]
        /\ \A x \in Values : Discarded(dest)[x] = owned[x] - Weight(x, vec[dest])
    BY DiscardedCounts
  <2>5. /\ owned' \in [Values -> Int]
        /\ \A x \in Values : owned'[x] = Discarded(dest)[x]
                                           + (IF v.plain THEN 0 ELSE Occurs(x, promised[source]))
    BY <2>1, <2>2, <2>4, CallsCounted
  <2>6. \A x \in Values : owned'[x] = owned[x] - Weight(x, vec[dest]) + Weight(x, w)
    BY <2>1, <2>3, <2>4, <2>5
  <2>7. promised[source] = ContentsOf(w) /\ w.count <= MaxCount
    BY <2>1, <2>3
  <2> QED BY <1>2, <2>2, <2>3, <2>5, <2>6, <2>7, OneChanges
<1> QED BY <1>1, <1>2 DEF CopyTo

LEMMA MoveKeeps ==
  ASSUME VectorKept, NEW dest \in Handles, NEW source \in Handles, MoveTo(dest, source)
  PROVE  VectorKept'
<1>1. CASE Destroy(dest)
  BY <1>1, DestroyKeeps
<1>2. CASE /\ dest # source
           /\ vec' = [vec EXCEPT ![dest] = vec[source], ![source] = NoVector]
           /\ owned' = Discarded(dest)
           /\ promised' = [promised EXCEPT ![dest] = promised[source], ![source] = <<>>]
  <2> DEFINE v == vec[source]
             f == [vec EXCEPT ![source] = NoVector]
             e == vec
             g == vec'
  <2>1. /\ vec \in [Handles -> VectorType] /\ \A k \in Handles : vec[k].count <= MaxCount
        /\ promised \in [Handles -> Seq(Elements)] /\ owned \in [Values -> Int]
        /\ \A k \in Handles : ContentsOf(vec[k]) = promised[k]
        /\ \A x \in Values : owned[x] = Cardinality(Copies(vec, x))
    BY DEF VectorKept, VectorTypes, ContentsExact, CopiesCounted, Contents
  <2>2. /\ NoVector \in VectorType /\ NoVector.count = 0 /\ ContentsOf(NoVector) = <<>>
        /\ \A x : Weight(x, NoVector) = 0
    BY 0 \in Nat, TRUE \in BOOLEAN, NothingHeld
  <2>3. v \in VectorType /\ v.count <= MaxCount /\ NoVector.count <= MaxCount
    BY <2>1, <2>2, VectorAssumption
  <2> HIDE DEF NoVector
  <2>4. /\ f \in [Handles -> VectorType] /\ f[source] = NoVector /\ f[dest] = vec[dest]
        /\ \A k \in Handles : k # source => f[k] = vec[k]
    BY <1>2, <2>1, <2>2
  <2>5. /\ vec' \in [Handles -> VectorType] /\ vec'[dest] = v /\ vec'[source] = NoVector
        /\ \A k \in Handles : k # dest /\ k # source => vec'[k] = vec[k]
    BY <1>2, <2>1, <2>2
  <2>6. \A k \in Handles : k # dest => vec'[k] = f[k]
    BY <2>4, <2>5
  <2>7. /\ promised' \in [Handles -> Seq(Elements)] /\ promised'[dest] = promised[source]
        /\ promised'[source] = <<>>
        /\ \A k \in Handles : k # dest /\ k # source => promised'[k] = promised[k]
    <3>1. <<>> \in Seq(Elements) /\ promised[source] \in Seq(Elements)
      BY <2>1
    <3>2. promised' = [promised EXCEPT ![dest] = promised[source], ![source] = <<>>]
      BY <1>2
    <3>3. dest # source /\ promised \in [Handles -> Seq(Elements)]
      BY <1>2, <2>1
    <3> QED BY <3>1, <3>2, <3>3
  <2>8. ASSUME NEW x \in Values PROVE owned'[x] = Cardinality(Copies(vec', x))
    <3>1. e \in [Handles -> VectorType] /\ e[source] = v /\ e[dest] = vec[dest]
      BY <2>1
    <3>2. e[source].count <= MaxCount /\ f[dest].count <= MaxCount
      BY <2>1, <2>4
    <3>3. /\ g \in [Handles -> VectorType] /\ g[dest] = v
          /\ \A k \in Handles : k # dest => g[k] = f[k]
      BY <2>5, <2>6
    <3>4. \A k \in Handles : k # source => f[k] = e[k]
      BY <2>4
    <3> HIDE DEF e, f, g, v
    <3>5. /\ Cardinality(Copies(e, x)) \in Nat
          /\ Cardinality(Copies(f, x))
               = Cardinality(Copies(e, x)) - Weight(x, e[source]) + Weight(x, NoVector)
          /\ Weight(x, e[source]) \in Nat
      BY <2>2, <2>3, <2>4, <3>1, <3>2, <3>4, CopiesChange
    <3>6. /\ Cardinality(Copies(g, x))
               = Cardinality(Copies(f, x)) - Weight(x, f[dest]) + Weight(x, v)
          /\ Weight(x, f[dest]) \in Nat
      BY <2>3, <2>4, <3>2, <3>3, CopiesChange
    <3>7. /\ owned'[x] = owned[x] - Weight(x, vec[dest]) /\ owned[x] \in Int
      BY <1>2, DiscardedCounts
    <3>8. /\ owned[x] = Cardinality(Copies(e, x)) /\ Weight(x, NoVector) = 0
          /\ f[dest] = vec[dest] /\ e[source] = v
      BY <2>1, <2>2, <2>4, <3>1 DEF e
    <3>9. owned'[x] = Cardinality(Copies(g, x))
      BY <3>5, <3>6, <3>7, <3>8
    <3> QED BY <3>9 DEF g
  <2>9. \A k \in Handles : ContentsOf(vec'[k]) = promised'[k]
    BY <2>1, <2>2, <2>5, <2>7
  <2>10. \A k \in Handles : vec'[k].count <= MaxCount
    <3> SUFFICES ASSUME NEW k \in Handles PROVE vec'[k].count <= MaxCount
      OBVIOUS
    <3> QED BY <2>1, <2>3, <2>5
  <2>11. owned' \in [Values -> Int]
    BY <1>2, DiscardedCounts
  <2>12. VectorTypes'
    BY <2>5, <2>7, <2>10, <2>11 DEF VectorTypes
  <2> QED BY <2>8, <2>9, <2>12 DEF VectorKept, ContentsExact, CopiesCounted, Contents
<1> QED BY <1>1, <1>2 DEF MoveTo

(* What memmove and memcpy leave of the cells. *)
LEMMA ShiftedFacts ==
  ASSUME NEW s \in Seq(Elements), NEW from \in Nat, NEW to \in Nat, NEW n \in Nat,
         from >= 1, to >= 1, from + n - 1 <= Len(s)
  PROVE  /\ Shifted(s, from, to, n) \in Seq(Elements) /\ Len(Shifted(s, from, to, n)) = Len(s)
         /\ \A i \in 1 .. Len(s) :
              Shifted(s, from, to, n)[i] = IF to <= i /\ i < to + n THEN s[i - to + from] ELSE s[i]
<1>1. DOMAIN s = 1 .. Len(s) /\ Len(s) \in Nat
  OBVIOUS
<1>2. Shifted(s, from, to, n)
        = [i \in 1 .. Len(s) |-> IF i \in to .. to + n - 1 THEN s[i - to + from] ELSE s[i]]
  BY <1>1 DEF Shifted
<1>3. ASSUME NEW i \in 1 .. Len(s)
      PROVE  /\ i \in to .. to + n - 1 <=> (to <= i /\ i < to + n)
             /\ i \in to .. to + n - 1 => i - to + from \in 1 .. Len(s)
  BY <1>1
<1>4. \A i \in 1 .. Len(s) : s[i] \in Elements
  OBVIOUS
<1> QED BY <1>1, <1>2, <1>3, <1>4

LEMMA FilledFacts ==
  ASSUME NEW s \in Seq(Elements), NEW at \in Nat, at >= 1, NEW t \in Seq(Elements)
  PROVE  /\ Filled(s, at, t) \in Seq(Elements) /\ Len(Filled(s, at, t)) = Len(s)
         /\ \A i \in 1 .. Len(s) :
              Filled(s, at, t)[i] = IF at <= i /\ i < at + Len(t) THEN t[i - at + 1] ELSE s[i]
<1>1. DOMAIN s = 1 .. Len(s) /\ Len(s) \in Nat /\ Len(t) \in Nat
  OBVIOUS
<1>2. Filled(s, at, t)
        = [i \in 1 .. Len(s) |-> IF i \in at .. at + Len(t) - 1 THEN t[i - at + 1] ELSE s[i]]
  BY <1>1 DEF Filled
<1>3. ASSUME NEW i \in 1 .. Len(s)
      PROVE  /\ i \in at .. at + Len(t) - 1 <=> (at <= i /\ i < at + Len(t))
             /\ i \in at .. at + Len(t) - 1 => i - at + 1 \in 1 .. Len(t)
  BY <1>1
<1>4. /\ \A i \in 1 .. Len(s) : s[i] \in Elements
      /\ \A i \in 1 .. Len(t) : t[i] \in Elements
  OBVIOUS
<1> QED BY <1>1, <1>2, <1>3, <1>4

LEMMA Piece ==
  ASSUME NEW S, NEW s \in Seq(S), NEW a \in Nat, NEW b \in Nat, a <= b, b <= Len(s)
  PROVE  /\ SubSeq(s, a + 1, b) \in Seq(S) /\ Len(SubSeq(s, a + 1, b)) = b - a
         /\ \A i \in 1 .. b - a : SubSeq(s, a + 1, b)[i] = s[a + i]
OBVIOUS

(* A full buffer is replaced, with the same elements. *)
LEMMA RoomFacts ==
  ASSUME NEW v \in VectorType, NEW n \in Nat
  PROVE  /\ Room(v, n) \in VectorType /\ Room(v, n).count = v.count
         /\ Room(v, n).plain = v.plain /\ ContentsOf(Room(v, n)) = ContentsOf(v)
<1>1. v.count \in Nat /\ n + v.count \in Nat /\ v.count <= n + v.count
  BY TypeFacts
<1>2. Capacity(n + v.count) \in Nat /\ n + v.count <= Capacity(n + v.count)
  BY <1>1, CapacityEnough
<1>3. v.count <= Capacity(n + v.count)
  BY <1>1, <1>2
<1>4. /\ Expand(v, n, v.count) \in VectorType /\ Expand(v, n, v.count).count = v.count
      /\ Expand(v, n, v.count).plain = v.plain
      /\ ContentsOf(Expand(v, n, v.count)) = ContentsOf(v)
  <2> HIDE DEF ContentsOf, Into, Capacity
  <2> QED BY <1>1, <1>2, <1>3, IntoFacts, SMTT(30) DEF Expand
<1> HIDE DEF Expand, ContentsOf
<1> QED BY <1>4 DEF Room

LEMMA InsertKeeps ==
  ASSUME VectorKept, NEW h \in Handles, NEW index \in Nat, NEW s \in Seq(Values),
         Insert(h, index, s)
  PROVE  VectorKept'
<1> DEFINE c == promised[h]
           v == Room(vec[h], Len(s))
           n == v.count
           shifted == Shifted(v.cells, index + 1, index + 1 + Len(s), n - index)
           filled == Filled(shifted, index + 1, s)
           w == [cells |-> filled, count |-> n + Len(s), plain |-> v.plain]
           a == SubSeq(c, 1, index)
           b == SubSeq(c, index + 1, Len(c))
<1>1. Len(s) \in Nat /\ s \in Seq(Elements) /\ \A i \in 1 .. Len(s) : s[i] \in Values
  BY DEF Elements
<1>2. /\ v \in VectorType /\ n = vec[h].count /\ v.plain = vec[h].plain
      /\ ContentsOf(v) = c
  BY <1>1, VectorFacts, RoomFacts
<1>3. /\ index <= n /\ n + Len(s) <= MaxCount /\ n + Len(s) <= Len(v.cells)
      /\ vec' = [vec EXCEPT ![h] = w] /\ owned' = Copied(owned, v.plain, s)
      /\ promised' = [promised EXCEPT ![h] = a \o s \o b]
  BY DEF Insert
<1> HIDE DEF v, c
<1>4. /\ v.cells \in Seq(Elements) /\ n \in Nat /\ v.plain \in BOOLEAN /\ Len(v.cells) \in Nat
      /\ c \in Seq(Elements) /\ Len(c) = n /\ \A i \in 1 .. n : c[i] = v.cells[i]
  BY <1>2, TypeFacts
<1> HIDE DEF n
<1>5. /\ a \in Seq(Elements) /\ Len(a) = index /\ \A i \in 1 .. index : a[i] = c[i]
      /\ b \in Seq(Elements) /\ Len(b) = n - index
      /\ \A i \in 1 .. n - index : b[i] = c[i + index]
      /\ c = a \o b
  <2>1. index \in 0 .. Len(c)
    BY <1>3, <1>4
  <2> QED BY <1>4, <2>1, CutInTwo
<1> HIDE DEF a, b
<1>6. /\ shifted \in Seq(Elements) /\ Len(shifted) = Len(v.cells)
      /\ \A i \in 1 .. Len(v.cells) : shifted[i] =
           IF index + 1 + Len(s) <= i /\ i < index + 1 + Len(s) + (n - index)
           THEN v.cells[i - (index + 1 + Len(s)) + (index + 1)] ELSE v.cells[i]
  <2> DEFINE from == index + 1
             to == index + 1 + Len(s)
             m == n - index
  <2>1. /\ from \in Nat /\ to \in Nat /\ m \in Nat /\ from >= 1 /\ to >= 1
        /\ from + m - 1 <= Len(v.cells)
    BY <1>1, <1>3, <1>4, SMTT(30)
  <2>2. shifted = Shifted(v.cells, from, to, m)
    BY DEF shifted
  <2> HIDE DEF from, to, m
  <2>3. /\ shifted \in Seq(Elements) /\ Len(shifted) = Len(v.cells)
        /\ \A i \in 1 .. Len(v.cells) :
             shifted[i] = IF to <= i /\ i < to + m THEN v.cells[i - to + from] ELSE v.cells[i]
    BY <1>4, <2>1, <2>2, ShiftedFacts, SMTT(30)
  <2> QED BY <2>3 DEF from, to, m
<1> HIDE DEF shifted
<1>7. /\ filled \in Seq(Elements) /\ Len(filled) = Len(v.cells)
      /\ \A i \in 1 .. Len(v.cells) : filled[i] =
           IF index + 1 <= i /\ i < index + 1 + Len(s) THEN s[i - (index + 1) + 1] ELSE shifted[i]
  <2> DEFINE at == index + 1
  <2>1. at \in Nat /\ at >= 1
    OBVIOUS
  <2>2. filled = Filled(shifted, at, s)
    BY DEF filled
  <2> HIDE DEF at
  <2>3. /\ filled \in Seq(Elements) /\ Len(filled) = Len(shifted)
        /\ \A i \in 1 .. Len(shifted) :
             filled[i] = IF at <= i /\ i < at + Len(s) THEN s[i - at + 1] ELSE shifted[i]
    BY <1>1, <1>6, <2>1, <2>2, FilledFacts
  <2> QED BY <1>6, <2>3 DEF at
<1> HIDE DEF filled
<1>8. /\ \A i \in 1 .. index : filled[i] = c[i]
      /\ \A i \in index + 1 .. index + Len(s) : filled[i] = s[i - index]
      /\ \A i \in index + Len(s) + 1 .. n + Len(s) : filled[i] = c[i - Len(s)]
  <2>1. ASSUME NEW i \in 1 .. index PROVE filled[i] = c[i]
    <3>1. /\ i \in 1 .. Len(v.cells) /\ ~ (index + 1 <= i) /\ ~ (index + 1 + Len(s) <= i)
          /\ i \in 1 .. n
      BY <1>1, <1>3, <1>4
    <3> QED BY <3>1, <1>4, <1>6, <1>7
  <2>2. ASSUME NEW i \in index + 1 .. index + Len(s) PROVE filled[i] = s[i - index]
    <3>1. /\ i \in 1 .. Len(v.cells) /\ index + 1 <= i /\ i < index + 1 + Len(s)
          /\ i - (index + 1) + 1 = i - index
      BY <1>1, <1>3, <1>4, SMTT(30)
    <3> QED BY <3>1, <1>7
  <2>3. ASSUME NEW i \in index + Len(s) + 1 .. n + Len(s) PROVE filled[i] = c[i - Len(s)]
    <3>1. /\ i \in 1 .. Len(v.cells) /\ ~ (i < index + 1 + Len(s))
          /\ index + 1 + Len(s) <= i /\ i < index + 1 + Len(s) + (n - index)
          /\ i - (index + 1 + Len(s)) + (index + 1) = i - Len(s) /\ i - Len(s) \in 1 .. n
      BY <1>1, <1>3, <1>4
    <3> QED BY <3>1, <1>4, <1>6, <1>7
  <2> QED BY <2>1, <2>2, <2>3
<1>9. /\ w \in VectorType /\ w.count = n + Len(s) /\ w.plain = v.plain /\ w.cells = filled
  <2>1. n + Len(s) \in Nat /\ n + Len(s) <= Len(filled)
    BY <1>1, <1>3, <1>4, <1>7
  <2> QED BY <1>4, <1>7, <2>1 DEF VectorType
<1> HIDE DEF w
<1> DEFINE q == a \o s \o b
<1>10. /\ a \o s \in Seq(Elements) /\ q \in Seq(Elements) /\ Len(q) = n + Len(s)
       /\ Len(a \o s) = index + Len(s)
  <2> DEFINE d == a \o s
  <2>1. d \in Seq(Elements) /\ Len(d) = index + Len(s)
    <3>1. Len(d) = Len(a) + Len(s) /\ d \in Seq(Elements)
      BY <1>1, <1>5, LenConcat
    <3> QED BY <3>1, <1>5
  <2> HIDE DEF d
  <2>2. Len(d \o b) = Len(d) + Len(b) /\ d \o b \in Seq(Elements)
    BY <1>5, <2>1, LenConcat
  <2>3. Len(d \o b) = n + Len(s)
    BY <1>1, <1>3, <1>4, <1>5, <2>1, <2>2
  <2> QED BY <2>1, <2>2, <2>3 DEF d
<1>11. ASSUME NEW i \in 1 .. n + Len(s) PROVE q[i] = filled[i]
  <2> DEFINE d == a \o s
  <2>1. /\ d \in Seq(Elements) /\ Len(d) = index + Len(s) /\ i \in Nat /\ i >= 1
    BY <1>1, <1>4, <1>10
  <2>2. CASE i <= index
    <3>1. i \in 1 .. Len(a) /\ i \in 1 .. Len(d) /\ i \in 1 .. index
      BY <1>1, <1>5, <2>1, <2>2
    <3>2. d[i] = a[i]
      BY <1>1, <1>5, <3>1
    <3> HIDE DEF d
    <3>3. (d \o b)[i] = d[i]
      BY <1>5, <2>1, <3>1
    <3> QED BY <1>5, <1>8, <3>1, <3>2, <3>3 DEF d
  <2>3. CASE index < i /\ i <= index + Len(s)
    <3>1. i \in 1 .. Len(d) /\ i - index \in 1 .. Len(s) /\ i \in index + 1 .. index + Len(s)
      BY <1>1, <2>1, <2>3
    <3>2. d[i] = s[i - index]
      BY <1>1, <1>5, <3>1
    <3> HIDE DEF d
    <3>3. (d \o b)[i] = d[i]
      BY <1>5, <2>1, <3>1
    <3> QED BY <1>8, <3>1, <3>2, <3>3 DEF d
  <2>4. CASE index + Len(s) < i
    <3>1. /\ i - (index + Len(s)) \in 1 .. Len(b)
          /\ i \in index + Len(s) + 1 .. n + Len(s)
          /\ i - (index + Len(s)) + index = i - Len(s)
      BY <1>1, <1>3, <1>4, <1>5, <2>1, <2>4
    <3> HIDE DEF d
    <3>2. (d \o b)[i] = b[i - (index + Len(s))]
      <4> DEFINE j == i - (index + Len(s))
      <4>1. Len(d) + j = i /\ j \in 1 .. Len(b) /\ d \in Seq(Elements) /\ b \in Seq(Elements)
        BY <1>1, <1>5, <2>1, <3>1
      <4> HIDE DEF j, b
      <4>2. (d \o b)[Len(d) + j] = b[j]
        BY <4>1, SecondPart
      <4>3. (d \o b)[i] = b[j]
        BY <4>1, <4>2
      <4> QED BY <4>3 DEF j
    <3>3. b[i - (index + Len(s))] = c[i - Len(s)]
      BY <1>5, <3>1
    <3> QED BY <1>8, <3>1, <3>2, <3>3 DEF d
  <2>5. i <= index \/ (index < i /\ i <= index + Len(s)) \/ index + Len(s) < i
    BY <1>1, <2>1
  <2> HIDE DEF q
  <2> QED BY <2>2, <2>3, <2>4, <2>5
<1>12. q = ContentsOf(w)
  <2>1. /\ ContentsOf(w) \in Seq(Elements) /\ Len(ContentsOf(w)) = n + Len(s)
        /\ \A i \in 1 .. n + Len(s) : ContentsOf(w)[i] = filled[i]
    BY <1>9, TypeFacts
  <2> HIDE DEF q, ContentsOf
  <2> QED BY <1>10, <1>11, <2>1, SameSequence
<1>13. ASSUME NEW x \in Values
       PROVE  owned'[x] = owned[x] - Weight(x, vec[h]) + Weight(x, w)
  <2>1. Occurs(x, c) = Occurs(x, a) + Occurs(x, b)
    BY <1>5, OccursConcat
  <2>2. Occurs(x, a \o s) = Occurs(x, a) + Occurs(x, s)
    BY <1>1, <1>5, OccursConcat
  <2>3. Occurs(x, q) = Occurs(x, a \o s) + Occurs(x, b)
    <3> DEFINE d == a \o s
    <3>1. d \in Seq(Elements) /\ b \in Seq(Elements) /\ q = d \o b
      BY <1>5, <1>10
    <3> HIDE DEF d, q
    <3>2. Occurs(x, d \o b) = Occurs(x, d) + Occurs(x, b)
      BY <3>1, OccursConcat
    <3> QED BY <3>1, <3>2 DEF d
  <2>4. Occurs(x, a) \in Nat /\ Occurs(x, b) \in Nat /\ Occurs(x, s) \in Nat
    BY <1>1, <1>5, OccursNat
  <2>5. Occurs(x, q) = Occurs(x, c) + Occurs(x, s)
    BY <2>1, <2>2, <2>3, <2>4
  <2>6. /\ owned \in [Values -> Int] /\ owned[x] \in Int
        /\ Weight(x, vec[h]) = IF v.plain THEN 0 ELSE Occurs(x, c)
    BY <1>2, VectorFacts DEF c
  <2>7. Weight(x, w) = IF v.plain THEN 0 ELSE Occurs(x, q)
    BY <1>9, <1>12 DEF Weight
  <2>8. owned'[x] = owned[x] + (IF v.plain THEN 0 ELSE Occurs(x, s))
    <3>1. v.plain \in BOOLEAN /\ s \in Seq(Elements) /\ owned' = Copied(owned, v.plain, s)
      BY <1>1, <1>3, <1>4
    <3>2. Copied(owned, v.plain, s)[x] = owned[x] + (IF v.plain THEN 0 ELSE Occurs(x, s))
      BY <2>6, <3>1, CallsCounted
    <3> QED BY <3>1, <3>2
  <2>9. Occurs(x, c) \in Nat
    BY <2>1, <2>4
  <2> HIDE DEF q
  <2> QED BY <2>4, <2>5, <2>6, <2>7, <2>8, <2>9
<1>14. owned' \in [Values -> Int]
  BY <1>1, <1>3, <1>4, VectorFacts, CallsCounted
<1>15. w.count <= MaxCount
  BY <1>3, <1>9
<1>16. vec' = [vec EXCEPT ![h] = w] /\ promised' = [promised EXCEPT ![h] = q]
  BY <1>3 DEF w
<1> HIDE DEF q
<1> QED BY <1>9, <1>12, <1>13, <1>14, <1>15, <1>16, OneChanges

LEMMA EraseKeeps ==
  ASSUME VectorKept, NEW h \in Handles, NEW index \in Nat, NEW n \in Nat, Erase(h, index, n)
  PROVE  VectorKept'
<1> DEFINE c == promised[h]
           v == vec[h]
           zero == IF v.plain THEN Filled(v.cells, index + 1, Zeroes(n)) ELSE v.cells
           from == index + n + 1
           to == index + 1
           m == v.count - (index + n)
           left == Shifted(zero, from, to, m)
           w == [cells |-> left, count |-> v.count - n, plain |-> v.plain]
           a == SubSeq(c, 1, index)
           r == SubSeq(v.cells, index + 1, index + n)
           b == SubSeq(c, index + n + 1, Len(c))
           p == SubSeq(c, 1, index + n)
<1>1. /\ v \in VectorType /\ v.count <= MaxCount /\ c = ContentsOf(v)
      /\ \A x \in Values : Weight(x, v) = IF v.plain THEN 0 ELSE Occurs(x, c)
      /\ owned \in [Values -> Int]
  BY VectorFacts
<1>2. /\ n > 0 /\ index + n <= v.count /\ vec' = [vec EXCEPT ![h] = w]
      /\ owned' = Finalized(owned, v.plain, r)
      /\ promised' = [promised EXCEPT ![h] = a \o b]
  BY DEF Erase
<1> HIDE DEF c, v
<1>3. /\ v.cells \in Seq(Elements) /\ v.count \in Nat /\ v.plain \in BOOLEAN
      /\ Len(v.cells) \in Nat /\ v.count <= Len(v.cells)
      /\ c \in Seq(Elements) /\ Len(c) = v.count /\ \A i \in 1 .. v.count : c[i] = v.cells[i]
  BY <1>1, TypeFacts
<1>4. /\ p \in Seq(Elements) /\ Len(p) = index + n /\ \A i \in 1 .. index + n : p[i] = c[i]
      /\ b \in Seq(Elements) /\ Len(b) = v.count - (index + n)
      /\ \A i \in 1 .. v.count - (index + n) : b[i] = c[i + (index + n)]
      /\ c = p \o b
  <2> DEFINE k == index + n
  <2>1. k \in 0 .. Len(c)
    BY <1>2, <1>3
  <2>2. p = SubSeq(c, 1, k) /\ b = SubSeq(c, k + 1, Len(c))
    OBVIOUS
  <2> HIDE DEF k, p, b
  <2>3. /\ p \in Seq(Elements) /\ Len(p) = k /\ \A i \in 1 .. k : p[i] = c[i]
        /\ b \in Seq(Elements) /\ Len(b) = Len(c) - k
        /\ \A i \in 1 .. Len(c) - k : b[i] = c[i + k]
        /\ c = p \o b
    <3>1. /\ SubSeq(c, 1, k) \in Seq(Elements) /\ Len(SubSeq(c, 1, k)) = k
          /\ \A i \in 1 .. k : SubSeq(c, 1, k)[i] = c[i]
          /\ SubSeq(c, k + 1, Len(c)) \in Seq(Elements)
          /\ Len(SubSeq(c, k + 1, Len(c))) = Len(c) - k
          /\ \A i \in 1 .. Len(c) - k : SubSeq(c, k + 1, Len(c))[i] = c[i + k]
          /\ c = SubSeq(c, 1, k) \o SubSeq(c, k + 1, Len(c))
      <4>1. c \in Seq(Elements)
        BY <1>3
      <4> QED BY <2>1, <4>1, CutInTwo, ZenonT(60)
    <3> QED BY <2>2, <3>1, Zenon
  <2> QED BY <1>3, <2>3 DEF k
<1> HIDE DEF p, b
<1>5. /\ a \in Seq(Elements) /\ Len(a) = index /\ \A i \in 1 .. index : a[i] = c[i]
  <2>1. index \in 0 .. Len(c)
    BY <1>2, <1>3
  <2> QED BY <1>3, <2>1, CutInTwo
<1>6. r \in Seq(Elements) /\ Len(r) = n /\ \A i \in 1 .. n : r[i] = v.cells[index + i]
  <2> DEFINE k == index + n
  <2>1. k \in Nat /\ index <= k /\ k <= Len(v.cells) /\ k - index = n
    BY <1>2, <1>3
  <2>2. r = SubSeq(v.cells, index + 1, k)
    OBVIOUS
  <2> HIDE DEF k, r
  <2>3. /\ SubSeq(v.cells, index + 1, k) \in Seq(Elements) /\ Len(SubSeq(v.cells, index + 1, k)) = k - index
        /\ \A i \in 1 .. k - index : SubSeq(v.cells, index + 1, k)[i] = v.cells[index + i]
    <3>1. v.cells \in Seq(Elements) /\ index \in Nat /\ k \in Nat /\ index <= k /\ k <= Len(v.cells)
      BY <1>3, <2>1
    <3> QED BY ONLY <3>1, Piece
  <2> QED BY <2>1, <2>2, <2>3
<1> HIDE DEF a, r
<1>7. p = a \o r
  <2>1. a \o r \in Seq(Elements) /\ Len(a \o r) = index + n
    BY <1>5, <1>6, LenConcat
  <2>2. ASSUME NEW i \in 1 .. index + n PROVE (a \o r)[i] = p[i]
    <3>1. CASE i <= index
      <4>1. i \in 1 .. Len(a) /\ (a \o r)[i] = a[i]
        BY <1>5, <1>6, <3>1
      <4> QED BY <1>4, <1>5, <4>1
    <3>2. CASE ~ (i <= index)
      <4>1. i - index \in 1 .. n /\ i \in 1 .. v.count /\ index + (i - index) = i
        BY <1>2, <1>3, <3>2
      <4>2. (a \o r)[i] = r[i - index]
        BY <1>5, <1>6, <3>2, <4>1
      <4>3. r[i - index] = v.cells[i]
        BY <1>6, <4>1
      <4> QED BY <1>3, <1>4, <4>1, <4>2, <4>3
    <3> QED BY <3>1, <3>2
  <2> QED BY <1>4, <2>1, <2>2, SameSequence
<1>8. /\ zero \in Seq(Elements) /\ Len(zero) = Len(v.cells)
      /\ \A i \in 1 .. Len(v.cells) : i <= index \/ i > index + n => zero[i] = v.cells[i]
  <2>1. CASE v.plain
    <3> DEFINE at == index + 1
    <3>1. at \in Nat /\ at >= 1
      OBVIOUS
    <3>2. zero = Filled(v.cells, at, Zeroes(n))
      BY <2>1
    <3>3. Zeroes(n) \in Seq(Elements) /\ Len(Zeroes(n)) = n
      BY ZeroesFacts
    <3> HIDE DEF at, zero
    <3>4. /\ zero \in Seq(Elements) /\ Len(zero) = Len(v.cells)
          /\ \A i \in 1 .. Len(v.cells) :
               zero[i] = IF at <= i /\ i < at + Len(Zeroes(n))
                         THEN Zeroes(n)[i - at + 1] ELSE v.cells[i]
      BY <1>3, <3>1, <3>2, <3>3, FilledFacts
    <3>5. ASSUME NEW i \in 1 .. Len(v.cells), i <= index \/ i > index + n
          PROVE  ~ (at <= i /\ i < at + Len(Zeroes(n)))
      BY <1>3, <3>3, <3>5 DEF at
    <3> QED BY <3>4, <3>5
  <2>2. CASE ~ v.plain
    BY <1>3, <2>2
  <2> QED BY <1>3, <2>1, <2>2
<1> HIDE DEF zero
<1>9. /\ left \in Seq(Elements) /\ Len(left) = Len(v.cells)
      /\ \A i \in 1 .. Len(v.cells) :
           left[i] = IF to <= i /\ i < to + m THEN zero[i - to + from] ELSE zero[i]
  <2>1. /\ from \in Nat /\ to \in Nat /\ m \in Nat /\ from >= 1 /\ to >= 1
        /\ from + m - 1 <= Len(zero)
    BY <1>2, <1>3, <1>8
  <2> HIDE DEF from, to, m
  <2> QED BY <1>8, <2>1, ShiftedFacts
<1> HIDE DEF left
<1>10. /\ \A i \in 1 .. index : left[i] = c[i]
       /\ \A i \in index + 1 .. v.count - n : left[i] = c[i + n]
  <2>1. ASSUME NEW i \in 1 .. index PROVE left[i] = c[i]
    <3>1. /\ i \in 1 .. Len(v.cells) /\ ~ (to <= i) /\ i \in 1 .. v.count /\ i <= index
      BY <1>2, <1>3
    <3> QED BY <3>1, <1>3, <1>8, <1>9
  <2>2. ASSUME NEW i \in index + 1 .. v.count - n PROVE left[i] = c[i + n]
    <3>1. /\ i \in 1 .. Len(v.cells) /\ to <= i /\ i < to + m /\ i - to + from = i + n
          /\ i + n \in 1 .. v.count /\ i + n \in 1 .. Len(v.cells) /\ i + n > index + n
      BY <1>2, <1>3
    <3>2. left[i] = zero[i + n]
      BY <3>1, <1>9
    <3> QED BY <3>1, <3>2, <1>3, <1>8
  <2> QED BY <2>1, <2>2
<1>11. w \in VectorType /\ w.count = v.count - n /\ w.plain = v.plain /\ w.cells = left
  <2>1. v.count - n \in Nat /\ v.count - n <= Len(left)
    BY <1>2, <1>3, <1>9
  <2> QED BY <1>3, <1>9, <2>1 DEF VectorType
<1> HIDE DEF w
<1> DEFINE q == a \o b
<1>12. q \in Seq(Elements) /\ Len(q) = v.count - n
  <2>1. q \in Seq(Elements) /\ Len(q) = Len(a) + Len(b)
    BY <1>4, <1>5, LenConcat
  <2> HIDE DEF q
  <2> QED BY <1>2, <1>3, <1>4, <1>5, <2>1
<1>13. ASSUME NEW i \in 1 .. v.count - n PROVE q[i] = left[i]
  <2>1. CASE i <= index
    <3>1. i \in 1 .. Len(a) /\ i \in 1 .. index
      BY <1>3, <1>5, <2>1
    <3>2. q[i] = a[i]
      BY <1>4, <1>5, <3>1
    <3> QED BY <1>5, <1>10, <3>1, <3>2
  <2>2. CASE ~ (i <= index)
    <3>1. /\ i - index \in 1 .. Len(b) /\ i \in index + 1 .. v.count - n
          /\ i - index + (index + n) = i + n
      BY <1>2, <1>3, <1>4, <2>2
    <3>2. q[i] = b[i - index]
      <4>1. a \in Seq(Elements) /\ b \in Seq(Elements) /\ i - index \in 1 .. Len(b)
        BY <1>4, <1>5, <3>1
      <4>2. (a \o b)[Len(a) + (i - index)] = b[i - index]
        BY <4>1, SecondPart
      <4>3. Len(a) + (i - index) = i
        BY <1>3, <1>5
      <4> QED BY <4>2, <4>3
    <3>3. b[i - index] = c[i + n]
      BY <1>4, <3>1
    <3> QED BY <1>10, <3>1, <3>2, <3>3
  <2> HIDE DEF q
  <2> QED BY <2>1, <2>2
<1>14. q = ContentsOf(w)
  <2>1. /\ ContentsOf(w) \in Seq(Elements) /\ Len(ContentsOf(w)) = v.count - n
        /\ \A i \in 1 .. v.count - n : ContentsOf(w)[i] = left[i]
    BY <1>11, TypeFacts
  <2> HIDE DEF q, ContentsOf
  <2> QED BY <1>12, <1>13, <2>1, SameSequence
<1>15. /\ owned' \in [Values -> Int]
       /\ \A x \in Values : owned'[x] = owned[x] - Weight(x, vec[h]) + Weight(x, w)
  <2>1. /\ owned' \in [Values -> Int]
        /\ \A x \in Values :
             /\ owned[x] \in Int
             /\ owned'[x] = owned[x] - (IF v.plain THEN 0 ELSE Occurs(x, r))
    <3>1. v.plain \in BOOLEAN /\ r \in Seq(Elements) /\ owned \in [Values -> Int]
      BY <1>1, <1>3, <1>6
    <3>2. /\ Finalized(owned, v.plain, r) \in [Values -> Int]
          /\ \A x \in Values : Finalized(owned, v.plain, r)[x]
               = owned[x] - (IF v.plain THEN 0 ELSE Occurs(x, r))
      BY <3>1, CallsCounted
    <3> QED BY <1>2, <3>1, <3>2
  <2> SUFFICES ASSUME NEW x \in Values
               PROVE  owned'[x] = owned[x] - Weight(x, vec[h]) + Weight(x, w)
    BY <2>1
  <2>2. Occurs(x, p) = Occurs(x, a) + Occurs(x, r)
    BY <1>5, <1>6, <1>7, OccursConcat
  <2>3. Occurs(x, c) = Occurs(x, p) + Occurs(x, b)
    BY <1>4, OccursConcat
  <2>4. Occurs(x, q) = Occurs(x, a) + Occurs(x, b)
    BY <1>4, <1>5, OccursConcat
  <2>5. Occurs(x, a) \in Nat /\ Occurs(x, b) \in Nat /\ Occurs(x, r) \in Nat
    BY <1>4, <1>5, <1>6, OccursNat
  <2>6. Weight(x, vec[h]) = IF v.plain THEN 0 ELSE Occurs(x, c)
    BY <1>1 DEF v
  <2>7. Weight(x, w) = IF v.plain THEN 0 ELSE Occurs(x, q)
    BY <1>11, <1>14 DEF Weight
  <2> HIDE DEF q
  <2> QED BY <2>1, <2>2, <2>3, <2>4, <2>5, <2>6, <2>7
<1>16. w.count <= MaxCount
  BY <1>1, <1>2, <1>3, <1>11, VectorAssumption
<1>17. vec' = [vec EXCEPT ![h] = w] /\ promised' = [promised EXCEPT ![h] = q]
  BY <1>2 DEF w
<1> HIDE DEF q
<1> QED BY <1>11, <1>14, <1>15, <1>16, <1>17, OneChanges

(* A vector is moved into another buffer, with as many elements. *)
LEMMA MovedKeeps ==
  ASSUME VectorKept, NEW h \in Handles, NEW capacity \in Nat, vec[h].count <= capacity,
         vec' = [vec EXCEPT ![h] = Into(vec[h], capacity, vec[h].count)],
         UNCHANGED <<owned, promised>>
  PROVE  VectorKept'
<1> DEFINE v == vec[h]
           w == Into(v, capacity, v.count)
<1>1. /\ v \in VectorType /\ v.count <= MaxCount /\ promised[h] = ContentsOf(v)
      /\ v.count \in Nat /\ owned \in [Values -> Int]
      /\ \A x \in Values : Weight(x, v) \in Nat /\ owned[x] \in Int
  BY VectorFacts
<1>2. vec' = [vec EXCEPT ![h] = w] /\ v.count <= capacity
  OBVIOUS
<1> HIDE DEF v
<1>3. /\ w \in VectorType /\ w.count = v.count /\ ContentsOf(w) = ContentsOf(v)
      /\ \A x \in Values : Weight(x, w) = Weight(x, v)
  BY <1>1, <1>2, IntoFacts
<1> HIDE DEF w
<1>4. promised' = [promised EXCEPT ![h] = promised[h]]
  BY DEF VectorKept, VectorTypes
<1>5. \A x \in Values : owned'[x] = owned[x] - Weight(x, vec[h]) + Weight(x, w)
  BY <1>1, <1>3 DEF v
<1>6. /\ promised[h] = ContentsOf(w) /\ w.count <= MaxCount /\ owned' \in [Values -> Int]
  BY <1>1, <1>3
<1> QED BY <1>2, <1>3, <1>4, <1>5, <1>6, OneChanges, ZenonT(40)

LEMMA ShrinkKeeps ==
  ASSUME VectorKept, NEW h \in Handles, Shrink(h)
  PROVE  VectorKept'
<1>1. vec[h].count \in Nat
  BY VectorFacts
<1>2. Capacity(vec[h].count) \in Nat /\ vec[h].count <= Capacity(vec[h].count)
  BY <1>1, CapacityEnough
<1> QED BY <1>2, MovedKeeps DEF Shrink

LEMMA ReserveKeeps ==
  ASSUME VectorKept, NEW h \in Handles, NEW capacity \in Nat, Reserve(h, capacity)
  PROVE  VectorKept'
<1> DEFINE n == capacity - Len(vec[h].cells) + vec[h].count
<1>1. vec[h].count \in Nat /\ Len(vec[h].cells) \in Nat /\ capacity > Len(vec[h].cells)
  BY VectorFacts DEF Reserve
<1>2. n \in Nat /\ vec[h].count <= n
  BY <1>1
<1>3. vec' = [vec EXCEPT ![h] = Into(vec[h], Capacity(n), vec[h].count)]
      /\ UNCHANGED <<owned, promised>>
  BY DEF Reserve, Expand
<1> HIDE DEF n
<1>4. Capacity(n) \in Nat /\ n <= Capacity(n)
  BY <1>2, CapacityEnough
<1>5. vec[h].count <= Capacity(n)
  BY <1>1, <1>2, <1>4
<1> QED BY <1>3, <1>4, <1>5, MovedKeeps

LEMMA ResizeKeeps ==
  ASSUME VectorKept, NEW h \in Handles, NEW n \in Nat, n <= MaxCount, Resize(h, n)
  PROVE  VectorKept'
<1> DEFINE v == vec[h]
           w == Into(v, Capacity(n), n)
           q == promised[h] \o Zeroes(n - v.count)
<1>1. /\ v \in VectorType /\ promised[h] = ContentsOf(v)
      /\ v.count \in Nat /\ owned \in [Values -> Int]
      /\ \A x \in Values : Weight(x, v) \in Nat /\ owned[x] \in Int
  BY VectorFacts
<1>2. CASE n = 0 /\ Clear(h)
  BY <1>2, ClearKeeps
<1>3. CASE n < v.count /\ Erase(h, n, v.count - n)
  <2>1. v.count - n \in Nat
    BY <1>1, <1>3
  <2> QED BY <1>3, <2>1, EraseKeeps
<1>4. CASE /\ n > v.count /\ vec' = [vec EXCEPT ![h] = Grown(v, n)]
           /\ promised' = [promised EXCEPT ![h] = q] /\ UNCHANGED owned
  <2>1. Grown(v, n) = w
    <3>1. n - v.count + v.count = n
      BY <1>1
    <3> QED BY <3>1 DEF Grown, Expand
  <2>2. Capacity(n) \in Nat /\ n <= Capacity(n) /\ v.count <= n
    <3>1. Capacity(n) \in Nat /\ n <= Capacity(n)
      BY CapacityEnough
    <3> HIDE DEF v
    <3> QED BY <1>1, <1>4, <3>1
  <2>3. /\ vec' = [vec EXCEPT ![h] = w] /\ promised' = [promised EXCEPT ![h] = q]
    BY <1>4, <2>1
  <2>4. /\ w \in VectorType /\ w.count = n
        /\ ContentsOf(w) = ContentsOf(v) \o Zeroes(n - v.count)
        /\ \A x \in Values : Weight(x, w) = Weight(x, v)
    <3> HIDE DEF v
    <3> QED BY <1>1, <2>2, IntoFacts
  <2> HIDE DEF w
  <2>5. q = ContentsOf(w)
    BY <1>1, <2>4
  <2>6. /\ owned' \in [Values -> Int]
        /\ \A x \in Values : owned'[x] = owned[x] - Weight(x, vec[h]) + Weight(x, w)
    BY <1>1, <1>4, <2>4
  <2> HIDE DEF q
  <2> QED BY <2>3, <2>4, <2>5, <2>6, OneChanges
<1> QED BY <1>2, <1>3, <1>4 DEF Resize

LEMMA VectorInitKept ==
  ASSUME VectorInit
  PROVE  VectorKept
<1>1. /\ NoVector \in VectorType /\ NoVector.count = 0 /\ ContentsOf(NoVector) = <<>>
      /\ NoVector.plain
  <2>1. /\ NoVector \in VectorType /\ NoVector.count = 0 /\ ContentsOf(NoVector) = <<>>
    BY 0 \in Nat, TRUE \in BOOLEAN, NothingHeld
  <2>2. NoVector.plain
    BY DEF NoVector
  <2> QED BY <2>1, <2>2
<1>2. \A h \in Handles : vec[h] = NoVector /\ promised[h] = <<>>
  BY DEF VectorInit
<1>3. VectorTypes
  <2> HIDE DEF NoVector
  <2>1. vec \in [Handles -> VectorType]
    BY <1>1 DEF VectorInit
  <2>2. 0 <= MaxCount /\ \A h \in Handles : vec[h].count = 0
    BY <1>1, <1>2, VectorAssumption
  <2>3. owned \in [Values -> Int] /\ promised \in [Handles -> Seq(Elements)]
    BY DEF VectorInit
  <2> QED BY <2>1, <2>2, <2>3 DEF VectorTypes
<1>4. ContentsExact
  BY <1>1, <1>2 DEF ContentsExact, Contents
<1>5. CopiesCounted
  <2> SUFFICES ASSUME NEW x \in Values PROVE owned[x] = Cardinality(Copies(vec, x))
    BY DEF CopiesCounted
  <2>1. \A p \in Handles \X (1 .. MaxCount) : vec[p[1]].plain
    BY <1>1, <1>2
  <2>2. Copies(vec, x) = {}
    BY <2>1 DEF Copies
  <2>3. owned[x] = 0
    BY DEF VectorInit
  <2> QED BY <2>2, <2>3, FS_EmptySet
<1> QED BY <1>3, <1>4, <1>5 DEF VectorKept

LEMMA VectorStays ==
  ASSUME VectorKept, UNCHANGED <<vec, owned, promised>>
  PROVE  VectorKept'
BY DEF VectorKept, VectorTypes, ContentsExact, Contents, CopiesCounted

LEMMA VectorStepKeeps ==
  ASSUME VectorKept, [VectorNext]_vectorVars
  PROVE  VectorKept'
<1>1. CASE UNCHANGED vectorVars
  BY <1>1, VectorStays DEF vectorVars
<1>2. CASE VectorNext
  <2>1. PICK h \in Handles :
       \/ \E plain \in BOOLEAN, c \in {Capacity(0)} \union {AtLeastTwo(n) : n \in Requests} :
            Create(h, c, plain)
       \/ \E source \in Handles : CopyTo(h, source) \/ MoveTo(h, source)
       \/ Destroy(h) \/ Clear(h) \/ Shrink(h)
       \/ \E index \in 0 .. MaxCount, s \in Ranges : Insert(h, index, s)
       \/ \E index \in 0 .. MaxCount, n \in 1 .. 2 : Erase(h, index, n)
       \/ \E n \in 0 .. MaxCount : Resize(h, n)
       \/ \E capacity \in Requests : Reserve(h, capacity)
       \/ UNCHANGED <<vec, owned, promised>>
    BY <1>2 DEF VectorNext, PopEmpty, InsertPast
  <2>2. CASE \E plain \in BOOLEAN, c \in {Capacity(0)} \union {AtLeastTwo(n) : n \in Requests} :
               Create(h, c, plain)
    <3>1. \A c \in {Capacity(0)} \union {AtLeastTwo(n) : n \in Requests} : c \in Nat
      BY CapacityEnough, VectorAssumption
    <3> QED BY <2>2, <3>1, CreateKeeps
  <2>3. CASE \E source \in Handles : CopyTo(h, source) \/ MoveTo(h, source)
    BY <2>3, CopyKeeps, MoveKeeps
  <2>4. CASE Destroy(h) \/ Clear(h) \/ Shrink(h)
    BY <2>4, DestroyKeeps, ClearKeeps, ShrinkKeeps
  <2>5. CASE \E index \in 0 .. MaxCount, s \in Ranges : Insert(h, index, s)
    <3>1. \A s \in Ranges : s \in Seq(Values)
      <4>1. \A x, y \in Values : <<x>> \in Seq(Values) /\ <<x, y>> \in Seq(Values)
        OBVIOUS
      <4>2. ASSUME NEW s \in Ranges PROVE s \in Seq(Values)
        <5>1. (\E x \in Values : s = <<x>>) \/ (\E x, y \in Values : s = <<x, y>>)
          BY DEF Ranges
        <5> QED BY <4>1, <5>1
      <4> QED BY <4>2
    <3>2. PICK index \in 0 .. MaxCount, s \in Ranges : Insert(h, index, s)
      BY <2>5
    <3>3. index \in Nat
      BY VectorAssumption
    <3> QED BY <3>1, <3>2, <3>3, InsertKeeps
  <2>6. CASE \E index \in 0 .. MaxCount, n \in 1 .. 2 : Erase(h, index, n)
    <3>1. PICK index \in 0 .. MaxCount, n \in 1 .. 2 : Erase(h, index, n)
      BY <2>6
    <3>2. index \in Nat /\ n \in Nat
      BY VectorAssumption
    <3> QED BY <3>1, <3>2, EraseKeeps
  <2>7. CASE \E n \in 0 .. MaxCount : Resize(h, n)
    <3>1. PICK n \in 0 .. MaxCount : Resize(h, n)
      BY <2>7
    <3>2. n \in Nat /\ n <= MaxCount
      BY VectorAssumption
    <3> QED BY <3>1, <3>2, ResizeKeeps
  <2>8. CASE \E capacity \in Requests : Reserve(h, capacity)
    BY <2>8, ReserveKeeps, VectorAssumption
  <2>9. CASE UNCHANGED <<vec, owned, promised>>
    BY <2>9, VectorStays
  <2> QED BY <2>1, <2>2, <2>3, <2>4, <2>5, <2>6, <2>7, <2>8, <2>9
<1> QED BY <1>1, <1>2

(* Of every vector the contents are what the callers asked for, the count      *)
(* stays inside the buffer, and the calls of copy and finalize differ by the   *)
(* copies that the vectors hold.                                              *)
THEOREM VectorInvariant == VectorSpec => []VectorKept
<1>1. VectorInit => VectorKept
  BY VectorInitKept
<1>2. VectorKept /\ [VectorNext]_vectorVars => VectorKept'
  BY VectorStepKeeps
<1> QED BY <1>1, <1>2, PTL DEF VectorSpec

(* A vector holds what its callers put there, in their order, and every       *)
(* element that was copied in is finalized exactly once when it leaves the     *)
(* last vector that has it.  Nothing is promised of what a resize adds.        *)
THEOREM VectorsHold == VectorSpec => []VectorHolds
<1>1. VectorKept => VectorHolds
  BY DEF VectorKept, ContentsExact, ContentsPromised, VectorHolds
<1> QED BY <1>1, VectorInvariant, PTL
============================================================================
