------------------------------ MODULE Spinlock ------------------------------
(***************************************************************************)
(* The interrupt-saving spinlock every subsystem of the Axon kernel uses    *)
(* (axon/source/library/spinlock.c), one step per memory or flag access.    *)
(*                                                                          *)
(* A context is a thread of control on a processor: the processor's         *)
(* ordinary code or its interrupt handler.  The handler runs only while the *)
(* ordinary code of its processor is suspended, and returns to it.  The     *)
(* lock has no owner and no queue: a flag, and the RFLAGS of its holder, of *)
(* which only the interrupt-enable bit matters here.                        *)
(***************************************************************************)
EXTENDS Integers, FiniteSets

CONSTANTS
  CPUs,    \* processors
  Locks    \* the locks, numbered in the order in which they may be nested

ASSUME LocksAssumption == Locks \subseteq Nat /\ Locks # {}

Contexts == CPUs \X {"thread", "handler"}

Cpu(x) == x[1]

PCs == {"idle", "entered", "spin", "store", "clear", "restore"}

VARIABLES
  flag,       \* flag[l]: the atomic flag of lock l
  saved,      \* saved[l]: the interrupt bit of l's rflags field
  iflag,      \* iflag[c]: the interrupt bit of processor c
  inHandler,  \* inHandler[c]: processor c is in its interrupt handler
  pc,         \* pc[x]: where context x is inside acquire or release
  target,     \* target[x]: the lock x is acquiring or releasing
  rf,         \* rf[x]: the local variable rflags of that call
  held,       \* held[x]: the locks x has taken and not cleared
  want        \* want[x]: the interrupt bit x runs with outside any lock

vars == <<flag, saved, iflag, inHandler, pc, target, rf, held, want>>

(* The context that executes on its processor. *)
Running(x) == inHandler[Cpu(x)] <=> (x[2] = "handler")

IsLocked(l) == flag[l]

(* Outside a call its locals do not exist: the model gives them one value.  *)
Unset == CHOOSE l \in Locks : TRUE

(* axk_spinlock_init clears the flag and leaves rflags as it finds it.  The *)
(* processors start with interrupts in any state.                           *)
Init ==
  /\ flag = [l \in Locks |-> FALSE]
  /\ saved \in [Locks -> BOOLEAN]
  /\ iflag \in [CPUs -> BOOLEAN]
  /\ inHandler = [c \in CPUs |-> FALSE]
  /\ pc = [x \in Contexts |-> "idle"]
  /\ target = [x \in Contexts |-> Unset]
  /\ rf = [x \in Contexts |-> FALSE]
  /\ held = [x \in Contexts |-> {}]
  /\ want = [x \in Contexts |-> x[2] = "thread" /\ iflag[Cpu(x)]]

-----------------------------------------------------------------------------
(* Acquire. *)

(* Mutant: only the lock itself is out of bounds. *)
InAnyOrder(x, l) == l \notin held[x]

(* The callers' discipline: a context takes a lock only above all it holds  *)
(* (panic.c takes its own lock, then the terminal's: the one nesting).      *)
InOrder(x, l) == \A m \in held[x] : m < l

(* Entry of axk_spinlock_acquire: pushfq; pop rax.  Interrupts may still    *)
(* arrive before the cli.                                                   *)
ReadFlags(x, l) ==
  /\ Running(x) /\ pc[x] = "idle" /\ InOrder(x, l)
  /\ rf' = [rf EXCEPT ![x] = iflag[Cpu(x)]]
  /\ target' = [target EXCEPT ![x] = l]
  /\ pc' = [pc EXCEPT ![x] = "entered"]
  /\ UNCHANGED <<flag, saved, iflag, inHandler, held, want>>

(* Mutant: the flags are saved, interrupts left on. *)
DisableNoCli(x) ==
  /\ Running(x) /\ pc[x] = "entered"
  /\ pc' = [pc EXCEPT ![x] = "spin"]
  /\ UNCHANGED <<flag, saved, iflag, inHandler, target, rf, held, want>>

(* The cli of axk_interrupts_disable. *)
Disable(x) ==
  /\ Running(x) /\ pc[x] = "entered"
  /\ iflag' = [iflag EXCEPT ![Cpu(x)] = FALSE]
  /\ pc' = [pc EXCEPT ![x] = "spin"]
  /\ UNCHANGED <<flag, saved, inHandler, target, rf, held, want>>

(* Mutant: a plain store takes the lock whoever holds it. *)
TestAndSetBlind(x) ==
  /\ Running(x) /\ pc[x] = "spin"
  /\ flag' = [flag EXCEPT ![target[x]] = TRUE]
  /\ held' = [held EXCEPT ![x] = @ \union {target[x]}]
  /\ pc' = [pc EXCEPT ![x] = "store"]
  /\ UNCHANGED <<saved, iflag, inHandler, target, rf, want>>

(* Mutant: the field is written with the flags after the cli. *)
StoreFlagsLate(x) ==
  /\ Running(x) /\ pc[x] = "store"
  /\ saved' = [saved EXCEPT ![target[x]] = iflag[Cpu(x)]]
  /\ pc' = [pc EXCEPT ![x] = "idle"]
  /\ target' = [target EXCEPT ![x] = Unset]
  /\ rf' = [rf EXCEPT ![x] = FALSE]
  /\ UNCHANGED <<flag, iflag, inHandler, held, want>>

(* The test-and-set that ends the loop; one that finds the flag set changes *)
(* nothing.                                                                 *)
TestAndSet(x) ==
  /\ Running(x) /\ pc[x] = "spin" /\ ~ IsLocked(target[x])
  /\ flag' = [flag EXCEPT ![target[x]] = TRUE]
  /\ held' = [held EXCEPT ![x] = @ \union {target[x]}]
  /\ pc' = [pc EXCEPT ![x] = "store"]
  /\ UNCHANGED <<saved, iflag, inHandler, target, rf, want>>

StoreFlags(x) ==
  /\ Running(x) /\ pc[x] = "store"
  /\ saved' = [saved EXCEPT ![target[x]] = rf[x]]
  /\ pc' = [pc EXCEPT ![x] = "idle"]
  /\ target' = [target EXCEPT ![x] = Unset]
  /\ rf' = [rf EXCEPT ![x] = FALSE]
  /\ UNCHANGED <<flag, iflag, inHandler, held, want>>

-----------------------------------------------------------------------------
(* Release, of the lock taken last. *)

Innermost(x, l) == l \in held[x] /\ \A m \in held[x] : m <= l

LoadFlags(x, l) ==
  /\ Running(x) /\ pc[x] = "idle" /\ Innermost(x, l)
  /\ rf' = [rf EXCEPT ![x] = saved[l]]
  /\ target' = [target EXCEPT ![x] = l]
  /\ pc' = [pc EXCEPT ![x] = "clear"]
  /\ UNCHANGED <<flag, saved, iflag, inHandler, held, want>>

ClearFlag(x) ==
  /\ Running(x) /\ pc[x] = "clear"
  /\ flag' = [flag EXCEPT ![target[x]] = FALSE]
  /\ held' = [held EXCEPT ![x] = @ \ {target[x]}]
  /\ pc' = [pc EXCEPT ![x] = "restore"]
  /\ UNCHANGED <<saved, iflag, inHandler, target, rf, want>>

(* Mutant: the field is read again, after the lock has been let go. *)
RestoreFlagsStale(x) ==
  /\ Running(x) /\ pc[x] = "restore"
  /\ iflag' = [iflag EXCEPT ![Cpu(x)] = saved[target[x]]]
  /\ pc' = [pc EXCEPT ![x] = "idle"]
  /\ target' = [target EXCEPT ![x] = Unset]
  /\ rf' = [rf EXCEPT ![x] = FALSE]
  /\ UNCHANGED <<flag, saved, inHandler, held, want>>

(* axk_interrupts_restore: push rdi; popfq. *)
RestoreFlags(x) ==
  /\ Running(x) /\ pc[x] = "restore"
  /\ iflag' = [iflag EXCEPT ![Cpu(x)] = rf[x]]
  /\ pc' = [pc EXCEPT ![x] = "idle"]
  /\ target' = [target EXCEPT ![x] = Unset]
  /\ rf' = [rf EXCEPT ![x] = FALSE]
  /\ UNCHANGED <<flag, saved, inHandler, held, want>>

-----------------------------------------------------------------------------
(* The processor. *)

(* An interrupt arrives: the gate clears the interrupt bit. *)
Interrupt(c) ==
  /\ iflag[c] /\ ~ inHandler[c]
  /\ inHandler' = [inHandler EXCEPT ![c] = TRUE]
  /\ iflag' = [iflag EXCEPT ![c] = FALSE]
  /\ UNCHANGED <<flag, saved, pc, target, rf, held, want>>

(* iretq: only code that had interrupts enabled was interrupted. *)
Return(c) ==
  /\ inHandler[c] /\ pc[<<c, "handler">>] = "idle" /\ held[<<c, "handler">>] = {}
  /\ inHandler' = [inHandler EXCEPT ![c] = FALSE]
  /\ iflag' = [iflag EXCEPT ![c] = TRUE]
  /\ UNCHANGED <<flag, saved, pc, target, rf, held, want>>

(* axk_interrupts_enable or axk_interrupts_disable called outside any lock. *)
SetInterrupts(c, on) ==
  LET x == <<c, "thread">> IN
  /\ Running(x) /\ pc[x] = "idle" /\ held[x] = {} /\ iflag[c] # on
  /\ iflag' = [iflag EXCEPT ![c] = on]
  /\ want' = [want EXCEPT ![x] = on]
  /\ UNCHANGED <<flag, saved, inHandler, pc, target, rf, held>>

-----------------------------------------------------------------------------
Call(x) == \E l \in Locks : ReadFlags(x, l) \/ LoadFlags(x, l)

Inside(x) ==
  \/ Disable(x) \/ TestAndSet(x) \/ StoreFlags(x)
  \/ ClearFlag(x) \/ RestoreFlags(x)

Processor(c) ==
  Interrupt(c) \/ Return(c) \/ \E on \in BOOLEAN : SetInterrupts(c, on)

Next ==
  \/ \E x \in Contexts : Call(x) \/ Inside(x)
  \/ \E c \in CPUs : Processor(c)

Spec == Init /\ [][Next]_vars

(* A processor keeps executing, and a critical section ends: it may take    *)
(* and release further locks, but only finitely often (no caller loops with *)
(* a lock held).  No fairness makes any context ask for a lock, an interrupt *)
(* arrive, or one contender win against another.                            *)
Fairness ==
  /\ \A x \in Contexts : WF_vars(Inside(x))
  /\ \A x \in Contexts : \A l \in Locks : SF_vars(LoadFlags(x, l))

FairSpec == Spec /\ Fairness

-----------------------------------------------------------------------------
TypeOK ==
  /\ flag \in [Locks -> BOOLEAN]
  /\ saved \in [Locks -> BOOLEAN]
  /\ iflag \in [CPUs -> BOOLEAN]
  /\ inHandler \in [CPUs -> BOOLEAN]
  /\ pc \in [Contexts -> PCs]
  /\ target \in [Contexts -> Locks]
  /\ rf \in [Contexts -> BOOLEAN]
  /\ held \in [Contexts -> SUBSET Locks]
  /\ want \in [Contexts -> BOOLEAN]

(* No two contexts are between the test-and-set and the clear of the same    *)
(* lock, on whichever processors and in whichever of thread and handler     *)
(* (axk_spinlock_acquire, axk_spinlock_release).                            *)
MutualExclusion ==
  \A x, y \in Contexts : x # y => held[x] \intersect held[y] = {}

Masked(x) == held[x] # {} \/ pc[x] \in {"spin", "restore"}

(* No handler runs on top of code that holds or waits for a lock, where it  *)
(* could spin on that lock for ever: from the cli of acquire to the popfq   *)
(* of release a context is the one running on its processor, with           *)
(* interrupts off.                                                          *)
HoldersMasked == \A x \in Contexts : Masked(x) => Running(x) /\ ~ iflag[Cpu(x)]

(* A context that has released everything runs with the interrupt bit it    *)
(* had before its first lock, though the bit travelled through a field of   *)
(* the lock that every other holder overwrites, and though inner locks were *)
(* taken and released with interrupts already off.                          *)
InterruptsRestored ==
  \A x \in Contexts :
    Running(x) /\ pc[x] \in {"idle", "entered"} /\ held[x] = {}
      => iflag[Cpu(x)] = want[x]

(* The bit that leaves context x with the locks S still to release. *)
BitUnder(x, S) == S = {} /\ want[x]

(* Where a call stands: an acquire is above everything held, a release is   *)
(* at the lock taken last, and the call's local holds the bit to go back to.*)
CallsOK ==
  \A x \in Contexts :
    /\ pc[x] \in {"entered", "spin"} => InOrder(x, target[x])
    /\ pc[x] \in {"store", "clear"} => Innermost(x, target[x])
    /\ pc[x] \in {"entered", "spin", "restore"} => rf[x] = BitUnder(x, held[x])
    /\ pc[x] \in {"store", "clear"} => rf[x] = BitUnder(x, held[x] \ {target[x]})

(* The field of a held lock is the bit from before that lock. *)
FieldsOK ==
  \A x \in Contexts : \A l \in held[x] :
    ~ (pc[x] = "store" /\ target[x] = l)
      => saved[l] = BitUnder(x, {m \in held[x] : m < l})

(* A handler runs with interrupts off, over code that had them on. *)
HandlersOK ==
  \A c \in CPUs :
    /\ ~ want[<<c, "handler">>]
    /\ inHandler[c] => want[<<c, "thread">>]
    /\ ~ inHandler[c] => pc[<<c, "handler">>] = "idle" /\ held[<<c, "handler">>] = {}

(* A lock that anyone holds has its flag set. *)
FlagsOK == \A x \in Contexts : \A l \in held[x] : flag[l]

(* The inductive invariant: what makes the three invariants above hold:     *)
(* every bit on its way back to a processor, in a local of a call or in a   *)
(* field of a lock, is the right one.                                       *)
SpinlockInv ==
  /\ TypeOK
  /\ FlagsOK
  /\ MutualExclusion
  /\ HoldersMasked
  /\ InterruptsRestored
  /\ CallsOK
  /\ FieldsOK
  /\ HandlersOK

(* If a context spins on a lock, some context gets that lock: no ABBA       *)
(* deadlock, no handler that waits for the code under it.  Which one gets   *)
(* it is not promised: the loop of axk_spinlock_acquire keeps no queue.     *)
LockProgress ==
  \A l \in Locks :
    (\E x \in Contexts : pc[x] = "spin" /\ target[x] = l)
      ~> (\E x \in Contexts : pc[x] = "store" /\ target[x] = l)
=============================================================================
