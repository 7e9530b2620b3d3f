------------------------------ MODULE Interrupts ------------------------------
(***************************************************************************)
(* The interrupt table of the previous kernel                              *)
(* (axon/source_old/system/interrupts.c) over the redirection registers of  *)
(* the I/O APICs (axon/source_old/arch_x86/drivers/xapic_driver.c).  What a  *)
(* function does under g_lock is one step; acquire and lock of an external   *)
(* program the driver after they have let the lock go, in a step of its own.  *)
(* A register stands for whose routing it holds: local vector and flags are  *)
(* the caller's.  A panic or a halt ends the model, as it ends the kernel.   *)
(***************************************************************************)
EXTENDS Integers, Sequences, FiniteSets

LOCAL INSTANCE SequencesExt

CONSTANTS
  MaxHandlers, \* AXK_MAX_INTERRUPT_HANDLERS
  MinVector,   \* AXK_MIN_INTERRUPT_HANDLER
  IoApics,     \* the list of the driver: records of interrupt_base and interrupt_count
  Nmis,        \* the external interrupts that the platform's tables call NMIs
  Processes,   \* AXK_PROCESS_KERNEL and others, a thread each
  MaxAllowed   \* bound: the length of a list of allowed externals

Nobody == "invalid"  \* AXK_PROCESS_INVALID
Masked == "masked"
Nmi    == "nmi"
NoCall == -1

VARIABLES
  handler,  \* g_handlers, by index: the process that owns the vector
  owner,    \* g_external_routings, by index: the process that owns the external
  route,    \* the redirection registers, by global number
  calls,    \* the external that each process has taken and not yet programmed
  held,     \* history: the vectors each process was given and has not released
  granted,  \* history: the same of the externals
  silenced, \* history: the externals that update_external masked
  astray,   \* history: the externals whose owner, register and user do not agree
  stopped   \* a processor has panicked or halted

interruptVars == <<handler, owner, route, calls, held, granted, silenced, astray, stopped>>
handlerVars == <<handler, held>>
externalVars == <<owner, route, calls, granted, silenced, astray>>

(* get_available_external_routings: the inputs of every chip, chip by chip.   *)
Inputs(chip) == [j \in 1 .. chip.count |-> chip.base + j - 1]
Externals == FlattenSeq([i \in DOMAIN IoApics |-> Inputs(IoApics[i])])

(* The chip that serves a number, whose register is written.                *)
Served(e) == \E i \in DOMAIN IoApics :
               IoApics[i].base <= e /\ e < IoApics[i].base + IoApics[i].count

Numbers == {Externals[j] : j \in DOMAIN Externals}

(* Every input has a number of its own: the platform's tables give each chip  *)
(* a range.                                                                  *)
ASSUME InterruptsAssumption ==
  /\ MaxHandlers \in Nat /\ MinVector \in Nat
  /\ Externals \in Seq(Nat)
  /\ \A j, k \in DOMAIN Externals : Externals[j] = Externals[k] => j = k
  /\ Nobody \notin Processes

(* axk_interrupts_init_state, and init_ioapic of the driver before it. *)
InterruptsInit ==
  /\ handler = [i \in 0 .. MaxHandlers - 1 |-> Nobody]
  /\ owner = [j \in DOMAIN Externals |-> Nobody]
  /\ route = [e \in Numbers |-> IF e \in Nmis THEN Nmi ELSE Masked]
  /\ calls = [p \in Processes |-> NoCall]
  /\ held = [p \in Processes |-> {}] /\ granted = [p \in Processes |-> {}]
  /\ silenced = {} /\ astray = Nmis /\ stopped = FALSE

-----------------------------------------------------------------------------
FirstFree(f) ==
  CHOOSE i \in DOMAIN f : f[i] = Nobody /\ \A k \in DOMAIN f : f[k] = Nobody => i <= k

HasFree(f) == \E i \in DOMAIN f : f[i] = Nobody

Give(p, i) ==
  /\ handler' = [handler EXCEPT ![i] = p]
  /\ held' = [held EXCEPT ![p] = @ \union {i + MinVector}]
  /\ UNCHANGED externalVars

AcquireHandler(p) ==
  IF HasFree(handler) THEN Give(p, FirstFree(handler)) /\ UNCHANGED stopped
  ELSE stopped' = TRUE /\ UNCHANGED <<handlerVars, externalVars>>

(* The lowest vector is refused, and those past the length of the table.    *)
LockHandler(p, vec) ==
  /\ MinVector < vec /\ vec < MaxHandlers
  /\ handler[vec - MinVector] = Nobody
  /\ Give(p, vec - MinVector) /\ UNCHANGED stopped

(* Mutant: the entry of the vector, not of its index. *)
VacatedUnshifted(vec) ==
  IF vec < MinVector \/ vec >= MaxHandlers THEN handler
  ELSE [handler EXCEPT ![vec] = Nobody]

Vacated(vec) ==
  IF vec < MinVector \/ vec >= MaxHandlers THEN handler
  ELSE [handler EXCEPT ![vec - MinVector] = Nobody]

(* The vectors past the length of the table are silently kept.              *)
ReleaseHandler(p, vec) ==
  /\ handler' = Vacated(vec)
  /\ held' = [held EXCEPT ![p] = @ \ {vec}]
  /\ UNCHANGED <<externalVars, stopped>>

(* The registers of its externals go on routing to the process that is gone. *)
ReleaseProcess(p) ==
  LET own == {j \in DOMAIN owner : owner[j] = p}
  IN  /\ handler' = [i \in DOMAIN handler |-> IF handler[i] = p THEN Nobody ELSE handler[i]]
      /\ owner' = [j \in DOMAIN owner |-> IF j \in own THEN Nobody ELSE owner[j]]
      /\ held' = [held EXCEPT ![p] = {}] /\ granted' = [granted EXCEPT ![p] = {}]
      /\ astray' = astray \union {Externals[j] : j \in own} \union ({calls[p]} \ {NoCall})
      /\ UNCHANGED <<route, calls, silenced, stopped>>

-----------------------------------------------------------------------------
Take(p, taken, e, stray) ==
  /\ owner' = [j \in DOMAIN owner |-> IF j \in taken THEN p ELSE owner[j]]
  /\ calls' = [calls EXCEPT ![p] = e]
  /\ astray' = astray \union stray
  /\ UNCHANGED <<handlerVars, route, granted, silenced, stopped>>

AcquireExternal(p) ==
  IF HasFree(owner) THEN LET j == FirstFree(owner) IN Take(p, {j}, Externals[j], {})
  ELSE stopped' = TRUE /\ UNCHANGED <<handlerVars, externalVars>>

(* One free external for every number that is allowed, whatever the number;   *)
(* the caller learns of the last one only.                                   *)
AcquireClamped(p, count) ==
  LET free  == {j \in DOMAIN owner : owner[j] = Nobody}
      taken == {j \in free : Cardinality({k \in free : k < j}) < count}
  IN  \E last \in taken :
        /\ \A j \in taken : j <= last
        /\ Take(p, taken, Externals[last], {Externals[j] : j \in taken \ {last}})

(* An external that is owned is taken from its owner, overwrite or not.      *)
LockExternal(p, e) ==
  \E j \in DOMAIN Externals :
    /\ Externals[j] = e
    /\ Take(p, {j}, e, IF owner[j] = Nobody THEN {} ELSE {e})

Owns(p, e) == \E j \in DOMAIN owner : Externals[j] = e /\ owner[j] = p

(* The owner is the only one left that uses the external.                    *)
Agreed(p, e) ==
  /\ Owns(p, e)
  /\ \A q \in Processes \ {p} : e \notin granted[q] /\ calls[q] # e

(* The driver, after the lock is released; an identifier of a processor that  *)
(* does not exist halts, and one above fifteen is refused, which panics.     *)
Program(p, reachable) ==
  /\ calls[p] # NoCall
  /\ IF reachable /\ Served(calls[p])
     THEN /\ route' = [route EXCEPT ![calls[p]] = p]
          /\ granted' = [granted EXCEPT ![p] = @ \union {calls[p]}]
          /\ silenced' = silenced \ {calls[p]}
          /\ astray' = IF Agreed(p, calls[p]) THEN astray \ {calls[p]} ELSE astray
          /\ calls' = [calls EXCEPT ![p] = NoCall]
          /\ UNCHANGED <<handlerVars, owner, stopped>>
     ELSE stopped' = TRUE /\ UNCHANGED <<handlerVars, externalVars>>

(* Mutant: the register keeps the routing. *)
ClearedNot(e) == route

Cleared(e) == [route EXCEPT ![e] = Masked]

(* Register and owner are cleared with the lock held, whoever the owner is.   *)
ReleaseExternal(p, e) ==
  /\ route' = Cleared(e)
  /\ owner' = [j \in DOMAIN owner |-> IF Externals[j] = e THEN Nobody ELSE owner[j]]
  /\ granted' = [granted EXCEPT ![p] = @ \ {e}]
  /\ silenced' = silenced \ {e}
  /\ astray' = IF Agreed(p, e) THEN astray \ {e} ELSE astray
  /\ UNCHANGED <<handlerVars, calls, stopped>>

(* The owner masks its external, or routes it again; g_lock is not taken.    *)
UpdateExternal(p, e, mask) ==
  /\ route' = [route EXCEPT ![e] = IF mask THEN Masked ELSE p]
  /\ silenced' = IF mask THEN silenced \union {e} ELSE silenced \ {e}
  /\ UNCHANGED <<handlerVars, owner, calls, granted, astray, stopped>>

InterruptsNext ==
  /\ ~ stopped
  /\ \E p \in Processes :
       \/ /\ calls[p] = NoCall
          /\ \/ AcquireHandler(p)
             \/ \E vec \in 0 .. MaxHandlers : LockHandler(p, vec)
             \/ \E vec \in held[p] : ReleaseHandler(p, vec)
             \/ AcquireExternal(p)
             \/ \E count \in 1 .. MaxAllowed : AcquireClamped(p, count)
             \/ \E e \in Numbers : LockExternal(p, e)
             \/ \E e \in granted[p] : ReleaseExternal(p, e)
             \/ \E e \in granted[p], mask \in BOOLEAN : UpdateExternal(p, e, mask)
       \/ \E reachable \in BOOLEAN : Program(p, reachable)
       \/ ReleaseProcess(p)

InterruptsSpec == InterruptsInit /\ [][InterruptsNext]_interruptVars

-----------------------------------------------------------------------------
(* A vector that a process was given stays its own until it is released, and  *)
(* no entry is owned without its owner's knowledge: but for the vectors past  *)
(* the length of the table, which release_handler ignores.                   *)
VectorsKept ==
  \A i \in DOMAIN handler, p \in Processes :
    /\ i + MinVector \in held[p] => handler[i] = p
    /\ handler[i] = p => i + MinVector \in held[p] \/ i + MinVector >= MaxHandlers

(* Away from the externals that two processes have locked, that a clamped    *)
(* acquire took along, that a process left behind or that carry an NMI, an     *)
(* interrupt goes to the owner of the external and to no other: the register  *)
(* is written after the lock is released, yet no other call comes in between. *)
RoutesFollowOwners ==
  \A j \in DOMAIN owner :
    LET e == Externals[j]
    IN  \/ e \in astray
        \/ owner[j] \in Processes /\ calls[owner[j]] = e
        \/ route[e] = IF owner[j] = Nobody \/ e \in silenced THEN Masked ELSE owner[j]
=============================================================================
