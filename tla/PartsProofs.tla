----------------------------- MODULE PartsProofs -----------------------------
(***************************************************************************)
(* Seven small parts of the kernels for any number of ticks, processes,       *)
(* vectors, chips, processors and messages, any screen and any years: the      *)
(* system time never runs back, the interrupt table gives each vector and      *)
(* routes each external to one owner, the start of the processors loses none   *)
(* of them and keeps the table of the counters until all have used it, a       *)
(* message between processors is freed by the last to handle it, what the      *)
(* terminal prints stays inside the screen, covers nothing and reads as it     *)
(* should, dates and times follow each other, and the timers measure what      *)
(* they are meant to.                                                        *)
(***************************************************************************)
EXTENDS SystemTime, Interrupts, Startup, Interlink, Terminal, Calendar,
        Timers, NumberLemmas

Indexes == 0 .. MaxHandlers - 1
Owners == Processes \union {Nobody}

TableTypes ==
  /\ handler \in [Indexes -> Owners]
  /\ held \in [Processes -> SUBSET Int]

RoutingTypes ==
  /\ owner \in [DOMAIN Externals -> Owners]
  /\ calls \in [Processes -> Numbers \union {NoCall}]
  /\ granted \in [Processes -> SUBSET Numbers]
  /\ DOMAIN route = Numbers

(* Whoever is about to program an external, or still uses one, owns it, unless *)
(* the external has gone astray.                                              *)
UsersOwn ==
  \A p \in Processes :
    /\ calls[p] # NoCall => Owns(p, calls[p]) \/ calls[p] \in astray
    /\ \A e \in granted[p] : Owns(p, e) \/ e \in astray

InterruptsInv == TableTypes /\ VectorsKept /\ RoutingTypes /\ UsersOwn /\ RoutesFollowOwners

LEMMA ExternalFacts ==
  /\ Externals \in Seq(Nat) /\ DOMAIN Externals \subseteq Nat
  /\ \A j \in DOMAIN Externals : Externals[j] \in Numbers /\ Externals[j] \in Nat
  /\ Numbers \subseteq Nat /\ NoCall \notin Numbers
  /\ \A e \in Numbers : \E j \in DOMAIN Externals : Externals[j] = e
  /\ \A j, k \in DOMAIN Externals : Externals[j] = Externals[k] => j = k
<1>1. Externals \in Seq(Nat)
  BY InterruptsAssumption
<1>2. DOMAIN Externals = 1 .. Len(Externals) /\ Len(Externals) \in Nat
  BY <1>1
<1>3. \A j \in DOMAIN Externals : Externals[j] \in Nat
  BY <1>1
<1>4. Numbers \subseteq Nat
  BY <1>3 DEF Numbers
<1>5. NoCall \notin Nat
  BY DEF NoCall
<1>6. \A j, k \in DOMAIN Externals : Externals[j] = Externals[k] => j = k
  BY InterruptsAssumption
<1> QED BY <1>1, <1>2, <1>3, <1>4, <1>5, <1>6 DEF Numbers

(* The first free entry of a table is one of its entries, and is free. *)
LEMMA FirstFreeIsFree ==
  ASSUME NEW f, DOMAIN f \subseteq Nat, HasFree(f)
  PROVE  FirstFree(f) \in DOMAIN f /\ f[FirstFree(f)] = Nobody
<1> DEFINE T == {i \in DOMAIN f : f[i] = Nobody}
<1>1. PICK i \in T : \A k \in T : i <= k
  <2>1. T \subseteq Nat /\ T # {}
    BY DEF HasFree
  <2> QED BY <2>1, NatLeast
<1>2. \E j \in DOMAIN f : f[j] = Nobody /\ \A k \in DOMAIN f : f[k] = Nobody => j <= k
  BY <1>1
<1> QED BY <1>2 DEF FirstFree

-----------------------------------------------------------------------------
(* The vectors. *)
LEMMA InitKeepsVectors ==
  ASSUME InterruptsInit
  PROVE  TableTypes /\ VectorsKept
BY InterruptsAssumption DEF InterruptsInit, TableTypes, VectorsKept, Indexes, Owners

LEMMA GiveKeepsVectors ==
  ASSUME TableTypes, VectorsKept, NEW p \in Processes, NEW i \in Indexes,
         handler[i] = Nobody, Give(p, i)
  PROVE  TableTypes' /\ VectorsKept'
<1>1. /\ MinVector \in Nat /\ MaxHandlers \in Nat /\ Nobody \notin Processes
      /\ DOMAIN handler = Indexes /\ \A k \in Indexes : k \in Int
  BY InterruptsAssumption DEF TableTypes, Indexes
<1>2. TableTypes'
  BY <1>1 DEF TableTypes, Give, Owners
<1>3. ASSUME NEW k \in DOMAIN handler', NEW q \in Processes
      PROVE  /\ k + MinVector \in held'[q] => handler'[k] = q
             /\ handler'[k] = q => k + MinVector \in held'[q] \/ k + MinVector >= MaxHandlers
  <2>1. k \in Indexes
    BY <1>3, <1>1 DEF Give
  <2>2. CASE k = i
    <3>1. handler'[k] = p
      BY <2>2, <1>1 DEF Give
    <3>2. i + MinVector \in held'[p]
      BY DEF Give, TableTypes
    <3>3. i + MinVector \notin held[q]
      BY <1>1 DEF VectorsKept
    <3>4. q # p => held'[q] = held[q]
      BY DEF Give, TableTypes
    <3> QED BY <2>2, <3>1, <3>2, <3>3, <3>4
  <2>3. CASE k # i
    <3>1. handler'[k] = handler[k]
      BY <2>1, <2>3, <1>1 DEF Give, TableTypes
    <3>2. k + MinVector # i + MinVector
      BY <2>1, <2>3, <1>1
    <3>3. k + MinVector \in held'[q] <=> k + MinVector \in held[q]
      BY <3>2 DEF Give, TableTypes
    <3> QED BY <2>1, <3>1, <3>3, <1>1 DEF VectorsKept
  <2> QED BY <2>2, <2>3
<1> QED BY <1>2, <1>3 DEF VectorsKept

LEMMA ReleaseKeepsVectors ==
  ASSUME TableTypes, VectorsKept, NEW p \in Processes, NEW vector \in held[p],
         ReleaseHandler(p, vector)
  PROVE  TableTypes' /\ VectorsKept'
<1>1. /\ MinVector \in Nat /\ MaxHandlers \in Nat /\ Nobody \notin Processes
      /\ DOMAIN handler = Indexes /\ \A k \in Indexes : k \in Int
      /\ vector \in Int
  BY InterruptsAssumption DEF TableTypes, Indexes
<1>2. TableTypes'
  BY <1>1 DEF TableTypes, ReleaseHandler, Vacated, Owners
<1>3. ASSUME NEW k \in DOMAIN handler', NEW q \in Processes
      PROVE  /\ k + MinVector \in held'[q] => handler'[k] = q
             /\ handler'[k] = q => k + MinVector \in held'[q] \/ k + MinVector >= MaxHandlers
  <2>1. k \in Indexes
    BY <1>2 DEF TableTypes
  <2>2. /\ k + MinVector \in held[q] => handler[k] = q
        /\ handler[k] = q => k + MinVector \in held[q] \/ k + MinVector >= MaxHandlers
        /\ k + MinVector \in held[p] => handler[k] = p
    BY <2>1, <1>1 DEF VectorsKept
  <2>3. held'[q] = IF q = p THEN held[q] \ {vector} ELSE held[q]
    BY DEF ReleaseHandler, TableTypes
  <2>4. CASE k + MinVector = vector /\ vector >= MinVector /\ vector < MaxHandlers
    <3>1. k = vector - MinVector
      BY <2>1, <2>4, <1>1
    <3>2. handler'[k] = Nobody
      BY <3>1, <2>1, <2>4, <1>1 DEF ReleaseHandler, Vacated, TableTypes
    <3>3. handler[k] = p
      BY <2>2, <2>4
    <3> QED BY <1>1, <2>2, <2>3, <2>4, <3>2, <3>3
  <2>5. CASE ~ (k + MinVector = vector /\ vector >= MinVector /\ vector < MaxHandlers)
    <3>1. handler'[k] = handler[k]
      BY <2>1, <2>5, <1>1 DEF ReleaseHandler, Vacated, TableTypes
    <3>2. CASE k + MinVector = vector
      <4>1. vector >= MinVector /\ k + MinVector >= MaxHandlers
        BY <3>2, <2>5, <2>1, <1>1 DEF Indexes
      <4> QED BY <2>2, <2>3, <3>1, <4>1
    <3>3. CASE k + MinVector # vector
      BY <2>2, <2>3, <3>1, <3>3
    <3> QED BY <3>2, <3>3
  <2> QED BY <2>4, <2>5
<1> QED BY <1>2, <1>3 DEF VectorsKept

LEMMA LeavingKeepsVectors ==
  ASSUME TableTypes, VectorsKept, NEW p \in Processes, ReleaseProcess(p)
  PROVE  TableTypes' /\ VectorsKept'
BY InterruptsAssumption DEF ReleaseProcess, TableTypes, VectorsKept, Owners

LEMMA StepKeepsVectors ==
  ASSUME TableTypes, VectorsKept, InterruptsNext
  PROVE  TableTypes' /\ VectorsKept'
<1>1. ASSUME UNCHANGED handlerVars PROVE TableTypes' /\ VectorsKept'
  BY <1>1 DEF handlerVars, TableTypes, VectorsKept
<1>2. ASSUME NEW p \in Processes, AcquireHandler(p) PROVE TableTypes' /\ VectorsKept'
  <2>1. CASE HasFree(handler)
    <3>1. DOMAIN handler = Indexes /\ Indexes \subseteq Nat
      BY InterruptsAssumption DEF TableTypes, Indexes
    <3>2. FirstFree(handler) \in Indexes /\ handler[FirstFree(handler)] = Nobody
      BY <2>1, <3>1, FirstFreeIsFree
    <3> QED BY <1>2, <2>1, <3>2, GiveKeepsVectors DEF AcquireHandler
  <2>2. CASE ~ HasFree(handler)
    BY <1>1, <1>2, <2>2 DEF AcquireHandler
  <2> QED BY <2>1, <2>2
<1>3. ASSUME NEW p \in Processes, NEW vector \in 0 .. MaxHandlers, LockHandler(p, vector)
      PROVE  TableTypes' /\ VectorsKept'
  <2>1. vector - MinVector \in Indexes
    BY <1>3, InterruptsAssumption DEF LockHandler, Indexes
  <2> QED BY <1>3, <2>1, GiveKeepsVectors DEF LockHandler
<1>4. ASSUME NEW p \in Processes, UNCHANGED handlerVars \/ ReleaseProcess(p)
      PROVE  TableTypes' /\ VectorsKept'
  BY <1>1, <1>4, LeavingKeepsVectors
<1>5. ASSUME NEW p \in Processes,
             \/ AcquireExternal(p)
             \/ \E count \in 1 .. MaxAllowed : AcquireClamped(p, count)
             \/ \E e \in Numbers : LockExternal(p, e)
             \/ \E e \in granted[p] : ReleaseExternal(p, e)
             \/ \E e \in granted[p], mask \in BOOLEAN : UpdateExternal(p, e, mask)
             \/ \E reachable \in BOOLEAN : Program(p, reachable)
      PROVE  UNCHANGED handlerVars
  BY <1>5 DEF AcquireExternal, AcquireClamped, LockExternal, ReleaseExternal,
              UpdateExternal, Program, Take, handlerVars
<1> QED BY <1>1, <1>2, <1>3, <1>4, <1>5, ReleaseKeepsVectors DEF InterruptsNext

-----------------------------------------------------------------------------
(* The externals. *)
RoutingInv == RoutingTypes /\ UsersOwn /\ RoutesFollowOwners

LEMMA InitKeepsRoutes ==
  ASSUME InterruptsInit
  PROVE  RoutingInv
<1>1. RoutingTypes
  BY DEF InterruptsInit, RoutingTypes, Owners
<1>2. UsersOwn
  BY DEF InterruptsInit, UsersOwn
<1>3. RoutesFollowOwners
  BY ExternalFacts DEF InterruptsInit, RoutesFollowOwners
<1> QED BY <1>1, <1>2, <1>3 DEF RoutingInv

LEMMA OneOwner ==
  ASSUME RoutingTypes, NEW p, NEW q, NEW e, Owns(p, e), Owns(q, e)
  PROVE  p = q
BY ExternalFacts DEF RoutingTypes, Owns

(* An external with every entry that is taken along and every one that had an  *)
(* owner before gone astray.                                                 *)
LEMMA TakeKeepsRoutes ==
  ASSUME RoutingInv, NEW p \in Processes, calls[p] = NoCall,
         NEW taken \in SUBSET DOMAIN Externals, NEW i \in taken, NEW stray,
         \A j \in taken : owner[j] # Nobody => Externals[j] \in stray,
         \A j \in taken : j # i => Externals[j] \in stray,
         Take(p, taken, Externals[i], stray)
  PROVE  RoutingInv'
<1>1. Nobody \notin Processes /\ DOMAIN owner = DOMAIN Externals
  BY InterruptsAssumption DEF RoutingInv, RoutingTypes
<1>2. /\ owner' = [j \in DOMAIN Externals |-> IF j \in taken THEN p ELSE owner[j]]
      /\ calls' = [calls EXCEPT ![p] = Externals[i]]
      /\ \A q \in Processes : calls'[q] = IF q = p THEN Externals[i] ELSE calls[q]
      /\ astray' = astray \union stray
      /\ route' = route /\ granted' = granted /\ silenced' = silenced
  BY <1>1 DEF Take, RoutingInv, RoutingTypes
<1>3. RoutingTypes'
  BY <1>2, ExternalFacts DEF RoutingInv, RoutingTypes, Owners
<1>4. ASSUME NEW q \in Processes, NEW e, Owns(q, e)
      PROVE  Owns(q, e)' \/ e \in astray'
  <2>1. PICK j \in DOMAIN Externals : Externals[j] = e /\ owner[j] = q
    BY <1>1, <1>4 DEF Owns
  <2>2. CASE j \in taken
    BY <2>1, <2>2, <1>1, <1>2
  <2>3. CASE j \notin taken
    <3>1. j \in DOMAIN owner' /\ owner'[j] = q
      BY <2>1, <2>3, <1>2
    <3> QED BY <3>1, <2>1 DEF Owns
  <2> QED BY <2>2, <2>3
<1>5. UsersOwn'
  <2>1. Owns(p, Externals[i])'
    BY <1>2 DEF Owns
  <2>2. ASSUME NEW q \in Processes, calls'[q] # NoCall
        PROVE  Owns(q, calls[q])' \/ calls'[q] \in astray'
    <3>1. CASE q = p
      BY <3>1, <2>1, <1>2
    <3>2. CASE q # p
      <4>1. calls'[q] = calls[q] /\ (Owns(q, calls[q]) \/ calls[q] \in astray)
        BY <3>2, <2>2, <1>2 DEF RoutingInv, UsersOwn
      <4>2. PICK e : e = calls[q]
        OBVIOUS
      <4>3. Owns(q, e)' \/ e \in astray'
        BY <4>1, <4>2, <1>4, <1>2
      <4> QED BY <4>1, <4>2, <4>3 DEF Owns
    <3> QED BY <3>1, <3>2
  <2>3. ASSUME NEW q \in Processes, NEW e \in granted'[q] PROVE Owns(q, e)' \/ e \in astray'
    <3>1. Owns(q, e) \/ e \in astray
      BY <2>3, <1>2 DEF RoutingInv, UsersOwn
    <3> QED BY <3>1, <1>4, <1>2
  <2> QED BY <2>2, <2>3 DEF UsersOwn
<1>6. RoutesFollowOwners'
  <2> SUFFICES ASSUME NEW j \in DOMAIN Externals
      PROVE \/ Externals[j] \in astray'
            \/ owner'[j] \in Processes /\ calls'[owner'[j]] = Externals[j]
            \/ route'[Externals[j]] =
                 IF owner'[j] = Nobody \/ Externals[j] \in silenced' THEN Masked ELSE owner'[j]
    BY <1>2 DEF RoutesFollowOwners
  <2>1. CASE j = i
    BY <2>1, <1>2
  <2>2. CASE j \in taken /\ j # i
    BY <2>2, <1>2
  <2>3. CASE j \notin taken
    <3>1. owner'[j] = owner[j]
      BY <2>3, <1>2
    <3>2. \/ Externals[j] \in astray
          \/ owner[j] \in Processes /\ calls[owner[j]] = Externals[j]
          \/ route[Externals[j]] =
               IF owner[j] = Nobody \/ Externals[j] \in silenced THEN Masked ELSE owner[j]
      BY <1>1 DEF RoutingInv, RoutesFollowOwners
    <3>3. calls[p] # Externals[j]
      BY ExternalFacts
    <3> QED BY <3>1, <3>2, <3>3, <1>2
  <2> QED BY <2>1, <2>2, <2>3
<1> QED BY <1>3, <1>5, <1>6 DEF RoutingInv

LEMMA LeavingKeepsRoutes ==
  ASSUME RoutingInv, NEW p \in Processes, ReleaseProcess(p)
  PROVE  RoutingInv'
<1>1. DOMAIN owner = DOMAIN Externals
  BY DEF RoutingInv, RoutingTypes
<1>2. /\ owner' = [j \in DOMAIN Externals |-> IF owner[j] = p THEN Nobody ELSE owner[j]]
      /\ \A q \in Processes : granted'[q] = IF q = p THEN {} ELSE granted[q]
      /\ \A j \in DOMAIN Externals : owner[j] = p => Externals[j] \in astray'
      /\ calls[p] # NoCall => calls[p] \in astray'
      /\ astray \subseteq astray'
      /\ route' = route /\ calls' = calls /\ silenced' = silenced
  BY <1>1 DEF ReleaseProcess, RoutingInv, RoutingTypes
<1>3. RoutingTypes'
  BY <1>2 DEF ReleaseProcess, RoutingInv, RoutingTypes, Owners
<1>4. \A q \in Processes, e \in Nat \union {NoCall} : q # p /\ Owns(q, e) => Owns(q, e)'
  BY <1>1, <1>2 DEF Owns
<1>5. UsersOwn'
  <2>1. ASSUME NEW q \in Processes, calls'[q] # NoCall
        PROVE  Owns(q, calls[q])' \/ calls'[q] \in astray'
    <3>1. CASE q = p
      BY <3>1, <2>1, <1>2
    <3>2. CASE q # p
      <4>1. PICK e : e = calls[q]
        OBVIOUS
      <4>2. e \in Nat \union {NoCall} /\ e = calls'[q]
        BY <4>1, <1>2, ExternalFacts DEF RoutingInv, RoutingTypes
      <4>3. Owns(q, e) \/ e \in astray
        BY <4>1, <4>2, <2>1 DEF RoutingInv, UsersOwn
      <4>4. Owns(q, e)' \/ e \in astray'
        BY <4>2, <4>3, <3>2, <1>4, <1>2
      <4> QED BY <4>2, <4>4 DEF Owns
    <3> QED BY <3>1, <3>2
  <2>2. ASSUME NEW q \in Processes, NEW e \in granted'[q] PROVE Owns(q, e)' \/ e \in astray'
    <3>1. q # p /\ e \in granted[q] /\ e \in Nat
      BY <2>2, <1>2, ExternalFacts DEF RoutingInv, RoutingTypes
    <3>2. Owns(q, e) \/ e \in astray
      BY <3>1 DEF RoutingInv, UsersOwn
    <3> QED BY <3>1, <3>2, <1>4, <1>2
  <2> QED BY <2>1, <2>2 DEF UsersOwn
<1>6. RoutesFollowOwners'
  <2> SUFFICES ASSUME NEW j \in DOMAIN Externals
      PROVE \/ Externals[j] \in astray'
            \/ owner'[j] \in Processes /\ calls'[owner'[j]] = Externals[j]
            \/ route'[Externals[j]] =
                 IF owner'[j] = Nobody \/ Externals[j] \in silenced' THEN Masked ELSE owner'[j]
    BY <1>2 DEF RoutesFollowOwners
  <2>1. CASE owner[j] = p
    BY <2>1, <1>2
  <2>2. CASE owner[j] # p
    <3>1. owner'[j] = owner[j]
      BY <2>2, <1>2
    <3>2. \/ Externals[j] \in astray
          \/ owner[j] \in Processes /\ calls[owner[j]] = Externals[j]
          \/ route[Externals[j]] =
               IF owner[j] = Nobody \/ Externals[j] \in silenced THEN Masked ELSE owner[j]
      BY <1>1 DEF RoutingInv, RoutesFollowOwners
    <3> QED BY <3>1, <3>2, <1>2
  <2> QED BY <2>1, <2>2
<1> QED BY <1>3, <1>5, <1>6 DEF RoutingInv

LEMMA ProgramKeepsRoutes ==
  ASSUME RoutingInv, NEW p \in Processes, NEW e, e = calls[p], e # NoCall,
         Program(p, TRUE), Served(e)
  PROVE  RoutingInv'
<1>1. /\ DOMAIN owner = DOMAIN Externals /\ e \in Numbers /\ Nobody \notin Processes
      /\ Owns(p, e) \/ e \in astray
  BY InterruptsAssumption DEF RoutingInv, RoutingTypes, UsersOwn
<1>2. /\ route' = [route EXCEPT ![e] = p]
      /\ \A q \in Processes : granted'[q] = IF q = p THEN granted[q] \union {e} ELSE granted[q]
      /\ silenced' = silenced \ {e}
      /\ astray' = IF Agreed(p, e) THEN astray \ {e} ELSE astray
      /\ \A q \in Processes : calls'[q] = IF q = p THEN NoCall ELSE calls[q]
      /\ owner' = owner
  BY DEF Program, RoutingInv, RoutingTypes
<1>3. RoutingTypes'
  BY <1>1 DEF Program, RoutingInv, RoutingTypes
<1>4. \A q, x : Owns(q, x)' <=> Owns(q, x)
  BY <1>2 DEF Owns
<1>5. ASSUME NEW q \in Processes, NEW x, Owns(q, x) \/ x \in astray,
             q # p, x \in granted[q] \/ x = calls[q]
      PROVE  Owns(q, x)' \/ x \in astray'
  <2>1. x = e => ~ Agreed(p, e)
    BY <1>5 DEF Agreed
  <2> QED BY <2>1, <1>2, <1>4, <1>5
<1>6. UsersOwn'
  <2>1. ASSUME NEW q \in Processes, calls'[q] # NoCall
        PROVE  Owns(q, calls[q])' \/ calls'[q] \in astray'
    <3>1. PICK x : x = calls[q]
      OBVIOUS
    <3>2. q # p /\ x = calls'[q]
      BY <2>1, <3>1, <1>2
    <3>3. Owns(q, x) \/ x \in astray
      BY <3>1, <3>2, <2>1 DEF RoutingInv, UsersOwn
    <3>4. Owns(q, x)' \/ x \in astray'
      BY <3>1, <3>2, <3>3, <1>5
    <3> QED BY <3>2, <3>4 DEF Owns
  <2>2. ASSUME NEW q \in Processes, NEW x \in granted'[q] PROVE Owns(q, x)' \/ x \in astray'
    <3>1. CASE q # p
      BY <2>2, <3>1, <1>2, <1>5 DEF RoutingInv, UsersOwn
    <3>2. CASE q = p /\ x = e
      <4>1. Agreed(p, e) => Owns(p, e)
        BY DEF Agreed
      <4> QED BY <3>2, <4>1, <1>1, <1>2, <1>4
    <3>3. CASE q = p /\ x # e
      <4>1. Owns(q, x) \/ x \in astray
        BY <2>2, <3>3, <1>2 DEF RoutingInv, UsersOwn
      <4> QED BY <3>3, <4>1, <1>2, <1>4
    <3> QED BY <3>1, <3>2, <3>3
  <2> QED BY <2>1, <2>2 DEF UsersOwn
<1>7. RoutesFollowOwners'
  <2> SUFFICES ASSUME NEW j \in DOMAIN Externals
      PROVE \/ Externals[j] \in astray'
            \/ owner'[j] \in Processes /\ calls'[owner'[j]] = Externals[j]
            \/ route'[Externals[j]] =
                 IF owner'[j] = Nobody \/ Externals[j] \in silenced' THEN Masked ELSE owner'[j]
    BY <1>1, <1>2 DEF RoutesFollowOwners
  <2>1. CASE Externals[j] = e /\ Owns(p, e)
    <3>1. owner[j] = p
      BY <2>1, <1>1, ExternalFacts DEF Owns
    <3>2. route'[e] = p
      BY <1>1, <1>2 DEF RoutingInv, RoutingTypes
    <3> QED BY <2>1, <3>1, <3>2, <1>1, <1>2
  <2>2. CASE Externals[j] = e /\ ~ Owns(p, e)
    <3>1. ~ Agreed(p, e)
      BY <2>2 DEF Agreed
    <3> QED BY <2>2, <3>1, <1>1, <1>2
  <2>3. CASE Externals[j] # e
    <3>1. \/ Externals[j] \in astray
          \/ owner[j] \in Processes /\ calls[owner[j]] = Externals[j]
          \/ route[Externals[j]] =
               IF owner[j] = Nobody \/ Externals[j] \in silenced THEN Masked ELSE owner[j]
      BY <1>1 DEF RoutingInv, RoutesFollowOwners
    <3>2. route'[Externals[j]] = route[Externals[j]]
      BY <2>3, <1>2, ExternalFacts DEF RoutingInv, RoutingTypes
    <3> QED BY <2>3, <3>1, <3>2, <1>2
  <2> QED BY <2>1, <2>2, <2>3
<1> QED BY <1>3, <1>6, <1>7 DEF RoutingInv

LEMMA ReleaseKeepsRoutes ==
  ASSUME RoutingInv, NEW p \in Processes, NEW e \in granted[p], calls[p] = NoCall,
         ReleaseExternal(p, e)
  PROVE  RoutingInv'
<1>1. /\ DOMAIN owner = DOMAIN Externals /\ e \in Numbers /\ Nobody \notin Processes
      /\ Owns(p, e) \/ e \in astray
  BY InterruptsAssumption DEF RoutingInv, RoutingTypes, UsersOwn
<1>2. /\ route' = [route EXCEPT ![e] = Masked]
      /\ \A q \in Processes : granted'[q] = IF q = p THEN granted[q] \ {e} ELSE granted[q]
      /\ silenced' = silenced \ {e}
      /\ astray' = IF Agreed(p, e) THEN astray \ {e} ELSE astray
      /\ owner' = [j \in DOMAIN Externals |-> IF Externals[j] = e THEN Nobody ELSE owner[j]]
      /\ calls' = calls
  BY <1>1 DEF ReleaseExternal, Cleared, RoutingInv, RoutingTypes
<1>3. RoutingTypes'
  BY <1>1, <1>2 DEF ReleaseExternal, RoutingInv, RoutingTypes, Owners
<1>4. ASSUME NEW q \in Processes, NEW x, Owns(q, x) \/ x \in astray,
             q # p \/ x # e, x \in granted[q] \/ x = calls[q]
      PROVE  Owns(q, x)' \/ x \in astray'
  <2>1. CASE x # e
    BY <2>1, <1>1, <1>2, <1>4 DEF Owns
  <2>2. CASE x = e
    <3>1. ~ Agreed(p, e)
      BY <2>2, <1>4 DEF Agreed
    <3>2. e \in astray
      BY <2>2, <1>1, <1>4, OneOwner DEF RoutingInv
    <3> QED BY <2>2, <3>1, <3>2, <1>2
  <2> QED BY <2>1, <2>2
<1>5. UsersOwn'
  <2>1. ASSUME NEW q \in Processes, calls'[q] # NoCall
        PROVE  Owns(q, calls[q])' \/ calls'[q] \in astray'
    <3>1. PICK x : x = calls[q]
      OBVIOUS
    <3>2. q # p /\ x = calls'[q]
      BY <2>1, <3>1, <1>2
    <3>3. Owns(q, x) \/ x \in astray
      BY <3>1, <3>2, <2>1 DEF RoutingInv, UsersOwn
    <3>4. Owns(q, x)' \/ x \in astray'
      BY <3>1, <3>2, <3>3, <1>4
    <3> QED BY <3>2, <3>4 DEF Owns
  <2>2. ASSUME NEW q \in Processes, NEW x \in granted'[q] PROVE Owns(q, x)' \/ x \in astray'
    BY <2>2, <1>2, <1>4 DEF RoutingInv, UsersOwn
  <2> QED BY <2>1, <2>2 DEF UsersOwn
<1>6. RoutesFollowOwners'
  <2> SUFFICES ASSUME NEW j \in DOMAIN Externals
      PROVE \/ Externals[j] \in astray'
            \/ owner'[j] \in Processes /\ calls'[owner'[j]] = Externals[j]
            \/ route'[Externals[j]] =
                 IF owner'[j] = Nobody \/ Externals[j] \in silenced' THEN Masked ELSE owner'[j]
    BY <1>2 DEF RoutesFollowOwners
  <2>1. CASE Externals[j] = e
    <3>1. owner'[j] = Nobody
      BY <2>1, <1>2
    <3>2. route'[e] = Masked
      BY <1>1, <1>2 DEF RoutingInv, RoutingTypes
    <3> QED BY <2>1, <3>1, <3>2
  <2>2. CASE Externals[j] # e
    <3>1. \/ Externals[j] \in astray
          \/ owner[j] \in Processes /\ calls[owner[j]] = Externals[j]
          \/ route[Externals[j]] =
               IF owner[j] = Nobody \/ Externals[j] \in silenced THEN Masked ELSE owner[j]
      BY <1>1 DEF RoutingInv, RoutesFollowOwners
    <3>2. /\ route'[Externals[j]] = route[Externals[j]] /\ owner'[j] = owner[j]
          /\ Externals[j] \in silenced' <=> Externals[j] \in silenced
          /\ Externals[j] \in astray => Externals[j] \in astray'
      BY <2>2, <1>2, ExternalFacts DEF RoutingInv, RoutingTypes
    <3> QED BY <3>1, <3>2, <1>2
  <2> QED BY <2>1, <2>2
<1> QED BY <1>3, <1>5, <1>6 DEF RoutingInv

LEMMA UpdateKeepsRoutes ==
  ASSUME RoutingInv, NEW p \in Processes, NEW e \in granted[p], NEW mask \in BOOLEAN,
         UpdateExternal(p, e, mask)
  PROVE  RoutingInv'
<1>1. /\ DOMAIN owner = DOMAIN Externals /\ e \in Numbers /\ Nobody \notin Processes
      /\ Owns(p, e) \/ e \in astray
  BY InterruptsAssumption DEF RoutingInv, RoutingTypes, UsersOwn
<1>2. /\ route' = [route EXCEPT ![e] = IF mask THEN Masked ELSE p]
      /\ silenced' = IF mask THEN silenced \union {e} ELSE silenced \ {e}
      /\ owner' = owner /\ calls' = calls /\ granted' = granted /\ astray' = astray
  BY DEF UpdateExternal
<1>3. RoutingTypes' /\ UsersOwn'
  BY <1>2 DEF RoutingInv, RoutingTypes, UsersOwn, Owns
<1>4. RoutesFollowOwners'
  <2> SUFFICES ASSUME NEW j \in DOMAIN Externals
      PROVE \/ Externals[j] \in astray
            \/ owner[j] \in Processes /\ calls[owner[j]] = Externals[j]
            \/ route'[Externals[j]] =
                 IF owner[j] = Nobody \/ Externals[j] \in silenced' THEN Masked ELSE owner[j]
    BY <1>1, <1>2 DEF RoutesFollowOwners
  <2>1. CASE Externals[j] = e
    <3>1. Owns(p, e) => owner[j] = p
      BY <2>1, <1>1, ExternalFacts DEF Owns
    <3>2. route'[e] = IF mask THEN Masked ELSE p
      BY <1>1, <1>2 DEF RoutingInv, RoutingTypes
    <3>3. e \in silenced' <=> mask
      BY <1>2
    <3> QED BY <2>1, <3>1, <3>2, <3>3, <1>1
  <2>2. CASE Externals[j] # e
    <3>1. \/ Externals[j] \in astray
          \/ owner[j] \in Processes /\ calls[owner[j]] = Externals[j]
          \/ route[Externals[j]] =
               IF owner[j] = Nobody \/ Externals[j] \in silenced THEN Masked ELSE owner[j]
      BY <1>1 DEF RoutingInv, RoutesFollowOwners
    <3>2. /\ route'[Externals[j]] = route[Externals[j]]
          /\ Externals[j] \in silenced' <=> Externals[j] \in silenced
      BY <2>2, <1>2, ExternalFacts DEF RoutingInv, RoutingTypes
    <3> QED BY <3>1, <3>2
  <2> QED BY <2>1, <2>2
<1> QED BY <1>3, <1>4 DEF RoutingInv

LEMMA StepKeepsRoutes ==
  ASSUME RoutingInv, InterruptsNext
  PROVE  RoutingInv'
<1>1. /\ DOMAIN owner = DOMAIN Externals /\ DOMAIN owner \subseteq Nat
  BY ExternalFacts DEF RoutingInv, RoutingTypes
<1>2. ASSUME UNCHANGED externalVars PROVE RoutingInv'
  BY <1>2 DEF externalVars, RoutingInv, RoutingTypes, UsersOwn, Owns, RoutesFollowOwners
<1>3. ASSUME NEW p \in Processes, calls[p] = NoCall, AcquireExternal(p) PROVE RoutingInv'
  <2>1. CASE HasFree(owner)
    <3>1. PICK j \in DOMAIN Externals : j = FirstFree(owner) /\ owner[j] = Nobody
      BY <2>1, <1>1, FirstFreeIsFree
    <3>2. Take(p, {j}, Externals[j], {})
      BY <1>3, <2>1, <3>1 DEF AcquireExternal
    <3>3. /\ {j} \in SUBSET DOMAIN Externals /\ j \in {j}
          /\ \A k \in {j} : owner[k] # Nobody => Externals[k] \in {}
          /\ \A k \in {j} : k # j => Externals[k] \in {}
      BY <3>1
    <3> QED BY <3>2, <3>3, <1>3, TakeKeepsRoutes
  <2>2. CASE ~ HasFree(owner)
    BY <1>2, <1>3, <2>2 DEF AcquireExternal
  <2> QED BY <2>1, <2>2
<1>4. ASSUME NEW p \in Processes, calls[p] = NoCall,
             NEW count \in 1 .. MaxAllowed, AcquireClamped(p, count)
      PROVE  RoutingInv'
  <2> DEFINE free  == {j \in DOMAIN owner : owner[j] = Nobody}
             taken == {j \in free : Cardinality({k \in free : k < j}) < count}
  <2>1. PICK i \in taken :
          Take(p, taken, Externals[i], {Externals[j] : j \in taken \ {i}})
    BY <1>4 DEF AcquireClamped
  <2>2. taken \in SUBSET DOMAIN Externals /\ \A j \in taken : owner[j] = Nobody
    BY <1>1
  <2> HIDE DEF taken
  <2>3. \A j \in taken : j # i => Externals[j] \in {Externals[k] : k \in taken \ {i}}
    OBVIOUS
  <2> QED BY <1>4, <2>1, <2>2, <2>3, TakeKeepsRoutes
<1>5. ASSUME NEW p \in Processes, calls[p] = NoCall, NEW e \in Numbers, LockExternal(p, e)
      PROVE  RoutingInv'
  <2>1. PICK j \in DOMAIN Externals :
          /\ Externals[j] = e
          /\ Take(p, {j}, Externals[j], IF owner[j] = Nobody THEN {} ELSE {e})
    BY <1>5 DEF LockExternal
  <2>2. owner[j] # Nobody => Externals[j] \in IF owner[j] = Nobody THEN {} ELSE {e}
    BY <2>1
  <2>3. {j} \in SUBSET DOMAIN Externals /\ j \in {j} /\ \A k \in {j} : k = j
    OBVIOUS
  <2>4. \A k \in {j} : owner[k] # Nobody => Externals[k] \in IF owner[j] = Nobody THEN {} ELSE {e}
    BY <2>2
  <2>5. \A k \in {j} : k # j => Externals[k] \in IF owner[j] = Nobody THEN {} ELSE {e}
    OBVIOUS
  <2> QED BY <1>5, <2>1, <2>3, <2>4, <2>5, TakeKeepsRoutes
<1>6. ASSUME NEW p \in Processes, NEW reachable \in BOOLEAN, Program(p, reachable)
      PROVE  RoutingInv'
  <2>1. PICK e : e = calls[p]
    OBVIOUS
  <2>2. CASE reachable /\ Served(e)
    <3>1. reachable = TRUE
      BY <2>2
    <3> QED BY <1>6, <2>1, <2>2, <3>1, ProgramKeepsRoutes DEF Program
  <2>3. CASE ~ (reachable /\ Served(e))
    BY <1>2, <1>6, <2>1, <2>3 DEF Program
  <2> QED BY <2>2, <2>3
<1>7. ASSUME NEW p \in Processes,
             \/ AcquireHandler(p)
             \/ \E vec \in 0 .. MaxHandlers : LockHandler(p, vec)
             \/ \E vec \in held[p] : ReleaseHandler(p, vec)
      PROVE  RoutingInv'
  BY <1>2, <1>7 DEF AcquireHandler, LockHandler, ReleaseHandler, Give
<1> QED BY <1>3, <1>4, <1>5, <1>6, <1>7, ReleaseKeepsRoutes, UpdateKeepsRoutes,
           LeavingKeepsRoutes DEF InterruptsNext

-----------------------------------------------------------------------------
(* In every reachable state of the interrupt table what a process was given    *)
(* and what the table says agree, and a process that programs or uses an       *)
(* external owns it, unless it has gone astray.                               *)
THEOREM InterruptsInvariant == InterruptsSpec => []InterruptsInv
<1> USE DEF RoutingInv, InterruptsInv
<1>1. InterruptsInit => InterruptsInv
  BY InitKeepsVectors, InitKeepsRoutes
<1>2. InterruptsInv /\ [InterruptsNext]_interruptVars => InterruptsInv'
  <2>1. InterruptsInv /\ InterruptsNext => InterruptsInv'
    BY StepKeepsVectors, StepKeepsRoutes
  <2>2. InterruptsInv /\ UNCHANGED interruptVars => InterruptsInv'
    BY DEF interruptVars, TableTypes, VectorsKept, RoutingTypes, UsersOwn, Owns,
           RoutesFollowOwners
  <2> QED BY <2>1, <2>2
<1> QED BY <1>1, <1>2, PTL DEF InterruptsSpec

(* A vector stays its process's own until it is released, whatever the others   *)
(* acquire, lock, release or leave behind (interrupts.c:92-228).              *)
THEOREM VectorsStayOwned == InterruptsSpec => []VectorsKept
BY InterruptsInvariant, PTL DEF InterruptsInv

(* An external interrupt goes to the owner of its entry and to no other, though *)
(* the register is written with the lock released.                            *)
THEOREM RoutesFollow == InterruptsSpec => []RoutesFollowOwners
BY InterruptsInvariant, PTL DEF InterruptsInv

-----------------------------------------------------------------------------
(* The start of the processors: where the first is, where the others are.     *)
Asleep == {"off", "signalled", "held"}
Meeting == {"first point", "second point", "third point"}
Whereabouts == Asleep \union {"info", "writing", "sync"} \union Meeting
            \union {"last point", "local", "test", "done"}

Early == {"timers", "start", "wait", "wait again"}
Late == {"clock", "global", "local", "done"}
Stages == Early \union {"info", "interlink", "sync"} \union Meeting \union Late \union {"panic"}

Where(places) == {p \in Others : ap[p] \in places}
Entered == {p \in Others : ap[p] \notin Asleep}
Written == {p \in Others : ap[p] \notin Asleep \union {"info", "writing"}}

StartupTypes ==
  /\ bsp \in Stages
  /\ ap \in [Others -> Whereabouts]
  /\ target \subseteq Others
  /\ DOMAIN timers = {"external", "counter", "hpet"}
  /\ DOMAIN stack = {"next", "of"} /\ stack.next \in Nat /\ stack.of \in [Others -> Nat]
  /\ DOMAIN id = {"next", "of"} /\ id.next \in Nat /\ id.of \in [Others -> Nat]
  /\ DOMAIN sysinfo = {"general", "cpus", "writing"}
  /\ sysinfo.general \in BOOLEAN /\ sysinfo.cpus \subseteq Nat /\ sysinfo.writing \in BOOLEAN
  /\ DOMAIN points = {"first", "third"} /\ points.first \in Nat /\ points.third \in Nat
  /\ table \in BOOLEAN /\ synced \in BOOLEAN

(* One processor at a time is signalled, and the stack for it is a new one.   *)
StackInv ==
  /\ \A p \in Others : stack.of[p] <= stack.next
  /\ \A p, q \in Others : p # q /\ stack.of[p] = stack.of[q] => stack.of[p] = 0
  /\ \A p, q \in Others : ap[p] = "signalled" => stack.of[q] < stack.next
  /\ \A p, q \in Others : ap[p] = "signalled" /\ ap[q] = "signalled" => p = q
  /\ bsp \in {"timers", "start"} => \A p \in Others : ap[p] # "signalled"
  /\ \A p \in target : ap[p] = "off"

(* The processors that have entered have the identifiers from one on.         *)
IdInv ==
  /\ \A p \in Others : id.of[p] = 0 <=> ap[p] \in Asleep
  /\ \A p, q \in Others : p # q /\ id.of[p] = id.of[q] => id.of[p] = 0
  /\ id.next = 1 + Cardinality(Entered)
  /\ {id.of[p] : p \in Entered} = 1 .. id.next - 1

(* Who has written its information is in it, and one writes at a time.        *)
InfoInv ==
  /\ "wait" \in flags => bsp \notin Early
  /\ "topology" \in flags => bsp \notin Early \union {"info"}
  /\ \A p, q \in Others : ap[p] = "writing" /\ ap[q] = "writing" => p = q
  /\ sysinfo.writing => \E p \in Others : ap[p] = "writing"
  /\ \A p \in Others : ap[p] = "writing" => sysinfo.writing
  /\ bsp \notin Early \union {"info", "panic"} =>
       sysinfo.general /\ sysinfo.cpus = {0} \union {id.of[p] : p \in Written}

(* The counter of a sync point says how many wait there; who has not come to   *)
(* a sync point finds it in front of the first processor.                     *)
MeetingInv ==
  /\ ~ misused
  /\ bsp \in Early => \A p \in Others : ap[p] \in Asleep
  /\ bsp = "info" => \A p \in Others : ap[p] \in Asleep \union {"info"}
  /\ bsp \in Early \union {"info"} => points.first = 0 /\ points.third = 0
  /\ bsp \in Early \union {"info", "interlink", "sync", "first point", "second point"} => "second" \notin flags
  /\ bsp \in Early \union {"info", "interlink", "sync"} \union Meeting => ~ synced
  /\ bsp \in {"interlink", "sync", "first point"} /\ timers.counter = "tsc" =>
       /\ \A p \in Others : ap[p] \in Asleep \union {"info", "writing", "sync", "first point"}
       /\ points.first = Cardinality(Where({"first point"})) /\ points.third = 0
  /\ bsp = "first point" => timers.counter = "tsc"
  /\ bsp \in Meeting => table
  /\ bsp = "second point" => /\ \A p \in Others : ap[p] \in {"first point", "second point"}
                             /\ points.first = 0 /\ points.third = 0
  /\ bsp = "third point" => /\ \A p \in Others : ap[p] \in Meeting \union {"last point"}
                            /\ points.first = 0
                            /\ points.third = Cardinality(Where({"last point"}))
  /\ bsp \in Late /\ synced =>
       \A p \in Others : ap[p] \in {"last point", "local", "test", "done"}
  /\ bsp \in {"global", "local", "done"} /\ synced => points.third = 0
  /\ bsp \in Late /\ ~ synced => timers.counter # "tsc" \/ Others = {}
  /\ bsp \in {"interlink", "sync"} \union Late /\ ~ synced /\ timers.counter # "tsc" =>
       \A p \in Others : ap[p] \notin Meeting

(* A scheduler is initialised once its processor has been through it.         *)
SchedulersInv ==
  /\ bsp \notin {"local", "done"} =>
       /\ DOMAIN schedulers = {} /\ "schedulers" \notin flags
       /\ \A p \in Others : ap[p] \notin {"test", "done"}
  /\ bsp \in {"local", "done"} =>
       /\ DOMAIN schedulers = 0 .. OtherCount
       /\ \A i \in 0 .. OtherCount :
            schedulers[i] = IF \/ i = 0 /\ bsp = "done"
                               \/ \E p \in Others : i = id.of[p] /\ ap[p] \in {"test", "done"}
                            THEN 1 ELSE 0

StartupInv ==
  StartupTypes /\ StackInv /\ IdInv /\ InfoInv /\ MeetingInv /\ SchedulersInv

LEMMA SubsetsCount ==
  /\ OtherCount \in Nat
  /\ OtherCount = 0 => Others = {}
  /\ \A S \in SUBSET Others :
       /\ IsFiniteSet(S) /\ Cardinality(S) \in Nat /\ Cardinality(S) <= OtherCount
       /\ Cardinality(S) >= OtherCount => S = Others
       /\ Cardinality(S) = 0 => S = {}
       /\ \A p \in Others \ S : Cardinality(S \union {p}) = Cardinality(S) + 1
<1>1. IsFiniteSet(Others) /\ OtherCount \in Nat
  BY OthersAssumption, FS_CardinalityType DEF OtherCount
<1>2. OtherCount = 0 => Others = {}
  BY <1>1, FS_EmptySet DEF OtherCount
<1>3. ASSUME NEW S \in SUBSET Others
      PROVE  /\ IsFiniteSet(S) /\ Cardinality(S) \in Nat /\ Cardinality(S) <= OtherCount
             /\ Cardinality(S) >= OtherCount => S = Others
             /\ Cardinality(S) = 0 => S = {}
             /\ \A p \in Others \ S : Cardinality(S \union {p}) = Cardinality(S) + 1
  <2>1. IsFiniteSet(S) /\ Cardinality(S) \in Nat /\ Cardinality(S) <= OtherCount
    BY <1>1, FS_Subset, FS_CardinalityType DEF OtherCount
  <2>2. Cardinality(S) = OtherCount => S = Others
    BY <1>1, FS_Subset DEF OtherCount
  <2>3. Cardinality(S) = 0 => S = {}
    BY <2>1, FS_EmptySet
  <2>4. \A p \in Others \ S : Cardinality(S \union {p}) = Cardinality(S) + 1
    BY <2>1, FS_AddElement
  <2> QED BY <1>1, <2>1, <2>2, <2>3, <2>4
<1> QED BY <1>1, <1>2, <1>3

(* Which steps write a variable that few steps write. *)
LEMMA Writers ==
  ASSUME StartupNext
  PROVE  /\ UNCHANGED stack \/ StartNext \/ \E p \in Others : Wake(p)
         /\ UNCHANGED id \/ \E p \in Others : Enter(p)
         /\ UNCHANGED sysinfo \/ BuildInfo \/ \E p \in Others : WriteInfo(p) \/ InfoWritten(p)
         /\ UNCHANGED points \/ FirstPoint \/ ClockSynced
              \/ \E p \in Others : Arrive(p) \/ CountIn(p)
         /\ UNCHANGED timers \/ TimersInit \/ \E agree \in BOOLEAN : Compare(agree)
BY DEF StartupNext, TimersInit, StartNext, AwaitStart, LetGo, BuildInfo, InterlinkInit, SyncBegin, FirstPoint,
       SecondPoint, Compare, Tick, ClockSynced, InitGlobal, InitLocalBsp, Wake, Enter,
       WriteInfo, InfoWritten, Arrive, SetCounter, WriteCounter, CountIn, Depart,
       InitLocalAp, Finish, BspVars

LEMMA StepKeepsTypes ==
  ASSUME StartupTypes, StartupNext
  PROVE  StartupTypes'
<1>1. DOMAIN stack' = {"next", "of"} /\ stack'.next \in Nat /\ stack'.of \in [Others -> Nat]
  <2>1. CASE StartNext
    BY <2>1 DEF StartNext, StartupTypes
  <2>2. ASSUME NEW p \in Others, Wake(p)
        PROVE  DOMAIN stack' = {"next", "of"} /\ stack'.next \in Nat /\ stack'.of \in [Others -> Nat]
    BY <2>2 DEF Wake, StartupTypes
  <2> QED BY <2>1, <2>2, Writers DEF StartupTypes
<1>2. DOMAIN id' = {"next", "of"} /\ id'.next \in Nat /\ id'.of \in [Others -> Nat]
  <2>1. ASSUME NEW p \in Others, Enter(p)
        PROVE  DOMAIN id' = {"next", "of"} /\ id'.next \in Nat /\ id'.of \in [Others -> Nat]
    BY <2>1 DEF Enter, StartupTypes
  <2> QED BY <2>1, Writers DEF StartupTypes
<1>3. /\ DOMAIN sysinfo' = {"general", "cpus", "writing"} /\ sysinfo'.general \in BOOLEAN
      /\ sysinfo'.cpus \subseteq Nat /\ sysinfo'.writing \in BOOLEAN
  <2>1. CASE BuildInfo
    BY <2>1 DEF BuildInfo, StartupTypes
  <2>2. ASSUME NEW p \in Others, WriteInfo(p) \/ InfoWritten(p)
        PROVE  /\ DOMAIN sysinfo' = {"general", "cpus", "writing"} /\ sysinfo'.general \in BOOLEAN
               /\ sysinfo'.cpus \subseteq Nat /\ sysinfo'.writing \in BOOLEAN
    <3>1. CASE WriteInfo(p)
      BY <3>1 DEF WriteInfo, StartupTypes
    <3>2. CASE InfoWritten(p)
      <4>1. id.of[p] \in Nat
        BY DEF StartupTypes
      <4>2. /\ DOMAIN sysinfo' = DOMAIN sysinfo /\ sysinfo'.general = sysinfo.general
            /\ sysinfo'.cpus = sysinfo.cpus \union {id.of[p]} /\ sysinfo'.writing = FALSE
        BY <3>2 DEF InfoWritten, StartupTypes
      <4> QED BY <4>1, <4>2 DEF StartupTypes
    <3> QED BY <2>2, <3>1, <3>2
  <2> QED BY <2>1, <2>2, Writers DEF StartupTypes
<1>4. DOMAIN points' = {"first", "third"} /\ points'.first \in Nat /\ points'.third \in Nat
  <2>1. CASE FirstPoint
    BY <2>1 DEF FirstPoint, StartupTypes
  <2>3. CASE ClockSynced
    BY <2>3 DEF ClockSynced, StartupTypes
  <2>2. ASSUME NEW p \in Others, Arrive(p) \/ CountIn(p)
        PROVE  DOMAIN points' = {"first", "third"} /\ points'.first \in Nat /\ points'.third \in Nat
    <3>0. /\ DOMAIN points = {"first", "third"} /\ points.first \in Nat /\ points.third \in Nat
          /\ points.first + 1 \in Nat /\ points.third + 1 \in Nat
      BY DEF StartupTypes
    <3>1. CASE Arrive(p)
      <4>1. points' = [points EXCEPT !.first = points.first + 1]
        BY <3>1 DEF Arrive
      <4> QED BY <3>0, <4>1
    <3>2. CASE CountIn(p)
      <4>1. points' = [points EXCEPT !.third = points.third + 1]
        BY <3>2 DEF CountIn
      <4> QED BY <3>0, <4>1
    <3> QED BY <2>2, <3>1, <3>2
  <2> QED BY <2>1, <2>2, <2>3, Writers DEF StartupTypes
<1>5. DOMAIN timers' = {"external", "counter", "hpet"}
  BY Writers DEF TimersInit, Chosen, Compare, StartupTypes
<1>6. bsp' \in Stages /\ target' \subseteq Others /\ table' \in BOOLEAN /\ synced' \in BOOLEAN
  BY DEF StartupTypes, Stages, Early, Late, Meeting, StartupNext, TimersInit, StartNext, AwaitStart,
         LetGo, BuildInfo, InterlinkInit, SyncBegin, FirstPoint, SecondPoint, Compare, Tick, ClockSynced,
         InitGlobal, InitLocalBsp, Wake, Enter, WriteInfo, InfoWritten, Arrive, SetCounter,
         WriteCounter, CountIn, Depart, InitLocalAp, Finish, BspVars
<1>7. ap' \in [Others -> Whereabouts]
  <2>1. \/ UNCHANGED ap
        \/ \E p \in Others, there \in Whereabouts : ap' = [ap EXCEPT ![p] = there]
    <3>1. CASE StartNext
      <4>1. PICK p \in target : ap' = [ap EXCEPT ![p] = "signalled"]
        BY <3>1 DEF StartNext
      <4> QED BY <4>1 DEF Whereabouts, Asleep, StartupTypes
    <3>2. CASE \E p \in Others : Wake(p) \/ Enter(p) \/ WriteInfo(p) \/ InfoWritten(p) \/ Depart(p)
                                 \/ InitLocalAp(p) \/ Finish(p)
      BY <3>2 DEF Wake, Enter, WriteInfo, InfoWritten, Depart, InitLocalAp, Finish, At, Whereabouts, Asleep
    <3>3. CASE \E p \in Others : Arrive(p) \/ SetCounter(p) \/ WriteCounter(p) \/ CountIn(p)
      BY <3>3 DEF Arrive, SetCounter, WriteCounter, CountIn, At, Whereabouts, Meeting
    <3>4. CASE UNCHANGED ap
      BY <3>4
    <3> QED BY <3>1, <3>2, <3>3, <3>4 DEF StartupNext, TimersInit, AwaitStart, LetGo, BuildInfo,
          InterlinkInit, SyncBegin, FirstPoint, SecondPoint, Compare, Tick, ClockSynced, InitGlobal, InitLocalBsp
  <2> QED BY <2>1 DEF StartupTypes
<1> QED BY <1>1, <1>2, <1>3, <1>4, <1>5, <1>6, <1>7 DEF StartupTypes

(* Of the steps that move a processor all but two move one that is awake, and   *)
(* leave the stacks and the first processor alone.                            *)
Onward(p) ==
  /\ ap[p] \notin {"off", "signalled"}
  /\ \E there \in Whereabouts \ {"off", "signalled"} : ap' = [ap EXCEPT ![p] = there]
  /\ UNCHANGED <<stack, target, bsp>>

LEMMA Moves ==
  ASSUME StartupNext
  PROVE  \/ UNCHANGED <<stack, target, ap>> \/ StartNext
         \/ \E p \in Others : Wake(p) \/ Onward(p)
<1>1. \A p \in Others : Enter(p) \/ WriteInfo(p) \/ InfoWritten(p) \/ Depart(p)
                          \/ InitLocalAp(p) \/ Finish(p) => Onward(p)
  BY DEF Enter, WriteInfo, InfoWritten, Depart, InitLocalAp, Finish, At, BspVars, Onward,
         Whereabouts, Asleep
<1>2. \A p \in Others : Arrive(p) \/ SetCounter(p) \/ WriteCounter(p) \/ CountIn(p) => Onward(p)
  BY DEF Arrive, SetCounter, WriteCounter, CountIn, At, BspVars, Onward, Whereabouts, Meeting
<1> QED BY <1>1, <1>2 DEF StartupNext, TimersInit, AwaitStart, LetGo, BuildInfo, InterlinkInit, SyncBegin,
      FirstPoint, SecondPoint, Compare, Tick, ClockSynced, InitGlobal, InitLocalBsp

LEMMA StepKeepsStacks ==
  ASSUME StartupTypes, StackInv, StartupNext
  PROVE  StackInv'
<1>1. CASE UNCHANGED <<stack, target, ap>>
  <2>1. bsp' \in {"timers", "start"} => \A p \in Others : ap[p] # "signalled"
    <3>1. CASE AwaitStart
      BY <3>1 DEF AwaitStart, Signalled
    <3>2. CASE TimersInit
      BY <3>2 DEF TimersInit, StackInv
    <3>3. CASE UNCHANGED bsp
      BY <3>3 DEF StackInv
    <3>4. CASE bsp' \notin {"timers", "start"}
      BY <3>4
    <3> QED BY <3>1, <3>2, <3>3, <3>4 DEF StartupNext, StartNext, LetGo, BuildInfo, InterlinkInit, SyncBegin,
          FirstPoint, SecondPoint, Compare, Tick, ClockSynced, InitGlobal, InitLocalBsp,
          Wake, Enter, WriteInfo, InfoWritten, Arrive, SetCounter, WriteCounter, CountIn,
          Depart, InitLocalAp, Finish, BspVars
  <2> QED BY <1>1, <2>1 DEF StackInv
<1>2. CASE StartNext
  <2>1. /\ stack'.next = stack.next + 1 /\ stack'.of = stack.of
        /\ stack.next \in Nat /\ \A q \in Others : stack.of[q] \in Nat
    BY <1>2 DEF StartNext, StartupTypes
  <2>2. PICK p \in target : target' = target \ {p} /\ ap' = [ap EXCEPT ![p] = "signalled"]
    BY <1>2 DEF StartNext
  <2>3. p \in Others /\ \A q \in Others : ap'[q] = IF q = p THEN "signalled" ELSE ap[q]
    BY <2>2 DEF StartupTypes
  <2>4. \A q \in Others : stack'.of[q] < stack'.next /\ stack'.of[q] <= stack'.next
    BY <2>1 DEF StackInv
  <2>5. \A q \in Others : ap[q] # "signalled"
    BY <1>2 DEF StartNext, StackInv
  <2>6. bsp' = "wait"
    BY <1>2 DEF StartNext
  <2>7. \A q, r \in Others : q # r /\ stack'.of[q] = stack'.of[r] => stack'.of[q] = 0
    BY <2>1 DEF StackInv
  <2>8. \A q \in target' : ap'[q] = "off"
    BY <2>2, <2>3 DEF StackInv, StartupTypes
  <2> QED BY <2>3, <2>4, <2>5, <2>6, <2>7, <2>8 DEF StackInv
<1>3. ASSUME NEW p \in Others, Wake(p) PROVE StackInv'
  <2>1. /\ stack'.next = stack.next /\ stack'.of = [stack.of EXCEPT ![p] = stack.next]
        /\ stack.next \in Nat /\ \A q \in Others : stack.of[q] \in Nat
        /\ \A q \in Others : stack'.of[q] = IF q = p THEN stack.next ELSE stack.of[q]
    BY <1>3 DEF Wake, StartupTypes
  <2>2. /\ ap[p] = "signalled" /\ target' = target /\ bsp' = bsp
        /\ \A q \in Others : ap'[q] = IF q = p THEN "held" ELSE ap[q]
    BY <1>3 DEF Wake, At, StartupTypes
  <2>3. \A q \in Others : stack.of[q] < stack.next
    BY <2>2 DEF StackInv
  <2>4. \A q \in Others : ap'[q] # "signalled"
    BY <2>2 DEF StackInv
  <2>5. \A q \in Others : stack'.of[q] <= stack'.next
    BY <2>1, <2>3
  <2>6. \A q, r \in Others : q # r /\ stack'.of[q] = stack'.of[r] => stack'.of[q] = 0
    BY <2>1, <2>3 DEF StackInv
  <2>7. \A q \in target' : ap'[q] = "off"
    BY <2>2 DEF StackInv, StartupTypes
  <2> QED BY <2>4, <2>5, <2>6, <2>7 DEF StackInv
<1>4. ASSUME NEW p \in Others, Onward(p) PROVE StackInv'
  <2>1. /\ ap[p] \notin {"off", "signalled"} /\ ap'[p] \notin {"off", "signalled"}
        /\ \A q \in Others : q # p => ap'[q] = ap[q]
        /\ stack' = stack /\ target' = target /\ bsp' = bsp
    BY <1>4 DEF Onward, StartupTypes
  <2> QED BY <2>1 DEF StackInv, StartupTypes
<1> QED BY <1>1, <1>2, <1>3, <1>4, Moves

(* From where to where each step takes a processor, and it takes one only. *)
LEMMA Strides ==
  ASSUME StartupTypes, NEW p \in Others
  PROVE  /\ Wake(p) => ap[p] = "signalled" /\ ap'[p] = "held"
         /\ Enter(p) => ap[p] = "held" /\ ap'[p] = "info"
         /\ WriteInfo(p) => ap[p] = "info" /\ ap'[p] = "writing"
         /\ InfoWritten(p) => ap[p] = "writing" /\ ap'[p] = "sync"
         /\ Arrive(p) => ap[p] = "sync" /\ ap'[p] = "first point"
         /\ SetCounter(p) => ap[p] = "first point" /\ ap'[p] = "second point"
         /\ WriteCounter(p) => ap[p] = "second point" /\ ap'[p] = "third point"
         /\ Depart(p) => ap[p] = "last point" /\ ap'[p] = "local"
         /\ InitLocalAp(p) => ap[p] = "local" /\ ap'[p] = "test"
         /\ Finish(p) => ap[p] = "test" /\ ap'[p] = "done"
         /\ CountIn(p) => ap[p] \in {"third point", "sync"} /\ ap'[p] = "last point"
         /\ \/ Wake(p) \/ Enter(p) \/ WriteInfo(p) \/ InfoWritten(p) \/ Arrive(p) \/ SetCounter(p)
            \/ WriteCounter(p) \/ CountIn(p) \/ Depart(p) \/ InitLocalAp(p) \/ Finish(p)
            => \A q \in Others \ {p} : ap'[q] = ap[q]
<1>1. /\ Wake(p) => At(p, "signalled", "held")
      /\ Enter(p) => At(p, "held", "info")
      /\ WriteInfo(p) => At(p, "info", "writing")
      /\ InfoWritten(p) => At(p, "writing", "sync")
  BY DEF Wake, Enter, WriteInfo, InfoWritten
<1>2. /\ Arrive(p) => At(p, "sync", "first point")
      /\ SetCounter(p) => At(p, "first point", "second point")
      /\ WriteCounter(p) => At(p, "second point", "third point")
      /\ CountIn(p) => At(p, "third point", "last point") \/ At(p, "sync", "last point")
  BY DEF Arrive, SetCounter, WriteCounter, CountIn
<1>3. /\ Depart(p) => At(p, "last point", "local")
      /\ InitLocalAp(p) => At(p, "local", "test")
      /\ Finish(p) => At(p, "test", "done")
  BY DEF Depart, InitLocalAp, Finish
<1>4. \A here, there : At(p, here, there) =>
        ap[p] = here /\ ap'[p] = there /\ \A q \in Others \ {p} : ap'[q] = ap[q]
  BY DEF At, StartupTypes
<1>5. /\ Wake(p) => ap[p] = "signalled" /\ ap'[p] = "held"
      /\ Enter(p) => ap[p] = "held" /\ ap'[p] = "info"
      /\ WriteInfo(p) => ap[p] = "info" /\ ap'[p] = "writing"
      /\ InfoWritten(p) => ap[p] = "writing" /\ ap'[p] = "sync"
  BY <1>1, <1>4
<1>6. /\ Arrive(p) => ap[p] = "sync" /\ ap'[p] = "first point"
      /\ SetCounter(p) => ap[p] = "first point" /\ ap'[p] = "second point"
      /\ WriteCounter(p) => ap[p] = "second point" /\ ap'[p] = "third point"
      /\ CountIn(p) => ap[p] \in {"third point", "sync"} /\ ap'[p] = "last point"
  BY <1>2, <1>4
<1>7. /\ Depart(p) => ap[p] = "last point" /\ ap'[p] = "local"
      /\ InitLocalAp(p) => ap[p] = "local" /\ ap'[p] = "test"
      /\ Finish(p) => ap[p] = "test" /\ ap'[p] = "done"
  BY <1>3, <1>4
<1> QED BY <1>1, <1>2, <1>3, <1>4, <1>5, <1>6, <1>7

(* A processor enters with Enter and is never asleep again. *)
LEMMA Entering ==
  ASSUME StartupTypes, StackInv, StartupNext, NEW p \in Others
  PROVE  (ap'[p] \in Asleep <=> ap[p] \in Asleep) \/ Enter(p)
<1>1. CASE StartNext
  <2>1. PICK q \in target : ap' = [ap EXCEPT ![q] = "signalled"]
    BY <1>1 DEF StartNext
  <2> QED BY <2>1 DEF StackInv, StartupTypes, Asleep
<1>2. ASSUME NEW q \in Others,
             \/ Wake(q) \/ WriteInfo(q) \/ InfoWritten(q) \/ Depart(q) \/ InitLocalAp(q)
             \/ Finish(q)
      PROVE  ap'[p] \in Asleep <=> ap[p] \in Asleep
  <2>1. /\ \A r \in Others \ {q} : ap'[r] = ap[r]
        /\ ap[q] \in Asleep <=> ap'[q] \in Asleep
    BY <1>2, Strides DEF Asleep
  <2> QED BY <2>1
<1>3. ASSUME NEW q \in Others, Arrive(q) \/ SetCounter(q) \/ WriteCounter(q) \/ CountIn(q)
      PROVE  ap'[p] \in Asleep <=> ap[p] \in Asleep
  <2>1. /\ \A r \in Others \ {q} : ap'[r] = ap[r]
        /\ ap[q] \in Asleep <=> ap'[q] \in Asleep
    BY <1>3, Strides DEF Asleep
  <2> QED BY <2>1
<1>4. ASSUME NEW q \in Others, Enter(q), q # p PROVE ap'[p] = ap[p]
  BY <1>4 DEF Enter, At, StartupTypes
<1>5. CASE UNCHANGED ap
  BY <1>5
<1> QED BY <1>1, <1>2, <1>3, <1>4, <1>5 DEF StartupNext, TimersInit, AwaitStart, LetGo,
      BuildInfo, InterlinkInit, SyncBegin, FirstPoint, SecondPoint, Compare, Tick, ClockSynced, InitGlobal,
      InitLocalBsp

LEMMA StepKeepsIds ==
  ASSUME StartupTypes, StackInv, IdInv, StartupNext
  PROVE  IdInv'
<1>1. ASSUME NEW p \in Others, Enter(p) PROVE IdInv'
  <2>1. /\ id'.next = id.next + 1 /\ id'.of = [id.of EXCEPT ![p] = id.next]
        /\ id.next \in Nat /\ \A q \in Others : id.of[q] \in Nat
        /\ \A q \in Others : id'.of[q] = IF q = p THEN id.next ELSE id.of[q]
    BY <1>1 DEF Enter, StartupTypes
  <2>2. /\ ap[p] \in Asleep /\ ap'[p] \notin Asleep
        /\ \A q \in Others : q # p => ap'[q] = ap[q]
    BY <1>1 DEF Enter, At, StartupTypes, Asleep
  <2>3. Entered' = Entered \union {p} /\ p \notin Entered /\ Entered \in SUBSET Others
    BY <2>2 DEF Entered
  <2>4. id'.next = 1 + Cardinality(Entered')
    BY <2>1, <2>3, SubsetsCount DEF IdInv
  <2>5. id.next > 0 /\ \A q \in Others : id.of[q] < id.next
    <3>1. id.next > 0
      BY <2>1, <2>3, SubsetsCount DEF IdInv
    <3>2. ASSUME NEW q \in Others PROVE id.of[q] < id.next
      <4>1. CASE ap[q] \in Asleep
        BY <4>1, <3>1 DEF IdInv
      <4>2. CASE ap[q] \notin Asleep
        <5>1. id.of[q] \in 1 .. id.next - 1
          BY <4>2 DEF IdInv, Entered
        <5> QED BY <5>1, <2>1
      <4> QED BY <4>1, <4>2
    <3> QED BY <3>1, <3>2
  <2>6. \A q \in Others : id'.of[q] = 0 <=> ap'[q] \in Asleep
    BY <2>1, <2>2, <2>5 DEF IdInv
  <2>7. \A q, r \in Others : q # r /\ id'.of[q] = id'.of[r] => id'.of[q] = 0
    BY <2>1, <2>5 DEF IdInv
  <2>8. {id'.of[q] : q \in Entered'} = {id.of[q] : q \in Entered} \union {id.next}
    BY <2>1, <2>3
  <2>9. 1 .. id'.next - 1 = (1 .. id.next - 1) \union {id.next}
    BY <2>1, <2>5
  <2>10. {id'.of[q] : q \in Entered'} = 1 .. id'.next - 1
    BY <2>8, <2>9 DEF IdInv
  <2> QED BY <2>4, <2>6, <2>7, <2>10 DEF IdInv
<1>2. CASE \A p \in Others : ~ Enter(p)
  <2>1. id' = id
    BY <1>2, Writers
  <2>2. \A p \in Others : ap'[p] \in Asleep <=> ap[p] \in Asleep
    BY <1>2, Entering
  <2>3. Entered' = Entered
    BY <2>2 DEF Entered
  <2> QED BY <2>1, <2>2, <2>3 DEF IdInv
<1> QED BY <1>1, <1>2

(* A processor writes its information with the lock, from WriteInfo to           *)
(* InfoWritten.                                                              *)
LEMMA Writing ==
  ASSUME StartupTypes, StackInv, StartupNext, NEW p \in Others
  PROVE  \/ /\ p \in Written' <=> p \in Written
            /\ ap'[p] = "writing" <=> ap[p] = "writing"
         \/ WriteInfo(p) \/ InfoWritten(p)
<1> DEFINE Unwritten == Asleep \union {"info", "writing"}
<1>1. p \in Written <=> ap[p] \notin Unwritten
  BY DEF Written
<1>2. p \in Written' <=> ap'[p] \notin Unwritten
  BY DEF Written
<1>3. CASE StartNext
  <2>1. PICK q \in target : ap' = [ap EXCEPT ![q] = "signalled"]
    BY <1>3 DEF StartNext
  <2> QED BY <1>1, <1>2, <2>1 DEF StackInv, StartupTypes, Asleep
<1>4. ASSUME NEW q \in Others, Wake(q) \/ Enter(q) \/ Depart(q) \/ InitLocalAp(q) \/ Finish(q)
      PROVE  /\ p \in Written' <=> p \in Written
             /\ ap'[p] = "writing" <=> ap[p] = "writing"
  <2>1. /\ \A r \in Others \ {q} : ap'[r] = ap[r]
        /\ ap[q] \in Unwritten <=> ap'[q] \in Unwritten
        /\ ap[q] # "writing" /\ ap'[q] # "writing"
    BY <1>4, Strides DEF Asleep
  <2> QED BY <1>1, <1>2, <2>1
<1>5. ASSUME NEW q \in Others, Arrive(q) \/ SetCounter(q) \/ WriteCounter(q) \/ CountIn(q)
      PROVE  /\ p \in Written' <=> p \in Written
             /\ ap'[p] = "writing" <=> ap[p] = "writing"
  <2>1. /\ \A r \in Others \ {q} : ap'[r] = ap[r]
        /\ ap[q] \in Unwritten <=> ap'[q] \in Unwritten
        /\ ap[q] # "writing" /\ ap'[q] # "writing"
    BY <1>5, Strides DEF Asleep
  <2> QED BY <1>1, <1>2, <2>1
<1>6. ASSUME NEW q \in Others, WriteInfo(q) \/ InfoWritten(q), q # p
      PROVE  /\ p \in Written' <=> p \in Written
             /\ ap'[p] = "writing" <=> ap[p] = "writing"
  BY <1>1, <1>2, <1>6 DEF WriteInfo, InfoWritten, At, StartupTypes
<1>7. UNCHANGED ap => /\ p \in Written' <=> p \in Written
                      /\ ap'[p] = "writing" <=> ap[p] = "writing"
  BY <1>1, <1>2
<1> QED BY <1>3, <1>4, <1>5, <1>6, <1>7 DEF StartupNext, TimersInit, AwaitStart, LetGo,
      BuildInfo, InterlinkInit, SyncBegin, FirstPoint, SecondPoint, Compare, Tick, ClockSynced, InitGlobal,
      InitLocalBsp

(* The way of the first processor to the rendezvous, and the flags on it.      *)
LEMMA FirstSteps ==
  ASSUME StartupTypes, StartupNext
  PROVE  /\ bsp \notin Early => bsp' \notin Early
         /\ bsp \notin Early \union {"info"} => bsp' \notin Early \union {"info"}
         /\ bsp' \notin Early \union {"info", "panic"} =>
              BuildInfo \/ bsp \notin Early \union {"info", "panic"}
         /\ "wait" \in flags' => "wait" \in flags \/ bsp' = "info"
         /\ "topology" \in flags' => "topology" \in flags \/ bsp' = "interlink"
BY DEF StartupTypes, Early, StartupNext, TimersInit, StartNext, AwaitStart, LetGo, BuildInfo,
       InterlinkInit, SyncBegin, FirstPoint, SecondPoint, Compare, Tick, ClockSynced, InitGlobal, InitLocalBsp,
       Wake, Enter, WriteInfo, InfoWritten, Arrive, SetCounter, WriteCounter, CountIn, Depart,
       InitLocalAp, Finish, BspVars

LEMMA StepKeepsInfo ==
  ASSUME StartupTypes, StackInv, InfoInv, MeetingInv, StartupNext
  PROVE  InfoInv'
<1>1. /\ "wait" \in flags' => bsp' \notin Early
      /\ "topology" \in flags' => bsp' \notin Early \union {"info"}
  <2>1. "info" \notin Early /\ "interlink" \notin Early
    BY DEF Early
  <2> QED BY <2>1, FirstSteps DEF InfoInv
<1>2. CASE BuildInfo
  <2>1. /\ bsp = "info" /\ bsp' = "interlink" /\ ap' = ap /\ id' = id
        /\ sysinfo'.general = TRUE /\ sysinfo'.cpus = {0} /\ sysinfo'.writing = sysinfo.writing
    BY <1>2 DEF BuildInfo, StartupTypes
  <2>2. Written' = {}
    BY <2>1 DEF MeetingInv, Written
  <2> QED BY <1>1, <2>1, <2>2 DEF InfoInv
<1>3. ASSUME NEW p \in Others, WriteInfo(p) PROVE InfoInv'
  <2>1. /\ ~ sysinfo.writing /\ sysinfo'.writing /\ sysinfo'.general = sysinfo.general
        /\ sysinfo'.cpus = sysinfo.cpus /\ id' = id /\ bsp' = bsp
    BY <1>3 DEF WriteInfo, StartupTypes, BspVars
  <2>2. /\ ap[p] = "info" /\ ap'[p] = "writing" /\ \A q \in Others : q # p => ap'[q] = ap[q]
    BY <1>3 DEF WriteInfo, At, StartupTypes
  <2>3. Written' = Written
    BY <2>2 DEF Written
  <2> QED BY <1>1, <2>1, <2>2, <2>3 DEF InfoInv
<1>4. ASSUME NEW p \in Others, InfoWritten(p) PROVE InfoInv'
  <2>1. /\ sysinfo'.writing = FALSE /\ sysinfo'.general = sysinfo.general
        /\ sysinfo'.cpus = sysinfo.cpus \union {id.of[p]} /\ id' = id /\ bsp' = bsp
    BY <1>4 DEF InfoWritten, StartupTypes, BspVars
  <2>2. /\ ap[p] = "writing" /\ ap'[p] = "sync" /\ \A q \in Others : q # p => ap'[q] = ap[q]
    BY <1>4 DEF InfoWritten, At, StartupTypes
  <2>3. Written' = Written \union {p}
    BY <2>2 DEF Written, Asleep
  <2>4. \A q \in Others : ap'[q] # "writing"
    BY <2>2 DEF InfoInv
  <2> QED BY <1>1, <2>1, <2>3, <2>4 DEF InfoInv
<1>5. CASE ~ BuildInfo /\ \A p \in Others : ~ WriteInfo(p) /\ ~ InfoWritten(p)
  <2>1. sysinfo' = sysinfo
    BY <1>5, Writers
  <2>2. Written' = Written
    BY <1>5, Writing DEF Written
  <2>3. \A p \in Others : ap'[p] = "writing" <=> ap[p] = "writing"
    BY <1>5, Writing
  <2>4. \A p \in Written : id'.of[p] = id.of[p]
    <3>1. ASSUME NEW p \in Others, Enter(p) PROVE \A q \in Others : q # p => id'.of[q] = id.of[q]
      BY <3>1 DEF Enter, StartupTypes
    <3>2. ASSUME NEW p \in Others, Enter(p) PROVE p \notin Written
      BY <3>2 DEF Enter, At, Written, Asleep
    <3> QED BY <3>1, <3>2, Writers DEF Written
  <2>5. {id'.of[p] : p \in Written} = {id.of[p] : p \in Written}
    BY <2>4
  <2>6. bsp' \notin Early \union {"info", "panic"} => bsp \notin Early \union {"info", "panic"}
    BY <1>5, FirstSteps
  <2> QED BY <1>1, <2>1, <2>2, <2>3, <2>5, <2>6 DEF InfoInv
<1> QED BY <1>2, <1>3, <1>4, <1>5

-----------------------------------------------------------------------------
(* The rendezvous: the steps of the first processor, then those of the others. *)
LEMMA NobodyThere ==
  ASSUME NEW places, \A p \in Others : ap[p] \notin places
  PROVE  Cardinality(Where(places)) = 0
<1>1. Where(places) = {}
  BY DEF Where
<1> QED BY <1>1, FS_EmptySet

LEMMA SomebodyThere ==
  ASSUME NEW places, NEW p \in Others, ap[p] \in places
  PROVE  Cardinality(Where(places)) # 0
<1>1. Where(places) \in SUBSET Others /\ Where(places) # {}
  BY DEF Where
<1> QED BY <1>1, SubsetsCount

LEMMA AllThere ==
  ASSUME NEW places, Cardinality(Where(places)) >= OtherCount
  PROVE  \A p \in Others : ap[p] \in places
<1>1. Where(places) \in SUBSET Others
  BY DEF Where
<1>2. Where(places) = Others
  BY <1>1, SubsetsCount
<1> QED BY <1>2 DEF Where

LEMMA FirstKeepsMeeting ==
  ASSUME StartupTypes, StackInv, MeetingInv,
         \/ TimersInit \/ StartNext \/ AwaitStart \/ LetGo \/ BuildInfo
         \/ InterlinkInit \/ SyncBegin \/ FirstPoint \/ SecondPoint \/ \E agree \in BOOLEAN : Compare(agree)
         \/ Tick \/ ClockSynced \/ InitGlobal \/ InitLocalBsp
  PROVE  MeetingInv'
<1> USE DEF Early, Late, Meeting
<1>1. CASE TimersInit \/ AwaitStart
  <2>1. /\ bsp \in Early /\ bsp' \in Early \union {"panic"}
        /\ UNCHANGED <<ap, points, flags, synced, misused>>
    BY <1>1 DEF TimersInit, AwaitStart
  <2> QED BY <2>1 DEF MeetingInv
<1>2. CASE StartNext
  <2>1. PICK q \in target : ap' = [ap EXCEPT ![q] = "signalled"]
    BY <1>2 DEF StartNext
  <2>2. \A p \in Others : ap'[p] \in Asleep
    BY <1>2, <2>1 DEF StartNext, MeetingInv, StartupTypes, Asleep
  <2> QED BY <1>2, <2>2 DEF StartNext, MeetingInv
<1>3. CASE LetGo
  BY <1>3 DEF LetGo, MeetingInv
<1>4. CASE BuildInfo
  <2>1. \A p \in Others : ap[p] \notin Meeting
    BY <1>4 DEF BuildInfo, MeetingInv, Asleep
  <2>2. Cardinality(Where({"first point"}))' = 0
    <3>1. \A p \in Others : ap'[p] \notin {"first point"}
      BY <1>4, <2>1 DEF BuildInfo
    <3>2. Where({"first point"})' = {}
      BY <3>1 DEF Where
    <3> QED BY <3>2, FS_EmptySet
  <2> QED BY <1>4, <2>1, <2>2 DEF BuildInfo, MeetingInv
<1>5. CASE SyncBegin
  <2>1. Where({"first point"})' = Where({"first point"})
    BY <1>5 DEF SyncBegin, Where
  <2>2. OtherCount > 0 \/ Others = {}
    BY SubsetsCount
  <2> QED BY <1>5, <2>1, <2>2 DEF SyncBegin, MeetingInv
<1>5a. CASE InterlinkInit
  <2>1. /\ bsp = "interlink" /\ bsp' \in {"sync", "panic"}
        /\ UNCHANGED <<ap, points, flags, timers, table, synced, misused>>
    BY <1>5a DEF InterlinkInit
  <2>2. Where({"first point"})' = Where({"first point"})
    BY <2>1 DEF Where
  <2> QED BY <2>1, <2>2 DEF MeetingInv
<1>6. CASE FirstPoint
  <2>1. \A p \in Others : ap[p] \in {"first point"}
    BY <1>6, AllThere DEF FirstPoint, MeetingInv
  <2>2. points'.first = 0 /\ points'.third = points.third
    BY <1>6 DEF FirstPoint, StartupTypes
  <2> QED BY <1>6, <2>1, <2>2 DEF FirstPoint, MeetingInv
<1>7. CASE SecondPoint
  <2>1. Cardinality(Where({"last point"})) = 0
    BY <1>7, NobodyThere DEF SecondPoint, MeetingInv
  <2>2. Where({"last point"})' = Where({"last point"})
    BY <1>7 DEF SecondPoint, Where
  <2> QED BY <1>7, <2>1, <2>2 DEF SecondPoint, MeetingInv
<1>8. ASSUME NEW agree \in BOOLEAN, Compare(agree) PROVE MeetingInv'
  <2>1. \A p \in Others : ap[p] \in {"last point"}
    BY <1>8, AllThere DEF Compare, AllWritten, MeetingInv
  <2> QED BY <1>8, <2>1 DEF Compare, MeetingInv
<1>9. CASE Tick
  BY <1>9 DEF Tick, MeetingInv
<1>10. CASE ClockSynced
  <2>1. synced => points'.third = 0
    BY <1>10 DEF ClockSynced, StartupTypes
  <2> QED BY <1>10, <2>1 DEF ClockSynced, MeetingInv
<1>11. CASE InitGlobal \/ InitLocalBsp
  <2>1. /\ bsp \in {"global", "local"} /\ bsp' \in {"local", "done", "panic"}
        /\ UNCHANGED <<ap, points, timers, synced, misused>>
    BY <1>11 DEF InitGlobal, InitLocalBsp
  <2> QED BY <2>1 DEF MeetingInv
<1> QED BY <1>1, <1>2, <1>3, <1>4, <1>5, <1>5a, <1>6, <1>7, <1>8, <1>9, <1>10, <1>11

(* Steps on the way to the rendezvous. *)
LEMMA ComingKeepsMeeting ==
  ASSUME StartupTypes, InfoInv, MeetingInv, NEW p \in Others,
         Wake(p) \/ Enter(p) \/ WriteInfo(p) \/ InfoWritten(p)
  PROVE  MeetingInv'
<1>1. UNCHANGED <<bsp, timers, flags, points, table, synced, misused>>
  BY DEF Wake, Enter, WriteInfo, InfoWritten, BspVars
<1>2. PICK there : ap' = [ap EXCEPT ![p] = there] /\
        \/ ap[p] = "signalled" /\ there = "held"
        \/ ap[p] = "held" /\ there = "info" /\ "wait" \in flags
        \/ ap[p] = "info" /\ there = "writing" /\ "topology" \in flags
        \/ ap[p] = "writing" /\ there = "sync"
  BY DEF Wake, Enter, WriteInfo, InfoWritten, At
<1>3. \A q \in Others : ap'[q] = IF q = p THEN there ELSE ap[q]
  BY <1>2 DEF StartupTypes
<1>4. ap[p] \in Asleep \union {"info", "writing"} /\ there \in Asleep \union {"info", "writing", "sync"}
  BY <1>2 DEF Asleep
<1>5. /\ Where({"first point"})' = Where({"first point"})
      /\ Where({"last point"})' = Where({"last point"})
  BY <1>3, <1>4 DEF Where, Asleep
<1>6. /\ bsp \in Early => there \in Asleep
      /\ bsp = "info" => there \in Asleep \union {"info"}
  BY <1>2 DEF InfoInv, MeetingInv, Asleep
<1>7. ap[p] \notin Meeting \union {"last point", "local", "test", "done"} /\ there \notin Meeting
  BY <1>4 DEF Asleep, Meeting
<1>8. /\ bsp \in Early => \A q \in Others : ap'[q] \in Asleep
      /\ bsp = "info" => \A q \in Others : ap'[q] \in Asleep \union {"info"}
  BY <1>3, <1>6 DEF MeetingInv
<1>9. bsp \in {"interlink", "sync", "first point"} /\ timers.counter = "tsc" =>
        \A q \in Others : ap'[q] \in Asleep \union {"info", "writing", "sync", "first point"}
  BY <1>3, <1>4 DEF MeetingInv
<1>10. bsp \notin {"second point", "third point"} /\ ~ (bsp \in Late /\ synced)
  BY <1>7 DEF MeetingInv, Meeting
<1>11. bsp \in {"interlink", "sync"} \union Late /\ ~ synced /\ timers.counter # "tsc" =>
         \A q \in Others : ap'[q] \notin Meeting
  BY <1>3, <1>7 DEF MeetingInv
<1> QED BY <1>1, <1>5, <1>8, <1>9, <1>10, <1>11 DEF MeetingInv

(* Where a processor at a sync point can find the first processor.             *)
LEMMA MeetingPlaces ==
  ASSUME StartupTypes, MeetingInv, bsp # "panic", NEW p \in Others
  PROVE  /\ ap[p] = "first point" /\ points.first = 0 => bsp \in {"second point", "third point"}
         /\ ap[p] = "second point" => bsp \in {"second point", "third point"}
         /\ ap[p] = "third point" => bsp = "third point"
         /\ ap[p] = "sync" /\ timers.counter = "tsc" => bsp \in {"interlink", "sync", "first point"}
         /\ ap[p] = "sync" /\ timers.counter # "tsc" => bsp \in {"interlink", "sync"} \/ (bsp \in Late /\ ~ synced)
<1>1. ap[p] = "first point" => Cardinality(Where({"first point"})) # 0
  BY SomebodyThere
<1>2. bsp \in Early \union {"info", "interlink", "sync"} \union Meeting \union Late
  BY DEF StartupTypes, Stages
<1>3. ap[p] \notin Asleep \union {"info"} => bsp \notin Early \union {"info"}
  BY DEF MeetingInv
<1>4. Others # {}
  OBVIOUS
<1> QED BY <1>1, <1>2, <1>3, <1>4 DEF MeetingInv, Meeting, Asleep

LEMMA MeetingKeepsMeeting ==
  ASSUME StartupTypes, MeetingInv, bsp # "panic", NEW p \in Others,
         SetCounter(p) \/ WriteCounter(p)
  PROVE  MeetingInv'
<1>1. UNCHANGED <<bsp, timers, flags, points, table, synced>>
  BY DEF SetCounter, WriteCounter, BspVars
<1>2. PICK there : /\ \/ ap[p] = "first point" /\ points.first = 0 /\ there = "second point"
                      \/ ap[p] = "second point" /\ "second" \in flags /\ there = "third point"
                   /\ ap' = [ap EXCEPT ![p] = there]
                   /\ misused' = (misused \/ ~ table)
  BY DEF SetCounter, WriteCounter, At
<1>3. \A q \in Others : ap'[q] = IF q = p THEN there ELSE ap[q]
  BY <1>2 DEF StartupTypes
<1>4. bsp \in {"second point", "third point"}
  BY <1>2, MeetingPlaces
<1>5. ~ misused'
  BY <1>2, <1>4 DEF MeetingInv, Meeting
<1>6. Where({"last point"})' = Where({"last point"})
  BY <1>2, <1>3 DEF Where
<1>7. bsp = "second point" => \A q \in Others : ap'[q] \in {"first point", "second point"}
  BY <1>2, <1>3 DEF MeetingInv
<1>8. bsp = "third point" => \A q \in Others : ap'[q] \in Meeting \union {"last point"}
  BY <1>2, <1>3 DEF MeetingInv, Meeting
<1> QED BY <1>1, <1>4, <1>5, <1>6, <1>7, <1>8 DEF MeetingInv, Early, Late

LEMMA ArriveKeepsMeeting ==
  ASSUME StartupTypes, MeetingInv, bsp # "panic", NEW p \in Others, Arrive(p)
  PROVE  MeetingInv'
<1>1. UNCHANGED <<bsp, timers, flags, table, synced, misused>>
  BY DEF Arrive, BspVars
<1>2. points'.first = points.first + 1 /\ points'.third = points.third
  <2>1. points' = [points EXCEPT !.first = points.first + 1]
    BY DEF Arrive
  <2> QED BY <2>1 DEF StartupTypes
<1>3. /\ timers.counter = "tsc" /\ ap[p] = "sync"
      /\ \A q \in Others : ap'[q] = IF q = p THEN "first point" ELSE ap[q]
  BY DEF Arrive, At, StartupTypes
<1>4. bsp \in {"interlink", "sync", "first point"}
  BY <1>3, MeetingPlaces
<1>5. /\ Where({"first point"})' = Where({"first point"}) \union {p}
      /\ p \notin Where({"first point"}) /\ Where({"first point"}) \in SUBSET Others
  BY <1>3 DEF Where
<1>6. points'.first = Cardinality(Where({"first point"}))'
  <2>1. points.first = Cardinality(Where({"first point"}))
    BY <1>3, <1>4 DEF MeetingInv
  <2>2. Cardinality(Where({"first point"}) \union {p}) = Cardinality(Where({"first point"})) + 1
    BY <1>5, SubsetsCount
  <2> QED BY <1>2, <1>5, <2>1, <2>2
<1>7. \A q \in Others : ap'[q] \in Asleep \union {"info", "writing", "sync", "first point"}
  BY <1>3, <1>4 DEF MeetingInv
<1> QED BY <1>1, <1>2, <1>3, <1>4, <1>6, <1>7 DEF MeetingInv, Early, Late, Meeting

LEMMA CountKeepsMeeting ==
  ASSUME StartupTypes, MeetingInv, bsp # "panic", NEW p \in Others, CountIn(p)
  PROVE  MeetingInv'
<1>1. UNCHANGED <<bsp, timers, flags, table, synced, misused>>
  BY DEF CountIn, BspVars
<1>2. points'.first = points.first /\ points'.third = points.third + 1
  <2>1. points' = [points EXCEPT !.third = points.third + 1]
    BY DEF CountIn
  <2> QED BY <2>1 DEF StartupTypes
<1>3. /\ ap[p] = "third point" \/ (ap[p] = "sync" /\ timers.counter # "tsc")
      /\ \A q \in Others : ap'[q] = IF q = p THEN "last point" ELSE ap[q]
  BY DEF CountIn, At, StartupTypes
<1>4. CASE ap[p] = "third point"
  <2>1. bsp = "third point"
    BY <1>4, MeetingPlaces
  <2>2. /\ Where({"last point"})' = Where({"last point"}) \union {p}
        /\ p \notin Where({"last point"}) /\ Where({"last point"}) \in SUBSET Others
    BY <1>3, <1>4 DEF Where
  <2>3. points'.third = Cardinality(Where({"last point"}))'
    <3>1. points.third = Cardinality(Where({"last point"}))
      BY <2>1 DEF MeetingInv
    <3>2. Cardinality(Where({"last point"}) \union {p}) = Cardinality(Where({"last point"})) + 1
      BY <2>2, SubsetsCount
    <3> QED BY <1>2, <2>2, <3>1, <3>2
  <2>4. \A q \in Others : ap'[q] \in Meeting \union {"last point"}
    BY <1>3, <2>1 DEF MeetingInv
  <2> QED BY <1>1, <1>2, <2>1, <2>3, <2>4 DEF MeetingInv, Early, Late, Meeting
<1>5. CASE ap[p] = "sync" /\ timers.counter # "tsc"
  <2>1. bsp \in {"interlink", "sync"} \/ (bsp \in Late /\ ~ synced)
    BY <1>5, MeetingPlaces
  <2>2. ~ synced
    BY <2>1 DEF MeetingInv
  <2>3. \A q \in Others : ap'[q] \notin Meeting
    BY <1>3, <1>5, <2>1, <2>2 DEF MeetingInv, Meeting
  <2> QED BY <1>1, <1>5, <2>1, <2>2, <2>3 DEF MeetingInv, Early, Late, Meeting
<1> QED BY <1>3, <1>4, <1>5

(* Steps behind the rendezvous. *)
LEMMA LeavingKeepsMeeting ==
  ASSUME StartupTypes, MeetingInv, bsp # "panic", NEW p \in Others,
         Depart(p) \/ InitLocalAp(p) \/ Finish(p)
  PROVE  MeetingInv'
<1>1. UNCHANGED <<bsp, timers, flags, points, table, synced, misused>>
  BY DEF Depart, InitLocalAp, Finish, BspVars
<1>2. PICK there \in {"local", "test", "done"} :
        /\ ap' = [ap EXCEPT ![p] = there]
        /\ \/ ap[p] = "last point" /\ points.third = 0
           \/ ap[p] \in {"local", "test"}
  BY DEF Depart, InitLocalAp, Finish, At
<1>3. \A q \in Others : ap'[q] = IF q = p THEN there ELSE ap[q]
  BY <1>2 DEF StartupTypes
<1>4. bsp \in Late \/ (bsp \in {"interlink", "sync"} /\ timers.counter # "tsc")
  <2>1. bsp \in Early \union {"info", "interlink", "sync"} \union Meeting \union Late
    BY DEF StartupTypes, Stages
  <2>2. bsp \notin Early \union {"info"}
    BY <1>2 DEF MeetingInv, Asleep
  <2>3. ap[p] = "last point" => Cardinality(Where({"last point"})) # 0
    BY SomebodyThere
  <2> QED BY <1>2, <2>1, <2>2, <2>3 DEF MeetingInv, Meeting, Asleep
<1>5. bsp \in Late /\ synced =>
        \A q \in Others : ap'[q] \in {"last point", "local", "test", "done"}
  BY <1>3 DEF MeetingInv
<1>6. bsp \in {"interlink", "sync"} \union Late /\ ~ synced /\ timers.counter # "tsc" =>
        \A q \in Others : ap'[q] \notin Meeting
  BY <1>3 DEF MeetingInv, Meeting
<1> QED BY <1>1, <1>4, <1>5, <1>6 DEF MeetingInv, Early, Late, Meeting

LEMMA StepKeepsMeeting ==
  ASSUME StartupTypes, StackInv, InfoInv, MeetingInv, StartupNext
  PROVE  MeetingInv'
BY FirstKeepsMeeting, ComingKeepsMeeting, MeetingKeepsMeeting, ArriveKeepsMeeting,
   CountKeepsMeeting, LeavingKeepsMeeting DEF StartupNext

-----------------------------------------------------------------------------
(* The schedulers. *)
LEMMA StepKeepsSchedulers ==
  ASSUME StartupTypes, StackInv, IdInv, InfoInv, SchedulersInv, StartupNext
  PROVE  SchedulersInv'
<1>1. /\ OtherCount \in Nat /\ \A p \in Others : id.of[p] \in Nat
      /\ \A p \in Others : ap[p] \in {"local", "test", "done"} => id.of[p] # 0
  BY SubsetsCount DEF StartupTypes, IdInv, Asleep
<1>2. CASE InitGlobal
  <2>1. /\ bsp = "global" /\ ap' = ap /\ id' = id
        /\ \/ bsp' = "panic" /\ UNCHANGED <<schedulers, flags>>
           \/ bsp' = "local" /\ schedulers' = [i \in 0 .. OtherCount |-> 0]
    BY <1>2 DEF InitGlobal
  <2> QED BY <2>1 DEF SchedulersInv
<1>3. CASE InitLocalBsp
  <2>1. /\ bsp = "local" /\ bsp' = "done" /\ ap' = ap /\ id' = id
        /\ schedulers' = [j \in DOMAIN schedulers |->
                            IF j = 0 THEN schedulers[j] + 1 ELSE schedulers[j]]
    BY <1>3 DEF InitLocalBsp, InitLocal
  <2>2. DOMAIN schedulers = 0 .. OtherCount
    BY <2>1 DEF SchedulersInv
  <2>3. ASSUME NEW i \in 0 .. OtherCount
        PROVE  schedulers'[i] = IF i = 0 \/ \E p \in Others : i = id.of[p] /\ ap[p] \in {"test", "done"}
                                THEN 1 ELSE 0
    <3>1. CASE i = 0
      <4>1. schedulers[0] = 0
        BY <1>1, <2>1, <3>1 DEF SchedulersInv
      <4> QED BY <2>1, <2>2, <3>1, <4>1
    <3>2. CASE i # 0
      BY <2>1, <2>2, <3>2 DEF SchedulersInv
    <3> QED BY <3>1, <3>2
  <2> QED BY <2>1, <2>2, <2>3 DEF SchedulersInv
<1>4. ASSUME NEW p \in Others, InitLocalAp(p) PROVE SchedulersInv'
  <2>1. /\ "schedulers" \in flags /\ ap[p] = "local" /\ bsp' = bsp /\ id' = id
        /\ \A q \in Others : ap'[q] = IF q = p THEN "test" ELSE ap[q]
        /\ schedulers' = [j \in DOMAIN schedulers |->
                            IF j = id.of[p] THEN schedulers[j] + 1 ELSE schedulers[j]]
    BY <1>4 DEF InitLocalAp, InitLocal, At, StartupTypes
  <2>2. bsp \in {"local", "done"} /\ DOMAIN schedulers = 0 .. OtherCount
    BY <2>1 DEF SchedulersInv
  <2>3. id.of[p] # 0 /\ \A q \in Others : q # p => id.of[q] # id.of[p]
    BY <1>1, <2>1 DEF IdInv
  <2>4. ASSUME NEW i \in 0 .. OtherCount
        PROVE  schedulers'[i] = IF \/ i = 0 /\ bsp = "done"
                                   \/ \E q \in Others : i = id.of[q] /\ ap'[q] \in {"test", "done"}
                                THEN 1 ELSE 0
    <3>1. CASE i = id.of[p]
      <4>1. schedulers[i] = 0
        BY <2>1, <2>2, <2>3, <3>1 DEF SchedulersInv
      <4> QED BY <2>1, <2>2, <3>1, <4>1
    <3>2. CASE i # id.of[p]
      <4>1. \A q \in Others : i = id.of[q] => ap'[q] = ap[q]
        BY <2>1, <3>2
      <4> QED BY <2>1, <2>2, <3>2, <4>1 DEF SchedulersInv
    <3> QED BY <3>1, <3>2
  <2> QED BY <2>1, <2>2, <2>4 DEF SchedulersInv
<1>5. ASSUME NEW p \in Others, Finish(p) PROVE SchedulersInv'
  <2>1. /\ ap[p] = "test" /\ \A q \in Others : ap'[q] = IF q = p THEN "done" ELSE ap[q]
        /\ bsp' = bsp /\ id' = id /\ schedulers' = schedulers /\ flags' = flags
    BY <1>5 DEF Finish, At, StartupTypes, BspVars
  <2>2. \A q \in Others : ap'[q] \in {"test", "done"} <=> ap[q] \in {"test", "done"}
    BY <2>1
  <2>3. bsp \in {"local", "done"}
    BY <2>1 DEF SchedulersInv
  <2> QED BY <2>1, <2>2, <2>3 DEF SchedulersInv
<1>6. CASE ~ InitGlobal /\ ~ InitLocalBsp /\ \A p \in Others : ~ InitLocalAp(p) /\ ~ Finish(p)
  <2>1. /\ schedulers' = schedulers
        /\ "schedulers" \in flags' => "schedulers" \in flags
        /\ bsp' = bsp \/ (bsp \notin {"local", "done"} /\ bsp' \notin {"local", "done"})
    BY <1>6 DEF StartupNext, TimersInit, StartNext, AwaitStart, LetGo, BuildInfo, InterlinkInit, SyncBegin,
         FirstPoint, SecondPoint, Compare, Tick, ClockSynced, Wake, Enter, WriteInfo,
         InfoWritten, Arrive, SetCounter, WriteCounter, CountIn, Depart, BspVars
  <2>2. \A p \in Others : ap'[p] \in {"test", "done"} <=> ap[p] \in {"test", "done"}
    <3>1. CASE StartNext
      <4>1. PICK q \in target : ap' = [ap EXCEPT ![q] = "signalled"]
        BY <3>1 DEF StartNext
      <4>2. ap[q] = "off"
        BY <4>1 DEF StackInv
      <4> QED BY <4>1, <4>2 DEF StartupTypes
    <3>2. ASSUME NEW q \in Others, Wake(q) \/ Enter(q) \/ WriteInfo(q) \/ InfoWritten(q)
          PROVE  \A p \in Others : ap'[p] \in {"test", "done"} <=> ap[p] \in {"test", "done"}
      BY <3>2 DEF Wake, Enter, WriteInfo, InfoWritten, At, StartupTypes
    <3>3. ASSUME NEW q \in Others,
                 Arrive(q) \/ SetCounter(q) \/ WriteCounter(q) \/ CountIn(q) \/ Depart(q)
          PROVE  \A p \in Others : ap'[p] \in {"test", "done"} <=> ap[p] \in {"test", "done"}
      <4>1. /\ \A r \in Others \ {q} : ap'[r] = ap[r]
            /\ ap[q] \notin {"test", "done"} /\ ap'[q] \notin {"test", "done"}
        BY <3>3, Strides
      <4> QED BY <4>1
    <3>4. UNCHANGED ap => \A p \in Others : ap'[p] \in {"test", "done"} <=> ap[p] \in {"test", "done"}
      OBVIOUS
    <3> QED BY <1>6, <3>1, <3>2, <3>3, <3>4 DEF StartupNext, TimersInit, AwaitStart, LetGo,
          BuildInfo, InterlinkInit, SyncBegin, FirstPoint, SecondPoint, Compare, Tick, ClockSynced
  <2>3. \A p \in Others : ap[p] \in {"test", "done"} => id'.of[p] = id.of[p]
    <3>1. ASSUME NEW p \in Others, Enter(p) PROVE \A q \in Others : q # p => id'.of[q] = id.of[q]
      BY <3>1 DEF Enter, StartupTypes
    <3>2. ASSUME NEW p \in Others, Enter(p) PROVE ap[p] \notin {"test", "done"}
      BY <3>2 DEF Enter, At
    <3> QED BY <3>1, <3>2, Writers
  <2> QED BY <2>1, <2>2, <2>3 DEF SchedulersInv
<1> QED BY <1>2, <1>3, <1>4, <1>5, <1>6

-----------------------------------------------------------------------------
(* In every reachable state of the start the counts of the sync points are      *)
(* those of the processors that wait there, and the identifiers, stacks and    *)
(* schedulers given out are those of the processors that have been there.      *)
THEOREM StartupInvariant == StartupSpec => []StartupInv
<1>1. StartupInit => StartupInv
  <2> SUFFICES ASSUME StartupInit PROVE StartupInv
    OBVIOUS
  <2>1. StartupTypes
    BY DEF StartupInit, StartupTypes, Stages, Early, Whereabouts, Asleep, NoTimers
  <2>2. StackInv
    BY DEF StartupInit, StackInv
  <2>3. Entered = {}
    BY DEF StartupInit, Entered, Asleep
  <2>4. Cardinality(Entered) = 0 /\ {id.of[p] : p \in Entered} = {}
    BY <2>3, FS_EmptySet
  <2>5. id.next = 1 /\ \A p \in Others : id.of[p] = 0 /\ ap[p] = "off"
    BY DEF StartupInit
  <2>6. IdInv
    BY <2>4, <2>5 DEF IdInv, Asleep
  <2>7. InfoInv
    BY DEF StartupInit, InfoInv, Early
  <2>8. MeetingInv
    BY DEF StartupInit, MeetingInv, Early, Late, Meeting, Asleep
  <2>9. SchedulersInv
    BY DEF StartupInit, SchedulersInv
  <2> QED BY <2>1, <2>2, <2>6, <2>7, <2>8, <2>9 DEF StartupInv
<1>2. StartupInv /\ [StartupNext]_startupVars => StartupInv'
  <2>1. StartupInv /\ StartupNext => StartupInv'
    BY StepKeepsTypes, StepKeepsStacks, StepKeepsIds, StepKeepsInfo, StepKeepsMeeting,
       StepKeepsSchedulers DEF StartupInv
  <2>2. StartupInv /\ UNCHANGED startupVars => StartupInv'
    <3> SUFFICES ASSUME StartupInv, UNCHANGED startupVars PROVE StartupInv'
      OBVIOUS
    <3>1. StartupTypes' /\ StackInv'
      BY DEF startupVars, StartupInv, StartupTypes, StackInv
    <3>2. IdInv'
      BY DEF startupVars, StartupInv, IdInv, Entered
    <3>3. InfoInv'
      BY DEF startupVars, StartupInv, InfoInv, Written
    <3>4. MeetingInv'
      <4>1. /\ UNCHANGED <<bsp, ap, timers, flags, points, table, synced, misused>>
            /\ Where({"first point"})' = Where({"first point"})
            /\ Where({"last point"})' = Where({"last point"})
        BY DEF startupVars, Where
      <4>2. /\ Early' = Early /\ Late' = Late /\ Meeting' = Meeting /\ Asleep' = Asleep
            /\ MeetingInv
        BY DEF StartupInv, Early, Late, Meeting, Asleep
      <4> QED BY <4>1, <4>2, ZenonT(60) DEF MeetingInv
    <3>5. SchedulersInv'
      BY DEF startupVars, StartupInv, SchedulersInv
    <3> QED BY <3>1, <3>2, <3>3, <3>4, <3>5 DEF StartupInv
  <2> QED BY <2>1, <2>2
<1> QED BY <1>1, <1>2, PTL DEF StartupSpec

LEMMA StartupIsSound ==
  ASSUME StartupInv
  PROVE  StartupSound
<1> USE DEF StartupInv
<1>1. \A i \in DOMAIN schedulers : schedulers[i] <= 1
  <2>1. CASE bsp \in {"local", "done"}
    <3>1. \A i \in DOMAIN schedulers : schedulers[i] \in {0, 1}
      BY <2>1 DEF SchedulersInv
    <3> QED BY <3>1
  <2>2. CASE bsp \notin {"local", "done"}
    BY <2>2 DEF SchedulersInv
  <2> QED BY <2>1, <2>2
<1>2. Entered \in SUBSET Others /\ id.next - 1 = Cardinality(Entered)
  <2>1. Entered \in SUBSET Others /\ Cardinality(Entered) \in Nat
    BY SubsetsCount DEF Entered
  <2> QED BY <2>1 DEF IdInv
<1>3. ASSUME NEW p \in Others, ap[p] \in {"test", "done"} PROVE schedulers[id.of[p]] = 1
  <2>1. id.of[p] \in 1 .. id.next - 1
    BY <1>3 DEF IdInv, Entered, Asleep
  <2>2. id.of[p] \in 0 .. OtherCount
    BY <1>2, <2>1, SubsetsCount
  <2>3. bsp \in {"local", "done"}
    BY <1>3 DEF SchedulersInv
  <2> QED BY <1>3, <2>2, <2>3 DEF SchedulersInv
<1>4. ASSUME synced, bsp = "global" PROVE ~ sysinfo.writing /\ sysinfo.cpus = 0 .. OtherCount
  <2>1. \A p \in Others : ap[p] \in {"last point", "local", "test", "done"}
    BY <1>4 DEF MeetingInv, Late
  <2>2. Written = Others /\ Entered = Others /\ \A p \in Others : ap[p] # "writing"
    BY <2>1 DEF Written, Entered, Asleep
  <2>3. sysinfo.cpus = {0} \union {id.of[p] : p \in Entered}
    BY <1>4, <2>2 DEF InfoInv, Early
  <2>4. id.next - 1 = OtherCount /\ OtherCount \in Nat
    BY <1>2, <2>2, SubsetsCount DEF OtherCount
  <2>5. sysinfo.cpus = {0} \union (1 .. OtherCount)
    BY <2>3, <2>4 DEF IdInv
  <2> QED BY <2>2, <2>4, <2>5 DEF InfoInv
<1>5. /\ ~ misused
      /\ synced /\ bsp \in {"global", "local", "done"} => points.third = 0
  BY DEF MeetingInv
<1>6. \A p, q \in Others : p # q => /\ stack.of[p] = stack.of[q] => stack.of[p] = 0
                                    /\ id.of[p] = id.of[q] => id.of[p] = 0
  BY DEF StackInv, IdInv
<1> QED BY <1>1, <1>3, <1>4, <1>5, <1>6 DEF StartupSound

(* However many processors start, and however they run against each other, none *)
(* loses its stack, its identifier or its scheduler to another, none uses the   *)
(* table of the counters when it is not there, and none that was compared is     *)
(* left behind (entry.c, timers_x86.c).                                       *)
THEOREM StartsSoundly == StartupSpec => []StartupSound
BY StartupInvariant, StartupIsSound, PTL
-----------------------------------------------------------------------------
(* The messages. *)
Entry == Messages \union {Bytes}

SendTypes == [entry : Entry, left : SUBSET Processors, tell : SUBSET Processors]

LinkTypes ==
  /\ queue \in [Processors -> Seq(Entry)]
  /\ DOMAIN data_counter \subseteq Messages
  /\ data_counter \in [DOMAIN data_counter -> Nat]
  /\ handlers \subseteq Processors
  /\ sends \in [Processors -> [Contexts -> SendTypes]]
  /\ serving \subseteq Processors /\ calling \subseteq serving
  /\ pending \subseteq Processors /\ missed \subseteq Processors
  /\ misread \in BOOLEAN

(* A callback runs for a message that is allocated and first in the queue. *)
Called ==
  \A p \in calling : queue[p] # <<>> /\ Head(queue[p]) \in DOMAIN data_counter

(* What is yet to be pushed is allocated. *)
Sent ==
  \A p \in Processors, c \in Contexts :
    sends[p][c].left # {} => sends[p][c].entry \in DOMAIN data_counter \union {Bytes}

LinkInv == LinkTypes /\ Called /\ Sent /\ MessagesHeld
(* The places of an entry in queues, and the pushes of an entry that are left. *)
PlacesIn(Q, m) ==
  UNION {{<<p, i>> : i \in {j \in DOMAIN Q[p] : Q[p][j] = m}} : p \in Processors}

LeftIn(S, m) ==
  {s \in Processors \X Contexts \X Processors :
     S[s[1]][s[2]].entry = m /\ s[3] \in S[s[1]][s[2]].left}

(* Only the queue of a processor has changed; only the send of a context.    *)
Only(Q, R, p) == \A q \in Processors : q # p => R[q] = Q[q]

OnlySend(S, R, p, c) ==
  \A q \in Processors, d \in Contexts : q # p \/ d # c => R[q][d] = S[q][d]

Appends(Q, R, t, e) == R[t] = Append(Q[t], e) /\ Only(Q, R, t)

Takes(Q, R, p) == Q[p] # <<>> /\ R[p] = Tail(Q[p]) /\ Only(Q, R, p)

LEMMA ProcessorFacts ==
  Processors \subseteq Nat /\ IsFiniteSet(Processors) /\ IsFiniteSet(Contexts)
<1>1. Processors \subseteq Nat
  BY LinkAssumption DEF Processors
<1>2. IsFiniteSet(Processors)
  <2>1. 0 \in Int /\ Last \in Int
    BY LinkAssumption
  <2> QED BY <2>1, FS_Interval DEF Processors
<1>3. IsFiniteSet({} \union {"thread"})
  BY FS_EmptySet, FS_AddElement
<1>4. IsFiniteSet(({} \union {"thread"}) \union {"callback"})
  BY <1>3, FS_AddElement
<1>5. Contexts = ({} \union {"thread"}) \union {"callback"}
  BY DEF Contexts
<1> QED BY <1>1, <1>2, <1>4, <1>5

LEMMA PlacesElements ==
  ASSUME NEW Q, NEW m
  PROVE  /\ \A x \in PlacesIn(Q, m) :
              /\ x = <<x[1], x[2]>> /\ x[1] \in Processors
              /\ x[2] \in DOMAIN Q[x[1]] /\ Q[x[1]][x[2]] = m
         /\ \A p \in Processors : \A i \in DOMAIN Q[p] :
              Q[p][i] = m => <<p, i>> \in PlacesIn(Q, m)
<1>1. ASSUME NEW x \in PlacesIn(Q, m)
      PROVE  /\ x = <<x[1], x[2]>> /\ x[1] \in Processors
             /\ x[2] \in DOMAIN Q[x[1]] /\ Q[x[1]][x[2]] = m
  <2>1. PICK p \in Processors : x \in {<<p, i>> : i \in {j \in DOMAIN Q[p] : Q[p][j] = m}}
    BY <1>1 DEF PlacesIn
  <2>2. PICK i \in DOMAIN Q[p] : Q[p][i] = m /\ x = <<p, i>>
    BY <2>1
  <2> QED BY <2>2
<1>2. ASSUME NEW p \in Processors, NEW i \in DOMAIN Q[p], Q[p][i] = m
      PROVE  <<p, i>> \in PlacesIn(Q, m)
  <2>1. <<p, i>> \in {<<p, k>> : k \in {j \in DOMAIN Q[p] : Q[p][j] = m}}
    BY <1>2
  <2> QED BY <2>1 DEF PlacesIn
<1> QED BY <1>1, <1>2

LEMMA PlacesFinite ==
  ASSUME NEW Q \in [Processors -> Seq(Entry)], NEW m
  PROVE  IsFiniteSet(PlacesIn(Q, m))
<1> DEFINE F(p) == {<<p, i>> : i \in {j \in DOMAIN Q[p] : Q[p][j] = m}}
           T == {F(p) : p \in Processors}
           f == [p \in Processors |-> F(p)]
<1>1. \A p \in Processors : IsFiniteSet(F(p))
  <2> SUFFICES ASSUME NEW p \in Processors PROVE IsFiniteSet(F(p))
    OBVIOUS
  <2>1. Len(Q[p]) \in Nat /\ DOMAIN Q[p] = 1 .. Len(Q[p])
    OBVIOUS
  <2>2. IsFiniteSet(1 .. Len(Q[p]))
    BY <2>1, FS_Interval
  <2>3. IsFiniteSet(Processors \X (1 .. Len(Q[p])))
    BY <2>2, ProcessorFacts, FS_Product
  <2>4. F(p) \in SUBSET (Processors \X (1 .. Len(Q[p])))
    BY <2>1
  <2> QED BY <2>3, <2>4, FS_Subset
<1> HIDE DEF F
<1>2. \A t \in T : \E p \in Processors : t = f[p]
  OBVIOUS
<1> HIDE DEF f, T
<1>3. IsFiniteSet(T)
  BY <1>2, ProcessorFacts, ImageFinite
<1> USE DEF T
<1>4. \A t \in T : IsFiniteSet(t)
  BY <1>1
<1>5. IsFiniteSet(UNION T)
  BY <1>3, <1>4, FS_UNION
<1> QED BY <1>5 DEF PlacesIn, F

(* An entry that is appended is in one place more. *)
LEMMA AppendAddsPlace ==
  ASSUME NEW Q \in [Processors -> Seq(Entry)], NEW m, NEW t \in Processors, NEW e \in Entry,
         NEW R, Appends(Q, R, t, e)
  PROVE  Cardinality(PlacesIn(R, m)) = Cardinality(PlacesIn(Q, m)) + (IF m = e THEN 1 ELSE 0)
<1> DEFINE n == Len(Q[t]) + 1
<1>1. /\ n \in Nat /\ DOMAIN Q[t] = 1 .. Len(Q[t]) /\ Len(Q[t]) \in Nat
      /\ R[t] = Append(Q[t], e) /\ DOMAIN R[t] = 1 .. n /\ R[t][n] = e
      /\ \A i \in DOMAIN Q[t] : R[t][i] = Q[t][i]
      /\ \A p \in Processors : p # t => R[p] = Q[p]
  BY DEF Appends, Only
<1>2. n \notin DOMAIN Q[t] /\ DOMAIN R[t] = DOMAIN Q[t] \union {n}
  BY <1>1
<1> HIDE DEF n
<1>3. <<t, n>> \notin PlacesIn(Q, m)
  BY <1>2, PlacesElements
<1>4. IsFiniteSet(PlacesIn(Q, m)) /\ Cardinality(PlacesIn(Q, m)) \in Nat
  BY PlacesFinite, FS_CardinalityType
<1>5. CASE m = e
  <2>1. ASSUME NEW x \in PlacesIn(R, m) PROVE x \in PlacesIn(Q, m) \union {<<t, n>>}
    <3>1. /\ x = <<x[1], x[2]>> /\ x[1] \in Processors
          /\ x[2] \in DOMAIN R[x[1]] /\ R[x[1]][x[2]] = m
      BY ONLY <2>1, PlacesElements, Zenon
    <3>2. CASE x[1] = t /\ x[2] = n
      BY <3>1, <3>2
    <3>3. CASE ~ (x[1] = t /\ x[2] = n)
      <4>1. x[2] \in DOMAIN Q[x[1]] /\ Q[x[1]][x[2]] = m
        <5>1. CASE x[1] = t
          BY <3>1, <3>3, <5>1, <1>1, <1>2
        <5>2. CASE x[1] # t
          BY <3>1, <5>2, <1>1
        <5> QED BY <5>1, <5>2
      <4>2. <<x[1], x[2]>> \in PlacesIn(Q, m)
        BY <3>1, <4>1, PlacesElements
      <4> QED BY <4>2, <3>1
    <3> QED BY <3>2, <3>3
  <2>2. ASSUME NEW x \in PlacesIn(Q, m) PROVE x \in PlacesIn(R, m)
    <3>1. /\ x = <<x[1], x[2]>> /\ x[1] \in Processors
          /\ x[2] \in DOMAIN Q[x[1]] /\ Q[x[1]][x[2]] = m
      BY PlacesElements
    <3>2. x[2] \in DOMAIN R[x[1]] /\ R[x[1]][x[2]] = m
      <4>1. CASE x[1] = t
        BY <3>1, <4>1, <1>1, <1>2
      <4>2. CASE x[1] # t
        BY <3>1, <4>2, <1>1
      <4> QED BY <4>1, <4>2
    <3>3. <<x[1], x[2]>> \in PlacesIn(R, m)
      BY <3>1, <3>2, PlacesElements
    <3> QED BY <3>3, <3>1
  <2>3. <<t, n>> \in PlacesIn(R, m)
    BY <1>1, <1>2, <1>5, PlacesElements
  <2>4. PlacesIn(R, m) = PlacesIn(Q, m) \union {<<t, n>>}
    BY <2>1, <2>2, <2>3
  <2> QED BY <2>4, <1>3, <1>4, <1>5, FS_AddElement
<1>6. CASE m # e
  <2>1. ASSUME NEW x \in PlacesIn(R, m) PROVE x \in PlacesIn(Q, m)
    <3>1. /\ x = <<x[1], x[2]>> /\ x[1] \in Processors
          /\ x[2] \in DOMAIN R[x[1]] /\ R[x[1]][x[2]] = m
      BY ONLY <2>1, PlacesElements, Zenon
    <3>2. x[2] \in DOMAIN Q[x[1]] /\ Q[x[1]][x[2]] = m
      BY <3>1, <1>1, <1>2, <1>6
    <3>3. <<x[1], x[2]>> \in PlacesIn(Q, m)
      BY <3>1, <3>2, PlacesElements
    <3> QED BY <3>3, <3>1
  <2>2. ASSUME NEW x \in PlacesIn(Q, m) PROVE x \in PlacesIn(R, m)
    <3>1. /\ x = <<x[1], x[2]>> /\ x[1] \in Processors
          /\ x[2] \in DOMAIN Q[x[1]] /\ Q[x[1]][x[2]] = m
      BY PlacesElements
    <3>2. x[2] \in DOMAIN R[x[1]] /\ R[x[1]][x[2]] = m
      <4>1. CASE x[1] = t
        BY <3>1, <4>1, <1>1, <1>2
      <4>2. CASE x[1] # t
        BY <3>1, <4>2, <1>1
      <4> QED BY <4>1, <4>2
    <3>3. <<x[1], x[2]>> \in PlacesIn(R, m)
      BY <3>1, <3>2, PlacesElements
    <3> QED BY <3>3, <3>1
  <2>3. PlacesIn(R, m) = PlacesIn(Q, m)
    BY <2>1, <2>2
  <2> QED BY <2>3, <1>4, <1>6
<1> QED BY <1>5, <1>6
(* An entry that is taken from the front of a queue is in one place less. *)
LEMMA TailTakesPlace ==
  ASSUME NEW Q \in [Processors -> Seq(Entry)], NEW m, NEW p \in Processors,
         NEW R, Takes(Q, R, p)
  PROVE  /\ IsFiniteSet(PlacesIn(Q, m)) /\ Cardinality(PlacesIn(Q, m)) \in Nat
         /\ Cardinality(PlacesIn(R, m)) =
              Cardinality(PlacesIn(Q, m)) - (IF m = Head(Q[p]) THEN 1 ELSE 0)
         /\ m = Head(Q[p]) => <<p, 1>> \in PlacesIn(Q, m)
<1> DEFINE S == PlacesIn(Q, m)
           T == S \ {<<p, 1>>}
           U == PlacesIn(R, m)
           f == [x \in T |-> IF x[1] = p THEN <<p, x[2] - 1>> ELSE x]
<1>1. /\ Len(Q[p]) \in Nat /\ Len(Q[p]) >= 1 /\ DOMAIN Q[p] = 1 .. Len(Q[p])
      /\ R[p] = Tail(Q[p]) /\ DOMAIN R[p] = 1 .. Len(Q[p]) - 1
      /\ \A i \in DOMAIN R[p] : R[p][i] = Q[p][i + 1]
      /\ \A q \in Processors : q # p => R[q] = Q[q]
      /\ Head(Q[p]) = Q[p][1] /\ p \in Processors
  BY DEF Takes, Only
<1>2. \A x \in S : /\ x = <<x[1], x[2]>> /\ x[1] \in Processors
                   /\ x[2] \in DOMAIN Q[x[1]] /\ Q[x[1]][x[2]] = m
  BY PlacesElements
<1>3. \A x \in U : /\ x = <<x[1], x[2]>> /\ x[1] \in Processors
                   /\ x[2] \in DOMAIN R[x[1]] /\ R[x[1]][x[2]] = m
  BY ONLY PlacesElements, Zenon
<1>4. IsFiniteSet(S) /\ Cardinality(S) \in Nat
  BY PlacesFinite, FS_CardinalityType
<1>5. <<p, 1>> \in S <=> m = Head(Q[p])
  <2>1. CASE m = Head(Q[p])
    <3>1. 1 \in DOMAIN Q[p] /\ Q[p][1] = m
      BY <1>1, <2>1
    <3> QED BY <3>1, <2>1, PlacesElements
  <2>2. CASE <<p, 1>> \in S
    <3>1. Q[<<p, 1>>[1]][<<p, 1>>[2]] = m /\ <<p, 1>>[1] = p /\ <<p, 1>>[2] = 1
      BY <1>2, <2>2
    <3>2. Q[p][1] = m
      BY ONLY <3>1
    <3> QED BY <3>2, <2>2, <1>1
  <2> QED BY <2>1, <2>2
<1>6. IsFiniteSet(T) /\ Cardinality(T) = Cardinality(S) - (IF m = Head(Q[p]) THEN 1 ELSE 0)
  <2>1. /\ IsFiniteSet(S \ {<<p, 1>>})
        /\ Cardinality(S \ {<<p, 1>>}) =
             IF <<p, 1>> \in S THEN Cardinality(S) - 1 ELSE Cardinality(S)
    BY <1>4, FS_RemoveElement
  <2> QED BY <2>1, <1>4, <1>5
<1> HIDE DEF S, U
<1>7. ASSUME NEW x \in T
      PROVE  /\ f[x] \in U
             /\ x[1] = p => x[2] \in Nat /\ x[2] > 1 /\ f[x] = <<p, x[2] - 1>>
             /\ x[1] # p => f[x] = x
  <2>1. /\ x = <<x[1], x[2]>> /\ x[1] \in Processors
        /\ x[2] \in DOMAIN Q[x[1]] /\ Q[x[1]][x[2]] = m /\ x # <<p, 1>>
    BY <1>2
  <2>2. CASE x[1] = p
    <3>1. x[2] \in 1 .. Len(Q[p]) /\ x[2] # 1
      BY <2>1, <2>2, <1>1
    <3>2. x[2] - 1 \in DOMAIN R[p] /\ x[2] \in Nat /\ x[2] > 1 /\ (x[2] - 1) + 1 = x[2]
      BY <3>1, <1>1
    <3>3. R[p][x[2] - 1] = m
      BY <3>2, <2>1, <2>2, <1>1
    <3>4. <<p, x[2] - 1>> \in U
      BY ONLY <1>1, <3>2, <3>3, PlacesElements, Zenon DEF U
    <3> QED BY <3>2, <3>4, <2>2
  <2>3. CASE x[1] # p
    <3>1. x[2] \in DOMAIN R[x[1]] /\ R[x[1]][x[2]] = m
      BY <2>1, <2>3, <1>1
    <3>2. <<x[1], x[2]>> \in U
      BY <3>1, <2>1, PlacesElements DEF U
    <3> QED BY <3>2, <2>1, <2>3
  <2> QED BY <2>2, <2>3
<1>8. \A x, y \in T : f[x] = f[y] => x = y
  <2> SUFFICES ASSUME NEW x \in T, NEW y \in T, f[x] = f[y] PROVE x = y
    OBVIOUS
  <2>1. x = <<x[1], x[2]>> /\ y = <<y[1], y[2]>>
    BY <1>2
  <2>2. f[x][1] = x[1] /\ f[y][1] = y[1]
    BY <2>1, <1>7
  <2>3. CASE x[1] = p
    <3>1. y[1] = p
      BY <2>2, <2>3
    <3>2. <<p, x[2] - 1>> = <<p, y[2] - 1>> /\ x[2] \in Nat /\ y[2] \in Nat
      BY <3>1, <2>3, <1>7
    <3> QED BY <3>1, <3>2, <2>1, <2>3
  <2>4. CASE x[1] # p
    BY <2>2, <2>4, <1>7
  <2> QED BY <2>3, <2>4
<1>9. ASSUME NEW u \in U PROVE \E x \in T : u = f[x]
  <2>1. /\ u = <<u[1], u[2]>> /\ u[1] \in Processors
        /\ u[2] \in DOMAIN R[u[1]] /\ R[u[1]][u[2]] = m
    BY <1>3
  <2>2. CASE u[1] = p
    <3>1. /\ u[2] \in Nat /\ u[2] + 1 \in DOMAIN Q[p] /\ u[2] + 1 # 1
          /\ Q[p][u[2] + 1] = m /\ (u[2] + 1) - 1 = u[2]
      BY <2>1, <2>2, <1>1
    <3>2. <<p, u[2] + 1>> \in T
      BY <3>1, PlacesElements DEF S
    <3>3. f[<<p, u[2] + 1>>] = <<p, (u[2] + 1) - 1>>
      BY <3>2
    <3> QED BY <3>1, <3>2, <3>3, <2>1, <2>2
  <2>3. CASE u[1] # p
    <3>1. u[2] \in DOMAIN Q[u[1]] /\ Q[u[1]][u[2]] = m
      BY <2>1, <2>3, <1>1
    <3>2. <<u[1], u[2]>> \in S /\ <<u[1], u[2]>> # <<p, 1>>
      BY <3>1, <2>1, <2>3, PlacesElements DEF S
    <3>3. u \in T
      BY <3>2, <2>1
    <3> QED BY <3>3, <2>3
  <2> QED BY <2>2, <2>3
<1>10. \A x \in T : f[x] \in U
  BY <1>7
<1>11. \A u \in U : \E x \in T : u = f[x]
  BY <1>9
<1> HIDE DEF f, T
<1>12. Cardinality(U) = Cardinality(T)
  BY <1>6, <1>8, <1>10, <1>11, SameSize
<1> QED BY <1>4, <1>5, <1>6, <1>12 DEF S, U
LEMMA LeftElements ==
  ASSUME NEW S, NEW m
  PROVE  /\ \A x \in LeftIn(S, m) :
              /\ x = <<x[1], x[2], x[3]>>
              /\ x[1] \in Processors /\ x[2] \in Contexts /\ x[3] \in Processors
              /\ S[x[1]][x[2]].entry = m /\ x[3] \in S[x[1]][x[2]].left
         /\ \A p \in Processors, c \in Contexts, q \in Processors :
              S[p][c].entry = m /\ q \in S[p][c].left => <<p, c, q>> \in LeftIn(S, m)
BY DEF LeftIn

LEMMA LeftFinite ==
  ASSUME NEW S, NEW m
  PROVE  IsFiniteSet(LeftIn(S, m)) /\ Cardinality(LeftIn(S, m)) \in Nat
<1> DEFINE U == (Processors \X Contexts) \X Processors
           f == [u \in U |-> <<u[1][1], u[1][2], u[2]>>]
           T == Processors \X Contexts \X Processors
<1>1. IsFiniteSet(Processors \X Contexts)
  BY ProcessorFacts, FS_Product
<1>2. IsFiniteSet(U)
  BY <1>1, ProcessorFacts, FS_Product
<1>3. ASSUME NEW t \in T PROVE \E u \in U : t = f[u]
  <2>1. /\ t = <<t[1], t[2], t[3]>>
        /\ t[1] \in Processors /\ t[2] \in Contexts /\ t[3] \in Processors
    OBVIOUS
  <2>2. << <<t[1], t[2]>>, t[3]>> \in U
    BY <2>1
  <2>3. f[<< <<t[1], t[2]>>, t[3]>>] = <<t[1], t[2], t[3]>>
    BY <2>2
  <2> QED BY <2>1, <2>2, <2>3
<1>4. LeftIn(S, m) \in SUBSET T
  BY DEF LeftIn
<1> HIDE DEF U, f, T
<1>5. IsFiniteSet(T)
  BY <1>2, <1>3, ImageFinite
<1> QED BY <1>4, <1>5, FS_Subset, FS_CardinalityType

(* The pushes that are left depend on no send that has none left. *)
LEMMA SameLeft ==
  ASSUME NEW S, NEW R, NEW m,
         \A p \in Processors, c \in Contexts :
           /\ R[p][c].left = S[p][c].left
           /\ S[p][c].left # {} => R[p][c].entry = S[p][c].entry
  PROVE  LeftIn(R, m) = LeftIn(S, m)
<1>1. ASSUME NEW x \in LeftIn(R, m) PROVE x \in LeftIn(S, m)
  <2>1. /\ x = <<x[1], x[2], x[3]>>
        /\ x[1] \in Processors /\ x[2] \in Contexts /\ x[3] \in Processors
        /\ R[x[1]][x[2]].entry = m /\ x[3] \in R[x[1]][x[2]].left
    BY LeftElements
  <2>2. S[x[1]][x[2]].entry = m /\ x[3] \in S[x[1]][x[2]].left
    BY <2>1
  <2> QED BY <2>1, <2>2, LeftElements
<1>2. ASSUME NEW x \in LeftIn(S, m) PROVE x \in LeftIn(R, m)
  <2>1. /\ x = <<x[1], x[2], x[3]>>
        /\ x[1] \in Processors /\ x[2] \in Contexts /\ x[3] \in Processors
        /\ S[x[1]][x[2]].entry = m /\ x[3] \in S[x[1]][x[2]].left
    BY LeftElements
  <2>2. R[x[1]][x[2]].entry = m /\ x[3] \in R[x[1]][x[2]].left
    BY <2>1
  <2> QED BY <2>1, <2>2, LeftElements
<1> QED BY <1>1, <1>2

(* A push takes one from what is left of its entry. *)
LEMMA PushTakesLeft ==
  ASSUME NEW S, NEW R, NEW m, NEW p \in Processors, NEW c \in Contexts,
         NEW t \in Processors, t \in S[p][c].left,
         R[p][c].entry = S[p][c].entry, R[p][c].left = S[p][c].left \ {t},
         OnlySend(S, R, p, c)
  PROVE  Cardinality(LeftIn(R, m)) =
           Cardinality(LeftIn(S, m)) - (IF m = S[p][c].entry THEN 1 ELSE 0)
<1> USE DEF OnlySend
<1>1. LeftIn(R, m) = LeftIn(S, m) \ {<<p, c, t>>}
  <2>1. ASSUME NEW x \in LeftIn(R, m) PROVE x \in LeftIn(S, m) \ {<<p, c, t>>}
    <3>1. /\ x = <<x[1], x[2], x[3]>>
          /\ x[1] \in Processors /\ x[2] \in Contexts /\ x[3] \in Processors
          /\ R[x[1]][x[2]].entry = m /\ x[3] \in R[x[1]][x[2]].left
      BY LeftElements
    <3>2. S[x[1]][x[2]].entry = m /\ x[3] \in S[x[1]][x[2]].left
      BY <3>1
    <3>3. ~ (x[1] = p /\ x[2] = c /\ x[3] = t)
      BY <3>1
    <3>4. x # <<p, c, t>>
      BY <3>1, <3>3
    <3> QED BY <3>1, <3>2, <3>4, LeftElements
  <2>2. ASSUME NEW x \in LeftIn(S, m) \ {<<p, c, t>>} PROVE x \in LeftIn(R, m)
    <3>1. /\ x = <<x[1], x[2], x[3]>>
          /\ x[1] \in Processors /\ x[2] \in Contexts /\ x[3] \in Processors
          /\ S[x[1]][x[2]].entry = m /\ x[3] \in S[x[1]][x[2]].left
      BY LeftElements
    <3>2. ~ (x[1] = p /\ x[2] = c /\ x[3] = t)
      BY <3>1
    <3>3. R[x[1]][x[2]].entry = m /\ x[3] \in R[x[1]][x[2]].left
      BY <3>1, <3>2
    <3> QED BY <3>1, <3>3, LeftElements
  <2> QED BY <2>1, <2>2
<1>2. <<p, c, t>> \in LeftIn(S, m) <=> m = S[p][c].entry
  <2>1. CASE m = S[p][c].entry
    BY <2>1, LeftElements
  <2>2. CASE <<p, c, t>> \in LeftIn(S, m)
    BY <2>2 DEF LeftIn
  <2> QED BY <2>1, <2>2
<1>3. IsFiniteSet(LeftIn(S, m)) /\ Cardinality(LeftIn(S, m)) \in Nat
  BY LeftFinite
<1>4. Cardinality(LeftIn(S, m) \ {<<p, c, t>>}) =
        IF <<p, c, t>> \in LeftIn(S, m)
          THEN Cardinality(LeftIn(S, m)) - 1 ELSE Cardinality(LeftIn(S, m))
  BY <1>3, FS_RemoveElement
<1> QED BY <1>1, <1>2, <1>3, <1>4

(* A send that begins changes nothing for the other entries.                 *)
LEMMA BeginLeaves ==
  ASSUME NEW S, NEW R, NEW m, NEW p \in Processors, NEW c \in Contexts,
         S[p][c].left = {}, OnlySend(S, R, p, c), m # R[p][c].entry
  PROVE  LeftIn(R, m) = LeftIn(S, m)
<1> USE DEF OnlySend
<1>1. ASSUME NEW x \in LeftIn(S, m) PROVE x \in LeftIn(R, m)
  <2>1. /\ x = <<x[1], x[2], x[3]>>
        /\ x[1] \in Processors /\ x[2] \in Contexts /\ x[3] \in Processors
        /\ S[x[1]][x[2]].entry = m /\ x[3] \in S[x[1]][x[2]].left
    BY LeftElements
  <2>2. ~ (x[1] = p /\ x[2] = c)
    BY <2>1
  <2>3. R[x[1]][x[2]].entry = m /\ x[3] \in R[x[1]][x[2]].left
    BY <2>1, <2>2
  <2> QED BY <2>1, <2>3, LeftElements
<1>2. ASSUME NEW x \in LeftIn(R, m) PROVE x \in LeftIn(S, m)
  <2>1. /\ x = <<x[1], x[2], x[3]>>
        /\ x[1] \in Processors /\ x[2] \in Contexts /\ x[3] \in Processors
        /\ R[x[1]][x[2]].entry = m /\ x[3] \in R[x[1]][x[2]].left
    BY LeftElements
  <2>2. ~ (x[1] = p /\ x[2] = c)
    BY <2>1
  <2>3. S[x[1]][x[2]].entry = m /\ x[3] \in S[x[1]][x[2]].left
    BY <2>1, <2>2
  <2> QED BY <2>1, <2>3, LeftElements
<1> QED BY <1>1, <1>2

(* It has its targets left if none of its entry were. *)
LEMMA BeginAdds ==
  ASSUME NEW S, NEW R, NEW m, NEW p \in Processors, NEW c \in Contexts,
         S[p][c].left = {}, R[p][c].left \in SUBSET Processors,
         OnlySend(S, R, p, c), m = R[p][c].entry, LeftIn(S, m) = {}
  PROVE  Cardinality(LeftIn(R, m)) = Cardinality(R[p][c].left)
<1> DEFINE T == R[p][c].left
           f == [t \in T |-> <<p, c, t>>]
<1>1. \A t \in T : f[t] \in LeftIn(R, m)
  BY LeftElements
<1>2. \A s, t \in T : f[s] = f[t] => s = t
  <2> SUFFICES ASSUME NEW s \in T, NEW t \in T, <<p, c, s>> = <<p, c, t>> PROVE s = t
    OBVIOUS
  <2> QED OBVIOUS
<1>3. ASSUME NEW x \in LeftIn(R, m) PROVE \E t \in T : x = f[t]
  <2>1. /\ x = <<x[1], x[2], x[3]>>
        /\ x[1] \in Processors /\ x[2] \in Contexts /\ x[3] \in Processors
        /\ R[x[1]][x[2]].entry = m /\ x[3] \in R[x[1]][x[2]].left
    BY LeftElements
  <2>2. CASE x[1] = p /\ x[2] = c
    BY <2>1, <2>2
  <2>3. CASE ~ (x[1] = p /\ x[2] = c)
    <3>1. S[x[1]][x[2]].entry = m /\ x[3] \in S[x[1]][x[2]].left
      BY <2>1, <2>3 DEF OnlySend
    <3>2. x \in LeftIn(S, m)
      BY <2>1, <3>1, LeftElements
    <3> QED BY <3>2
  <2> QED BY <2>2, <2>3
<1>4. IsFiniteSet(T)
  BY ProcessorFacts, FS_Subset
<1> HIDE DEF f
<1> QED BY <1>1, <1>2, <1>3, <1>4, SameSize

SetsSend(S, R, p, c, v) == R = [S EXCEPT ![p][c] = v]

LEMMA SendsSet ==
  ASSUME NEW S \in [Processors -> [Contexts -> SendTypes]],
         NEW p \in Processors, NEW c \in Contexts, NEW v \in SendTypes,
         NEW R, SetsSend(S, R, p, c, v)
  PROVE  /\ R \in [Processors -> [Contexts -> SendTypes]]
         /\ R[p][c] = v
         /\ OnlySend(S, R, p, c)
<1> DEFINE ST == SendTypes
<1>1. S \in [Processors -> [Contexts -> ST]] /\ v \in ST /\ R = [S EXCEPT ![p][c] = v]
  BY DEF SetsSend
<1> HIDE DEF ST
<1>2. /\ R \in [Processors -> [Contexts -> ST]]
      /\ R[p][c] = v
      /\ OnlySend(S, R, p, c)
  BY <1>1 DEF OnlySend
<1> QED BY <1>2 DEF ST

LEMMA SendRecords ==
  /\ \A s \in SendTypes :
       /\ s.entry \in Entry /\ s.left \in SUBSET Processors /\ s.tell \in SUBSET Processors
  /\ \A e \in Entry, l \in SUBSET Processors :
       /\ Sending(e, l) \in SendTypes
       /\ Sending(e, l).entry = e /\ Sending(e, l).left = l /\ Sending(e, l).tell = {}
  /\ Quiet \in SendTypes /\ Quiet.left = {} /\ Quiet.tell = {}
BY DEF SendTypes, Sending, Quiet, Entry

LEMMA SendSteps ==
  \A s \in SendTypes, t \in Processors :
    /\ Pushed(s, t) \in SendTypes /\ Pushed(s, t).entry = s.entry
    /\ Pushed(s, t).left = s.left \ {t} /\ Pushed(s, t).tell = {t}
    /\ Told(s) \in SendTypes /\ Told(s).left = s.left /\ Told(s).tell = {}
    /\ s.left # {} => Told(s).entry = s.entry
<1> SUFFICES ASSUME NEW s \in SendTypes, NEW t \in Processors
             PROVE  /\ Pushed(s, t) \in SendTypes /\ Pushed(s, t).entry = s.entry
                    /\ Pushed(s, t).left = s.left \ {t} /\ Pushed(s, t).tell = {t}
                    /\ Told(s) \in SendTypes /\ Told(s).left = s.left
                    /\ Told(s).tell = {}
                    /\ s.left # {} => Told(s).entry = s.entry
  OBVIOUS
<1>1. /\ Pushed(s, t) \in SendTypes /\ Pushed(s, t).entry = s.entry
      /\ Pushed(s, t).left = s.left \ {t} /\ Pushed(s, t).tell = {t}
  BY DEF SendTypes, Pushed
<1>2. CASE s.left = {}
  <2>1. Told(s) = Quiet
    BY <1>2 DEF Told
  <2> QED BY <1>1, <1>2, <2>1, SendRecords
<1>3. CASE s.left # {}
  <2>1. Told(s) = [s EXCEPT !.tell = {}]
    BY <1>3 DEF Told
  <2>2. /\ Told(s) \in SendTypes /\ Told(s).left = s.left
        /\ Told(s).tell = {} /\ Told(s).entry = s.entry
    BY <2>1 DEF SendTypes
  <2> QED BY <1>1, <2>2
<1> QED BY <1>1, <1>2, <1>3

(* What is not allocated is nowhere in use. *)
LEMMA UnallocatedIsUnused ==
  ASSUME LinkTypes, Sent, EntriesAllocated, NEW m \in Messages, m \notin DOMAIN data_counter
  PROVE  PlacesIn(queue, m) = {} /\ LeftIn(sends, m) = {}
<1>1. m # Bytes
  BY LinkAssumption
<1>2. ASSUME NEW x \in PlacesIn(queue, m) PROVE FALSE
  <2>1. x[1] \in Processors /\ x[2] \in DOMAIN queue[x[1]] /\ queue[x[1]][x[2]] = m
    BY PlacesElements
  <2> QED BY <1>1, <2>1 DEF EntriesAllocated
<1>3. ASSUME NEW x \in LeftIn(sends, m) PROVE FALSE
  <2>1. /\ x[1] \in Processors /\ x[2] \in Contexts
        /\ sends[x[1]][x[2]].entry = m /\ x[3] \in sends[x[1]][x[2]].left
    BY LeftElements
  <2>2. sends[x[1]][x[2]].left # {}
    BY <2>1
  <2> QED BY <1>1, <2>1, <2>2 DEF Sent
<1> QED BY <1>2, <1>3

LEMMA LinkHolders ==
  ASSUME LinkTypes
  PROVE  /\ \A m : Entries(m) = PlacesIn(queue, m) /\ PushesLeft(m) = LeftIn(sends, m)
         /\ \A m : Entries(m)' = PlacesIn(queue', m) /\ PushesLeft(m)' = LeftIn(sends', m)
BY DEF Entries, PlacesIn, PushesLeft, LeftIn

LEMMA InitHoldsMessages == LinkInit => LinkInv
<1> SUFFICES ASSUME LinkInit PROVE LinkInv
  OBVIOUS
<1> USE DEF LinkInit
<1>1. LinkTypes
  <2>1. queue \in [Processors -> Seq(Entry)]
    OBVIOUS
  <2>2. sends \in [Processors -> [Contexts -> SendTypes]]
    <3>1. Quiet \in SendTypes
      BY SendRecords
    <3> QED BY <3>1
  <2>3. DOMAIN data_counter = {} /\ data_counter \in [DOMAIN data_counter -> Nat]
    OBVIOUS
  <2> QED BY <2>1, <2>2, <2>3 DEF LinkTypes
<1>2. Called
  BY DEF Called
<1>3. Sent
  BY SendRecords DEF Sent
<1>4. MessagesHeld
  BY DEF MessagesHeld, HoldersCounted, EntriesAllocated, QueuesAttended
<1> QED BY <1>1, <1>2, <1>3, <1>4 DEF LinkInv

(* A send that begins. *)
LEMMA BeginFacts ==
  ASSUME LinkInv, NEW p \in Processors, NEW c \in Contexts, NEW e \in Entry,
         NEW l \in SUBSET Processors, Begin(p, c, Sending(e, l))
  PROVE  /\ sends' \in [Processors -> [Contexts -> SendTypes]]
         /\ sends[p][c].left = {} /\ sends[p][c].tell = {}
         /\ sends'[p][c].entry = e /\ sends'[p][c].left = l
         /\ OnlySend(sends, sends', p, c)
         /\ QueuesAttended'
<1>1. sends \in [Processors -> [Contexts -> SendTypes]]
  BY DEF LinkInv, LinkTypes
<1>2. Sending(e, l) \in SendTypes /\ Sending(e, l).entry = e /\ Sending(e, l).left = l
  BY SendRecords
<1>3. sends' = [sends EXCEPT ![p][c] = Sending(e, l)] /\ sends[p][c] = Quiet
  BY DEF Begin
<1>4. /\ sends' \in [Processors -> [Contexts -> SendTypes]]
      /\ sends'[p][c] = Sending(e, l)
      /\ OnlySend(sends, sends', p, c)
  <2>1. SetsSend(sends, sends', p, c, Sending(e, l))
    BY <1>3 DEF SetsSend
  <2> QED BY <1>1, <1>2, <2>1, SendsSet
<1>5. sends[p][c].left = {} /\ sends[p][c].tell = {}
  BY <1>3, SendRecords
<1>6. ASSUME NEW r \in Processors, NEW q \in Processors, NEW d \in Contexts,
             r \in sends[q][d].tell
      PROVE  r \in sends'[q][d].tell
  BY <1>4, <1>5, <1>6 DEF OnlySend
<1>7. UNCHANGED <<queue, serving, pending, missed>>
  BY DEF Begin
<1>8. QueuesAttended'
  BY <1>6, <1>7 DEF LinkInv, MessagesHeld, QueuesAttended
<1> QED BY <1>2, <1>4, <1>5, <1>8
LEMMA BroadcastHoldsMessages ==
  ASSUME LinkInv, NEW p \in Processors, NEW c \in Contexts, NEW self, Broadcast(p, c, self)
  PROVE  LinkInv'
<1> DEFINE m == CHOOSE n \in Messages : n \notin DOMAIN data_counter
           T == Targets(p, self)
<1> USE DEF LinkInv
<1>1. /\ IsFiniteSet(Messages) /\ DOMAIN data_counter \in SUBSET Messages
      /\ Bytes \notin Messages
  BY LinkAssumption DEF LinkTypes
<1>2. m \in Messages /\ m \notin DOMAIN data_counter
  <2>1. Cardinality(DOMAIN data_counter) # Cardinality(Messages)
    <3>1. Cardinality(DOMAIN data_counter) \in Nat /\ Cardinality(Messages) \in Nat
      BY <1>1, FS_Subset, FS_CardinalityType
    <3>2. \/ Cardinality(DOMAIN data_counter) + 1 < Cardinality(Messages)
          \/ Cardinality(DOMAIN data_counter) + 0 < Cardinality(Messages)
      BY DEF Broadcast, RoomForOne
    <3> QED BY <3>1, <3>2
  <2>2. \E n \in Messages : n \notin DOMAIN data_counter
    BY <1>1, <2>1
  <2> QED BY <2>2
<1>3. T \in SUBSET Processors /\ Cardinality(T) \in Nat
  <2>1. T \in SUBSET Processors
    BY DEF Targets
  <2> QED BY <2>1, ProcessorFacts, FS_Subset, FS_CardinalityType
<1>4. /\ Begin(p, c, Sending(m, T))
      /\ data_counter' = [n \in DOMAIN data_counter \union {m} |->
                            IF n = m THEN Cardinality(T) ELSE data_counter[n]]
  BY DEF Broadcast
<1> HIDE DEF m, T
<1>5. m \in Entry
  BY <1>2 DEF Entry
<1>6. /\ sends' \in [Processors -> [Contexts -> SendTypes]]
      /\ sends[p][c].left = {} /\ sends[p][c].tell = {}
      /\ sends'[p][c].entry = m /\ sends'[p][c].left = T
      /\ OnlySend(sends, sends', p, c)
      /\ QueuesAttended'
  BY <1>3, <1>4, <1>5, BeginFacts
<1>7. UNCHANGED <<queue, handlers, serving, calling, pending, missed, misread>>
  BY <1>4 DEF Begin
<1>8. /\ DOMAIN data_counter' = DOMAIN data_counter \union {m}
      /\ data_counter'[m] = Cardinality(T)
      /\ \A n \in DOMAIN data_counter : data_counter'[n] = data_counter[n]
  BY <1>2, <1>4
<1>9. LinkTypes'
  <2>1. data_counter' \in [DOMAIN data_counter' -> Nat]
    <3>1. \A n \in DOMAIN data_counter : data_counter[n] \in Nat
      BY DEF LinkTypes
    <3> QED BY <1>3, <1>4, <3>1
  <2> QED BY <1>1, <1>2, <1>6, <1>7, <1>8, <2>1 DEF LinkTypes
<1>10. Called'
  BY <1>7, <1>8 DEF Called
<1>11. Sent'
  <2> SUFFICES ASSUME NEW q \in Processors, NEW d \in Contexts, sends'[q][d].left # {}
               PROVE  sends'[q][d].entry \in DOMAIN data_counter' \union {Bytes}
    BY DEF Sent
  <2>1. CASE q = p /\ d = c
    BY <2>1, <1>6, <1>8
  <2>2. CASE q # p \/ d # c
    BY <2>2, <1>6, <1>8 DEF Sent, OnlySend
  <2> QED BY <2>1, <2>2
<1>12. EntriesAllocated'
  BY <1>7, <1>8 DEF MessagesHeld, EntriesAllocated
<1>13. HoldersCounted'
  <2> SUFFICES ASSUME NEW n \in DOMAIN data_counter'
               PROVE  data_counter'[n] =
                        Cardinality(Entries(n)') + Cardinality(PushesLeft(n)')
    BY DEF HoldersCounted
  <2>1. Entries(n)' = PlacesIn(queue, n) /\ PushesLeft(n)' = LeftIn(sends', n)
    BY <1>7, LinkHolders
  <2>2. CASE n = m
    <3>1. PlacesIn(queue, m) = {} /\ LeftIn(sends, m) = {}
      BY <1>2, UnallocatedIsUnused DEF MessagesHeld
    <3>2. Cardinality(LeftIn(sends', m)) = Cardinality(T)
      <4>1. /\ p \in Processors /\ c \in Contexts /\ sends[p][c].left = {}
            /\ sends'[p][c].left \in SUBSET Processors /\ OnlySend(sends, sends', p, c)
            /\ m = sends'[p][c].entry /\ LeftIn(sends, m) = {}
        BY <1>3, <1>6, <3>1
      <4>2. Cardinality(LeftIn(sends', m)) = Cardinality(sends'[p][c].left)
        BY ONLY <4>1, BeginAdds
      <4> QED BY <1>6, <4>2
    <3> QED BY <1>3, <1>8, <2>1, <2>2, <3>1, <3>2, FS_EmptySet
  <2>3. CASE n # m
    <3>1. n \in DOMAIN data_counter /\ data_counter'[n] = data_counter[n]
      BY <1>8, <2>3
    <3>2. LeftIn(sends', n) = LeftIn(sends, n)
      <4>1. /\ p \in Processors /\ c \in Contexts /\ sends[p][c].left = {}
            /\ OnlySend(sends, sends', p, c) /\ n # sends'[p][c].entry
        BY <1>6, <2>3
      <4> QED BY ONLY <4>1, BeginLeaves
    <3>3. data_counter[n] = Cardinality(PlacesIn(queue, n)) + Cardinality(LeftIn(sends, n))
      BY <3>1, LinkHolders DEF MessagesHeld, HoldersCounted
    <3> QED BY <2>1, <3>1, <3>2, <3>3
  <2> QED BY <2>2, <2>3
<1> QED BY <1>6, <1>9, <1>10, <1>11, <1>12, <1>13 DEF MessagesHeld

LEMMA SendHoldsMessages ==
  ASSUME LinkInv, NEW p \in Processors, NEW c \in Contexts, NEW t \in Processors, Send(p, c, t)
  PROVE  LinkInv'
<1> USE DEF LinkInv
<1>1. Begin(p, c, Sending(Bytes, {t})) /\ data_counter' = data_counter
  BY DEF Send
<1>2. Bytes \in Entry /\ Bytes \notin Messages /\ {t} \in SUBSET Processors
  BY LinkAssumption DEF Entry
<1>3. /\ sends' \in [Processors -> [Contexts -> SendTypes]]
      /\ sends[p][c].left = {} /\ sends[p][c].tell = {}
      /\ sends'[p][c].entry = Bytes /\ sends'[p][c].left = {t}
      /\ OnlySend(sends, sends', p, c)
      /\ QueuesAttended'
  BY <1>1, <1>2, BeginFacts
<1>4. UNCHANGED <<queue, handlers, serving, calling, pending, missed, misread>>
  BY <1>1 DEF Begin
<1>5. LinkTypes'
  BY <1>1, <1>3, <1>4 DEF LinkTypes
<1>6. Called'
  BY <1>1, <1>4 DEF Called
<1>7. Sent'
  <2> SUFFICES ASSUME NEW q \in Processors, NEW d \in Contexts, sends'[q][d].left # {}
               PROVE  sends'[q][d].entry \in DOMAIN data_counter' \union {Bytes}
    BY DEF Sent
  <2>1. CASE q = p /\ d = c
    BY <2>1, <1>3
  <2>2. CASE q # p \/ d # c
    BY <2>2, <1>1, <1>3 DEF Sent, OnlySend
  <2> QED BY <2>1, <2>2
<1>8. EntriesAllocated'
  BY <1>1, <1>4 DEF MessagesHeld, EntriesAllocated
<1>9. HoldersCounted'
  <2> SUFFICES ASSUME NEW n \in DOMAIN data_counter
               PROVE  data_counter[n] =
                        Cardinality(Entries(n)') + Cardinality(PushesLeft(n)')
    BY <1>1 DEF HoldersCounted
  <2>1. Entries(n)' = PlacesIn(queue, n) /\ PushesLeft(n)' = LeftIn(sends', n)
    BY <1>4, LinkHolders
  <2>2. n # Bytes
    BY <1>2 DEF LinkTypes
  <2>3. LeftIn(sends', n) = LeftIn(sends, n)
    <3>1. /\ p \in Processors /\ c \in Contexts /\ sends[p][c].left = {}
          /\ OnlySend(sends, sends', p, c) /\ n # sends'[p][c].entry
      BY <1>3, <2>2
    <3> QED BY ONLY <3>1, BeginLeaves
  <2>4. data_counter[n] = Cardinality(PlacesIn(queue, n)) + Cardinality(LeftIn(sends, n))
    BY LinkHolders DEF MessagesHeld, HoldersCounted
  <2> QED BY <2>1, <2>3, <2>4
<1> QED BY <1>3, <1>5, <1>6, <1>7, <1>8, <1>9 DEF MessagesHeld

LEMMA PushHoldsMessages ==
  ASSUME LinkInv, NEW p \in Processors, NEW c \in Contexts, Push(p, c)
  PROVE  LinkInv'
<1> DEFINE e == sends[p][c].entry
<1> USE DEF LinkInv
<1>1. PICK t \in sends[p][c].left \ serving :
        /\ queue' = [queue EXCEPT ![t] = Append(queue[t], e)]
        /\ sends' = [sends EXCEPT ![p][c] = Pushed(sends[p][c], t)]
  BY Zenon DEF Push
<1>2. /\ sends[p][c].tell = {}
      /\ UNCHANGED <<data_counter, handlers, serving, calling, pending, missed, misread>>
  BY DEF Push
<1>3. sends[p][c] \in SendTypes
  BY DEF LinkTypes
<1>4. /\ e \in Entry /\ sends[p][c].left \in SUBSET Processors /\ t \in Processors
      /\ e \in DOMAIN data_counter \union {Bytes}
  <2>1. e \in Entry /\ sends[p][c].left \in SUBSET Processors
    BY <1>3, SendRecords
  <2> QED BY <2>1 DEF Sent
<1>5. /\ sends' \in [Processors -> [Contexts -> SendTypes]]
      /\ sends'[p][c].entry = e /\ sends'[p][c].left = sends[p][c].left \ {t}
      /\ sends'[p][c].tell = {t}
      /\ OnlySend(sends, sends', p, c)
  <2> DEFINE v == Pushed(sends[p][c], t)
  <2>2. /\ v \in SendTypes /\ v.entry = e
        /\ v.left = sends[p][c].left \ {t} /\ v.tell = {t}
    BY <1>3, <1>4, SendSteps
  <2>3. sends' = [sends EXCEPT ![p][c] = v] /\ sends \in [Processors -> [Contexts -> SendTypes]]
    BY <1>1 DEF LinkTypes
  <2> HIDE DEF v
  <2>4. /\ sends' \in [Processors -> [Contexts -> SendTypes]]
        /\ sends'[p][c] = v
        /\ OnlySend(sends, sends', p, c)
    <3>1. SetsSend(sends, sends', p, c, v)
      BY <2>3 DEF SetsSend
    <3> QED BY <2>2, <2>3, <3>1, SendsSet
  <2> QED BY <2>2, <2>4
<1> HIDE DEF e
<1>6. queue \in [Processors -> Seq(Entry)] /\ DOMAIN data_counter \subseteq Messages
  BY DEF LinkTypes
<1>7. /\ queue' \in [Processors -> Seq(Entry)]
      /\ \A q \in Processors : q # t => queue'[q] = queue[q]
      /\ \A i \in DOMAIN queue'[t] :
           (i \in DOMAIN queue[t] /\ queue'[t][i] = queue[t][i]) \/ queue'[t][i] = e
  BY <1>1, <1>4, <1>6
<1>8. LinkTypes'
  BY <1>2, <1>5, <1>7 DEF LinkTypes
<1>9. Called'
  BY <1>1, <1>2, <1>7 DEF Called, LinkTypes
<1>10. Sent'
  <2> SUFFICES ASSUME NEW q \in Processors, NEW d \in Contexts, sends'[q][d].left # {}
               PROVE  sends'[q][d].entry \in DOMAIN data_counter \union {Bytes}
    BY <1>2 DEF Sent
  <2>1. CASE q = p /\ d = c
    BY <2>1, <1>4, <1>5
  <2>2. CASE q # p \/ d # c
    BY <2>2, <1>5 DEF Sent, OnlySend
  <2> QED BY <2>1, <2>2
<1>11. EntriesAllocated'
  <2> SUFFICES ASSUME NEW q \in Processors, NEW i \in DOMAIN queue'[q]
               PROVE  queue'[q][i] \in DOMAIN data_counter \union {Bytes}
    BY <1>2 DEF EntriesAllocated
  <2>1. CASE q = t
    BY <2>1, <1>4, <1>7 DEF MessagesHeld, EntriesAllocated
  <2>2. CASE q # t
    BY <2>2, <1>7 DEF MessagesHeld, EntriesAllocated
  <2> QED BY <2>1, <2>2
<1>12. QueuesAttended'
  <2> SUFFICES ASSUME NEW r \in Processors, queue'[r] # <<>>
               PROVE  \/ r \in serving \union pending \union missed
                      \/ \E q \in Processors, d \in Contexts : r \in sends'[q][d].tell
    BY <1>2 DEF QueuesAttended
  <2>1. CASE r = t
    BY <2>1, <1>5
  <2>2. CASE r # t
    <3>1. queue[r] # <<>>
      BY <2>2, <1>7
    <3>2. \/ r \in serving \union pending \union missed
          \/ \E q \in Processors, d \in Contexts : r \in sends[q][d].tell
      BY <3>1 DEF MessagesHeld, QueuesAttended
    <3>3. \A q \in Processors, d \in Contexts :
            r \in sends[q][d].tell => r \in sends'[q][d].tell
      BY <1>2, <1>5 DEF OnlySend
    <3> QED BY <3>2, <3>3
  <2> QED BY <2>1, <2>2
<1>13. HoldersCounted'
  <2> SUFFICES ASSUME NEW n \in DOMAIN data_counter
               PROVE  data_counter[n] =
                        Cardinality(Entries(n)') + Cardinality(PushesLeft(n)')
    BY <1>2 DEF HoldersCounted
  <2>1. Entries(n)' = PlacesIn(queue', n) /\ PushesLeft(n)' = LeftIn(sends', n)
    BY LinkHolders
  <2>2. Cardinality(PlacesIn(queue', n)) =
          Cardinality(PlacesIn(queue, n)) + (IF n = e THEN 1 ELSE 0)
    <3>1. Appends(queue, queue', t, e)
      BY <1>1, <1>4, <1>6 DEF Appends, Only
    <3> QED BY <1>4, <1>6, <3>1, AppendAddsPlace
  <2>3. Cardinality(LeftIn(sends', n)) =
          Cardinality(LeftIn(sends, n)) - (IF n = e THEN 1 ELSE 0)
    <3>1. /\ t \in sends[p][c].left /\ sends'[p][c].entry = sends[p][c].entry
          /\ e = sends[p][c].entry
      BY <1>5 DEF e
    <3>2. /\ p \in Processors /\ c \in Contexts /\ t \in Processors
          /\ t \in sends[p][c].left /\ sends'[p][c].entry = sends[p][c].entry
          /\ sends'[p][c].left = sends[p][c].left \ {t}
          /\ OnlySend(sends, sends', p, c)
      BY <1>4, <1>5, <3>1
    <3>3. Cardinality(LeftIn(sends', n)) =
            Cardinality(LeftIn(sends, n)) - (IF n = sends[p][c].entry THEN 1 ELSE 0)
      BY ONLY <3>2, PushTakesLeft
    <3> QED BY <3>1, <3>3
  <2>4. data_counter[n] = Cardinality(PlacesIn(queue, n)) + Cardinality(LeftIn(sends, n))
    BY LinkHolders DEF MessagesHeld, HoldersCounted
  <2>5. Cardinality(PlacesIn(queue, n)) \in Nat /\ Cardinality(LeftIn(sends, n)) \in Nat
    BY <1>6, PlacesFinite, LeftFinite, FS_CardinalityType
  <2> QED BY <2>1, <2>2, <2>3, <2>4, <2>5
<1> QED BY <1>8, <1>9, <1>10, <1>11, <1>12, <1>13 DEF MessagesHeld
LEMMA AnnounceHoldsMessages ==
  ASSUME LinkInv, NEW p \in Processors, NEW c \in Contexts, NEW sent, Announce(p, c, sent)
  PROVE  LinkInv'
<1> DEFINE told == sends[p][c].tell
<1> USE DEF LinkInv
<1>1. /\ UNCHANGED <<queue, data_counter, handlers, serving, calling, misread>>
      /\ sends' = [sends EXCEPT ![p][c] = Told(sends[p][c])]
      /\ \/ pending' = pending \union told /\ missed' = missed
         \/ missed' = missed \union told /\ pending' = pending
  BY DEF Announce
<1>2. sends \in [Processors -> [Contexts -> SendTypes]] /\ sends[p][c] \in SendTypes
  BY DEF LinkTypes
<1>3. /\ sends' \in [Processors -> [Contexts -> SendTypes]]
      /\ sends'[p][c].left = sends[p][c].left
      /\ sends[p][c].left # {} => sends'[p][c].entry = sends[p][c].entry
      /\ OnlySend(sends, sends', p, c)
  <2> DEFINE v == Told(sends[p][c])
  <2>1. /\ v \in SendTypes /\ v.left = sends[p][c].left
        /\ sends[p][c].left # {} => v.entry = sends[p][c].entry
    BY <1>2, SendSteps
  <2>2. SetsSend(sends, sends', p, c, v)
    BY <1>1 DEF SetsSend
  <2> HIDE DEF v
  <2>3. /\ sends' \in [Processors -> [Contexts -> SendTypes]]
        /\ sends'[p][c] = v /\ OnlySend(sends, sends', p, c)
    BY <1>2, <2>1, <2>2, SendsSet
  <2> QED BY <2>1, <2>3
<1>4. told \subseteq Processors
  BY <1>2, SendRecords
<1>5. \A q \in Processors, d \in Contexts :
        /\ sends'[q][d].left = sends[q][d].left
        /\ sends[q][d].left # {} => sends'[q][d].entry = sends[q][d].entry
        /\ q # p \/ d # c => sends'[q][d].tell = sends[q][d].tell
  <2> SUFFICES ASSUME NEW q \in Processors, NEW d \in Contexts
               PROVE  /\ sends'[q][d].left = sends[q][d].left
                      /\ sends[q][d].left # {} => sends'[q][d].entry = sends[q][d].entry
                      /\ q # p \/ d # c => sends'[q][d].tell = sends[q][d].tell
    OBVIOUS
  <2>1. CASE q = p /\ d = c
    BY <2>1, <1>3
  <2>2. CASE q # p \/ d # c
    BY <2>2, <1>3 DEF OnlySend
  <2> QED BY <2>1, <2>2
<1>6. LinkTypes'
  BY <1>1, <1>3, <1>4 DEF LinkTypes
<1>7. Called'
  BY <1>1 DEF Called
<1>8. Sent'
  BY <1>1, <1>5 DEF Sent
<1>9. EntriesAllocated'
  BY <1>1 DEF MessagesHeld, EntriesAllocated
<1>10. QueuesAttended'
  <2> SUFFICES ASSUME NEW r \in Processors, queue[r] # <<>>
               PROVE  \/ r \in serving \union pending' \union missed'
                      \/ \E q \in Processors, d \in Contexts : r \in sends'[q][d].tell
    BY <1>1 DEF QueuesAttended
  <2>1. CASE r \in serving \union pending \union missed
    BY <1>1, <2>1
  <2>2. ASSUME NEW q \in Processors, NEW d \in Contexts, r \in sends[q][d].tell
        PROVE  \/ r \in serving \union pending' \union missed'
               \/ \E o \in Processors, e \in Contexts : r \in sends'[o][e].tell
    <3>1. CASE q = p /\ d = c
      BY <1>1, <2>2, <3>1
    <3>2. CASE q # p \/ d # c
      BY <1>5, <2>2, <3>2
    <3> QED BY <3>1, <3>2
  <2> QED BY <2>1, <2>2 DEF MessagesHeld, QueuesAttended
<1>11. HoldersCounted'
  <2> SUFFICES ASSUME NEW n \in DOMAIN data_counter
               PROVE  data_counter[n] =
                        Cardinality(Entries(n)') + Cardinality(PushesLeft(n)')
    BY <1>1 DEF HoldersCounted
  <2>1. Entries(n)' = PlacesIn(queue, n) /\ PushesLeft(n)' = LeftIn(sends', n)
    BY <1>1, LinkHolders
  <2>2. LeftIn(sends', n) = LeftIn(sends, n)
    BY ONLY <1>5, SameLeft
  <2>3. data_counter[n] = Cardinality(PlacesIn(queue, n)) + Cardinality(LeftIn(sends, n))
    BY LinkHolders DEF MessagesHeld, HoldersCounted
  <2> QED BY <2>1, <2>2, <2>3
<1> QED BY <1>6, <1>7, <1>8, <1>9, <1>10, <1>11 DEF MessagesHeld

(* The steps that leave the queues, the counters and the sends alone. *)
LEMMA OtherStepsHoldMessages ==
  ASSUME LinkInv, UNCHANGED <<queue, data_counter, sends>>, LinkTypes', Called', QueuesAttended'
  PROVE  LinkInv'
<1> USE DEF LinkInv
<1>1. Sent'
  BY DEF Sent
<1>2. EntriesAllocated'
  BY DEF MessagesHeld, EntriesAllocated
<1>3. HoldersCounted'
  <2> SUFFICES ASSUME NEW n \in DOMAIN data_counter
               PROVE  data_counter[n] =
                        Cardinality(Entries(n)') + Cardinality(PushesLeft(n)')
    BY DEF HoldersCounted
  <2>1. Entries(n)' = Entries(n) /\ PushesLeft(n)' = PushesLeft(n)
    BY LinkHolders
  <2> QED BY <2>1 DEF MessagesHeld, HoldersCounted
<1> QED BY <1>1, <1>2, <1>3 DEF MessagesHeld

LEMMA SetHandlerHoldsMessages ==
  ASSUME LinkInv, NEW p \in Processors, SetHandler(p)
  PROVE  LinkInv'
<1> USE DEF LinkInv, SetHandler
<1>1. handlers' \subseteq Processors
  BY DEF LinkTypes
<1>2. LinkTypes'
  BY <1>1 DEF LinkTypes
<1>3. Called' /\ QueuesAttended'
  BY DEF Called, MessagesHeld, QueuesAttended
<1> QED BY <1>2, <1>3, OtherStepsHoldMessages

LEMMA InterruptedHoldsMessages ==
  ASSUME LinkInv, NEW p \in Processors, Interrupted(p)
  PROVE  LinkInv'
<1> USE DEF LinkInv, Interrupted
<1>1. LinkTypes'
  BY DEF LinkTypes
<1>2. Called' /\ QueuesAttended'
  BY DEF Called, MessagesHeld, QueuesAttended
<1> QED BY <1>1, <1>2, OtherStepsHoldMessages

LEMMA CallHoldsMessages ==
  ASSUME LinkInv, NEW p \in Processors, Call(p)
  PROVE  LinkInv'
<1> USE DEF LinkInv, Call, AtMessage
<1>1. LinkTypes'
  BY DEF LinkTypes
<1>2. Called' /\ QueuesAttended'
  BY DEF Called, MessagesHeld, QueuesAttended
<1> QED BY <1>1, <1>2, OtherStepsHoldMessages

LEMMA LeaveHoldsMessages ==
  ASSUME LinkInv, NEW p \in Processors, Leave(p)
  PROVE  LinkInv'
<1> USE DEF LinkInv, Leave
<1>1. LinkTypes'
  BY DEF LinkTypes
<1>2. Called' /\ QueuesAttended'
  BY DEF Called, MessagesHeld, QueuesAttended
<1> QED BY <1>1, <1>2, OtherStepsHoldMessages
LEMMA TakeFacts ==
  ASSUME LinkTypes, NEW p \in Processors, queue[p] # <<>>,
         queue' = [queue EXCEPT ![p] = Tail(queue[p])]
  PROVE  /\ queue' \in [Processors -> Seq(Entry)]
         /\ Takes(queue, queue', p)
         /\ \A q \in Processors : q # p => queue'[q] = queue[q]
         /\ \A q \in Processors : \A i \in DOMAIN queue'[q] :
              \E j \in DOMAIN queue[q] : queue'[q][i] = queue[q][j]
         /\ Head(queue[p]) = queue[p][1] /\ 1 \in DOMAIN queue[p]
<1>1. queue \in [Processors -> Seq(Entry)] /\ queue[p] \in Seq(Entry)
  BY DEF LinkTypes
<1>2. /\ Tail(queue[p]) \in Seq(Entry) /\ Len(queue[p]) \in Nat /\ Len(queue[p]) >= 1
      /\ DOMAIN Tail(queue[p]) = 1 .. Len(queue[p]) - 1
      /\ DOMAIN queue[p] = 1 .. Len(queue[p])
      /\ \A i \in DOMAIN Tail(queue[p]) : Tail(queue[p])[i] = queue[p][i + 1]
      /\ Head(queue[p]) = queue[p][1]
  BY <1>1
<1>3. /\ queue' \in [Processors -> Seq(Entry)] /\ queue'[p] = Tail(queue[p])
      /\ \A q \in Processors : q # p => queue'[q] = queue[q]
  BY <1>1, <1>2
<1>4. \A i \in DOMAIN Tail(queue[p]) : i + 1 \in DOMAIN queue[p]
  BY <1>2
<1>5. ASSUME NEW q \in Processors, NEW i \in DOMAIN queue'[q]
      PROVE  \E j \in DOMAIN queue[q] : queue'[q][i] = queue[q][j]
  <2>1. CASE q = p
    BY <2>1, <1>2, <1>3, <1>4
  <2>2. CASE q # p
    BY <2>2, <1>3
  <2> QED BY <2>1, <2>2
<1>6. Takes(queue, queue', p)
  BY <1>3 DEF Takes, Only
<1> QED BY <1>2, <1>3, <1>5, <1>6

LEMMA ConsumeHoldsMessages ==
  ASSUME LinkInv, NEW p \in serving, queue[p] # <<>>, Head(queue[p]) \in DOMAIN data_counter,
         Consume(p), calling' = calling \ {p}
  PROVE  LinkInv'
<1> DEFINE m == Head(queue[p])
           ending == data_counter[m] = 1
<1> USE DEF LinkInv
<1>1. /\ p \in Processors /\ queue \in [Processors -> Seq(Entry)]
      /\ m \in DOMAIN data_counter /\ DOMAIN data_counter \subseteq Messages
      /\ \A n \in DOMAIN data_counter : data_counter[n] \in Nat
  BY DEF LinkTypes
<1>2. /\ queue' = [queue EXCEPT ![p] = Tail(queue[p])]
      /\ UNCHANGED <<handlers, sends, serving, pending, missed, misread>>
      /\ DOMAIN data_counter' = IF ending THEN DOMAIN data_counter \ {m} ELSE DOMAIN data_counter
      /\ \A n \in DOMAIN data_counter' :
           data_counter'[n] = IF n = m THEN data_counter[n] - 1 ELSE data_counter[n]
      /\ data_counter' = [n \in DOMAIN data_counter' |-> data_counter'[n]]
  BY DEF Consume
<1> HIDE DEF m
<1>3. /\ queue' \in [Processors -> Seq(Entry)]
      /\ Takes(queue, queue', p)
      /\ \A q \in Processors : q # p => queue'[q] = queue[q]
      /\ \A q \in Processors : \A i \in DOMAIN queue'[q] :
           \E j \in DOMAIN queue[q] : queue'[q][i] = queue[q][j]
  BY <1>1, <1>2, TakeFacts
<1>4. ASSUME NEW n \in DOMAIN data_counter
      PROVE  /\ Cardinality(PlacesIn(queue, n)) \in Nat /\ IsFiniteSet(PlacesIn(queue', n))
             /\ Cardinality(PlacesIn(queue', n)) \in Nat
             /\ Cardinality(LeftIn(sends, n)) \in Nat /\ IsFiniteSet(LeftIn(sends, n))
             /\ Cardinality(PlacesIn(queue', n)) =
                  Cardinality(PlacesIn(queue, n)) - (IF n = m THEN 1 ELSE 0)
             /\ data_counter[n] =
                  Cardinality(PlacesIn(queue, n)) + Cardinality(LeftIn(sends, n))
  <2>1. /\ Cardinality(PlacesIn(queue, n)) \in Nat
        /\ Cardinality(PlacesIn(queue', n)) =
             Cardinality(PlacesIn(queue, n)) - (IF n = Head(queue[p]) THEN 1 ELSE 0)
    BY <1>1, <1>3, TailTakesPlace, ZenonT(30)
  <2>2. IsFiniteSet(PlacesIn(queue', n)) /\ Cardinality(PlacesIn(queue', n)) \in Nat
    BY <1>3, PlacesFinite, FS_CardinalityType
  <2>3. Cardinality(LeftIn(sends, n)) \in Nat /\ IsFiniteSet(LeftIn(sends, n))
    BY LeftFinite
  <2>4. data_counter[n] = Cardinality(PlacesIn(queue, n)) + Cardinality(LeftIn(sends, n))
    BY LinkHolders DEF MessagesHeld, HoldersCounted
  <2> QED BY <2>1, <2>2, <2>3, <2>4 DEF m
<1>5. data_counter[m] >= 1
  BY <1>1, <1>4
<1>6. ending => PlacesIn(queue', m) = {} /\ LeftIn(sends, m) = {}
  <2> SUFFICES ASSUME ending
               PROVE  Cardinality(PlacesIn(queue', m)) = 0 /\ Cardinality(LeftIn(sends, m)) = 0
    BY <1>1, <1>4, FS_EmptySet
  <2> QED BY <1>1, <1>4
<1>7. \A n \in DOMAIN data_counter : n \in DOMAIN data_counter' \/ (ending /\ n = m)
  BY <1>2
<1>8. DOMAIN data_counter' \subseteq DOMAIN data_counter /\ (ending => m \notin DOMAIN data_counter')
  BY <1>2
<1>9. data_counter' \in [DOMAIN data_counter' -> Nat]
  <2>1. \A n \in DOMAIN data_counter' : data_counter'[n] \in Nat
    BY <1>1, <1>2, <1>5, <1>8
  <2> HIDE DEF ending
  <2> QED BY <1>2, <2>1
<1>10. LinkTypes'
  BY <1>1, <1>2, <1>3, <1>8, <1>9 DEF LinkTypes
<1>11. EntriesAllocated'
  <2> SUFFICES ASSUME NEW q \in Processors, NEW i \in DOMAIN queue'[q]
               PROVE  queue'[q][i] \in DOMAIN data_counter' \union {Bytes}
    BY DEF EntriesAllocated
  <2>1. queue'[q][i] \in DOMAIN data_counter \union {Bytes}
    BY <1>3 DEF MessagesHeld, EntriesAllocated
  <2>2. CASE ending /\ queue'[q][i] = m
    <3>1. <<q, i>> \in PlacesIn(queue', m)
      BY <2>2, PlacesElements
    <3> QED BY <1>6, <2>2, <3>1
  <2>3. CASE ~ (ending /\ queue'[q][i] = m)
    BY <1>7, <2>1, <2>3
  <2> QED BY <2>2, <2>3
<1>12. Sent'
  <2> SUFFICES ASSUME NEW q \in Processors, NEW d \in Contexts, sends[q][d].left # {}
               PROVE  sends[q][d].entry \in DOMAIN data_counter' \union {Bytes}
    BY <1>2 DEF Sent
  <2>1. sends[q][d].entry \in DOMAIN data_counter \union {Bytes}
    BY DEF Sent
  <2>2. CASE ending /\ sends[q][d].entry = m
    <3>1. sends[q][d] \in SendTypes
      BY DEF LinkTypes
    <3>2. PICK r \in Processors : r \in sends[q][d].left
      BY <3>1, SendRecords
    <3>3. <<q, d, r>> \in LeftIn(sends, m)
      BY <2>2, <3>2, LeftElements
    <3> QED BY <1>6, <2>2, <3>3
  <2>3. CASE ~ (ending /\ sends[q][d].entry = m)
    BY <1>7, <2>1, <2>3
  <2> QED BY <2>2, <2>3
<1>13. Called'
  <2> SUFFICES ASSUME NEW q \in calling', q # p
               PROVE  queue'[q] # <<>> /\ Head(queue'[q]) \in DOMAIN data_counter'
    BY DEF Called
  <2>1. /\ q \in Processors /\ queue'[q] = queue[q] /\ queue[q] # <<>>
        /\ Head(queue[q]) \in DOMAIN data_counter
    BY <1>3 DEF LinkTypes, Called
  <2>2. Head(queue[q]) = queue[q][1] /\ 1 \in DOMAIN queue[q]
    BY <1>1, <2>1
  <2>3. queue'[q][1] \in DOMAIN data_counter' \union {Bytes}
    BY <1>11, <2>1, <2>2 DEF EntriesAllocated
  <2>4. Bytes \notin DOMAIN data_counter
    BY <1>1, LinkAssumption
  <2> QED BY <2>1, <2>2, <2>3, <2>4
<1>14. QueuesAttended'
  <2> SUFFICES ASSUME NEW r \in Processors, queue'[r] # <<>>
               PROVE  \/ r \in serving \union pending \union missed
                      \/ \E q \in Processors, d \in Contexts : r \in sends[q][d].tell
    BY <1>2 DEF QueuesAttended
  <2>1. CASE r = p
    BY <2>1
  <2>2. CASE r # p
    BY <1>3, <2>2 DEF MessagesHeld, QueuesAttended
  <2> QED BY <2>1, <2>2
<1>15. HoldersCounted'
  <2> SUFFICES ASSUME NEW n \in DOMAIN data_counter'
               PROVE  data_counter'[n] =
                        Cardinality(Entries(n)') + Cardinality(PushesLeft(n)')
    BY DEF HoldersCounted
  <2>1. Entries(n)' = PlacesIn(queue', n) /\ PushesLeft(n)' = LeftIn(sends, n)
    BY <1>2, LinkHolders
  <2>2. data_counter'[n] = IF n = m THEN data_counter[n] - 1 ELSE data_counter[n]
    BY <1>2
  <2> HIDE DEF ending
  <2> QED BY <1>4, <1>8, <2>1, <2>2
<1> QED BY <1>10, <1>11, <1>12, <1>13, <1>14, <1>15 DEF MessagesHeld

LEMMA HandledHoldsMessages ==
  ASSUME LinkInv, NEW p \in Processors, PassOver(p) \/ CallbackReturns(p)
  PROVE  LinkInv'
<1>1. CASE PassOver(p)
  <2>1. /\ p \in serving /\ queue[p] # <<>> /\ Head(queue[p]) \in DOMAIN data_counter
        /\ Consume(p) /\ calling' = calling \ {p}
    BY <1>1 DEF PassOver, AtMessage
  <2> QED BY <2>1, ConsumeHoldsMessages
<1>2. CASE CallbackReturns(p)
  <2>1. /\ p \in serving /\ queue[p] # <<>> /\ Head(queue[p]) \in DOMAIN data_counter
        /\ Consume(p) /\ calling' = calling \ {p}
    BY <1>2 DEF CallbackReturns, LinkInv, LinkTypes, Called
  <2> QED BY <2>1, ConsumeHoldsMessages
<1> QED BY <1>1, <1>2

LEMMA MisreadHoldsMessages ==
  ASSUME LinkInv, NEW p \in Processors, Misread(p)
  PROVE  LinkInv'
<1> USE DEF LinkInv
<1>1. /\ p \in serving \ calling /\ queue[p] # <<>> /\ Head(queue[p]) \notin DOMAIN data_counter
      /\ UNCHANGED <<data_counter, handlers, sends, serving, calling, pending, missed>>
  BY DEF Misread, AtMessage
<1>2. CASE misread' = TRUE /\ UNCHANGED queue
  <2>1. LinkTypes'
    BY <1>1, <1>2 DEF LinkTypes
  <2>2. Called' /\ QueuesAttended'
    BY <1>1, <1>2 DEF Called, MessagesHeld, QueuesAttended
  <2> QED BY <1>1, <1>2, <2>1, <2>2, OtherStepsHoldMessages
<1>3. CASE queue' = [queue EXCEPT ![p] = Tail(queue[p])] /\ UNCHANGED misread
  <2>1. /\ queue' \in [Processors -> Seq(Entry)]
        /\ Takes(queue, queue', p)
        /\ \A q \in Processors : q # p => queue'[q] = queue[q]
        /\ \A q \in Processors : \A i \in DOMAIN queue'[q] :
             \E j \in DOMAIN queue[q] : queue'[q][i] = queue[q][j]
    BY <1>1, <1>3, TakeFacts
  <2>2. queue \in [Processors -> Seq(Entry)]
    BY DEF LinkTypes
  <2>3. LinkTypes'
    BY <1>1, <1>3, <2>1 DEF LinkTypes
  <2>4. Called'
    BY <1>1, <2>1 DEF Called, LinkTypes
  <2>5. Sent'
    BY <1>1 DEF Sent
  <2>6. EntriesAllocated'
    <3> SUFFICES ASSUME NEW q \in Processors, NEW i \in DOMAIN queue'[q]
                 PROVE  queue'[q][i] \in DOMAIN data_counter \union {Bytes}
      BY <1>1 DEF EntriesAllocated
    <3> QED BY <2>1 DEF MessagesHeld, EntriesAllocated
  <2>7. QueuesAttended'
    <3> SUFFICES ASSUME NEW r \in Processors, queue'[r] # <<>>
                 PROVE  \/ r \in serving \union pending \union missed
                        \/ \E q \in Processors, d \in Contexts : r \in sends[q][d].tell
      BY <1>1 DEF QueuesAttended
    <3>1. CASE r = p
      BY <1>1, <3>1
    <3>2. CASE r # p
      BY <2>1, <3>2 DEF MessagesHeld, QueuesAttended
    <3> QED BY <3>1, <3>2
  <2>8. HoldersCounted'
    <3> SUFFICES ASSUME NEW n \in DOMAIN data_counter
                 PROVE  data_counter[n] =
                          Cardinality(Entries(n)') + Cardinality(PushesLeft(n)')
      BY <1>1 DEF HoldersCounted
    <3>1. Entries(n)' = PlacesIn(queue', n) /\ PushesLeft(n)' = LeftIn(sends, n)
      BY <1>1, LinkHolders
    <3>2. /\ Cardinality(PlacesIn(queue, n)) \in Nat
          /\ Cardinality(PlacesIn(queue', n)) =
               Cardinality(PlacesIn(queue, n)) - (IF n = Head(queue[p]) THEN 1 ELSE 0)
      BY <2>1, <2>2, TailTakesPlace
    <3>3. n # Head(queue[p])
      BY <1>1
    <3>4. data_counter[n] = Cardinality(PlacesIn(queue, n)) + Cardinality(LeftIn(sends, n))
      BY LinkHolders DEF MessagesHeld, HoldersCounted
    <3> QED BY <3>1, <3>2, <3>3, <3>4
  <2> QED BY <2>3, <2>4, <2>5, <2>6, <2>7, <2>8 DEF MessagesHeld
<1> QED BY <1>2, <1>3 DEF Misread

LEMMA NextHoldsMessages == LinkInv /\ [LinkNext]_linkVars => LinkInv'
<1> SUFFICES ASSUME LinkInv, [LinkNext]_linkVars PROVE LinkInv'
  OBVIOUS
<1>1. ASSUME NEW p \in Processors, NEW c \in Contexts, NEW self, Broadcast(p, c, self)
      PROVE  LinkInv'
  BY <1>1, BroadcastHoldsMessages
<1>2. ASSUME NEW p \in Processors, NEW c \in Contexts, NEW t \in Processors, Send(p, c, t)
      PROVE  LinkInv'
  BY <1>2, SendHoldsMessages
<1>3. ASSUME NEW p \in Processors, NEW c \in Contexts, Push(p, c)
      PROVE  LinkInv'
  BY <1>3, PushHoldsMessages
<1>4. ASSUME NEW p \in Processors, NEW c \in Contexts, NEW sent, Announce(p, c, sent)
      PROVE  LinkInv'
  BY <1>4, AnnounceHoldsMessages
<1>5. ASSUME NEW p \in Processors,
             SetHandler(p) \/ Interrupted(p) \/ Call(p) \/ PassOver(p)
               \/ CallbackReturns(p) \/ Misread(p) \/ Leave(p)
      PROVE  LinkInv'
  BY <1>5, SetHandlerHoldsMessages, InterruptedHoldsMessages, CallHoldsMessages,
     HandledHoldsMessages, MisreadHoldsMessages, LeaveHoldsMessages
<1>6. CASE UNCHANGED linkVars
  <2>1. LinkTypes' /\ Called' /\ QueuesAttended'
    BY <1>6 DEF linkVars, LinkInv, LinkTypes, Called, MessagesHeld, QueuesAttended
  <2> QED BY <1>6, <2>1, OtherStepsHoldMessages DEF linkVars
<1> QED BY <1>1, <1>2, <1>3, <1>4, <1>5, <1>6 DEF LinkNext

(* The queues, the counters and the sends have their types, a callback runs   *)
(* for a message that is allocated, and so is all that is yet to be pushed.   *)
THEOREM LinkInvariant == LinkSpec => []LinkInv
<1>1. LinkInit => LinkInv
  BY InitHoldsMessages
<1>2. LinkInv /\ [LinkNext]_linkVars => LinkInv'
  BY NextHoldsMessages
<1> QED BY <1>1, <1>2, PTL DEF LinkSpec

(* Of any number of processors and messages: a message is freed by the last   *)
(* processor that handles it and by none before, and no queue is forgotten.   *)
THEOREM MessagesStayHeld == LinkSpec => []MessagesHeld
<1>1. LinkInv => MessagesHeld
  BY DEF LinkInv
<1> QED BY <1>1, LinkInvariant, PTL

-----------------------------------------------------------------------------
(* The system time. *)
Points   == [value : Int, rate : Nat, boot : Int]
Readings == [low : Int, high : Int]

TypeOK ==
  /\ counter \in [value : Nat, since : Nat] /\ ticks \in Nat
  /\ history \in [1 .. Depth -> Int] /\ point \in Points
  /\ last \in Int /\ clock \in Nat
  /\ read \in [at : {"idle", "low", "high"}, before : Readings, now : Readings,
               tries : Int, from : Nat]
  /\ reader \in [Readers -> [at : {"idle", "count", "increment", "exchange"},
                             point : Points, out : Int, least : Int, floor : Int]]
  /\ returned \in [time : Int, back : BOOLEAN]
  /\ stamps \in Seq(Nat)

(* What was returned is not above the last time, which only grows; a time that  *)
(* waits for the exchange is above the last time it saw.                      *)
Ordered ==
  /\ ~ returned.back /\ 0 <= returned.time /\ returned.time <= last
  /\ \A r \in Readers :
       /\ reader[r].floor <= returned.time
       /\ reader[r].at = "exchange" =>
            reader[r].floor < reader[r].least /\ reader[r].least < reader[r].out

(* The history holds what the counter showed at the last ticks that counted,     *)
(* which are all but the first three; the rate is the driver's until it has    *)
(* been filled.                                                            *)
Recorded ==
  /\ Len(stamps) = IF ticks > Ignored THEN ticks - Ignored - 1 ELSE 0
  /\ \A i \in 1 .. Depth :
       i <= Len(stamps) => history[i] = stamps[Len(stamps) - i + 1] % (TopCount + 1)
  /\ ticks <= Ignored + Depth + 1 => point.rate \in {0, Frequency}

(* The counter had counted no less at a later tick.                            *)
StampsGrow ==
  /\ \A i \in 1 .. Len(stamps) : stamps[i] <= counter.value
  /\ \A i, j \in 1 .. Len(stamps) : i <= j => stamps[i] <= stamps[j]

(* Each field of the readings was shown after the field read before it.        *)
ReadingsShown ==
  /\ read.from <= clock
  /\ read.at # "idle" => ticks = Ignored
  /\ read.at = "low" =>
       \/ read.before = NoReading
       \/ \E b \in read.from .. clock : read.before.high = Rest(b)
  /\ read.at = "high" =>
       \E c \in read.from .. clock :
         /\ read.now.low = Lowest(c)
         /\ \/ read.before = NoReading
            \/ \E b \in read.from .. c : read.before.high = Rest(b)

TimeInv ==
  /\ TypeOK /\ Ordered /\ Recorded /\ StampsGrow
  /\ ReadingsShown /\ RateMeasured /\ ClockReadWhole

-----------------------------------------------------------------------------
(* The quotient that a tick computes is a rate.                              *)
LEMMA Quotients ==
  ASSUME NEW a \in Int, NEW b \in Nat \ {0}
  PROVE  a \div b \in Int /\ (a \in Nat => a \div b \in Nat)
OBVIOUS

LEMMA Products ==
  ASSUME NEW a \in Nat \ {0}, NEW b \in Nat \ {0}
  PROVE  a * b \in Nat \ {0}
OBVIOUS

(* If two readings of the high field are equal, so are all between.            *)
LEMMA HighBetween ==
  ASSUME NEW b \in Nat, NEW c \in Nat, NEW d \in Nat, b <= c, c <= d, Rest(b) = Rest(d)
  PROVE  Rest(c) = Rest(d)
BY DEF Rest

LEMMA SequenceIsFunction ==
  ASSUME NEW n \in Nat, NEW s \in Seq(Int), Len(s) = n
  PROVE  s \in [1 .. n -> Int]
OBVIOUS

(* A tick moves the history down and puts the counter in front.                *)
Shifted(g, v) == <<v>> \o SubSeq(g, 1, Depth - 1)

LEMMA ShiftedHistory ==
  ASSUME ConstantsOK, NEW g \in [1 .. Depth -> Int], NEW v \in Int
  PROVE  /\ Shifted(g, v) \in [1 .. Depth -> Int] /\ Shifted(g, v)[1] = v
         /\ \A i \in 2 .. Depth : Shifted(g, v)[i] = g[i - 1]
<1> DEFINE t == SubSeq(g, 1, Depth - 1)
           h == Shifted(g, v)
<1>1. g \in Seq(Int) /\ Len(g) = Depth
  BY DEF ConstantsOK
<1>2. /\ t \in Seq(Int) /\ Len(t) = Depth - 1
      /\ \A i \in 1 .. Depth - 1 : t[i] = g[i]
  BY <1>1 DEF ConstantsOK
<1>3. h = <<v>> \o t
  BY DEF Shifted
<1> HIDE DEF t, h
<1>4. /\ h \in Seq(Int) /\ Len(h) = Depth /\ h[1] = v
      /\ \A i \in 2 .. Depth : h[i] = t[i - 1]
  BY <1>2, <1>3 DEF ConstantsOK
<1>5. h \in [1 .. Depth -> Int]
  <2>1. Depth \in Nat
    BY DEF ConstantsOK
  <2> QED BY <2>1, <1>4, SequenceIsFunction
<1>6. \A i \in 2 .. Depth : h[i] = g[i - 1]
  BY <1>2, <1>4 DEF ConstantsOK
<1> QED BY <1>4, <1>5, <1>6 DEF h

(* Stamps, with the newest at the end.                                        *)
LEMMA Stamped ==
  ASSUME stamps \in Seq(Nat), NEW v \in Nat
  PROVE  /\ Append(stamps, v) \in Seq(Nat) /\ Len(Append(stamps, v)) = Len(stamps) + 1
         /\ Append(stamps, v)[Len(stamps) + 1] = v
         /\ \A i \in 1 .. Len(stamps) : Append(stamps, v)[i] = stamps[i]
OBVIOUS

LEMMA ShownOK == ASSUME ConstantsOK, TypeOK PROVE Shown \in Nat
<1>1. counter.value \in Int /\ TopCount + 1 \in Nat \ {0}
  BY DEF TypeOK, ConstantsOK
<1>2. (counter.value % (TopCount + 1)) \in 0 .. (TopCount + 1) - 1
  BY <1>1, Remainders
<1> QED BY <1>1, <1>2 DEF Shown

(* Nothing stamped, and the counter did not go back.                          *)
LEMMA StampsKept ==
  ASSUME TypeOK, StampsGrow, stamps' = stamps,
         counter'.value \in {counter.value, counter.value + 1}
  PROVE  StampsGrow'
<1>1. counter.value \in Nat /\ \A i \in 1 .. Len(stamps) : stamps[i] \in Nat
  BY DEF TypeOK
<1>2. \A i \in 1 .. Len(stamps) : stamps[i] <= counter'.value
  BY <1>1 DEF StampsGrow
<1> QED BY <1>2 DEF StampsGrow

LEMMA InitOK == ConstantsOK /\ Init => TimeInv
<1> SUFFICES ASSUME ConstantsOK, Init PROVE TimeInv
  OBVIOUS
<1> USE DEF ConstantsOK, Init, NoPoint, NotAsking, NoRead, NoReading
<1>1. TypeOK
  BY DEF TypeOK, Points, Readings
<1>2. Ordered
  BY DEF Ordered
<1>3. Recorded
  BY DEF Recorded, Ignored
<1>4. StampsGrow /\ ReadingsShown /\ RateMeasured /\ ClockReadWhole
  BY DEF StampsGrow, ReadingsShown, RateMeasured, ClockReadWhole, Ignored
<1> QED BY <1>1, <1>2, <1>3, <1>4 DEF TimeInv

-----------------------------------------------------------------------------
(* The time that a call computes is a number.                                *)
LEMMA SinceIsATime ==
  ASSUME ConstantsOK, NEW p \in Points, NEW v \in Nat
  PROVE  Since(p, v) \in Int
<1> DEFINE rate == IF p.rate = 0 THEN Frequency ELSE p.rate
<1>1. rate \in Nat \ {0}
  BY DEF ConstantsOK, Points
<1>2. Delta(p, v) \in Int /\ p.boot \in Int
  BY DEF ConstantsOK, Points, Delta
<1>3. Delta(p, v) * Second \in Int
  BY <1>2 DEF ConstantsOK
<1> HIDE DEF rate
<1>4. (Delta(p, v) * Second) \div rate \in Int
  BY <1>1, <1>3, Quotients
<1> QED BY <1>2, <1>4 DEF Since, rate

(* The rate that a full history gives is one, too.                            *)
LEMMA RateIsARate ==
  ASSUME ConstantsOK, NEW h \in [1 .. Depth -> Int]
  PROVE  Rate(h) \in Nat
<1> DEFINE diff == (h[1] - h[Depth]) % Word
<1>1. h[1] - h[Depth] \in Int /\ Depth - 1 \in Nat \ {0} /\ Word \in Nat \ {0}
  BY DEF ConstantsOK
<1>4. diff \in 0 .. Word - 1
  BY <1>1, Remainders
<1> HIDE DEF diff
<1>2. diff * Second \in Nat
  BY <1>1, <1>4 DEF ConstantsOK
<1>3. (Depth - 1) * Period \in Nat \ {0}
  BY <1>1, Products DEF ConstantsOK
<1>5. (diff * Second) \div ((Depth - 1) * Period) \in Nat
  BY <1>2, <1>3, Quotients
<1> QED BY <1>5 DEF Rate, diff

(* The counter and the steps that only read.                                  *)
LEMMA CountOK == ConstantsOK /\ TimeInv /\ Count /\ UNCHANGED panicked => TimeInv'
<1> SUFFICES ASSUME ConstantsOK, TimeInv, Count PROVE TimeInv'
  OBVIOUS
<1> USE DEF TimeInv, Count, readVars
<1>1. TypeOK'
  BY DEF TypeOK
<1>2. Ordered'
  BY DEF Ordered
<1>3. Recorded' /\ StampsGrow'
  <2>1. counter'.value = counter.value + 1
    OBVIOUS
  <2> QED BY <2>1, StampsKept DEF Recorded
<1>4. ReadingsShown' /\ RateMeasured' /\ ClockReadWhole'
  BY DEF ReadingsShown, RateMeasured, ClockReadWhole
<1> QED BY <1>1, <1>2, <1>3, <1>4

LEMMA ChangeClockOK == ConstantsOK /\ TimeInv /\ ChangeClock => TimeInv'
<1> SUFFICES ASSUME ConstantsOK, TimeInv, ChangeClock PROVE TimeInv'
  OBVIOUS
<1> USE DEF TimeInv, ChangeClock
<1>1. TypeOK' /\ Ordered' /\ Recorded' /\ StampsGrow' /\ RateMeasured'
  BY SMTT(30) DEF TypeOK, Ordered, Recorded, StampsGrow, RateMeasured
<1>2. \A n \in read.from .. clock : n \in read.from .. clock'
  BY DEF TypeOK
<1>3. ReadingsShown'
  BY <1>2 DEF ReadingsShown, TypeOK
<1>4. ClockReadWhole'
  BY DEF ClockReadWhole
<1> QED BY <1>1, <1>3, <1>4

LEMMA TickIgnoredOK == ConstantsOK /\ TimeInv /\ TickIgnored => TimeInv'
<1> SUFFICES ASSUME ConstantsOK, TimeInv, TickIgnored PROVE TimeInv'
  OBVIOUS
<1> USE DEF TimeInv, TickIgnored, TickBegins, readVars
<1>1. TypeOK' /\ Ordered'
  <2>1. counter' \in [value : Nat, since : Nat]
    BY DEF TypeOK
  <2>2. ticks' \in Nat
    BY DEF TypeOK
  <2>3. TypeOK'
    BY <2>1, <2>2 DEF TypeOK
  <2>4. Ordered'
    BY DEF Ordered
  <2> QED BY <2>3, <2>4
<1>2. Recorded'
  <2>1. /\ counter'.value = counter.value
        /\ UNCHANGED <<history, point, stamps>>
        /\ ~ (ticks > Ignored) /\ ~ (ticks' > Ignored)
    BY DEF TypeOK, Ignored
  <2>2. Len(stamps) = 0 /\ point.rate \in {0, Frequency}
    <3>1. ticks <= Ignored + Depth + 1
      BY DEF TypeOK, ConstantsOK, Ignored
    <3> QED BY <2>1, <3>1 DEF Recorded
  <2>4. \A i \in 1 .. Depth : ~ (i <= 0)
    OBVIOUS
  <2> QED BY ONLY <2>1, <2>2, <2>4 DEF Recorded
<1>4. StampsGrow'
  BY StampsKept DEF TypeOK
<1>3. ReadingsShown' /\ RateMeasured' /\ ClockReadWhole'
  BY DEF ReadingsShown, RateMeasured, ClockReadWhole, TypeOK, Ignored
<1> QED BY <1>1, <1>2, <1>3, <1>4

LEMMA TickReadsClockOK == ConstantsOK /\ TimeInv /\ TickReadsClock => TimeInv'
<1> SUFFICES ASSUME ConstantsOK, TimeInv, TickReadsClock PROVE TimeInv'
  OBVIOUS
<1> USE DEF TimeInv, TickReadsClock, TickBegins
<1>1. TypeOK'
  <2>1. counter.value \in Nat /\ counter' = [value |-> counter.value, since |-> 0]
    BY DEF TypeOK
  <2>2. counter' \in [value : Nat, since : Nat] /\ point' \in Points
    <3>1. point' = [value |-> Shown, rate |-> Frequency, boot |-> 0]
      OBVIOUS
    <3>2. Shown \in Int /\ Frequency \in Nat
      BY ShownOK DEF ConstantsOK
    <3>3. point' \in Points
      BY ONLY <3>1, <3>2 DEF Points
    <3>4. counter' \in [value : Nat, since : Nat]
      BY ONLY <2>1
    <3> QED BY ONLY <3>3, <3>4
  <2>3. read' \in [at : {"idle", "low", "high"}, before : Readings, now : Readings,
                   tries : Int, from : Nat]
    <3>1. NoReading \in Readings
      BY DEF NoReading, Readings
    <3>2. read' = [at |-> "low", before |-> NoReading, now |-> NoReading, tries |-> 0,
                   from |-> clock]
      BY DEF NoRead
    <3> QED BY <3>1, <3>2 DEF TypeOK
  <2> QED BY <2>2, <2>3 DEF TypeOK
<1>2. Ordered'
  BY DEF Ordered
<1>3. Recorded' /\ StampsGrow'
  BY StampsKept DEF Recorded, TypeOK, ConstantsOK
<1>4. ReadingsShown'
  BY DEF ReadingsShown, NoRead, TypeOK
<1>5. RateMeasured' /\ ClockReadWhole'
  BY DEF RateMeasured, ClockReadWhole, NoRead
<1> QED BY <1>1, <1>2, <1>3, <1>4, <1>5

LEMMA ReadLowOK == ConstantsOK /\ TimeInv /\ ReadLow => TimeInv'
<1> SUFFICES ASSUME ConstantsOK, TimeInv, ReadLow PROVE TimeInv'
  OBVIOUS
<1> USE DEF TimeInv, ReadLow
<1>1. TypeOK'
  <2>1. Lowest(clock) \in Int
    BY DEF TypeOK, Lowest
  <2>2. [read.now EXCEPT !.low = Lowest(clock)] \in Readings
    BY <2>1 DEF TypeOK, Readings
  <2> QED BY <2>2 DEF TypeOK
<1>2. Ordered' /\ Recorded' /\ StampsGrow' /\ RateMeasured' /\ ClockReadWhole'
  BY DEF Ordered, Recorded, StampsGrow, RateMeasured, ClockReadWhole, TypeOK
<1>3. ReadingsShown'
  <2>1. clock \in read.from .. clock
    BY DEF ReadingsShown, TypeOK
  <2>2. read'.before = read.before /\ read'.now.low = Lowest(clock) /\ read'.from = read.from
    BY DEF TypeOK, Readings
  <2> QED BY <2>1, <2>2 DEF ReadingsShown, TypeOK
<1> QED BY <1>1, <1>2, <1>3

(* The readings agree: the high field was the same all the way, so both were     *)
(* shown when the low field was read.                                        *)
LEMMA ReadHighOK == ConstantsOK /\ TimeInv /\ ReadHigh => TimeInv'
<1> SUFFICES ASSUME ConstantsOK, TimeInv, ReadHigh PROVE TimeInv'
  OBVIOUS
<1> DEFINE now == [read.now EXCEPT !.high = Rest(clock)]
<1>1. PICK c \in read.from .. clock :
        /\ read.now.low = Lowest(c)
        /\ \/ read.before = NoReading
           \/ \E b \in read.from .. c : read.before.high = Rest(b)
  BY DEF TimeInv, ReadHigh, ReadingsShown
<1>2. clock \in Nat /\ read.from \in Nat /\ c \in Nat /\ Rest(clock) \in Int
  BY <1>1 DEF TimeInv, TypeOK, Rest
<1>3. now \in Readings /\ now.low = Lowest(c) /\ now.high = Rest(clock)
  BY <1>1, <1>2 DEF TimeInv, TypeOK, Readings
<1>4. UNCHANGED <<counter, history, point, last, clock, reader, returned, stamps>>
  BY DEF ReadHigh
<1>5. ticks = Ignored /\ read.at = "high"
  BY DEF TimeInv, ReadingsShown, ReadHigh
<1>6. \/ now = read.before /\ read' = [read EXCEPT !.now = now, !.at = "idle"] /\ ticks' = ticks + 1
      \/ UNCHANGED <<read, ticks>>
      \/ /\ read' = [read EXCEPT !.now = now, !.at = "low", !.before = now,
                                    !.tries = read.tries + 1]
         /\ UNCHANGED ticks
  <2> DEFINE r == [read EXCEPT !.now.high = Rest(clock)]
  <2>1. r = [read EXCEPT !.now = now] /\ r.now = now /\ r.before = read.before
        /\ r.tries = read.tries
    BY DEF TimeInv, TypeOK
  <2>2. \/ r.now = r.before /\ read' = [r EXCEPT !.at = "idle"] /\ ticks' = ticks + 1
        \/ UNCHANGED <<read, ticks>>
        \/ read' = [r EXCEPT !.at = "low", !.before = r.now, !.tries = @ + 1] /\ UNCHANGED ticks
    BY DEF ReadHigh, Settled
  <2> HIDE DEF r, now
  <2> QED BY <2>1, <2>2 DEF TimeInv, TypeOK
<1> HIDE DEF now
<1>7. ticks' \in {ticks, ticks + 1}
  BY <1>6
<1>8. TypeOK'
  <2> DEFINE Reads == [at : {"idle", "low", "high"}, before : Readings, now : Readings,
                       tries : Int, from : Nat]
  <2>1. read \in Reads /\ ticks \in Nat
    BY DEF TimeInv, TypeOK
  <2>2. [read EXCEPT !.now = now, !.at = "idle"] \in Reads
    BY <2>1, <1>3
  <2>3. [read EXCEPT !.now = now, !.at = "low", !.before = now,
                                    !.tries = read.tries + 1] \in Reads
    <3>1. read.tries + 1 \in Int
      BY <2>1
    <3> QED BY <2>1, <3>1, <1>3
  <2> HIDE DEF Reads
  <2>4. read' \in Reads
    BY <2>1, <2>2, <2>3, <1>6
  <2>5. ticks' \in Nat
    BY <2>1, <1>7
  <2> QED BY <2>4, <2>5, <1>4 DEF TimeInv, TypeOK, Reads
<1>9. Ordered'
  BY <1>4 DEF TimeInv, Ordered
<1>10. Recorded' /\ StampsGrow' /\ RateMeasured'
  <2>1. RateMeasured' /\ StampsGrow'
    BY <1>4 DEF TimeInv, RateMeasured, StampsGrow
  <2>2. Len(stamps) = IF ticks' > Ignored THEN ticks' - Ignored - 1 ELSE 0
    BY <1>5, <1>7 DEF TimeInv, Recorded, Ignored
  <2>3. point.rate \in {0, Frequency}
    BY <1>5 DEF TimeInv, Recorded, Ignored, ConstantsOK
  <2> QED BY <2>1, <2>2, <2>3, <1>4 DEF TimeInv, Recorded
<1>11. ReadingsShown'
  <2>1. CASE now = read.before /\ read' = [read EXCEPT !.now = now, !.at = "idle"]
    BY <2>1, <1>4 DEF TimeInv, ReadingsShown, TypeOK
  <2>2. CASE UNCHANGED <<read, ticks>>
    BY <2>2, <1>4 DEF TimeInv, ReadingsShown
  <2>3. CASE /\ read' = [read EXCEPT !.now = now, !.at = "low", !.before = now,
                                    !.tries = read.tries + 1]
             /\ UNCHANGED ticks
    <3>1. read'.before.high = Rest(clock) /\ read'.from = read.from /\ read'.at = "low"
      BY <2>3, <1>3 DEF TimeInv, TypeOK
    <3>2. clock \in read.from .. clock
      BY <1>2 DEF TimeInv, ReadingsShown
    <3>3. ticks' = Ignored /\ read'.from <= clock' /\ clock' = clock
      BY <3>1, <2>3, <1>4, <1>5 DEF TimeInv, ReadingsShown
    <3> QED BY <3>1, <3>2, <3>3 DEF ReadingsShown
  <2> QED BY <2>1, <2>2, <2>3, <1>6
<1>12. ClockReadWhole'
  <2>1. CASE now = read.before /\ read' = [read EXCEPT !.now = now, !.at = "idle"]
    <3>1. read.before # NoReading
      BY <2>1, <1>3, <1>2 DEF NoReading, Rest
    <3>2. PICK b \in read.from .. c : read.before.high = Rest(b)
      BY <3>1, <1>1
    <3>3. Rest(b) = Rest(clock) /\ b \in Nat /\ b <= c /\ c <= clock
      BY <3>2, <2>1, <1>1, <1>2, <1>3
    <3>4. Rest(c) = Rest(clock)
      BY <3>3, <1>2, HighBetween
    <3>5. now = [low |-> Lowest(c), high |-> Rest(c)]
      BY <3>4, <1>3 DEF Readings
    <3>6. read'.now = now /\ read'.from = read.from
      BY <2>1 DEF TimeInv, TypeOK
    <3> QED BY <3>5, <3>6, <1>1, <1>4 DEF ClockReadWhole
  <2>2. CASE read'.at # "idle"
    BY <2>2 DEF ClockReadWhole
  <2> QED BY <2>1, <2>2, <1>5, <1>6 DEF TimeInv, TypeOK
<1> QED BY <1>8, <1>9, <1>10, <1>11, <1>12 DEF TimeInv

(* A tick that counts: what it puts in front of the history and at the end of    *)
(* the stamps is the same value.                                              *)
LEMMA TickCountsOK == ConstantsOK /\ TimeInv /\ TickCounts => TimeInv'
<1> SUFFICES ASSUME ConstantsOK, TimeInv, TickCounts PROVE TimeInv'
  OBVIOUS
<1> USE DEF TimeInv
<1>1. /\ ticks > Ignored /\ ticks' = ticks + 1 /\ read.at = "idle"
      /\ UNCHANGED <<last, clock, read, panicked, reader, returned>>
      /\ history' = <<Shown>> \o SubSeq(history, 1, Depth - 1)
      /\ stamps' = Append(stamps, counter.value)
      /\ point'.rate = IF ticks > Ignored + Depth THEN Rate(history') ELSE point.rate
      /\ point' = [value |-> Shown, rate |-> point'.rate, boot |-> point.boot + Period]
      /\ counter' = [counter EXCEPT !.since = 0]
  BY DEF TickCounts, TickBegins, readVars
<1>2. counter.value \in Nat /\ counter'.value = counter.value /\ ticks \in Nat
      /\ counter' \in [value : Nat, since : Nat]
  BY <1>1 DEF TypeOK
<1>3. /\ history' \in [1 .. Depth -> Int] /\ history'[1] = Shown
      /\ \A i \in 2 .. Depth : history'[i] = history[i - 1]
  <2>1. history \in [1 .. Depth -> Int] /\ Shown \in Int
    BY ShownOK DEF TypeOK
  <2>2. history' = Shifted(history, Shown)
    BY <1>1 DEF Shifted
  <2> QED BY <2>1, <2>2, ShiftedHistory
<1>4. /\ stamps' \in Seq(Nat) /\ Len(stamps') = Len(stamps) + 1
      /\ stamps'[Len(stamps) + 1] = counter.value
      /\ \A i \in 1 .. Len(stamps) : stamps'[i] = stamps[i]
  BY <1>1, <1>2, Stamped DEF TypeOK
<1>5. Len(stamps) = ticks - Ignored - 1 /\ Len(stamps) \in Nat
  BY <1>1, <1>2 DEF Recorded, Ignored
<1>6. \A i \in 1 .. Depth :
        i <= Len(stamps') => history'[i] = stamps'[Len(stamps') - i + 1] % (TopCount + 1)
  <2> TAKE i \in 1 .. Depth
  <2>1. CASE i = 1
    <3>1. Len(stamps') - i + 1 = Len(stamps) + 1
      BY <2>1, <1>4, <1>5
    <3> QED BY <2>1, <3>1, <1>3, <1>4 DEF Shown
  <2>2. CASE i # 1
    <3>1. i \in 2 .. Depth /\ i - 1 \in 1 .. Depth
      BY <2>2 DEF ConstantsOK
    <3>2. i - 1 <= Len(stamps) =>
            history[i - 1] = stamps[Len(stamps) - (i - 1) + 1] % (TopCount + 1)
      BY <3>1 DEF Recorded
    <3>3. i <= Len(stamps') => Len(stamps) - (i - 1) + 1 \in 1 .. Len(stamps)
      BY <3>1, <1>4, <1>5 DEF ConstantsOK
    <3>4. Len(stamps) - (i - 1) + 1 = Len(stamps') - i + 1
      BY <3>1, <1>4, <1>5 DEF ConstantsOK
    <3>5. history'[i] = history[i - 1]
      BY <3>1, <1>3
    <3>6. ASSUME i <= Len(stamps')
          PROVE  history'[i] = stamps'[Len(stamps') - i + 1] % (TopCount + 1)
      <4>1. i - 1 <= Len(stamps)
        BY <3>6, <1>4, <1>5
      <4>2. stamps'[Len(stamps) - (i - 1) + 1] = stamps[Len(stamps) - (i - 1) + 1]
        BY <3>6, <3>3, <1>4
      <4> QED BY <4>1, <4>2, <3>2, <3>4, <3>5
    <3> QED BY <3>6
  <2> QED BY <2>1, <2>2
<1>7. StampsGrow'
  <2>1. /\ \A i \in 1 .. Len(stamps) : stamps[i] <= counter.value
        /\ \A i, j \in 1 .. Len(stamps) : i <= j => stamps[i] <= stamps[j]
    BY DEF StampsGrow
  <2>2. \A i \in 1 .. Len(stamps') : i \in 1 .. Len(stamps) \/ i = Len(stamps) + 1
    BY <1>4, <1>5
  <2>3. \A i \in 1 .. Len(stamps') : stamps'[i] <= counter.value
    BY <1>2, <1>4, <2>1, <2>2
  <2>4. ASSUME NEW i \in 1 .. Len(stamps'), NEW j \in 1 .. Len(stamps'), i <= j
        PROVE  stamps'[i] <= stamps'[j]
    <3>1. CASE j = Len(stamps) + 1
      BY <3>1, <1>4, <2>3
    <3>2. CASE j \in 1 .. Len(stamps)
      <4>1. i \in 1 .. Len(stamps)
        BY <3>2, <2>4, <1>5
      <4> QED BY <4>1, <3>2, <2>4, <2>1, <1>4
    <3> QED BY <2>2, <3>1, <3>2
  <2> HIDE DEF TimeInv
  <2> QED BY <2>3, <2>4, <1>2 DEF StampsGrow
<1>8. Rate(history') \in Nat
  BY <1>3, RateIsARate
<1>9. point' \in Points /\ point.rate \in Nat
  <2>1. point.rate \in Nat /\ point.boot \in Int /\ Period \in Int
    BY DEF TypeOK, Points, ConstantsOK
  <2>2. point'.rate \in Nat
    BY <2>1, <1>1, <1>8
  <2>3. point.boot + Period \in Int /\ Shown \in Int
    BY <2>1, ShownOK
  <2> HIDE DEF TimeInv
  <2> QED BY <2>1, <2>2, <2>3, <1>1 DEF Points
<1>10. TypeOK'
  <2>1. ticks' \in Nat
    BY <1>1, <1>2
  <2> QED BY <2>1, <1>1, <1>2, <1>3, <1>4, <1>9 DEF TypeOK
<1>11. Ordered'
  BY <1>1 DEF Ordered
<1>12. ticks <= Ignored + Depth => point'.rate \in {0, Frequency}
  BY <1>1, <1>2 DEF Recorded, Ignored, ConstantsOK
<1>13. Recorded'
  <2>1. Len(stamps') = IF ticks' > Ignored THEN ticks' - Ignored - 1 ELSE 0
    BY <1>1, <1>2, <1>4, <1>5 DEF Ignored
  <2>2. ticks' <= Ignored + Depth + 1 => point'.rate \in {0, Frequency}
    BY <1>1, <1>2, <1>12 DEF Ignored, ConstantsOK
  <2> QED BY <2>1, <2>2, <1>2, <1>6 DEF Recorded
<1>14. ReadingsShown' /\ ClockReadWhole'
  BY <1>1, <1>2 DEF ReadingsShown, ClockReadWhole, Ignored
<1>15. RateMeasured'
  <2>1. CASE ticks <= Ignored + Depth
    BY <2>1, <1>12 DEF RateMeasured
  <2>2. CASE ticks > Ignored + Depth
    <3>1. Len(stamps') >= Depth
      BY <2>2, <1>2, <1>4, <1>5 DEF Ignored, ConstantsOK
    <3>2. 1 \in 1 .. Depth /\ 1 <= Len(stamps')
      BY <3>1, <1>4, <1>5 DEF ConstantsOK
    <3> DEFINE a == stamps'[Len(stamps') - Depth + 1]
               b == stamps'[Len(stamps')]
    <3>3. history'[1] = b % (TopCount + 1) /\ history'[Depth] = a % (TopCount + 1)
      <4>1. Depth \in 1 .. Depth /\ Len(stamps') - 1 + 1 = Len(stamps')
        BY <1>4, <1>5 DEF ConstantsOK
      <4> QED BY <3>1, <3>2, <4>1, <1>6
    <3>4. point'.rate = (((history'[1] - history'[Depth]) % Word) * Second)
                          \div ((Depth - 1) * Period)
      BY <2>2, <1>1 DEF Rate
    <3>5. ASSUME Comparable(a, b)
          PROVE  (history'[1] - history'[Depth]) % Word = b - a
      <4>1. /\ Len(stamps') - Depth + 1 \in 1 .. Len(stamps')
            /\ Len(stamps') \in 1 .. Len(stamps')
            /\ Len(stamps') - Depth + 1 <= Len(stamps')
        BY <3>1, <1>4, <1>5 DEF ConstantsOK
      <4>2. a \in Nat /\ b \in Nat
        BY <4>1, <1>4
      <4>3. a <= b
        BY <4>1, <1>7 DEF StampsGrow
      <4>4. TopCount + 1 \in Nat \ {0} /\ Word \in Nat /\ TopCount + 1 <= Word
        BY DEF ConstantsOK
      <4>5. a \div (TopCount + 1) = b \div (TopCount + 1)
            \/ (TopCount + 1 = Word /\ b - a < Word)
        BY <3>5 DEF Comparable, Round
      <4> HIDE DEF a, b
      <4>6. ((b % (TopCount + 1)) - (a % (TopCount + 1))) % Word = b - a
        BY <4>2, <4>3, <4>4, <4>5, Differences
      <4> QED BY <4>6, <3>3
    <3> HIDE DEF TimeInv
    <3> QED BY <3>1, <3>4, <3>5 DEF RateMeasured
  <2> QED BY <2>1, <2>2, <1>2 DEF Ignored, ConstantsOK
<1> QED BY <1>7, <1>10, <1>11, <1>13, <1>14, <1>15

-----------------------------------------------------------------------------
(* The calls of axk_time_get_since_boot.                                      *)
ReaderOK(q) == q \in [at : {"idle", "count", "increment", "exchange"},
                      point : Points, out : Int, least : Int, floor : Int]

(* A step of a call takes it from where it was to q, and may move the times.    *)
CallStep(r, q) ==
  /\ UNCHANGED <<counter, ticks, history, point, read, clock, stamps>>
  /\ reader' = [reader EXCEPT ![r] = q] /\ ReaderOK(q)
  /\ last' \in Int /\ last <= last' /\ returned' \in [time : Int, back : BOOLEAN]
  /\ ~ returned'.back /\ returned.time <= returned'.time /\ returned'.time <= last'
  /\ q.floor <= returned'.time
  /\ q.at = "exchange" => q.floor < q.least /\ q.least < q.out

LEMMA CallStepOK == ASSUME TimeInv, NEW r \in Readers, NEW q, CallStep(r, q) PROVE TimeInv'
<1> USE DEF CallStep
<1> USE DEF TimeInv
<1>1. TypeOK'
  BY DEF TypeOK, ReaderOK
<1>2. Ordered'
  <2>1. 0 <= returned'.time
    BY DEF Ordered, TypeOK
  <2> SUFFICES ASSUME NEW s \in Readers
               PROVE  /\ reader'[s].floor <= returned'.time
                      /\ reader'[s].at = "exchange" =>
                           reader'[s].floor < reader'[s].least /\ reader'[s].least < reader'[s].out
    BY <2>1 DEF Ordered
  <2>2. CASE s = r
    BY <2>2 DEF TypeOK
  <2>3. CASE s # r
    <3>1. reader'[s] = reader[s] /\ reader[s].floor \in Int /\ returned.time \in Int
          /\ returned'.time \in Int
      BY <2>3 DEF TypeOK
    <3> QED BY <3>1 DEF Ordered
  <2> QED BY <2>2, <2>3
<1>3. Recorded' /\ StampsGrow' /\ ReadingsShown' /\ RateMeasured' /\ ClockReadWhole'
  BY DEF Recorded, StampsGrow, ReadingsShown, RateMeasured, ClockReadWhole
<1> QED BY <1>1, <1>2, <1>3

LEMMA NotAskingOK == ReaderOK(NotAsking) /\ NotAsking.floor = 0 /\ NotAsking.at = "idle"
BY DEF ReaderOK, NotAsking, NoPoint, Points

LEMMA AskOK == ASSUME TimeInv, NEW r \in Readers, Ask(r) PROVE TimeInv'
<1> DEFINE q == [NotAsking EXCEPT !.at = "count", !.point = point, !.floor = returned.time]
<1>1. /\ reader' = [reader EXCEPT ![r] = q]
      /\ UNCHANGED <<counter, ticks, history, point, last, clock, read, returned, stamps>>
  BY DEF Ask, Move, readVars
<1>2. ReaderOK(NotAsking)
  BY NotAskingOK
<1>3. point \in Points /\ returned.time \in Int /\ last \in Int
      /\ returned \in [time : Int, back : BOOLEAN]
  BY DEF TimeInv, TypeOK
<1>4. ReaderOK(q) /\ q.at = "count" /\ q.floor = returned.time
  BY <1>2, <1>3 DEF ReaderOK
<1> HIDE DEF q
<1>5. ~ returned.back /\ returned.time <= last
  BY DEF TimeInv, Ordered
<1>6. CallStep(r, q)
  BY <1>1, <1>3, <1>4, <1>5 DEF CallStep
<1> QED BY <1>6, CallStepOK

LEMMA ReadCounterOK ==
  ASSUME ConstantsOK, TimeInv, NEW r \in Readers, ReadCounter(r) PROVE TimeInv'
<1> DEFINE out == Since(reader[r].point, Shown)
           q   == [reader[r] EXCEPT !.at = "increment", !.out = out, !.point = NoPoint]
<1>1. /\ reader' = [reader EXCEPT ![r] = q]
      /\ UNCHANGED <<counter, ticks, history, point, last, clock, read, returned, stamps>>
  BY DEF ReadCounter, Move, readVars
<1>2. ReaderOK(reader[r]) /\ reader[r].point \in Points /\ Shown \in Nat
  BY ShownOK DEF TimeInv, TypeOK, ReaderOK
<1>3. out \in Int
  BY <1>2, SinceIsATime
<1>4. NoPoint \in Points
  BY DEF NoPoint, Points
<1> HIDE DEF out
<1>5. ReaderOK(q) /\ q.at # "exchange" /\ q.floor = reader[r].floor
  BY <1>2, <1>3, <1>4 DEF ReaderOK
<1> HIDE DEF q
<1>6. reader[r].floor <= returned.time /\ ~ returned.back /\ returned.time <= last
  BY DEF TimeInv, Ordered
<1>7. returned.time \in Int /\ last \in Int /\ returned \in [time : Int, back : BOOLEAN]
  BY DEF TimeInv, TypeOK
<1>8. CallStep(r, q)
  BY <1>1, <1>5, <1>6, <1>7 DEF CallStep
<1> QED BY <1>8, CallStepOK

(* A call that returns t, which is now the last time, above all before it.      *)
LEMMA ReturnOK ==
  ASSUME TimeInv, NEW r \in Readers, NEW t \in Int, NEW here, Return(r, t, here),
         UNCHANGED <<counter, ticks, history, point, read, clock, stamps>>,
         last' = t, last <= t, reader[r].floor < t
  PROVE  TimeInv'
<1>1. /\ reader' = [reader EXCEPT ![r] = NotAsking]
      /\ returned' = [time |-> Greater(returned.time, t),
                      back |-> returned.back \/ t <= reader[r].floor]
  BY DEF Return, Move
<1>2. returned.time \in Int /\ last \in Int /\ returned.back \in BOOLEAN /\ reader[r].floor \in Int
  BY DEF TimeInv, TypeOK
<1>3. ~ returned.back /\ 0 <= returned.time /\ returned.time <= last
  BY DEF TimeInv, Ordered
<1>4. Greater(returned.time, t) = t
  BY <1>2, <1>3 DEF Greater
<1>5. returned' = [time |-> t, back |-> FALSE]
  <2>1. (returned.back \/ t <= reader[r].floor) = FALSE
    BY <1>2, <1>3
  <2> QED BY <2>1, <1>1, <1>4
<1>6. /\ returned' \in [time : Int, back : BOOLEAN] /\ ~ returned'.back /\ returned'.time = t
  BY <1>5
<1>7. returned.time <= returned'.time /\ NotAsking.floor <= returned'.time
  BY <1>2, <1>3, <1>6, NotAskingOK
<1>8. CallStep(r, NotAsking)
  BY <1>1, <1>2, <1>6, <1>7, NotAskingOK DEF CallStep
<1> QED BY <1>8, CallStepOK

LEMMA IncrementOK == ASSUME TimeInv, NEW r \in Readers, Increment(r) PROVE TimeInv'
<1> DEFINE q == [reader[r] EXCEPT !.at = "exchange", !.least = last + 1]
<1>1. /\ last' = last + 1
      /\ UNCHANGED <<counter, ticks, history, point, clock, read, stamps>>
  BY DEF Increment, readVars
<1>2. /\ last \in Int /\ returned.time \in Int /\ reader[r].floor \in Int /\ reader[r].out \in Int
      /\ returned \in [time : Int, back : BOOLEAN] /\ ReaderOK(reader[r])
  BY DEF TimeInv, TypeOK, ReaderOK
<1>3. reader[r].floor <= returned.time /\ returned.time <= last /\ ~ returned.back
  BY DEF TimeInv, Ordered
<1>4. CASE last + 1 >= reader[r].out
  <2>1. Return(r, last + 1, "increment")
    BY <1>4 DEF Increment
  <2> QED BY <2>1, <1>1, <1>2, <1>3, ReturnOK
<1>5. CASE ~ (last + 1 >= reader[r].out)
  <2>1. reader' = [reader EXCEPT ![r] = q] /\ UNCHANGED returned
    BY <1>5 DEF Increment, Move
  <2>2. ReaderOK(q)
    <3>1. last + 1 \in Int
      BY <1>2
    <3>2. ReaderOK([[reader[r] EXCEPT !.at = "exchange"] EXCEPT !.least = last + 1])
      BY <1>2, <3>1 DEF ReaderOK
    <3> QED BY <1>2, <3>2 DEF ReaderOK
  <2>3. q.floor = reader[r].floor /\ q.least = last + 1 /\ q.out = reader[r].out
    BY <1>2 DEF ReaderOK
  <2> HIDE DEF q
  <2>4. q.floor < q.least /\ q.least < q.out
    BY <1>2, <1>3, <1>5, <2>3
  <2>5. CallStep(r, q)
    BY <1>1, <1>2, <1>3, <2>1, <2>2, <2>3, <2>4 DEF CallStep
  <2> QED BY <2>5, CallStepOK
<1> QED BY <1>4, <1>5

LEMMA AdvanceOK == ASSUME TimeInv, NEW r \in Readers, Advance(r) PROVE TimeInv'
<1> DEFINE q == [reader[r] EXCEPT !.at = "increment"]
<1>1. UNCHANGED <<counter, ticks, history, point, clock, read, stamps>> /\ Exchange(r)
  BY DEF Advance, readVars
<1>2. /\ last \in Int /\ returned.time \in Int /\ reader[r].floor \in Int /\ reader[r].out \in Int
      /\ reader[r].least \in Int
      /\ returned \in [time : Int, back : BOOLEAN] /\ ReaderOK(reader[r])
  BY DEF TimeInv, TypeOK, ReaderOK
<1>3. reader[r].floor <= returned.time /\ returned.time <= last /\ ~ returned.back
  BY DEF TimeInv, Ordered
<1>4. reader[r].at = "exchange" =>
        reader[r].floor < reader[r].least /\ reader[r].least < reader[r].out
  BY DEF TimeInv, Ordered
<1>5. CASE last = reader[r].least /\ last' = reader[r].out /\ Return(r, reader[r].out, "exchange")
  <2>1. reader[r].at = "exchange"
    BY <1>5 DEF Return, Move
  <2> QED BY <2>1, <1>1, <1>2, <1>4, <1>5, ReturnOK
<1>6. CASE Move(r, "exchange", q) /\ UNCHANGED <<last, returned>>
  <2>1. reader' = [reader EXCEPT ![r] = q]
    BY <1>6 DEF Move
  <2>2. ReaderOK(q) /\ q.floor = reader[r].floor /\ q.at # "exchange"
    BY <1>2 DEF ReaderOK
  <2> HIDE DEF q
  <2>3. CallStep(r, q)
    BY <1>1, <1>2, <1>3, <1>6, <2>1, <2>2 DEF CallStep
  <2> QED BY <2>3, CallStepOK
<1> QED BY <1>1, <1>5, <1>6 DEF Exchange

-----------------------------------------------------------------------------
LEMMA NextOK == ConstantsOK /\ TimeInv /\ [Next]_vars => TimeInv'
<1> SUFFICES ASSUME ConstantsOK, TimeInv, [Next]_vars PROVE TimeInv'
  OBVIOUS
<1>1. CASE Count /\ UNCHANGED panicked
  BY <1>1, CountOK
<1>2. CASE TickIgnored
  BY <1>2, TickIgnoredOK
<1>3. CASE TickReadsClock
  BY <1>3, TickReadsClockOK
<1>4. CASE TickCounts
  BY <1>4, TickCountsOK
<1>5. CASE ChangeClock
  BY <1>5, ChangeClockOK
<1>6. CASE ReadLow
  BY <1>6, ReadLowOK
<1>7. CASE ReadHigh
  BY <1>7, ReadHighOK
<1>8. ASSUME NEW r \in Readers, Ask(r) \/ ReadCounter(r) \/ Increment(r) \/ Advance(r)
      PROVE  TimeInv'
  BY <1>8, AskOK, ReadCounterOK, IncrementOK, AdvanceOK
<1>9. CASE UNCHANGED vars
  BY <1>9 DEF vars, TimeInv, TypeOK, Ordered, Recorded, StampsGrow, ReadingsShown, RateMeasured,
              ClockReadWhole
<1> QED BY <1>1, <1>2, <1>3, <1>4, <1>5, <1>6, <1>7, <1>8, <1>9 DEF Next

(* The inductive invariant of the clock: the types, the order of the times that  *)
(* were returned, the history of the ticks and the readings under way.         *)
THEOREM TimeInvariant == ConstantsOK => (Spec => []TimeInv)
<1> SUFFICES ASSUME ConstantsOK PROVE Spec => []TimeInv
  OBVIOUS
<1> QED BY InitOK, NextOK, PTL DEF Spec

(* However ticks and callers interleave, no call returns a time that is not above *)
(* all that had been returned when it began; a rate was measured over as many     *)
(* periods as it is divided by, unless the counter has fewer bits than a word and *)
(* began again in between; and the date of the first sync point is one that the   *)
(* real time clock showed while it was read.                                      *)
THEOREM TimeIsSound == ConstantsOK => (Spec => []ClockSound)
<1> SUFFICES ASSUME ConstantsOK PROVE Spec => []ClockSound
  OBVIOUS
<1>1. TimeInv => ClockSound
  BY DEF TimeInv, ClockSound, Ordered, NeverBack
<1> QED BY <1>1, TimeInvariant, PTL
-----------------------------------------------------------------------------
(* The basic terminal: what is on the screen, and where the next character goes. *)
LEMMA DivisionFacts ==
  ASSUME NEW a \in Nat, NEW d \in Nat, d > 0
  PROVE  /\ a \div d \in Nat /\ a % d \in Nat /\ a % d < d
         /\ a = d * (a \div d) + (a % d)
OBVIOUS

Rects == [x : Nat, y : Nat, w : Nat, h : Nat]

Marks == [at : Rects, frame : Rects, by : {"console", "graphics"}]

(* A character of the console stands before the cursor, in the order of reading. *)
Before(d, x, y) ==
  d.by = "console" => d.at.y < y \/ (d.at.y = y /\ d.at.x + CharWidth <= x)

Framed(d) == Inside(d.at, WholeScreen) /\ Inside(d.at, d.frame)

Dot(d) == d.at.w = 1 /\ d.at.h = 1

CursorInside(x, y) == Border <= x /\ Border <= y /\ y + CharHeight <= Height - Border

(* What a print has made is sound, unless the screen had to scroll.           *)
Pens ==
  {t \in [x : Nat, y : Nat, drawn : SUBSET Marks, word : Nat,
          overrun : BOOLEAN, twice : BOOLEAN] :
     ~ t.overrun =>
       /\ CursorInside(t.x, t.y) /\ ~ t.twice
       /\ \A d \in t.drawn : Framed(d) /\ Before(d, t.x, t.y) /\ (d.by = "console" \/ Dot(d))}

TerminalTypes ==
  /\ mode \in {"console", "graphics"} /\ screen \in SUBSET Marks
  /\ cursor \in Nat \X Nat /\ reprinted \in BOOLEAN

TerminalKept ==
  /\ TerminalTypes /\ CursorInside(cursor[1], cursor[2])
  /\ \A d \in screen : Before(d, cursor[1], cursor[2])
  /\ ScreenHolds

LEMMA ScreenSizes ==
  /\ Width \in Nat /\ Height \in Nat /\ 25 <= Width /\ 33 <= Height
  /\ Border = 8 /\ CharWidth = 9 /\ CharHeight = 17
BY ScreenAssumption DEF Border, CharWidth, CharHeight

LEMMA PenFields ==
  ASSUME NEW t \in Pens
  PROVE  /\ t \in [x : Nat, y : Nat, drawn : SUBSET Marks, word : Nat,
                   overrun : BOOLEAN, twice : BOOLEAN]
         /\ t.x \in Nat /\ t.y \in Nat /\ t.drawn \in SUBSET Marks /\ t.word \in Nat
         /\ t.overrun \in BOOLEAN /\ t.twice \in BOOLEAN
BY DEF Pens

LEMMA NewLineFacts ==
  ASSUME NEW t \in Pens
  PROVE  /\ NewLine(t) \in Pens /\ NewLine(t).x = Border /\ NewLine(t).word = t.word
         /\ t.overrun => NewLine(t).overrun
<1> USE ScreenSizes
<1>1. CASE t.y + 2 * CharHeight > Height - Border
  <2> DEFINE s == [t EXCEPT !.x = Border, !.overrun = TRUE]
  <2>1. NewLine(t) = s
    BY <1>1 DEF NewLine
  <2>2. s \in Pens /\ s.x = Border /\ s.word = t.word /\ s.overrun
    BY PenFields DEF Pens
  <2> QED BY <2>1, <2>2
<1>2. CASE ~ (t.y + 2 * CharHeight > Height - Border)
  <2> DEFINE s == [t EXCEPT !.x = Border, !.y = @ + CharHeight]
  <2>1. NewLine(t) = s
    BY <1>2 DEF NewLine
  <2>2. /\ s \in [x : Nat, y : Nat, drawn : SUBSET Marks, word : Nat,
                  overrun : BOOLEAN, twice : BOOLEAN]
        /\ s.x = Border /\ s.y = t.y + CharHeight /\ s.word = t.word
        /\ s.overrun = t.overrun /\ s.drawn = t.drawn /\ s.twice = t.twice
    <3>1. t.y + CharHeight \in Nat /\ Border \in Nat
      BY PenFields
    <3> QED BY <3>1, PenFields
  <2> HIDE DEF s
  <2>3. ASSUME ~ s.overrun PROVE CursorInside(s.x, s.y) /\ ~ s.twice
    BY <1>2, <2>2, <2>3, PenFields DEF Pens, CursorInside
  <2>4. ASSUME ~ s.overrun, NEW d \in s.drawn
        PROVE  Framed(d) /\ Before(d, s.x, s.y) /\ (d.by = "console" \/ Dot(d))
    <3>1. Framed(d) /\ Before(d, t.x, t.y) /\ (d.by = "console" \/ Dot(d))
      BY <2>2, <2>4 DEF Pens
    <3>2. d.at.y \in Nat /\ t.y \in Nat
      BY <2>2, <2>4, PenFields DEF Marks, Rects
    <3> QED BY <2>2, <3>1, <3>2 DEF Before
  <2>5. s \in Pens
    BY <2>2, <2>3, <2>4 DEF Pens
  <2> QED BY <2>1, <2>2, <2>5
<1> QED BY <1>1, <1>2

LEMMA CharFacts ==
  ASSUME NEW t \in Pens, NEW long \in BOOLEAN,
         ~ long /\ ~ t.overrun => t.x + CharWidth <= Width - Border
  PROVE  /\ PrintChar(t, long) \in Pens /\ PrintChar(t, long).word = t.word
         /\ ~ long => /\ PrintChar(t, long).x = t.x + CharWidth
                      /\ PrintChar(t, long).overrun = t.overrun
<1> USE ScreenSizes
<1> DEFINE s == IF long /\ t.x + CharWidth > Width - Border THEN NewLine(t) ELSE t
           glyph == [at |-> Rect(s.x, s.y, 8, 16), frame |-> TextArea, by |-> "console"]
           r == [s EXCEPT !.x = @ + CharWidth, !.drawn = @ \union {glyph},
                          !.twice = @ \/ glyph \in s.drawn]
<1>1. /\ s \in Pens /\ s.word = t.word
      /\ ~ s.overrun => s.x + CharWidth <= Width - Border
      /\ ~ long => s = t
  BY NewLineFacts, PenFields
<1>2. PrintChar(t, long) = r
  BY DEF PrintChar
<1> HIDE DEF s
<1>3. /\ s.x \in Nat /\ s.y \in Nat /\ s.drawn \in SUBSET Marks /\ s.twice \in BOOLEAN
      /\ s.overrun \in BOOLEAN /\ s.word \in Nat
  BY <1>1, PenFields
<1>4. /\ glyph \in Marks /\ glyph.by = "console" /\ glyph.at.x = s.x /\ glyph.at.y = s.y
      /\ glyph.at.w = 8 /\ glyph.at.h = 16 /\ glyph.frame = TextArea
  BY <1>3 DEF Marks, Rects, Rect, TextArea
<1> HIDE DEF glyph
<1>5. /\ r \in [x : Nat, y : Nat, drawn : SUBSET Marks, word : Nat,
                overrun : BOOLEAN, twice : BOOLEAN]
      /\ r.x = s.x + CharWidth /\ r.y = s.y /\ r.drawn = s.drawn \union {glyph}
      /\ r.twice = (s.twice \/ glyph \in s.drawn) /\ r.word = s.word /\ r.overrun = s.overrun
  <2>1. s \in [x : Nat, y : Nat, drawn : SUBSET Marks, word : Nat,
               overrun : BOOLEAN, twice : BOOLEAN]
    BY <1>1, PenFields
  <2>2. s.drawn \union {glyph} \in SUBSET Marks /\ (s.twice \/ glyph \in s.drawn) \in BOOLEAN
    BY <1>3, <1>4
  <2>3. s.x + CharWidth \in Nat
    BY <1>3
  <2> DEFINE x == s.x + CharWidth
             drawn == s.drawn \union {glyph}
             twice == (s.twice \/ glyph \in s.drawn)
  <2>4. r = [s EXCEPT !.x = x, !.drawn = drawn, !.twice = twice]
    OBVIOUS
  <2>5. x \in Nat /\ drawn \in SUBSET Marks /\ twice \in BOOLEAN
    BY <2>2, <2>3
  <2> HIDE DEF x, drawn, twice, r
  <2>6. /\ r \in [x : Nat, y : Nat, drawn : SUBSET Marks, word : Nat,
                  overrun : BOOLEAN, twice : BOOLEAN]
        /\ r.x = x /\ r.y = s.y /\ r.drawn = drawn
        /\ r.twice = twice /\ r.word = s.word /\ r.overrun = s.overrun
    BY <2>1, <2>4, <2>5
  <2> QED BY <2>6 DEF x, drawn, twice
<1> HIDE DEF r
<1>6. ASSUME ~ r.overrun
      PROVE  /\ CursorInside(r.x, r.y) /\ ~ r.twice
             /\ \A d \in r.drawn : Framed(d) /\ Before(d, r.x, r.y)
                                   /\ (d.by = "console" \/ Dot(d))
  <2>1. /\ CursorInside(s.x, s.y) /\ ~ s.twice
        /\ \A d \in s.drawn : Framed(d) /\ Before(d, s.x, s.y)
                              /\ (d.by = "console" \/ Dot(d))
    BY <1>1, <1>5, <1>6 DEF Pens
  <2>2. CursorInside(r.x, r.y)
    BY <1>3, <1>5, <2>1 DEF CursorInside
  <2>3. glyph \notin s.drawn
    BY <1>3, <1>4, <2>1 DEF Before
  <2>4. Framed(glyph) /\ Before(glyph, r.x, r.y)
    BY <1>1, <1>3, <1>4, <1>5, <1>6, <2>1
       DEF Framed, Before, Inside, WholeScreen, TextArea, Rect, CursorInside
  <2>5. ASSUME NEW d \in s.drawn PROVE Before(d, r.x, r.y)
    <3>1. d.at.y \in Nat /\ d.at.x \in Nat
      BY <1>3, <2>5 DEF Marks, Rects
    <3> QED BY <1>3, <1>5, <2>1, <2>5, <3>1 DEF Before
  <2> QED BY <1>4, <1>5, <2>1, <2>2, <2>3, <2>4, <2>5
<1>7. r \in Pens
  BY <1>5, <1>6 DEF Pens
<1> QED BY <1>1, <1>2, <1>5, <1>7

(* A word that is not long has room in its line. *)
RoomLeft(t, n, long) == ~ long /\ ~ t.overrun => t.x + n * CharWidth <= Width - Border

LEMMA CharsFacts ==
  ASSUME NEW start \in Pens, NEW count \in Nat, NEW long \in BOOLEAN, RoomLeft(start, count, long)
  PROVE  /\ PrintChars(start, count, long) \in Pens
         /\ PrintChars(start, count, long).word = start.word
<1> DEFINE V == [i \in 0 .. count |->
                   {s \in Pens : s.word = start.word /\ RoomLeft(s, count - i, long)}]
           F == [i \in 1 .. count |-> [s \in V[i - 1] |-> PrintChar(s, long)]]
           Eq(g) == g = [i \in 0 .. count |-> IF i = 0 THEN start ELSE PrintChar(g[i - 1], long)]
           after == CHOOSE g : Eq(g)
<1>1. PrintChars(start, count, long) = after[count]
  BY ONLY DEF PrintChars
<1>2. start \in V[0]
  <2>1. 0 \in 0 .. count /\ count - 0 = count
    OBVIOUS
  <2> QED BY <2>1
<1>3. ASSUME NEW i \in 1 .. count, NEW s \in V[i - 1] PROVE PrintChar(s, long) \in V[i]
  <2>1. /\ i \in 0 .. count /\ i - 1 \in 0 .. count /\ count - (i - 1) \in Nat
        /\ count - i \in Nat /\ count - (i - 1) = (count - i) + 1
    OBVIOUS
  <2>2. s \in Pens /\ s.word = start.word /\ RoomLeft(s, (count - i) + 1, long)
    BY <2>1
  <2> DEFINE n == count - i
  <2>3. n \in Nat /\ RoomLeft(s, n + 1, long)
    BY <2>1, <2>2
  <2> HIDE DEF n
  <2>4. ~ long /\ ~ s.overrun => s.x + CharWidth <= Width - Border
    BY <2>2, <2>3, ScreenSizes, PenFields DEF RoomLeft
  <2> DEFINE r == PrintChar(s, long)
  <2>5. /\ r \in Pens /\ r.word = s.word
        /\ ~ long => r.x = s.x + CharWidth /\ r.overrun = s.overrun
    BY <2>2, <2>4, CharFacts
  <2> HIDE DEF r
  <2>6. RoomLeft(r, n, long)
    BY <2>2, <2>3, <2>5, ScreenSizes, PenFields DEF RoomLeft
  <2>7. r \in {q \in Pens : q.word = start.word /\ RoomLeft(q, n, long)}
    BY <2>2, <2>5, <2>6
  <2> QED BY <2>1, <2>7 DEF r, n
<1>4. \E g : Eq(g)
  <2>1. \A i \in 1 .. count : \A v \in V[i - 1] : F[i][v] \in V[i]
    <3> SUFFICES ASSUME NEW i \in 1 .. count, NEW v \in V[i - 1] PROVE F[i][v] \in V[i]
      OBVIOUS
    <3> HIDE DEF V
    <3>1. F[i][v] = PrintChar(v, long)
      OBVIOUS
    <3> QED BY <1>3, <3>1
  <2> HIDE DEF V, F
  <2>2. PICK g : Chained(g, count, start, V, F)
    <3>1. Chainable(count, start, V, F)
      BY <1>2, <2>1 DEF Chainable
    <3> QED BY <3>1, Chains
  <2>3. \A i \in 1 .. count : F[i][g[i - 1]] = PrintChar(g[i - 1], long)
    <3> SUFFICES ASSUME NEW i \in 1 .. count PROVE F[i][g[i - 1]] = PrintChar(g[i - 1], long)
      OBVIOUS
    <3>1. g[i - 1] \in V[i - 1]
      BY <2>2 DEF Chained
    <3> QED BY <3>1 DEF F
  <2>4. \A i \in 0 .. count :
          (IF i = 0 THEN start ELSE F[i][g[i - 1]])
            = (IF i = 0 THEN start ELSE PrintChar(g[i - 1], long))
    BY <2>3
  <2>5. Eq(g)
    BY <2>2, <2>4 DEF Chained
  <2> QED BY <2>5
<1>5. Eq(after)
  BY <1>4
<1> HIDE DEF after
<1>6. after[count] \in V[count]
  <2>1. after[0] = start /\ \A i \in 1 .. count : after[i] = PrintChar(after[i - 1], long)
    BY <1>5
  <2>2. after[0] \in V[0]
    BY <1>2, <2>1
  <2>3. \A i \in 1 .. count : after[i - 1] \in V[i - 1] => after[i] \in V[i]
    BY <1>3, <2>1
  <2> HIDE DEF V
  <2>4. \A i \in 0 .. count : after[i] \in V[i]
    BY <2>2, <2>3, ChainHolds
  <2> QED BY <2>4
<1>7. count \in 0 .. count
  OBVIOUS
<1> QED BY <1>1, <1>6, <1>7

LEMMA WordFacts ==
  ASSUME NEW t \in Pens, NEW count \in Nat
  PROVE  PrintWord(t, count) \in Pens /\ PrintWord(t, count).word = t.word
<1> DEFINE long == IsLong(count)
           s == IF ~ long /\ t.x + count * CharWidth > Width - Border THEN NewLine(t) ELSE t
<1>1. PrintWord(t, count) = PrintChars(s, count, long)
  BY DEF PrintWord
<1>2. s \in Pens /\ s.word = t.word
  BY NewLineFacts
<1>3. RoomLeft(s, count, long)
  <2> SUFFICES ASSUME ~ long, ~ s.overrun PROVE s.x + count * CharWidth <= Width - Border
    BY DEF RoomLeft
  <2>1. CASE t.x + count * CharWidth > Width - Border
    <3>1. s.x = Border
      BY <2>1, NewLineFacts
    <3>2. count * CharWidth < (Width - 2 * Border) \div 4
      BY ScreenSizes DEF IsLong
    <3> HIDE DEF s
    <3> QED BY <3>1, <3>2, ScreenSizes
  <2>2. CASE ~ (t.x + count * CharWidth > Width - Border)
    <3>1. s.x = t.x
      BY <2>2
    <3> HIDE DEF s
    <3> QED BY <2>2, <3>1, ScreenSizes, PenFields
  <2> QED BY <2>1, <2>2
<1>4. long \in BOOLEAN
  BY ScreenSizes DEF IsLong
<1> HIDE DEF s, long
<1> QED BY <1>1, <1>2, <1>3, <1>4, CharsFacts

LEMMA WordEndFacts ==
  ASSUME NEW t \in Pens, NEW c
  PROVE  PrintWordEnd(t, c) \in Pens
<1> DEFINE s == IF t.word = 0 THEN t ELSE PrintWord(t, t.word + IF c = "space" THEN 1 ELSE 0)
           next == CASE c = "tab" -> PrintWord(s, 4)
                     [] c = "newline" -> NewLine(s)
                     [] OTHER -> s
<1>1. PrintWordEnd(t, c) = [next EXCEPT !.word = 0]
  BY DEF PrintWordEnd
<1>2. t.word \in Nat /\ (t.word + IF c = "space" THEN 1 ELSE 0) \in Nat
  BY PenFields
<1>3. s \in Pens
  BY <1>2, WordFacts
<1> HIDE DEF s
<1>4. next \in Pens
  <2>1. PrintWord(s, 4) \in Pens
    BY <1>3, WordFacts, 4 \in Nat
  <2>2. NewLine(s) \in Pens
    BY <1>3, NewLineFacts
  <2>3. CASE c = "tab"
    BY <2>1, <2>3
  <2>4. CASE c = "newline"
    BY <2>2, <2>4
  <2>5. CASE c # "tab" /\ c # "newline"
    BY <1>3, <2>5
  <2> QED BY <2>3, <2>4, <2>5
<1> HIDE DEF next
<1> DEFINE r == [next EXCEPT !.word = 0]
<1>5. r \in Pens
  <2>1. /\ r \in [x : Nat, y : Nat, drawn : SUBSET Marks, word : Nat,
                  overrun : BOOLEAN, twice : BOOLEAN]
        /\ r.x = next.x /\ r.y = next.y /\ r.drawn = next.drawn
        /\ r.overrun = next.overrun /\ r.twice = next.twice
    BY <1>4, PenFields
  <2> HIDE DEF r
  <2> QED BY <1>4, <2>1 DEF Pens
<1> QED BY <1>1, <1>5

LEMMA CharCounted ==
  ASSUME NEW t \in Pens
  PROVE  [t EXCEPT !.word = @ + 1] \in Pens
<1> DEFINE n == t.word + 1
           r == [t EXCEPT !.word = n]
<1>1. n \in Nat
  BY PenFields
<1> HIDE DEF n
<1>2. /\ r \in [x : Nat, y : Nat, drawn : SUBSET Marks, word : Nat,
                overrun : BOOLEAN, twice : BOOLEAN]
      /\ r.x = t.x /\ r.y = t.y /\ r.drawn = t.drawn
      /\ r.overrun = t.overrun /\ r.twice = t.twice
  BY <1>1, PenFields
<1>3. [t EXCEPT !.word = @ + 1] = r
  BY DEF n
<1> HIDE DEF r
<1>4. r \in Pens
  BY <1>2 DEF Pens
<1> QED BY <1>3, <1>4

LEMMA PrintedFacts ==
  ASSUME TerminalKept, mode = "console", NEW text \in Seq(Classes)
  PROVE  Printed(text) \in Pens
<1> DEFINE start == [x |-> cursor[1], y |-> cursor[2], drawn |-> screen,
                     word |-> 0, overrun |-> FALSE, twice |-> reprinted]
           n == Len(text)
           Step(v, i) == IF text[i] = "char" THEN [v EXCEPT !.word = @ + 1]
                         ELSE PrintWordEnd(v, text[i])
           V == [i \in 0 .. n |-> Pens]
           F == [i \in 1 .. n |-> [v \in V[i - 1] |-> Step(v, i)]]
           Eq(g) == g = [i \in 0 .. n |-> IF i = 0 THEN start ELSE Step(g[i - 1], i)]
           after == CHOOSE g : Eq(g)
<1>1. Printed(text) = PrintWordEnd(after[n], "end")
  BY ONLY DEF Printed
<1>2. start \in Pens
  <2>1. /\ start \in [x : Nat, y : Nat, drawn : SUBSET Marks, word : Nat,
                      overrun : BOOLEAN, twice : BOOLEAN]
        /\ start.x = cursor[1] /\ start.y = cursor[2] /\ start.drawn = screen
        /\ start.twice = reprinted
    <3>1. cursor[1] \in Nat /\ cursor[2] \in Nat /\ screen \in SUBSET Marks /\ reprinted \in BOOLEAN
      BY DEF TerminalKept, TerminalTypes
    <3> QED BY <3>1
  <2> HIDE DEF start
  <2>2. CursorInside(start.x, start.y) /\ ~ start.twice
    BY <2>1 DEF TerminalKept, ScreenHolds
  <2>3. \A d \in start.drawn : Framed(d) /\ Before(d, start.x, start.y)
                               /\ (d.by = "console" \/ Dot(d))
    BY <2>1 DEF TerminalKept, ScreenHolds, Framed, Dot
  <2> QED BY <2>1, <2>2, <2>3 DEF Pens
<1>3. \A i \in 1 .. n : \A v \in Pens : Step(v, i) \in Pens
  BY CharCounted, WordEndFacts
<1>4. n \in Nat
  OBVIOUS
<1> HIDE DEF start, n, Step
<1>5. \E g : Eq(g)
  <2>1. \A i \in 1 .. n : \A v \in V[i - 1] : F[i][v] \in V[i]
    BY <1>3, <1>4
  <2>2. start \in V[0]
    BY <1>2, <1>4
  <2> HIDE DEF V, F
  <2>3. PICK g : Chained(g, n, start, V, F)
    <3>1. Chainable(n, start, V, F)
      BY <1>4, <2>1, <2>2 DEF Chainable
    <3> QED BY <3>1, Chains
  <2>4. \A i \in 1 .. n : F[i][g[i - 1]] = Step(g[i - 1], i)
    <3> SUFFICES ASSUME NEW i \in 1 .. n PROVE F[i][g[i - 1]] = Step(g[i - 1], i)
      OBVIOUS
    <3>1. g[i - 1] \in V[i - 1]
      BY <1>4, <2>3 DEF Chained
    <3> QED BY <3>1 DEF F
  <2>5. \A i \in 0 .. n : (IF i = 0 THEN start ELSE F[i][g[i - 1]])
                            = (IF i = 0 THEN start ELSE Step(g[i - 1], i))
    BY <1>4, <2>4
  <2>6. Eq(g)
    BY <2>3, <2>5 DEF Chained
  <2> QED BY <2>6
<1>6. Eq(after)
  BY <1>5
<1> HIDE DEF after
<1>7. after[n] \in Pens
  <2>1. after[0] = start /\ \A i \in 1 .. n : after[i] = Step(after[i - 1], i)
    BY <1>4, <1>6
  <2>2. after[0] \in V[0]
    BY <1>2, <1>4, <2>1
  <2>3. \A i \in 1 .. n : after[i - 1] \in V[i - 1] => after[i] \in V[i]
    BY <1>3, <1>4, <2>1
  <2>4. n \in 0 .. n /\ V[n] = Pens
    BY <1>4
  <2> HIDE DEF V
  <2>5. \A i \in 0 .. n : after[i] \in V[i]
    BY <1>4, <2>2, <2>3, ChainHolds
  <2> QED BY <2>4, <2>5
<1> QED BY <1>1, <1>7, WordEndFacts

LEMMA ShowKeeps ==
  ASSUME TerminalKept, mode = "console", NEW text \in Seq(Classes), Show(text), UNCHANGED mode
  PROVE  TerminalKept'
<1> DEFINE t == Printed(text)
<1>1. t \in Pens
  BY PrintedFacts
<1>2. \/ t.overrun /\ UNCHANGED <<cursor, screen, reprinted>>
      \/ ~ t.overrun /\ cursor' = <<t.x, t.y>> /\ screen' = t.drawn /\ reprinted' = t.twice
  BY DEF Show
<1> HIDE DEF t
<1>3. CASE UNCHANGED <<cursor, screen, reprinted>>
  BY <1>3 DEF TerminalKept, TerminalTypes, ScreenHolds, CursorInside, Before, Inside
<1>4. CASE ~ t.overrun /\ cursor' = <<t.x, t.y>> /\ screen' = t.drawn /\ reprinted' = t.twice
  <2>1. /\ CursorInside(t.x, t.y) /\ ~ t.twice
        /\ \A d \in t.drawn : Framed(d) /\ Before(d, t.x, t.y)
                              /\ (d.by = "console" \/ Dot(d))
    BY <1>1, <1>4 DEF Pens
  <2>2. TerminalTypes'
    BY <1>1, <1>4, PenFields DEF TerminalTypes
  <2>3. cursor'[1] = t.x /\ cursor'[2] = t.y
    BY <1>4
  <2>4. ScreenHolds'
    BY <1>4, <2>1 DEF ScreenHolds, Framed, Dot
  <2> QED BY <1>4, <2>1, <2>2, <2>3, <2>4 DEF TerminalKept
<1> QED BY <1>2, <1>3, <1>4

LEMMA DrawKeeps ==
  ASSUME TerminalKept, NEW rects, NEW frame \in Rects, Draw(rects, frame),
         \A r \in rects : /\ r \in Rects /\ OnScreen(r.x, r.y)
                          /\ frame = WholeScreen \/ Inside(r, frame)
                          /\ mode = "graphics" \/ (r.w = 1 /\ r.h = 1)
  PROVE  TerminalKept'
<1> USE ScreenSizes
<1> DEFINE Mark(r) == [at |-> Clipped(r), frame |-> frame, by |-> "graphics"]
<1>1. UNCHANGED <<mode, cursor, reprinted>> /\ screen' = screen \union {Mark(r) : r \in rects}
  BY DEF Draw
<1>2. ASSUME NEW r \in rects
      PROVE  /\ Mark(r) \in Marks /\ Framed(Mark(r)) /\ Mark(r).by = "graphics"
             /\ mode = "graphics" \/ Dot(Mark(r))
  <2> DEFINE c == Clipped(r)
  <2>1. r.x \in Nat /\ r.y \in Nat /\ r.w \in Nat /\ r.h \in Nat /\ r.x < Width /\ r.y < Height
    BY <1>2 DEF Rects, OnScreen
  <2>2. /\ c \in Rects /\ c.x = r.x /\ c.y = r.y
        /\ c.w <= r.w /\ c.w <= Width - r.x /\ c.h <= r.h /\ c.h <= Height - r.y
        /\ (r.w = 1 => c.w = 1) /\ (r.h = 1 => c.h = 1)
    <3> DEFINE w == Least(r.w, Width - r.x)
               h == Least(r.h, Height - r.y)
    <3>1. w \in Nat /\ w <= r.w /\ w <= Width - r.x /\ (r.w = 1 => w = 1)
      BY <2>1 DEF Least
    <3>2. h \in Nat /\ h <= r.h /\ h <= Height - r.y /\ (r.h = 1 => h = 1)
      BY <2>1 DEF Least
    <3>3. c = [x |-> r.x, y |-> r.y, w |-> w, h |-> h]
      BY DEF Clipped, Rect
    <3> HIDE DEF w, h, c
    <3> QED BY <2>1, <3>1, <3>2, <3>3 DEF Rects
  <2>3. Mark(r) \in Marks /\ Mark(r).at = c /\ Mark(r).frame = frame /\ Mark(r).by = "graphics"
    BY <2>2 DEF Marks
  <2> HIDE DEF c, Mark
  <2>4. Inside(c, WholeScreen)
    BY <2>1, <2>2 DEF Inside, WholeScreen, Rect, Rects
  <2>5. Inside(c, frame)
    <3>1. CASE frame = WholeScreen
      BY <2>4, <3>1
    <3>2. CASE Inside(r, frame)
      <4>1. /\ frame.x \in Nat /\ frame.y \in Nat /\ frame.w \in Nat /\ frame.h \in Nat
            /\ c.w \in Nat /\ c.h \in Nat
        BY <2>2 DEF Rects
      <4> QED BY <2>1, <2>2, <3>2, <4>1 DEF Inside
    <3> QED BY <1>2, <3>1, <3>2
  <2> QED BY <1>2, <2>2, <2>3, <2>4, <2>5 DEF Framed, Dot
<1> HIDE DEF Mark
<1>3. TerminalTypes'
  BY <1>1, <1>2 DEF TerminalKept, TerminalTypes
<1>4. \A d \in screen' : Before(d, cursor'[1], cursor'[2])
  BY <1>1, <1>2 DEF TerminalKept, Before
<1>5. ScreenHolds'
  <2>1. \A d \in screen : Framed(d) /\ (d.by = mode \/ Dot(d))
    BY DEF TerminalKept, ScreenHolds, Framed, Dot
  <2>2. \A d \in screen' : Framed(d) /\ (d.by = mode \/ Dot(d))
    BY <1>1, <1>2, <2>1
  <2>3. ~ reprinted' /\ mode' = mode
    BY <1>1 DEF TerminalKept, ScreenHolds
  <2> QED BY <2>2, <2>3 DEF ScreenHolds, Framed, Dot
<1>6. CursorInside(cursor'[1], cursor'[2])
  BY <1>1 DEF TerminalKept
<1> QED BY <1>3, <1>4, <1>5, <1>6 DEF TerminalKept

LEMMA DrawTextBoxKeeps ==
  ASSUME TerminalKept, NEW count \in 1 .. 3, NEW box \in Rects, NEW transparent \in BOOLEAN,
         DrawTextBox(count, box, transparent)
  PROVE  TerminalKept'
<1> DEFINE columns == box.w \div CharWidth
           row(i) == CharHeight * (i \div columns)
           Place(i) == Rect(box.x + CharWidth * (i % columns), box.y + row(i), 8,
                            Least(16, box.h - row(i)))
           glyphs == IF columns = 0 THEN {} ELSE {Place(i) : i \in 0 .. count - 1}
           all == IF transparent THEN glyphs ELSE glyphs \union {box}
           rects == {r \in all : r.h > 0 /\ OnScreen(r.x, r.y)}
<1>1. mode = "graphics" /\ Draw(rects, box)
  BY DEF DrawTextBox
<1>2. box.x \in Nat /\ box.y \in Nat /\ box.w \in Nat /\ box.h \in Nat
  BY DEF Rects
<1>3. columns \in Nat /\ CharWidth * columns <= box.w
  BY <1>2, ScreenSizes
<1> HIDE DEF columns
<1>4. ASSUME NEW i \in 0 .. count - 1, columns # 0, Place(i).h > 0
      PROVE  Place(i) \in Rects /\ Inside(Place(i), box)
  <2>1. i \in Nat /\ columns > 0
    BY <1>3, <1>4
  <2> DEFINE down == i \div columns
             right == i % columns
  <2>2. down \in Nat /\ right \in Nat /\ right < columns
    BY <1>3, <2>1, DivisionFacts
  <2> HIDE DEF down, right
  <2> DEFINE h == Least(16, box.h - CharHeight * down)
             p == Place(i)
  <2>3. p = [x |-> box.x + CharWidth * right, y |-> box.y + CharHeight * down, w |-> 8, h |-> h]
    BY DEF down, right, Rect
  <2>4. h > 0
    BY <1>4, <2>3
  <2>5. h \in Nat /\ h <= box.h - CharHeight * down
    BY <1>2, <2>2, <2>4, ScreenSizes DEF Least
  <2> HIDE DEF h, p
  <2>6. p \in Rects
    BY <1>2, <2>2, <2>3, <2>5, ScreenSizes DEF Rects
  <2>7. Inside(p, box)
    BY <1>2, <1>3, <2>2, <2>3, <2>5, ScreenSizes DEF Inside
  <2> QED BY <2>6, <2>7 DEF p
<1>5. Inside(box, box)
  BY <1>2 DEF Inside
<1> HIDE DEF Place
<1>6. \A r \in rects : r \in Rects /\ OnScreen(r.x, r.y) /\ Inside(r, box)
  BY <1>4, <1>5
<1> HIDE DEF rects
<1>7. \A r \in rects : /\ r \in Rects /\ OnScreen(r.x, r.y)
                       /\ box = WholeScreen \/ Inside(r, box)
                       /\ mode = "graphics" \/ (r.w = 1 /\ r.h = 1)
  BY <1>1, <1>6
<1> QED BY <1>1, <1>7, DrawKeeps

LEMMA DrawTextKeeps ==
  ASSUME TerminalKept, NEW count \in 1 .. 3, NEW x \in Nat, NEW y \in Nat, DrawText(count, x, y)
  PROVE  TerminalKept'
<1> DEFINE Place(i) == Rect(x + CharWidth * i, y, 8, 16)
           rects == {r \in {Place(i) : i \in 0 .. count - 1} : OnScreen(r.x, r.y)}
<1>1. mode = "graphics" /\ Draw(rects, WholeScreen)
  BY DEF DrawText
<1>2. \A i \in 0 .. count - 1 : Place(i) \in Rects
  BY ScreenSizes DEF Rect, Rects
<1> HIDE DEF Place
<1>3. \A r \in rects : /\ r \in Rects /\ OnScreen(r.x, r.y)
                       /\ WholeScreen = WholeScreen \/ Inside(r, WholeScreen)
                       /\ mode = "graphics" \/ (r.w = 1 /\ r.h = 1)
  BY <1>1, <1>2
<1>4. WholeScreen \in Rects
  BY ScreenSizes DEF WholeScreen, Rect, Rects
<1> HIDE DEF rects
<1> QED BY <1>1, <1>3, <1>4, DrawKeeps

LEMMA DrawBoxKeeps ==
  ASSUME TerminalKept, NEW box \in Rects, DrawBox(box)
  PROVE  TerminalKept'
<1> DEFINE rects == {box}
<1>1. mode = "graphics" /\ Draw(rects, box) /\ OnScreen(box.x, box.y)
  BY DEF DrawBox
<1>2. Inside(box, box)
  BY DEF Inside, Rects
<1>3. \A r \in rects : /\ r \in Rects /\ OnScreen(r.x, r.y)
                       /\ box = WholeScreen \/ Inside(r, box)
                       /\ mode = "graphics" \/ (r.w = 1 /\ r.h = 1)
  BY <1>1, <1>2
<1> HIDE DEF rects
<1> QED BY <1>1, <1>3, DrawKeeps

LEMMA DrawPixelKeeps ==
  ASSUME TerminalKept, NEW x \in Nat, NEW y \in Nat, DrawPixel(x, y)
  PROVE  TerminalKept'
<1> DEFINE p == Rect(x, y, 1, 1)
           rects == {p}
<1>1. Draw(rects, WholeScreen) /\ OnScreen(x, y)
  BY DEF DrawPixel
<1>2. p \in Rects /\ p.x = x /\ p.y = y /\ p.w = 1 /\ p.h = 1
  BY DEF Rect, Rects
<1>3. WholeScreen \in Rects
  BY ScreenSizes DEF WholeScreen, Rect, Rects
<1> HIDE DEF p
<1>4. \A r \in rects : /\ r \in Rects /\ OnScreen(r.x, r.y)
                       /\ WholeScreen = WholeScreen \/ Inside(r, WholeScreen)
                       /\ mode = "graphics" \/ (r.w = 1 /\ r.h = 1)
  BY <1>1, <1>2
<1> HIDE DEF rects
<1> QED BY <1>1, <1>3, <1>4, DrawKeeps

LEMMA SetModeKeeps ==
  ASSUME TerminalKept, NEW new \in {"console", "graphics"}, SetMode(new)
  PROVE  TerminalKept'
<1>1. CASE new = mode
  <2>1. UNCHANGED <<mode, cursor, screen, reprinted>>
    BY <1>1 DEF SetMode
  <2> QED BY <2>1 DEF TerminalKept, TerminalTypes, ScreenHolds
<1>2. CASE new # mode
  <2>1. mode' = new /\ cursor' = <<Border, Border>> /\ screen' = {} /\ UNCHANGED reprinted
    BY <1>2 DEF SetMode, ClearScreen, Home
  <2>2. Border \in Nat /\ CursorInside(Border, Border)
    BY ScreenSizes DEF CursorInside
  <2>3. cursor'[1] = Border /\ cursor'[2] = Border /\ cursor' \in Nat \X Nat
    BY <2>1, <2>2
  <2> QED BY <2>1, <2>2, <2>3 DEF TerminalKept, TerminalTypes, ScreenHolds
<1> QED BY <1>1, <1>2

(* Numbers, digit by digit. *)
LEMMA TensFacts ==
  /\ Tens[0] = 1 /\ \A n \in 1 .. Places : Tens[n] = 10 * Tens[n - 1]
  /\ \A n \in 0 .. Places : Tens[n] \in Nat /\ Tens[n] > 0
<1> DEFINE V == [n \in 0 .. Places |-> {v \in Nat : v > 0}]
           F == [n \in 1 .. Places |-> [v \in V[n - 1] |-> 10 * v]]
           Eq(g) == g = [n \in 0 .. Places |-> IF n = 0 THEN 1 ELSE 10 * g[n - 1]]
<1>1. Places \in Nat
  BY ScreenAssumption
<1>2. \E g : Eq(g)
  <2>1. 1 \in V[0] /\ \A n \in 1 .. Places : \A v \in V[n - 1] : F[n][v] \in V[n]
    BY <1>1
  <2> HIDE DEF V, F
  <2>2. PICK g : Chained(g, Places, 1, V, F)
    <3>1. Chainable(Places, 1, V, F)
      BY <1>1, <2>1 DEF Chainable
    <3> QED BY <3>1, Chains
  <2>3. \A n \in 1 .. Places : F[n][g[n - 1]] = 10 * g[n - 1]
    <3> SUFFICES ASSUME NEW n \in 1 .. Places PROVE F[n][g[n - 1]] = 10 * g[n - 1]
      OBVIOUS
    <3>1. g[n - 1] \in V[n - 1]
      BY <1>1, <2>2 DEF Chained
    <3> QED BY <3>1 DEF F
  <2>4. \A n \in 0 .. Places : (IF n = 0 THEN 1 ELSE F[n][g[n - 1]])
                                 = (IF n = 0 THEN 1 ELSE 10 * g[n - 1])
    BY <1>1, <2>3
  <2>5. Eq(g)
    BY <2>2, <2>4 DEF Chained
  <2> QED BY <2>5
<1>3. Eq(Tens)
  <2>1. Tens = CHOOSE g : Eq(g)
    BY ONLY DEF Tens
  <2> QED BY <1>2, <2>1
<1>4. Tens[0] = 1 /\ \A n \in 1 .. Places : Tens[n] = 10 * Tens[n - 1]
  BY <1>1, <1>3
<1>5. \A n \in 0 .. Places : Tens[n] \in V[n]
  <2>1. Tens[0] \in V[0]
    BY <1>1, <1>4
  <2>2. ASSUME NEW n \in 1 .. Places, Tens[n - 1] \in V[n - 1] PROVE Tens[n] \in V[n]
    <3>1. Tens[n - 1] \in Nat /\ Tens[n - 1] > 0 /\ n \in 0 .. Places
      BY <1>1, <2>2
    <3>2. Tens[n] = 10 * Tens[n - 1]
      BY <1>4
    <3> QED BY <3>1, <3>2
  <2> HIDE DEF V
  <2> QED BY <1>1, <2>1, <2>2, ChainHolds
<1> QED BY <1>4, <1>5

LEMMA WeightsFacts ==
  /\ Weights[0] = 1 /\ \A n \in 1 .. HexBytes : Weights[n] = 256 * Weights[n - 1]
  /\ \A n \in 0 .. HexBytes : Weights[n] \in Nat /\ Weights[n] > 0
<1> DEFINE V == [n \in 0 .. HexBytes |-> {v \in Nat : v > 0}]
           F == [n \in 1 .. HexBytes |-> [v \in V[n - 1] |-> 256 * v]]
           Eq(g) == g = [n \in 0 .. HexBytes |-> IF n = 0 THEN 1 ELSE 256 * g[n - 1]]
<1>1. HexBytes \in Nat
  BY ScreenAssumption
<1>2. \E g : Eq(g)
  <2>1. 1 \in V[0] /\ \A n \in 1 .. HexBytes : \A v \in V[n - 1] : F[n][v] \in V[n]
    BY <1>1
  <2> HIDE DEF V, F
  <2>2. PICK g : Chained(g, HexBytes, 1, V, F)
    <3>1. Chainable(HexBytes, 1, V, F)
      BY <1>1, <2>1 DEF Chainable
    <3> QED BY <3>1, Chains
  <2>3. \A n \in 1 .. HexBytes : F[n][g[n - 1]] = 256 * g[n - 1]
    <3> SUFFICES ASSUME NEW n \in 1 .. HexBytes PROVE F[n][g[n - 1]] = 256 * g[n - 1]
      OBVIOUS
    <3>1. g[n - 1] \in V[n - 1]
      BY <1>1, <2>2 DEF Chained
    <3> QED BY <3>1 DEF F
  <2>4. \A n \in 0 .. HexBytes : (IF n = 0 THEN 1 ELSE F[n][g[n - 1]])
                                   = (IF n = 0 THEN 1 ELSE 256 * g[n - 1])
    BY <1>1, <2>3
  <2>5. Eq(g)
    BY <2>2, <2>4 DEF Chained
  <2> QED BY <2>5
<1>3. Eq(Weights)
  <2>1. Weights = CHOOSE g : Eq(g)
    BY ONLY DEF Weights
  <2> QED BY <1>2, <2>1
<1>4. Weights[0] = 1 /\ \A n \in 1 .. HexBytes : Weights[n] = 256 * Weights[n - 1]
  BY <1>1, <1>3
<1>5. \A n \in 0 .. HexBytes : Weights[n] \in V[n]
  <2>1. Weights[0] \in V[0]
    BY <1>1, <1>4
  <2>2. ASSUME NEW n \in 1 .. HexBytes, Weights[n - 1] \in V[n - 1] PROVE Weights[n] \in V[n]
    <3>1. Weights[n - 1] \in Nat /\ Weights[n - 1] > 0 /\ n \in 0 .. HexBytes
      BY <1>1, <2>2
    <3>2. Weights[n] = 256 * Weights[n - 1]
      BY <1>4
    <3> QED BY <3>1, <3>2
  <2> HIDE DEF V
  <2> QED BY <1>1, <2>1, <2>2, ChainHolds
<1> QED BY <1>4, <1>5

(* What the digits up to each of them denote. *)
LEMMA DenotedUpto ==
  ASSUME NEW b \in Nat, NEW s \in Seq(Nat)
  PROVE  \E g : /\ g[0] = 0 /\ Denoted(s, b) = g[Len(s)]
                /\ \A i \in 1 .. Len(s) : g[i] = g[i - 1] * b + s[i]
                /\ \A i \in 0 .. Len(s) : g[i] \in Nat
<1> DEFINE n == Len(s)
           V == [i \in 0 .. n |-> Nat]
           F == [i \in 1 .. n |-> [v \in V[i - 1] |-> v * b + s[i]]]
           Eq(g) == g = [i \in 0 .. n |-> IF i = 0 THEN 0 ELSE g[i - 1] * b + s[i]]
           upto == CHOOSE g : Eq(g)
<1>1. n \in Nat /\ Denoted(s, b) = upto[n]
  BY DEF Denoted
<1>2. \A i \in 1 .. n, v \in Nat : v * b + s[i] \in Nat
  <2> SUFFICES ASSUME NEW i \in 1 .. n, NEW v \in Nat PROVE v * b + s[i] \in Nat
    OBVIOUS
  <2>1. v * b \in Nat /\ s[i] \in Nat
    OBVIOUS
  <2> QED BY <2>1
<1> HIDE DEF n
<1>3. \E g : Eq(g)
  <2>1. 0 \in V[0] /\ \A i \in 1 .. n : \A v \in V[i - 1] : F[i][v] \in V[i]
    <3>1. ASSUME NEW i \in 1 .. n, NEW v \in V[i - 1] PROVE F[i][v] \in V[i]
      <4>1. V[i] = Nat /\ v \in Nat
        BY <1>1
      <4>2. v * b + s[i] \in Nat
        BY <1>2, <4>1
      <4> DEFINE r == v * b + s[i]
      <4> HIDE DEF V
      <4>3. F[i][v] = r
        BY Zenon
      <4> QED BY <4>1, <4>2, <4>3
    <3>2. 0 \in V[0]
      BY <1>1
    <3> QED BY <3>1, <3>2
  <2> HIDE DEF V, F
  <2>2. PICK g : Chained(g, n, 0, V, F)
    <3>1. Chainable(n, 0, V, F)
      BY <1>1, <2>1 DEF Chainable
    <3> QED BY <3>1, Chains
  <2>3. \A i \in 1 .. n : F[i][g[i - 1]] = g[i - 1] * b + s[i]
    <3> SUFFICES ASSUME NEW i \in 1 .. n PROVE F[i][g[i - 1]] = g[i - 1] * b + s[i]
      OBVIOUS
    <3>1. g[i - 1] \in V[i - 1]
      BY <1>1, <2>2 DEF Chained
    <3> QED BY <3>1 DEF F
  <2>4. \A i \in 0 .. n : (IF i = 0 THEN 0 ELSE F[i][g[i - 1]])
                            = (IF i = 0 THEN 0 ELSE g[i - 1] * b + s[i])
    BY <1>1, <2>3
  <2>5. Eq(g)
    BY <2>2, <2>4 DEF Chained
  <2> QED BY <2>5
<1>4. Eq(upto)
  BY <1>3
<1> HIDE DEF upto
<1>5. upto[0] = 0 /\ \A i \in 1 .. n : upto[i] = upto[i - 1] * b + s[i]
  BY <1>1, <1>4
<1>6. \A i \in 0 .. n : upto[i] \in V[i]
  <2>1. upto[0] \in V[0]
    BY <1>1, <1>5
  <2>2. ASSUME NEW i \in 1 .. n, upto[i - 1] \in V[i - 1] PROVE upto[i] \in V[i]
    <3>1. upto[i - 1] \in Nat /\ V[i] = Nat
      BY <1>1, <2>2
    <3>2. upto[i] = upto[i - 1] * b + s[i]
      BY <1>5
    <3> QED BY <1>2, <3>1, <3>2
  <2> HIDE DEF V
  <2> QED BY <1>1, <2>1, <2>2, ChainHolds
<1> QED BY <1>1, <1>5, <1>6 DEF n

LEMMA DenotedNone ==
  ASSUME NEW b \in Nat
  PROVE  Denoted(<<>>, b) = 0
<1>1. <<>> \in Seq(Nat) /\ Len(<<>>) = 0
  OBVIOUS
<1>2. PICK g : g[0] = 0 /\ Denoted(<<>>, b) = g[Len(<<>>)]
  BY <1>1, DenotedUpto
<1> QED BY <1>1, <1>2

(* One more digit: what was there counts the base times. *)
LEMMA DenotedMore ==
  ASSUME NEW b \in Nat, NEW s \in Seq(Nat), NEW d \in Nat
  PROVE  /\ Denoted(s, b) \in Nat /\ Append(s, d) \in Seq(Nat)
         /\ Denoted(Append(s, d), b) = Denoted(s, b) * b + d
<1> DEFINE t == Append(s, d)
           n == Len(s)
<1>1. /\ t \in Seq(Nat) /\ Len(t) = n + 1 /\ n \in Nat /\ t[n + 1] = d
      /\ \A i \in 1 .. n : t[i] = s[i]
  OBVIOUS
<1> HIDE DEF t
<1>2. PICK g : /\ g[0] = 0 /\ Denoted(s, b) = g[n]
               /\ \A i \in 1 .. n : g[i] = g[i - 1] * b + s[i]
               /\ \A i \in 0 .. n : g[i] \in Nat
  BY DenotedUpto
<1>3. PICK h : /\ h[0] = 0 /\ Denoted(t, b) = h[Len(t)]
               /\ \A i \in 1 .. Len(t) : h[i] = h[i - 1] * b + t[i]
  <2>1. t \in Seq(Nat)
    BY <1>1
  <2>2. PICK h : /\ h[0] = 0 /\ Denoted(t, b) = h[Len(t)]
                 /\ \A i \in 1 .. Len(t) : h[i] = h[i - 1] * b + t[i]
                 /\ \A i \in 0 .. Len(t) : h[i] \in Nat
    BY <2>1, DenotedUpto
  <2> QED BY <2>2
<1> HIDE DEF n
<1> DEFINE V == [i \in 0 .. n |-> {g[i]}]
<1>4. \A i \in 0 .. n : h[i] \in V[i]
  <2>1. h[0] \in V[0]
    BY <1>1, <1>2, <1>3
  <2>2. ASSUME NEW i \in 1 .. n, h[i - 1] \in V[i - 1] PROVE h[i] \in V[i]
    <3>1. i - 1 \in 0 .. n /\ i \in 0 .. n /\ i \in 1 .. Len(t)
      BY <1>1
    <3>2. h[i - 1] = g[i - 1]
      BY <2>2, <3>1
    <3>3. h[i] = h[i - 1] * b + t[i] /\ g[i] = g[i - 1] * b + s[i] /\ t[i] = s[i]
      BY <1>1, <1>2, <1>3, <3>1
    <3>4. h[i] = g[i]
      BY <3>2, <3>3
    <3> QED BY <3>1, <3>4
  <2> HIDE DEF V
  <2> QED BY <1>1, <2>1, <2>2, ChainHolds
<1>5. h[n] = g[n] /\ g[n] \in Nat
  BY <1>1, <1>2, <1>4
<1>6. h[n + 1] = h[n] * b + d
  <2>1. n + 1 \in 1 .. Len(t) /\ (n + 1) - 1 = n
    BY <1>1
  <2>2. h[n + 1] = h[(n + 1) - 1] * b + t[n + 1]
    BY <1>3, <2>1
  <2> QED BY <1>1, <2>1, <2>2
<1>7. Denoted(t, b) = h[n + 1]
  BY <1>1, <1>3
<1> QED BY <1>1, <1>2, <1>5, <1>6, <1>7 DEF t

LEMMA DivisionUnique ==
  ASSUME NEW d \in Nat, NEW p \in Nat, NEW q \in Nat, NEW r \in Nat, NEW s \in Nat,
         r < d, s < d, d * p + r = d * q + s
  PROVE  p = q
<1>1. ASSUME NEW x \in Nat, NEW y \in Nat, x < y PROVE d * x + d <= d * y
  <2>1. x + 1 \in Nat /\ x + 1 <= y
    BY <1>1
  <2>2. (x + 1) * d <= y * d
    BY <2>1, TimesMonotone
  <2> QED BY <2>2
<1>2. CASE p < q
  <2>1. d * p + d <= d * q
    BY <1>1, <1>2
  <2>2. d * p \in Nat /\ d * q \in Nat
    OBVIOUS
  <2> QED BY <2>1, <2>2
<1>3. CASE q < p
  <2>1. d * q + d <= d * p
    BY <1>1, <1>3
  <2>2. d * p \in Nat /\ d * q \in Nat
    OBVIOUS
  <2> QED BY <2>1, <2>2
<1> QED BY <1>2, <1>3

LEMMA FirstDigit ==
  ASSUME NEW s \in Seq(Nat), NEW d \in Nat, NEW b \in Nat, d < b,
         \A i \in DOMAIN s : s[i] < b
  PROVE  /\ \A i \in DOMAIN Append(s, d) : Append(s, d)[i] < b
         /\ Len(Append(s, d)) = Len(s) + 1 /\ Append(s, d) # <<>>
         /\ Append(s, d)[1] = IF s = <<>> THEN d ELSE s[1]
<1>1. \A i \in DOMAIN Append(s, d) : Append(s, d)[i] < b
  OBVIOUS
<1>2. Len(Append(s, d)) = Len(s) + 1 /\ Append(s, d) # <<>>
  OBVIOUS
<1>3. Append(s, d)[1] = IF s = <<>> THEN d ELSE s[1]
  OBVIOUS
<1> QED BY <1>1, <1>2, <1>3

LEMMA AppendTwo ==
  ASSUME NEW s \in Seq(Nat), NEW x \in Nat, NEW y \in Nat
  PROVE  s \o <<x, y>> = Append(Append(s, x), y)
OBVIOUS

(* What is known of a number whose places from p on are digits. *)
Partly(value, p) ==
  {a \in [chars : Seq(Nat), left : Nat] :
     /\ a.left < p /\ Denoted(a.chars, 10) * p + a.left = value
     /\ \A i \in DOMAIN a.chars : a.chars[i] < 10
     /\ a.chars # <<>> => a.chars[1] > 0}

LEMMA DigitFacts ==
  ASSUME NEW value \in Nat, NEW p \in Nat, p > 0, NEW a \in Partly(value, 10 * p)
  PROVE  Digit(a, p) \in Partly(value, p)
<1> DEFINE chars == a.chars
           left == a.left
           D == Denoted(chars, 10)
           q == left \div p
           r == left % p
<1>1. /\ chars \in Seq(Nat) /\ left \in Nat /\ left < 10 * p /\ D * (10 * p) + left = value
      /\ \A i \in DOMAIN chars : chars[i] < 10
      /\ chars # <<>> => chars[1] > 0
      /\ a \in [chars : Seq(Nat), left : Nat]
  BY DEF Partly
<1>2. q \in Nat /\ r \in Nat /\ r < p /\ left = p * q + r
  BY <1>1, DivisionFacts
<1>3. /\ D \in Nat /\ Append(chars, q) \in Seq(Nat)
      /\ Denoted(Append(chars, q), 10) = D * 10 + q
  BY <1>1, <1>2, DenotedMore, 10 \in Nat
<1>4. CASE chars = <<>> /\ p > left
  <2>1. Digit(a, p) = a
    BY <1>4 DEF Digit
  <2>2. D = 0
    BY <1>4, DenotedNone, 10 \in Nat
  <2>3. 0 * (10 * p) = 0 /\ 0 * p = 0
    OBVIOUS
  <2>4. D * p + left = value
    BY <1>1, <2>2, <2>3
  <2> QED BY <1>1, <1>4, <2>1, <2>4 DEF Partly
<1>5. CASE ~ (chars = <<>> /\ p > left)
  <2> DEFINE e == [chars |-> Append(chars, q), left |-> r]
  <2>1. Digit(a, p) = e
    BY <1>5 DEF Digit
  <2> HIDE DEF D, q, r
  <2>2. q < 10
    <3> SUFFICES ASSUME q >= 10 PROVE FALSE
      BY <1>2
    <3>1. 10 * p <= q * p
      BY <1>2, TimesMonotone, 10 \in Nat
    <3>2. q * p = p * q /\ p * q \in Nat
      BY <1>2
    <3> QED BY <1>1, <1>2, <3>1, <3>2
  <2>3. (D * 10 + q) * p + r = value
    <3>1. (D * 10 + q) * p = D * (10 * p) + p * q
      BY <1>2, <1>3
    <3>2. D * (10 * p) \in Nat /\ p * q \in Nat
      BY <1>2, <1>3
    <3> QED BY <1>1, <1>2, <3>1, <3>2
  <2>4. chars = <<>> => q > 0
    <3> SUFFICES ASSUME chars = <<>>, q = 0 PROVE FALSE
      BY <1>2
    <3>1. p * 0 = 0
      OBVIOUS
    <3> QED BY <1>1, <1>2, <1>5, <3>1
  <2>5. /\ \A i \in DOMAIN Append(chars, q) : Append(chars, q)[i] < 10
        /\ Append(chars, q)[1] = IF chars = <<>> THEN q ELSE chars[1]
    BY <1>1, <1>2, <2>2, FirstDigit, 10 \in Nat
  <2>6. e \in [chars : Seq(Nat), left : Nat] /\ e.chars = Append(chars, q) /\ e.left = r
    BY <1>2, <1>3
  <2> HIDE DEF e
  <2>7. e.chars[1] > 0
    BY <1>1, <2>4, <2>5, <2>6
  <2>8. Denoted(e.chars, 10) * p + e.left = value
    BY <1>3, <2>3, <2>6
  <2>9. \A i \in DOMAIN e.chars : e.chars[i] < 10
    BY <2>5, <2>6
  <2>10. e \in Partly(value, p)
    BY <1>2, <2>6, <2>7, <2>8, <2>9 DEF Partly
  <2> QED BY <2>1, <2>10
<1> QED BY <1>4, <1>5

LEMMA ZeroRead ==
  ASSUME NEW b \in Nat
  PROVE  <<0>> \in Seq(Nat) /\ Denoted(<<0>>, b) = 0
<1>1. <<>> \in Seq(Nat) /\ 0 \in Nat
  OBVIOUS
<1>2. Append(<<>>, 0) \in Seq(Nat) /\ Denoted(Append(<<>>, 0), b) = Denoted(<<>>, b) * b + 0
  BY <1>1, DenotedMore
<1>3. Append(<<>>, 0) = <<0>>
  OBVIOUS
<1>4. 0 * b + 0 = 0
  OBVIOUS
<1> QED BY <1>2, <1>3, <1>4, DenotedNone

LEMMA DecimalFacts ==
  ASSUME NEW value \in Nat, value < Tens[Places]
  PROVE  /\ Decimal(value) \in Seq(Nat) /\ Denoted(Decimal(value), 10) = value
         /\ \A i \in DOMAIN Decimal(value) : Decimal(value)[i] < 10
         /\ Decimal(value) = <<0>> \/ Decimal(value)[1] > 0
<1> DEFINE start == [chars |-> <<>>, left |-> value]
           V == [i \in 0 .. Places |-> Partly(value, Tens[Places - i])]
           F == [i \in 1 .. Places |-> [a \in V[i - 1] |-> Digit(a, Tens[Places - i])]]
           Eq(g) == g = [i \in 0 .. Places |->
                           IF i = 0 THEN start ELSE Digit(g[i - 1], Tens[Places - i])]
           after == CHOOSE g : Eq(g)
<1>1. Decimal(value) = IF value = 0 THEN <<0>> ELSE after[Places].chars
  BY ONLY DEF Decimal
<1>2. Places \in Nat /\ Places - 0 = Places /\ Places - Places = 0
  BY ScreenAssumption
<1>3. start \in V[0]
  <2>1. Denoted(<<>>, 10) = 0
    BY DenotedNone, 10 \in Nat
  <2>2. Tens[Places] \in Nat
    BY <1>2, TensFacts
  <2>3. 0 * Tens[Places] = 0
    BY <2>2
  <2>4. start \in Partly(value, Tens[Places])
    BY <2>1, <2>3 DEF Partly
  <2> QED BY <1>2, <2>4
<1>4. ASSUME NEW i \in 1 .. Places, NEW a \in V[i - 1]
      PROVE  Digit(a, Tens[Places - i]) \in V[i]
  <2> DEFINE k == Places - i
  <2>1. /\ k \in 0 .. Places /\ k + 1 \in 1 .. Places /\ (k + 1) - 1 = k /\ Places - (i - 1) = k + 1
        /\ i \in 0 .. Places /\ i - 1 \in 0 .. Places
    BY <1>2
  <2>2. V[i] = Partly(value, Tens[k]) /\ V[i - 1] = Partly(value, Tens[k + 1])
    BY <2>1
  <2> HIDE DEF k, V
  <2>3. Tens[k + 1] = 10 * Tens[k] /\ Tens[k] \in Nat /\ Tens[k] > 0
    BY <2>1, TensFacts
  <2>4. Digit(a, Tens[k]) \in Partly(value, Tens[k])
    BY <2>2, <2>3, DigitFacts
  <2> QED BY <2>2, <2>4 DEF k
<1>5. \E g : Eq(g)
  <2> HIDE DEF V, start
  <2>1. ASSUME NEW i \in 1 .. Places, NEW v \in V[i - 1] PROVE F[i][v] \in V[i]
    <3>1. F[i][v] = Digit(v, Tens[Places - i])
      BY Zenon
    <3> QED BY <1>4, <3>1
  <2> HIDE DEF F
  <2>2. PICK g : Chained(g, Places, start, V, F)
    <3>1. Chainable(Places, start, V, F)
      BY <1>2, <1>3, <2>1 DEF Chainable
    <3> QED BY <3>1, Chains
  <2>3. ASSUME NEW i \in 1 .. Places PROVE F[i][g[i - 1]] = Digit(g[i - 1], Tens[Places - i])
    <3>1. g[i - 1] \in V[i - 1]
      BY <1>2, <2>2 DEF Chained
    <3> QED BY <3>1 DEF F
  <2>4. \A i \in 0 .. Places :
          (IF i = 0 THEN start ELSE F[i][g[i - 1]])
            = (IF i = 0 THEN start ELSE Digit(g[i - 1], Tens[Places - i]))
    BY <1>2, <2>3
  <2>5. Eq(g)
    BY <2>2, <2>4 DEF Chained
  <2> QED BY <2>5
<1>6. Eq(after)
  BY <1>5
<1> HIDE DEF after, start
<1>7. after[Places] \in Partly(value, 1)
  <2>1. after[0] = start
        /\ \A i \in 1 .. Places : after[i] = Digit(after[i - 1], Tens[Places - i])
    BY <1>2, <1>6
  <2>2. V[Places] = Partly(value, Tens[0]) /\ Places \in 0 .. Places
    BY <1>2
  <2> HIDE DEF V
  <2>3. \A i \in 1 .. Places : after[i - 1] \in V[i - 1] => after[i] \in V[i]
    BY <1>4, <2>1
  <2>4. \A i \in 0 .. Places : after[i] \in V[i]
    BY <1>2, <1>3, <2>1, <2>3, ChainHolds
  <2> QED BY <2>2, <2>4, TensFacts
<1> DEFINE s == after[Places].chars
<1>8. /\ s \in Seq(Nat) /\ \A i \in DOMAIN s : s[i] < 10
      /\ s # <<>> => s[1] > 0
      /\ Denoted(s, 10) * 1 + after[Places].left = value
      /\ after[Places].left \in Nat /\ after[Places].left < 1
  BY <1>7 DEF Partly
<1> HIDE DEF s
<1>9. Denoted(s, 10) = value
  <2>1. Denoted(s, 10) \in Nat
    BY <1>8, DenotedMore, 10 \in Nat, 0 \in Nat
  <2> QED BY <1>8, <2>1
<1>10. CASE value = 0
  <2>1. Decimal(value) = <<0>>
    BY <1>1, <1>10
  <2>2. \A i \in DOMAIN <<0>> : <<0>>[i] < 10
    OBVIOUS
  <2>3. <<0>> \in Seq(Nat) /\ Denoted(<<0>>, 10) = 0
    BY ZeroRead, 10 \in Nat
  <2> QED BY <1>10, <2>1, <2>2, <2>3
<1>11. CASE value # 0
  <2>1. Decimal(value) = s
    BY <1>1, <1>11 DEF s
  <2>2. s # <<>>
    BY <1>9, <1>11, DenotedNone, 10 \in Nat
  <2> QED BY <1>8, <1>9, <2>1, <2>2
<1> QED BY <1>10, <1>11

(* What is known of a number whose bytes from the i-th on are digits.          *)
Bytewise(value, w, i, zeros) ==
  {a \in [chars : Seq(Nat), zeros : BOOLEAN] :
     /\ \A j \in DOMAIN a.chars : a.chars[j] < 16
     /\ \E r \in Nat : r < w /\ w * Denoted(a.chars, 16) + r = value
     /\ zeros => a.zeros /\ Len(a.chars) = 2 * i
     /\ ~ zeros => IF a.zeros THEN a.chars # <<>> /\ a.chars[1] > 0 ELSE a.chars = <<>>}

LEMMA HexByteFacts ==
  ASSUME NEW value \in Nat, NEW w \in Nat, w > 0, NEW i \in Nat, NEW zeros \in BOOLEAN,
         NEW a \in Bytewise(value, 256 * w, i, zeros)
  PROVE  HexByte(a, (value \div w) % 256) \in Bytewise(value, w, i + 1, zeros)
<1> DEFINE chars == a.chars
           D == Denoted(chars, 16)
           v == value \div w
           t == value % w
           u == v \div 256
           byte == v % 256
           high == byte \div 16
           low == byte % 16
<1>1. /\ a \in [chars : Seq(Nat), zeros : BOOLEAN] /\ chars \in Seq(Nat) /\ a.zeros \in BOOLEAN
      /\ \A j \in DOMAIN chars : chars[j] < 16
      /\ zeros => a.zeros /\ Len(chars) = 2 * i
      /\ ~ zeros => IF a.zeros THEN chars # <<>> /\ chars[1] > 0 ELSE chars = <<>>
  BY DEF Bytewise
<1>2. PICK r \in Nat : r < 256 * w /\ (256 * w) * D + r = value
  BY DEF Bytewise
<1>3. v \in Nat /\ t \in Nat /\ t < w /\ value = w * v + t
  BY DivisionFacts
<1> HIDE DEF v, t
<1>4. u \in Nat /\ byte \in Nat /\ byte < 256 /\ v = 256 * u + byte
  BY <1>3, DivisionFacts, 256 \in Nat, 256 > 0
<1> HIDE DEF u, byte
<1>5. high \in Nat /\ high < 16 /\ low \in Nat /\ low < 16 /\ byte = 16 * high + low
  BY <1>4, DivisionFacts
<1> HIDE DEF high, low
<1>6. D \in Nat /\ w * byte \in Nat /\ 256 * w \in Nat
  <2>1. D \in Nat
    BY <1>1, DenotedMore, 16 \in Nat, 0 \in Nat
  <2>2. w * byte \in Nat /\ 256 * w \in Nat
    BY <1>4
  <2> QED BY <2>1, <2>2
<1> HIDE DEF D, chars
<1>7. D = u
  <2> DEFINE s == w * byte + t
  <2>1. s \in Nat /\ s < 256 * w
    <3>1. byte <= 255 /\ 255 \in Nat
      BY <1>4
    <3>2. byte * w <= 255 * w /\ byte * w \in Nat
      BY <1>4, <3>1, TimesMonotone
    <3>3. byte * w = w * byte
      BY <1>4
    <3> QED BY <1>3, <1>6, <3>2, <3>3
  <2>2. (256 * w) * u + s = value
    <3>1. w * (256 * u + byte) = (256 * w) * u + w * byte
      BY <1>4
    <3>2. (256 * w) * u \in Nat
      BY <1>4, <1>6
    <3> QED BY <1>3, <1>4, <1>6, <3>1, <3>2
  <2> HIDE DEF s
  <2> DEFINE d == 256 * w
  <2>3. d \in Nat /\ r < d /\ s < d /\ d * D + r = d * u + s
    BY <1>2, <1>6, <2>1, <2>2
  <2> HIDE DEF d
  <2> QED BY <1>4, <1>6, <2>1, <2>3, DivisionUnique
<1>8. w * (256 * D + byte) + t = value
  BY <1>3, <1>4, <1>7
<1>9. Denoted(<<>>, 16) = 0
  BY DenotedNone, 16 \in Nat
<1>10. CASE a.zeros \/ high > 0
  <2> DEFINE c == Append(Append(chars, high), low)
             e == [chars |-> c, zeros |-> TRUE]
  <2>1. HexByte(a, byte) = e
    <3>1. HexByte(a, byte) = [chars |-> chars \o <<high, low>>, zeros |-> TRUE]
      BY <1>10 DEF HexByte, high, low, chars
    <3> QED BY <1>1, <1>5, <3>1, AppendTwo
  <2>2. /\ c \in Seq(Nat) /\ Denoted(c, 16) = (D * 16 + high) * 16 + low
    <3>1. Append(chars, high) \in Seq(Nat) /\ Denoted(Append(chars, high), 16) = D * 16 + high
      BY <1>1, <1>5, DenotedMore, 16 \in Nat DEF D
    <3> DEFINE b == Append(chars, high)
    <3> HIDE DEF b
    <3>2. b \in Seq(Nat) /\ low \in Nat
      BY <1>5, <3>1 DEF b
    <3>3. Append(b, low) \in Seq(Nat) /\ Denoted(Append(b, low), 16) = Denoted(b, 16) * 16 + low
      BY <3>2, DenotedMore, 16 \in Nat
    <3> QED BY <3>1, <3>3 DEF b
  <2>3. Denoted(c, 16) = 256 * D + byte
    BY <1>5, <1>6, <2>2
  <2>4. /\ \A j \in DOMAIN c : c[j] < 16
        /\ Len(c) = Len(chars) + 2 /\ c # <<>>
        /\ c[1] = IF chars = <<>> THEN high ELSE chars[1]
    <3> DEFINE b == Append(chars, high)
    <3>1. /\ b \in Seq(Nat) /\ \A j \in DOMAIN b : b[j] < 16
          /\ Len(b) = Len(chars) + 1 /\ b # <<>>
          /\ b[1] = IF chars = <<>> THEN high ELSE chars[1]
      <4>1. /\ Append(chars, high) \in Seq(Nat) /\ Append(chars, high) # <<>>
            /\ \A j \in DOMAIN Append(chars, high) : Append(chars, high)[j] < 16
            /\ Len(Append(chars, high)) = Len(chars) + 1
            /\ Append(chars, high)[1] = IF chars = <<>> THEN high ELSE chars[1]
        <5>1. /\ chars \in Seq(Nat) /\ \A j \in DOMAIN chars : chars[j] < 16
              /\ high \in Nat /\ high < 16
          BY <1>1, <1>5
        <5>2. Append(chars, high) \in Seq(Nat)
          BY <5>1
        <5> QED BY <5>1, <5>2, FirstDigit, 16 \in Nat
      <4> QED BY <4>1
    <3> HIDE DEF b
    <3>2. /\ \A j \in DOMAIN Append(b, low) : Append(b, low)[j] < 16
          /\ Len(Append(b, low)) = Len(b) + 1 /\ Append(b, low) # <<>>
          /\ Append(b, low)[1] = b[1]
      BY <1>5, <3>1, FirstDigit, 16 \in Nat
    <3>3. Len(chars) \in Nat /\ c = Append(b, low)
      BY <1>1 DEF b
    <3>4. Len(c) = Len(chars) + 2
      <4> HIDE DEF c
      <4> QED BY <3>1, <3>2, <3>3
    <3> QED BY <3>1, <3>2, <3>3, <3>4
  <2>5. e \in [chars : Seq(Nat), zeros : BOOLEAN] /\ e.chars = c /\ e.zeros
    BY <2>2, TRUE \in BOOLEAN
  <2> HIDE DEF c, e
  <2>6. t < w /\ w * Denoted(e.chars, 16) + t = value
    BY <1>3, <1>8, <2>3, <2>5
  <2>7. zeros => e.zeros /\ Len(e.chars) = 2 * (i + 1)
    BY <1>1, <2>4, <2>5
  <2>8. ~ zeros => e.chars # <<>> /\ e.chars[1] > 0
    BY <1>1, <1>10, <2>4, <2>5
  <2>9. \A j \in DOMAIN e.chars : e.chars[j] < 16
    BY <2>4, <2>5
  <2>10. e \in Bytewise(value, w, i + 1, zeros)
    BY <1>3, <2>5, <2>6, <2>7, <2>8, <2>9 DEF Bytewise
  <2> QED BY <2>1, <2>10 DEF byte, v
<1>11. CASE ~ (a.zeros \/ high > 0) /\ low > 0
  <2> DEFINE c == Append(chars, low)
             e == [chars |-> c, zeros |-> TRUE]
  <2>1. HexByte(a, byte) = e
    BY <1>11 DEF HexByte, high, low, chars
  <2>2. ~ zeros /\ chars = <<>> /\ D = 0 /\ high = 0
    BY <1>1, <1>5, <1>9, <1>11 DEF D
  <2>3. c \in Seq(Nat) /\ Denoted(c, 16) = D * 16 + low
    BY <1>1, <1>5, DenotedMore, 16 \in Nat DEF D
  <2>4. Denoted(c, 16) = 256 * D + byte
    BY <1>5, <2>2, <2>3
  <2>5. (\A j \in DOMAIN c : c[j] < 16) /\ c # <<>> /\ c[1] = low
    BY <1>1, <1>5, <2>2, FirstDigit, 16 \in Nat
  <2>6. e \in [chars : Seq(Nat), zeros : BOOLEAN] /\ e.chars = c /\ e.zeros
    BY <2>3, TRUE \in BOOLEAN
  <2> HIDE DEF c, e
  <2>7. t < w /\ w * Denoted(e.chars, 16) + t = value
    BY <1>3, <1>8, <2>4, <2>6
  <2>8. e \in Bytewise(value, w, i + 1, zeros)
    BY <1>3, <1>11, <2>2, <2>5, <2>6, <2>7 DEF Bytewise
  <2> QED BY <2>1, <2>8 DEF byte, v
<1>12. CASE ~ (a.zeros \/ high > 0) /\ ~ (low > 0)
  <2>1. HexByte(a, byte) = a
    BY <1>12 DEF HexByte, high, low
  <2>2. ~ zeros /\ chars = <<>> /\ D = 0 /\ high = 0 /\ low = 0
    BY <1>1, <1>5, <1>9, <1>12 DEF D
  <2>3. byte = 0
    BY <1>5, <2>2
  <2>4. w * D + t = value
    BY <1>8, <2>2, <2>3
  <2>5. a \in Bytewise(value, w, i + 1, zeros)
    BY <1>1, <1>3, <1>12, <2>2, <2>4 DEF Bytewise, D, chars
  <2> QED BY <2>1, <2>5 DEF byte, v
<1> QED BY <1>10, <1>11, <1>12

LEMMA HexFacts ==
  ASSUME NEW value \in Nat, value < Weights[HexBytes], NEW zeros \in BOOLEAN
  PROVE  /\ Hex(value, zeros) \in Seq(Nat) /\ Denoted(Hex(value, zeros), 16) = value
         /\ \A j \in DOMAIN Hex(value, zeros) : Hex(value, zeros)[j] < 16
         /\ \/ Hex(value, zeros) = <<0>>
            \/ Hex(value, zeros)[1] > 0
            \/ Len(Hex(value, zeros)) = 2 * HexBytes
<1> DEFINE start == [chars |-> <<>>, zeros |-> zeros]
           Byte(i) == (value \div Weights[HexBytes - i]) % 256
           V == [i \in 0 .. HexBytes |-> Bytewise(value, Weights[HexBytes - i], i, zeros)]
           F == [i \in 1 .. HexBytes |-> [a \in V[i - 1] |-> HexByte(a, Byte(i))]]
           Eq(g) == g = [i \in 0 .. HexBytes |->
                           IF i = 0 THEN start ELSE HexByte(g[i - 1], Byte(i))]
           after == CHOOSE g : Eq(g)
           all == after[HexBytes]
<1>1. Hex(value, zeros) = IF all.zeros THEN all.chars ELSE Append(all.chars, 0)
  BY ONLY DEF Hex
<1>2. HexBytes \in Nat /\ HexBytes - 0 = HexBytes /\ HexBytes - HexBytes = 0
  BY ScreenAssumption
<1>3. start \in V[0]
  <2>1. Denoted(<<>>, 16) = 0
    BY DenotedNone, 16 \in Nat
  <2>2. Weights[HexBytes] \in Nat
    BY <1>2, WeightsFacts
  <2>3. Weights[HexBytes] * 0 = 0
    BY <2>2
  <2>4. /\ start \in [chars : Seq(Nat), zeros : BOOLEAN]
        /\ start.chars = <<>> /\ start.zeros = zeros
    OBVIOUS
  <2> HIDE DEF start
  <2>5. value < Weights[HexBytes] /\ Weights[HexBytes] * Denoted(start.chars, 16) + value = value
    BY <2>1, <2>3, <2>4
  <2>6. start \in Bytewise(value, Weights[HexBytes], 0, zeros)
    BY <2>4, <2>5 DEF Bytewise
  <2> QED BY <1>2, <2>6
<1>4. ASSUME NEW i \in 1 .. HexBytes, NEW a \in V[i - 1]
      PROVE  HexByte(a, Byte(i)) \in V[i]
  <2> DEFINE k == HexBytes - i
             m == i - 1
  <2>1. /\ k \in 0 .. HexBytes /\ k + 1 \in 1 .. HexBytes /\ (k + 1) - 1 = k
        /\ HexBytes - m = k + 1
        /\ i \in 0 .. HexBytes /\ m \in 0 .. HexBytes /\ m \in Nat /\ m + 1 = i
    BY <1>2
  <2>2. /\ V[i] = Bytewise(value, Weights[k], i, zeros)
        /\ V[m] = Bytewise(value, Weights[k + 1], m, zeros)
    BY <2>1
  <2>3. Byte(i) = (value \div Weights[k]) % 256 /\ a \in V[m]
    OBVIOUS
  <2> HIDE DEF k, V, m, Byte
  <2>4. Weights[k + 1] = 256 * Weights[k] /\ Weights[k] \in Nat /\ Weights[k] > 0
    BY <2>1, WeightsFacts
  <2>5. a \in Bytewise(value, 256 * Weights[k], m, zeros)
    BY <2>2, <2>3, <2>4
  <2>6. HexByte(a, (value \div Weights[k]) % 256) \in Bytewise(value, Weights[k], m + 1, zeros)
    BY <2>1, <2>4, <2>5, HexByteFacts
  <2> QED BY <2>1, <2>2, <2>3, <2>6
<1>5. \E g : Eq(g)
  <2> HIDE DEF V, start, Byte
  <2>1. ASSUME NEW i \in 1 .. HexBytes, NEW v \in V[i - 1] PROVE F[i][v] \in V[i]
    <3>1. F[i][v] = HexByte(v, Byte(i))
      BY Zenon
    <3> QED BY <1>4, <3>1
  <2> HIDE DEF F
  <2>2. PICK g : Chained(g, HexBytes, start, V, F)
    <3>1. Chainable(HexBytes, start, V, F)
      BY <1>2, <1>3, <2>1 DEF Chainable
    <3> QED BY <3>1, Chains
  <2>3. ASSUME NEW i \in 1 .. HexBytes PROVE F[i][g[i - 1]] = HexByte(g[i - 1], Byte(i))
    <3>1. g[i - 1] \in V[i - 1]
      BY <1>2, <2>2 DEF Chained
    <3> QED BY <3>1 DEF F
  <2>4. \A i \in 0 .. HexBytes :
          (IF i = 0 THEN start ELSE F[i][g[i - 1]])
            = (IF i = 0 THEN start ELSE HexByte(g[i - 1], Byte(i)))
    BY <1>2, <2>3
  <2>5. Eq(g)
    BY <2>2, <2>4 DEF Chained
  <2> QED BY <2>5
<1>6. Eq(after)
  BY <1>5
<1> HIDE DEF after, start, Byte
<1>7. all \in Bytewise(value, 1, HexBytes, zeros)
  <2>1. /\ after[0] = start
        /\ \A i \in 1 .. HexBytes : after[i] = HexByte(after[i - 1], Byte(i))
    BY <1>2, <1>6
  <2>2. V[HexBytes] = Bytewise(value, Weights[0], HexBytes, zeros) /\ HexBytes \in 0 .. HexBytes
    BY <1>2
  <2> HIDE DEF V
  <2>3. \A i \in 1 .. HexBytes : after[i - 1] \in V[i - 1] => after[i] \in V[i]
    BY <1>4, <2>1
  <2>4. \A i \in 0 .. HexBytes : after[i] \in V[i]
    BY <1>2, <1>3, <2>1, <2>3, ChainHolds
  <2> QED BY <2>2, <2>4, WeightsFacts
<1> HIDE DEF all
<1> DEFINE s == all.chars
<1>8. /\ s \in Seq(Nat) /\ \A j \in DOMAIN s : s[j] < 16
      /\ zeros => all.zeros /\ Len(s) = 2 * HexBytes
      /\ ~ zeros => IF all.zeros THEN s # <<>> /\ s[1] > 0 ELSE s = <<>>
  BY <1>7 DEF Bytewise
<1>9. PICK r \in Nat : r < 1 /\ 1 * Denoted(s, 16) + r = value
  BY <1>7 DEF Bytewise
<1> HIDE DEF s
<1>10. Denoted(s, 16) = value
  <2>1. Denoted(s, 16) \in Nat
    BY <1>8, DenotedMore, 16 \in Nat, 0 \in Nat
  <2> QED BY <1>9, <2>1
<1>11. CASE all.zeros
  <2>1. Hex(value, zeros) = s
    BY <1>1, <1>11 DEF s
  <2> QED BY <1>8, <1>10, <1>11, <2>1
<1>12. CASE ~ all.zeros
  <2>1. s = <<>> /\ Append(s, 0) = <<0>>
    <3>1. s = <<>>
      BY <1>8, <1>12
    <3>2. Append(<<>>, 0) = <<0>>
      OBVIOUS
    <3> QED BY <3>1, <3>2
  <2>2. Hex(value, zeros) = <<0>>
    BY <1>1, <1>12, <2>1 DEF s
  <2>3. value = 0
    BY <1>10, <2>1, DenotedNone, 16 \in Nat
  <2>4. <<0>> \in Seq(Nat) /\ Denoted(<<0>>, 16) = 0
    BY ZeroRead, 16 \in Nat
  <2>5. \A j \in DOMAIN <<0>> : <<0>>[j] < 16
    OBVIOUS
  <2> QED BY <2>2, <2>3, <2>4, <2>5
<1> QED BY <1>11, <1>12

LEMMA CharsShown ==
  ASSUME NEW value \in Figures, NEW base \in {10, 16}, NEW zeros \in BOOLEAN,
         NEW chars, chars = IF base = 10 THEN Decimal(value) ELSE Hex(value, zeros)
  PROVE  /\ chars \in Seq(Nat) /\ Denoted(chars, base) = value
         /\ \A j \in DOMAIN chars : chars[j] < base
         /\ \/ chars = <<0>>
            \/ chars[1] > 0
            \/ base = 16 /\ Len(chars) = 2 * HexBytes
<1>1. value \in Nat /\ value < Tens[Places] /\ value < Weights[HexBytes]
  BY FiguresAssumption
<1>2. CASE base = 10
  BY <1>1, <1>2, DecimalFacts
<1>3. CASE base = 16
  <2>1. chars = Hex(value, zeros)
    BY <1>3
  <2> QED BY <1>1, <1>3, <2>1, HexFacts
<1> QED BY <1>2, <1>3

LEMMA NumberStarts == number = NoNumber => NumbersRead
<1> SUFFICES ASSUME number = NoNumber PROVE NumbersRead
  OBVIOUS
<1>1. number.value = 0 /\ number.base = 10 /\ number.chars = <<0>>
  BY DEF NoNumber
<1>2. Denoted(<<0>>, 10) = 0
  BY ZeroRead, 10 \in Nat
<1>3. \A i \in DOMAIN <<0>> : <<0>>[i] < 10
  OBVIOUS
<1> QED BY <1>1, <1>2, <1>3 DEF NumbersRead

LEMMA NumberStep ==
  ASSUME NumbersRead, [TerminalNext]_terminalVars
  PROVE  NumbersRead'
<1>1. CASE number' = NoNumber
  <2>1. number'.value = 0 /\ number'.base = 10 /\ number'.chars = <<0>>
    BY <1>1 DEF NoNumber
  <2>2. Denoted(<<0>>, 10) = 0
    BY ZeroRead, 10 \in Nat
  <2>3. \A i \in DOMAIN <<0>> : <<0>>[i] < 10
    OBVIOUS
  <2> QED BY <2>1, <2>2, <2>3 DEF NumbersRead
<1>2. CASE UNCHANGED number
  BY <1>2 DEF NumbersRead, Denoted
<1>3. CASE \E value \in Figures, base \in {10, 16}, zeros \in BOOLEAN : PrintNumber(value, base, zeros)
  <2>1. PICK value \in Figures, base \in {10, 16}, zeros \in BOOLEAN : PrintNumber(value, base, zeros)
    BY <1>3
  <2> DEFINE chars == IF base = 10 THEN Decimal(value) ELSE Hex(value, zeros)
  <2>2. number' = [value |-> value, base |-> base, chars |-> chars]
    BY <2>1 DEF PrintNumber
  <2>3. /\ Denoted(chars, base) = value
        /\ \A j \in DOMAIN chars : chars[j] < base
        /\ \/ chars = <<0>>
           \/ chars[1] > 0
           \/ base = 16 /\ Len(chars) = 2 * HexBytes
    BY CharsShown
  <2> HIDE DEF chars
  <2>4. number'.value = value /\ number'.base = base /\ number'.chars = chars
    BY <2>2
  <2> QED BY <2>3, <2>4 DEF NumbersRead
<1>4. TerminalNext => \/ number' = NoNumber \/ UNCHANGED number
                      \/ \E value \in Figures, base \in {10, 16}, zeros \in BOOLEAN :
                           PrintNumber(value, base, zeros)
  <2> DEFINE Numbered == \E value \in Figures, base \in {10, 16}, zeros \in BOOLEAN :
                           PrintNumber(value, base, zeros)
  <2> SUFFICES ASSUME TerminalNext PROVE number' = NoNumber \/ UNCHANGED number \/ Numbered
    OBVIOUS
  <2>1. CASE \E text \in Texts : Prints(text)
    BY <2>1 DEF Prints
  <2>2. ASSUME NEW value \in Figures,
               \/ PrintNumber(value, 10, FALSE)
               \/ \E zeros \in BOOLEAN : PrintNumber(value, 16, zeros)
        PROVE  Numbered
    BY <2>2, FALSE \in BOOLEAN
  <2>3. CASE \E new \in {"console", "graphics"} : SetMode(new)
    BY <2>3 DEF SetMode
  <2>4. ASSUME NEW p \in Spots, DrawPixel(p[1], p[2]) PROVE number' = NoNumber
    BY <2>4 DEF DrawPixel, Draw
  <2>5. ASSUME NEW p \in Spots, DrawTextBreaks(p[1], p[2]) PROVE UNCHANGED number
    BY <2>5 DEF DrawTextBreaks
  <2>6. ASSUME NEW p \in Spots, NEW count \in 1 .. 3, DrawText(count, p[1], p[2])
        PROVE  number' = NoNumber
    BY <2>6 DEF DrawText, Draw
  <2>7. ASSUME NEW box, DrawBox(box) PROVE number' = NoNumber
    BY <2>7 DEF DrawBox, Draw
  <2>8. ASSUME NEW box, NEW count \in 1 .. 3, NEW transparent \in BOOLEAN,
               DrawTextBox(count, box, transparent)
        PROVE  number' = NoNumber
    BY <2>8 DEF DrawTextBox, Draw
  <2> HIDE DEF Numbered
  <2> QED BY <2>1, <2>2, <2>3, <2>4, <2>5, <2>6, <2>7, <2>8 DEF TerminalNext
<1> QED BY <1>1, <1>2, <1>3, <1>4 DEF terminalVars

LEMMA TerminalStarts == TerminalInit => TerminalKept
<1> SUFFICES ASSUME TerminalInit PROVE TerminalKept
  OBVIOUS
<1>1. Border \in Nat /\ CursorInside(Border, Border)
  BY ScreenSizes DEF CursorInside
<1>2. /\ mode = "console" /\ cursor = <<Border, Border>> /\ screen = {} /\ reprinted = FALSE
      /\ cursor[1] = Border /\ cursor[2] = Border
  BY DEF TerminalInit, Home
<1> QED BY <1>1, <1>2, FALSE \in BOOLEAN DEF TerminalKept, TerminalTypes, ScreenHolds

LEMMA PrintNumberKeeps ==
  ASSUME TerminalKept, NEW value \in Figures, NEW base \in {10, 16}, NEW zeros \in BOOLEAN,
         PrintNumber(value, base, zeros)
  PROVE  TerminalKept'
<1> DEFINE chars == IF base = 10 THEN Decimal(value) ELSE Hex(value, zeros)
           n == IF base = 10 THEN Len(chars) ELSE 2 + Len(chars)
<1>1. mode = "console" /\ Show(Letters(n)) /\ UNCHANGED mode
  BY DEF PrintNumber
<1>2. chars \in Seq(Nat)
  BY CharsShown
<1> HIDE DEF chars
<1>3. n \in Nat
  BY <1>2
<1> HIDE DEF n
<1>4. Letters(n) \in Seq(Classes)
  <2>1. \A i \in 1 .. n : "char" \in Classes
    BY DEF Classes
  <2> QED BY <1>3, <2>1 DEF Letters
<1> QED BY <1>1, <1>4, ShowKeeps

LEMMA TerminalStepKeeps ==
  ASSUME TerminalKept, [TerminalNext]_terminalVars
  PROVE  TerminalKept'
<1>1. ASSUME NEW text \in Texts, Prints(text) PROVE TerminalKept'
  <2>1. text \in Seq(Classes) /\ mode = "console" /\ Show(text) /\ UNCHANGED mode
    BY <1>1, ScreenAssumption DEF Prints
  <2> QED BY <2>1, ShowKeeps
<1>2. ASSUME NEW value \in Figures,
             \/ PrintNumber(value, 10, FALSE)
             \/ \E zeros \in BOOLEAN : PrintNumber(value, 16, zeros)
      PROVE  TerminalKept'
  <2>1. PICK base \in {10, 16}, zeros \in BOOLEAN : PrintNumber(value, base, zeros)
    BY <1>2, FALSE \in BOOLEAN
  <2> QED BY <2>1, PrintNumberKeeps
<1>3. ASSUME NEW new \in {"console", "graphics"}, SetMode(new) PROVE TerminalKept'
  BY <1>3, SetModeKeeps
<1>4. \A p \in Spots : p[1] \in Nat /\ p[2] \in Nat
  BY ScreenAssumption
<1>5. ASSUME NEW p \in Spots, DrawPixel(p[1], p[2]) PROVE TerminalKept'
  BY <1>4, <1>5, DrawPixelKeeps
<1>6. CASE UNCHANGED <<mode, cursor, screen, reprinted>>
  BY <1>6 DEF TerminalKept, TerminalTypes, ScreenHolds
<1>7. ASSUME NEW p \in Spots, DrawTextBreaks(p[1], p[2]) PROVE TerminalKept'
  BY <1>6, <1>7 DEF DrawTextBreaks
<1>8. ASSUME NEW p \in Spots, NEW count \in 1 .. 3, DrawText(count, p[1], p[2])
      PROVE  TerminalKept'
  BY <1>4, <1>8, DrawTextKeeps
<1>9. ASSUME NEW p \in Spots, NEW s \in Extents PROVE Rect(p[1], p[2], s[1], s[2]) \in Rects
  <2>1. p[1] \in Nat /\ p[2] \in Nat /\ s[1] \in Nat /\ s[2] \in Nat
    BY ScreenAssumption
  <2> QED BY <2>1 DEF Rect, Rects
<1>10. ASSUME NEW p \in Spots, NEW s \in Extents, DrawBox(Rect(p[1], p[2], s[1], s[2]))
       PROVE  TerminalKept'
  BY <1>9, <1>10, DrawBoxKeeps
<1>11. ASSUME NEW p \in Spots, NEW s \in Extents,
              NEW count \in 1 .. 3, NEW transparent \in BOOLEAN,
              DrawTextBox(count, Rect(p[1], p[2], s[1], s[2]), transparent)
       PROVE  TerminalKept'
  BY <1>9, <1>11, DrawTextBoxKeeps
<1>12. CASE TerminalNext
  BY <1>1, <1>2, <1>3, <1>5, <1>7, <1>8, <1>10, <1>11, <1>12 DEF TerminalNext
<1>13. CASE UNCHANGED terminalVars
  BY <1>6, <1>13 DEF terminalVars
<1> QED BY <1>12, <1>13

(* The screen of the basic terminal is kept in every mode and size: the cursor *)
(* stays where a line of characters still fits, and every character of the     *)
(* console stands before it in the order of reading, so that the next one can   *)
(* be printed over none (basic_terminal.c, axk_basicterminal_prints, _print_word). *)
THEOREM TerminalInvariant == TerminalSpec => []TerminalKept
<1>1. TerminalKept /\ [TerminalNext]_terminalVars => TerminalKept'
  BY TerminalStepKeeps
<1> QED BY <1>1, TerminalStarts, PTL DEF TerminalSpec

(* Whatever is printed and drawn, in any order, on a frame buffer of any size:  *)
(* all of it is inside the screen and inside its own area or box, no character  *)
(* of the console covers another, and a change of mode leaves nothing behind    *)
(* but single pixels (basic_terminal.c, the draw and print functions).         *)
THEOREM ScreenStaysWhole == TerminalSpec => []ScreenHolds
<1>1. TerminalKept => ScreenHolds
  BY DEF TerminalKept
<1> QED BY <1>1, TerminalInvariant, PTL

(* Any number that is printed is read back from its digits, each of them below  *)
(* the base and the first one not zero unless the number is zero or all the     *)
(* zeros were asked for (basic_terminal.c, printu32 to printh64).              *)
THEOREM NumbersStayRead == TerminalSpec => []NumbersRead
<1>1. TerminalInit => NumbersRead
  BY NumberStarts DEF TerminalInit
<1>2. NumbersRead /\ [TerminalNext]_terminalVars => NumbersRead'
  BY NumberStep
<1> QED BY <1>1, <1>2, PTL DEF TerminalSpec
-----------------------------------------------------------------------------
(* Dates and times of the previous kernel. *)
LEMMA CalendarSizes ==
  /\ Day \in Nat /\ Day > 0 /\ Years[1] \in Nat /\ Years[2] \in Nat
  /\ 2000 <= Years[1] /\ Years[1] <= Years[2] /\ Years[2] - 2000 \in Nat
BY CalendarAssumption

LEMMA Latest ==
  ASSUME NEW S, S \subseteq Nat, S # {}, NEW b \in Nat, \A n \in S : n <= b
  PROVE  Max(S) \in S /\ \A n \in S : n <= Max(S)
<1>1. PICK x \in S : \A n \in S : n <= x
  BY NatGreatest
<1>2. \A n \in S : x >= n
  BY <1>1
<1> QED BY <1>1, <1>2 DEF Max

LEMMA DaysBeforeFacts ==
  ASSUME NEW y \in Nat, NEW m \in 1 .. 13
  PROVE  DaysBefore(y, m) \in Nat /\ (m = 1 => DaysBefore(y, m) = 0)
<1> DEFINE c == m - 1
           V == [n \in 0 .. c |-> IF n = 0 THEN {0} ELSE Nat]
           F == [n \in 1 .. c |-> [v \in V[n - 1] |-> v + DaysIn(y, n)]]
           Eq(g) == g = [n \in 0 .. c |-> IF n = 0 THEN 0 ELSE g[n - 1] + DaysIn(y, n)]
           upto == CHOOSE g : Eq(g)
<1>1. c \in Nat /\ DaysBefore(y, m) = upto[c]
  BY DEF DaysBefore
<1>2. \A n \in 1 .. c : DaysIn(y, n) \in Nat
  BY DEF DaysIn
<1>3. m = 1 <=> c = 0
  OBVIOUS
<1> HIDE DEF c
<1>4. \E g : Eq(g)
  <2>1. ASSUME NEW n \in 1 .. c, NEW v \in V[n - 1] PROVE F[n][v] \in V[n]
    <3>1. v \in Nat /\ V[n] = Nat
      BY <1>1
    <3>2. v + DaysIn(y, n) \in Nat
      BY <1>2, <3>1
    <3> HIDE DEF V
    <3>3. F[n][v] = v + DaysIn(y, n)
      BY Zenon
    <3> QED BY <3>1, <3>2, <3>3
  <2>2. 0 \in V[0]
    BY <1>1
  <2> HIDE DEF V, F
  <2>3. PICK g : Chained(g, c, 0, V, F)
    <3>1. Chainable(c, 0, V, F)
      BY <1>1, <2>1, <2>2 DEF Chainable
    <3> QED BY <3>1, Chains
  <2>4. ASSUME NEW n \in 1 .. c PROVE F[n][g[n - 1]] = g[n - 1] + DaysIn(y, n)
    <3>1. g[n - 1] \in V[n - 1]
      BY <1>1, <2>3 DEF Chained
    <3> QED BY <3>1 DEF F
  <2>5. \A n \in 0 .. c : (IF n = 0 THEN 0 ELSE F[n][g[n - 1]])
                            = (IF n = 0 THEN 0 ELSE g[n - 1] + DaysIn(y, n))
    BY <1>1, <2>4
  <2>6. Eq(g)
    BY <2>3, <2>5 DEF Chained
  <2> QED BY <2>6
<1>5. Eq(upto)
  BY <1>4
<1> HIDE DEF upto
<1>6. upto[0] = 0 /\ \A n \in 1 .. c : upto[n] = upto[n - 1] + DaysIn(y, n)
  BY <1>1, <1>5
<1>7. \A n \in 0 .. c : upto[n] \in V[n]
  <2>1. upto[0] \in V[0]
    BY <1>1, <1>6
  <2>2. ASSUME NEW n \in 1 .. c, upto[n - 1] \in V[n - 1] PROVE upto[n] \in V[n]
    <3>1. upto[n - 1] \in Nat /\ V[n] = Nat
      BY <1>1, <2>2
    <3> QED BY <1>2, <1>6, <3>1
  <2> HIDE DEF V
  <2> QED BY <1>1, <2>1, <2>2, ChainHolds
<1> QED BY <1>1, <1>3, <1>7

(* A year begins after its days and the leap seconds before it. *)
YearAt(n) == (n * 365 + LeapDays(2000 + n)) * Day + LeapSeconds(2000 + n, 1)

LEMMA YearGrows ==
  ASSUME NEW n \in Nat
  PROVE  /\ YearAt(0) = 0 /\ YearAt(n) \in Nat
         /\ YearAt(n) + YearSeconds(2000 + n) = YearAt(n + 1)
<1> DEFINE k == n * 365 + LeapDays(2000 + n)
           e == IF IsLeap(2000 + n) THEN 366 ELSE 365
           s == LeapSeconds(2000 + n, 1)
           o == One((2000 + n) \in {2005, 2008, 2015, 2016})
<1>1. k \in Nat /\ e \in Nat /\ k + e = (n + 1) * 365 + LeapDays(2000 + (n + 1))
  BY DEF LeapDays, IsLeap
<1>2. s \in Nat /\ o \in Nat /\ s + o = LeapSeconds(2000 + (n + 1), 1)
  BY DEF LeapSeconds, One
<1>3. YearAt(n) = k * Day + s /\ YearSeconds(2000 + n) = e * Day + o
  BY DEF YearAt, YearSeconds
<1>4. YearAt(n + 1) = (k + e) * Day + (s + o)
  BY <1>1, <1>2 DEF YearAt
<1>5. YearAt(0) = 0
  <2>1. LeapDays(2000 + 0) = 0 /\ LeapSeconds(2000 + 0, 1) = 0
    BY DEF LeapDays, LeapSeconds, One
  <2> QED BY <2>1, CalendarSizes DEF YearAt
<1> HIDE DEF k, e, s, o
<1>6. k * Day \in Nat /\ e * Day \in Nat /\ (k + e) * Day = k * Day + e * Day
  BY <1>1, CalendarSizes
<1> QED BY <1>2, <1>3, <1>4, <1>5, <1>6

LEMMA YearFacts ==
  /\ YearBegins(2000) = 0
  /\ \A y \in 2000 .. Years[2] :
       /\ YearBegins(y) \in Nat
       /\ YearBegins(y) = ((y - 2000) * 365 + LeapDays(y)) * Day + LeapSeconds(y, 1)
<1> DEFINE c == Years[2] - 2000
           Seconds(n) == YearSeconds(2000 + (n - 1))
           V == [n \in 0 .. c |-> {YearAt(n)}]
           F == [n \in 1 .. c |-> [v \in V[n - 1] |-> v + Seconds(n)]]
           Eq(g) == g = [n \in 0 .. c |-> IF n = 0 THEN 0 ELSE g[n - 1] + Seconds(n)]
<1>1. c \in Nat
  BY CalendarSizes
<1>2. YearStarts = CHOOSE g : Eq(g)
  BY ONLY DEF YearStarts
<1>3. \A n \in 1 .. c : YearAt(n - 1) + Seconds(n) = YearAt(n)
  <2> SUFFICES ASSUME NEW n \in 1 .. c PROVE YearAt(n - 1) + Seconds(n) = YearAt(n)
    OBVIOUS
  <2> DEFINE k == n - 1
  <2>1. k \in Nat /\ n = k + 1
    BY <1>1
  <2> HIDE DEF k
  <2> QED BY <2>1, YearGrows DEF k
<1>4. YearAt(0) = 0
  BY YearGrows, 0 \in Nat
<1> HIDE DEF c, Seconds
<1>5. \E g : Eq(g)
  <2>1. ASSUME NEW n \in 1 .. c, NEW v \in V[n - 1] PROVE F[n][v] \in V[n]
    <3>1. v = YearAt(n - 1) /\ V[n] = {YearAt(n)}
      BY <1>1
    <3> HIDE DEF V
    <3>2. F[n][v] = v + Seconds(n)
      BY Zenon
    <3> QED BY <1>3, <3>1, <3>2
  <2>2. 0 \in V[0]
    BY <1>1, <1>4
  <2> HIDE DEF V, F
  <2>3. PICK g : Chained(g, c, 0, V, F)
    <3>1. Chainable(c, 0, V, F)
      BY <1>1, <2>1, <2>2 DEF Chainable
    <3> QED BY <3>1, Chains
  <2>4. ASSUME NEW n \in 1 .. c PROVE F[n][g[n - 1]] = g[n - 1] + Seconds(n)
    <3>1. g[n - 1] \in V[n - 1]
      BY <1>1, <2>3 DEF Chained
    <3> QED BY <3>1 DEF F
  <2>5. \A n \in 0 .. c : (IF n = 0 THEN 0 ELSE F[n][g[n - 1]])
                            = (IF n = 0 THEN 0 ELSE g[n - 1] + Seconds(n))
    BY <1>1, <2>4
  <2>6. Eq(g)
    BY <2>3, <2>5 DEF Chained
  <2> QED BY <2>6
<1>6. Eq(YearStarts)
  BY <1>2, <1>5
<1>7. \A n \in 0 .. c : YearStarts[n] \in V[n]
  <2>1. YearStarts[0] \in V[0]
    BY <1>1, <1>4, <1>6
  <2>2. ASSUME NEW n \in 1 .. c, YearStarts[n - 1] \in V[n - 1] PROVE YearStarts[n] \in V[n]
    <3>1. YearStarts[n - 1] = YearAt(n - 1) /\ V[n] = {YearAt(n)}
      BY <1>1, <2>2
    <3>2. YearStarts[n] = YearStarts[n - 1] + Seconds(n)
      BY <1>1, <1>6
    <3> QED BY <1>3, <3>1, <3>2
  <2> HIDE DEF V
  <2> QED BY <1>1, <2>1, <2>2, ChainHolds
<1>8. \A n \in 0 .. c : YearStarts[n] = YearAt(n)
  BY <1>7
<1>9. ASSUME NEW y \in 2000 .. Years[2]
      PROVE  /\ YearBegins(y) \in Nat
             /\ YearBegins(y) = ((y - 2000) * 365 + LeapDays(y)) * Day + LeapSeconds(y, 1)
  <2> DEFINE n == y - 2000
  <2>1. n \in 0 .. c /\ n \in Nat /\ 2000 + n = y
    BY CalendarSizes DEF c
  <2>2. YearBegins(y) = YearAt(n)
    BY <1>8, <2>1 DEF YearBegins
  <2>3. YearAt(n) \in Nat
    BY <2>1, YearGrows
  <2>4. YearAt(n) = (n * 365 + LeapDays(y)) * Day + LeapSeconds(y, 1)
    BY <2>1 DEF YearAt
  <2> QED BY <2>2, <2>3, <2>4
<1>10. YearBegins(2000) = 0
  <2>1. 2000 - 2000 = 0 /\ 0 \in 0 .. c
    BY <1>1
  <2> QED BY <1>4, <1>8, <2>1 DEF YearBegins
<1> QED BY <1>9, <1>10

(* Year, month and what is left, of a time. *)
YearOf(t) == Max({n \in 2000 .. Years[2] : YearBegins(n) <= t})
MonthOf(t) == Max({n \in 1 .. 13 : YearBegins(YearOf(t)) + MonthBegins(YearOf(t), n) <= t})
SecondOf(t) == t - YearBegins(YearOf(t)) - MonthBegins(YearOf(t), MonthOf(t))

LEMMA MonthBeginsFacts ==
  ASSUME NEW y \in Nat, NEW m \in 1 .. 13
  PROVE  MonthBegins(y, m) \in Nat /\ (m = 1 => MonthBegins(y, m) = 0)
<1> DEFINE d == DaysBefore(y, m)
           o == One(y \in {2012, 2015} /\ m > 6)
<1>1. d \in Nat /\ (m = 1 => d = 0)
  BY DaysBeforeFacts
<1>2. o \in Nat /\ (m = 1 => o = 0)
  BY DEF One
<1>3. MonthBegins(y, m) = d * Day + o
  BY DEF MonthBegins
<1> HIDE DEF d, o
<1>4. d * Day \in Nat /\ (d = 0 => d * Day = 0)
  BY <1>1, CalendarSizes
<1> QED BY <1>1, <1>2, <1>3, <1>4

LEMMA YearParts ==
  ASSUME NEW t \in Nat
  PROVE  /\ YearOf(t) \in 2000 .. Years[2] /\ YearOf(t) \in Nat
         /\ YearBegins(YearOf(t)) \in Nat /\ YearBegins(YearOf(t)) <= t
         /\ \A n \in 2000 .. Years[2] : YearBegins(n) <= t => n <= YearOf(t)
<1> DEFINE Ys == {n \in 2000 .. Years[2] : YearBegins(n) <= t}
           y == YearOf(t)
           horizon == Years[2]
<1>1. 2000 \in Ys /\ \A n \in Ys : n <= Years[2]
  BY CalendarSizes, YearFacts
<1>2. Ys \subseteq Nat /\ Ys # {} /\ horizon \in Nat /\ \A n \in Ys : n <= horizon
  BY <1>1, CalendarSizes
<1>3. y = Max(Ys)
  BY DEF YearOf
<1> HIDE DEF Ys, y, horizon
<1>4. Max(Ys) \in Ys /\ \A n \in Ys : n <= Max(Ys)
  BY <1>2, Latest
<1>5. y \in Ys /\ \A n \in Ys : n <= y
  BY <1>3, <1>4
<1>6. y \in 2000 .. Years[2] /\ YearBegins(y) <= t
  BY <1>5 DEF Ys
<1>7. \A n \in 2000 .. Years[2] : YearBegins(n) <= t => n <= y
  BY <1>5 DEF Ys
<1>8. y \in Nat /\ YearBegins(y) \in Nat
  BY <1>6, CalendarSizes, YearFacts
<1> QED BY <1>6, <1>7, <1>8 DEF y

(* A month that has begun is not after the one that is found. *)
Begun(t, n) == YearBegins(YearOf(t)) + MonthBegins(YearOf(t), n) <= t

LEMMA MonthParts ==
  ASSUME NEW t \in Nat
  PROVE  /\ MonthOf(t) \in 1 .. 13 /\ MonthBegins(YearOf(t), MonthOf(t)) \in Nat
         /\ Begun(t, MonthOf(t))
         /\ \A n \in 1 .. 13 : Begun(t, n) => n <= MonthOf(t)
<1> DEFINE Ms == {n \in 1 .. 13 : Begun(t, n)}
           y == YearOf(t)
           m == MonthOf(t)
<1>1. y \in Nat /\ YearBegins(y) \in Nat /\ YearBegins(y) <= t
  BY YearParts
<1>2. Begun(t, 1)
  <2>1. MonthBegins(y, 1) = 0
    BY <1>1, MonthBeginsFacts, 1 \in 1 .. 13
  <2> QED BY <1>1, <2>1 DEF Begun
<1>3. 1 \in Ms /\ Ms \subseteq Nat /\ Ms # {} /\ (\A n \in Ms : n <= 13) /\ 13 \in Nat
  BY <1>2
<1>4. m = Max(Ms)
  BY DEF MonthOf, Begun
<1> HIDE DEF Ms, m, y
<1>5. Max(Ms) \in Ms /\ \A n \in Ms : n <= Max(Ms)
  BY <1>3, Latest
<1>6. m \in 1 .. 13 /\ Begun(t, m)
  BY <1>4, <1>5 DEF Ms
<1>7. \A n \in 1 .. 13 : Begun(t, n) => n <= m
  BY <1>4, <1>5 DEF Ms
<1>8. MonthBegins(y, m) \in Nat
  BY <1>1, <1>6, MonthBeginsFacts
<1> QED BY <1>6, <1>7, <1>8 DEF m, y

LEMMA DateParts ==
  ASSUME NEW t \in Nat
  PROVE  /\ SecondOf(t) \in Nat
         /\ t = YearBegins(YearOf(t)) + MonthBegins(YearOf(t), MonthOf(t)) + SecondOf(t)
         /\ ToDate(t) = [year |-> YearOf(t), month |-> MonthOf(t),
                         day |-> SecondOf(t) \div Day + 1, second |-> SecondOf(t) % Day]
<1> DEFINE y == YearBegins(YearOf(t))
           m == MonthBegins(YearOf(t), MonthOf(t))
<1>1. y \in Nat
  BY YearParts
<1>2. m \in Nat /\ y + m <= t
  BY MonthParts DEF Begun
<1>3. SecondOf(t) = t - y - m
  BY DEF SecondOf
<1>4. ToDate(t) = [year |-> YearOf(t), month |-> MonthOf(t),
                   day |-> SecondOf(t) \div Day + 1, second |-> SecondOf(t) % Day]
  BY DEF SecondOf, ToDate, YearOf, MonthOf
<1> HIDE DEF y, m
<1>5. SecondOf(t) \in Nat /\ t = y + m + SecondOf(t)
  BY <1>1, <1>2, <1>3
<1> QED BY <1>4, <1>5 DEF y, m

LEMMA TimeOfDate ==
  ASSUME NEW t \in Nat, ~ Disagree(ToDate(t))
  PROVE  ToTime(ToDate(t)) = t
<1> DEFINE y == YearOf(t)
           m == MonthOf(t)
           s == SecondOf(t)
           days == DaysBefore(y, m)
           k == (y - 2000) * 365 + LeapDays(y)
           q == s \div Day
           r == s % Day
           d == ToDate(t)
<1>2. d.year = y /\ d.month = m /\ d.day = q + 1 /\ d.second = r
  BY DateParts
<1>0. /\ y \in 2000 .. Years[2] /\ m \in 1 .. 13 /\ s \in Nat
      /\ t = YearBegins(y) + MonthBegins(y, m) + s
  BY YearParts, MonthParts, DateParts
<1> HIDE DEF y, m, s
<1>1. /\ y \in Nat /\ 2000 <= y /\ m \in 1 .. 13 /\ s \in Nat
      /\ t = YearBegins(y) + MonthBegins(y, m) + s
      /\ YearBegins(y) = k * Day + LeapSeconds(y, 1)
  BY <1>0, CalendarSizes, YearFacts
<1> HIDE DEF d
<1>3. ToTime(d) = ((k + days) + ((q + 1) - 1)) * Day + r + LeapSeconds(y, m)
  <2> DEFINE Total(year, month, day, second) ==
               ((year - 2000) * 365 + LeapDays(year) + DaysBefore(year, month) + day - 1) * Day
               + second + LeapSeconds(year, month)
  <2>1. ToTime(d) = Total(d.year, d.month, d.day, d.second)
    BY DEF ToTime
  <2>2. Total(y, m, q + 1, r) = ((k + days) + ((q + 1) - 1)) * Day + r + LeapSeconds(y, m)
    OBVIOUS
  <2> HIDE DEF Total, q, r
  <2>3. ToTime(d) = Total(y, m, q + 1, r)
    BY <1>2, <2>1
  <2> QED BY <2>2, <2>3
<1>4. q \in Nat /\ r \in Nat /\ s = Day * q + r
  BY <1>1, CalendarSizes, DivisionFacts
<1>5. days \in Nat /\ MonthBegins(y, m) = days * Day + One(y \in {2012, 2015} /\ m > 6)
  <2>3. y \in Nat /\ m \in 1 .. 13
    BY <1>1
  <2>1. days \in Nat
    BY <2>3, DaysBeforeFacts
  <2>2. MonthBegins(y, m) = days * Day + One(y \in {2012, 2015} /\ m > 6)
    BY DEF MonthBegins
  <2> QED BY <2>1, <2>2
<1>6. k \in Nat
  BY <1>1 DEF LeapDays
<1>7. ~ (y \in {2008, 2012} /\ m > 6)
  BY <1>2 DEF Disagree, d
<1>8. /\ LeapSeconds(y, 1) \in Nat /\ One(y \in {2012, 2015} /\ m > 6) \in Nat
      /\ LeapSeconds(y, m) = LeapSeconds(y, 1) + One(y \in {2012, 2015} /\ m > 6)
  BY <1>1, <1>7 DEF LeapSeconds, One
<1> DEFINE a == LeapSeconds(y, 1)
           b == One(y \in {2012, 2015} /\ m > 6)
<1>9. /\ t = (k * Day + a) + (days * Day + b) + s
      /\ ToTime(d) = ((k + days) + ((q + 1) - 1)) * Day + r + (a + b)
      /\ a \in Nat /\ b \in Nat
  BY <1>1, <1>3, <1>5, <1>8
<1> HIDE DEF y, m, s, days, k, q, r, d, a, b
<1>10. ((k + days) + ((q + 1) - 1)) * Day = k * Day + days * Day + Day * q
  BY <1>4, <1>5, <1>6, CalendarSizes
<1>11. k * Day \in Nat /\ days * Day \in Nat /\ Day * q \in Nat
  BY <1>4, <1>5, <1>6, CalendarSizes
<1>12. ToTime(d) = t
  BY <1>4, <1>9, <1>10, <1>11
<1> QED BY <1>12 DEF d

LEMMA LaterMeans ==
  ASSUME NEW d, NEW e
  PROVE  Later(d, e) <=>
           \/ d.year > e.year
           \/ d.year = e.year /\ d.month > e.month
           \/ d.year = e.year /\ d.month = e.month /\ d.day > e.day
           \/ d.year = e.year /\ d.month = e.month /\ d.day = e.day /\ d.second > e.second
<1> DEFINE f == Fields(d)
           g == Fields(e)
<1>1. /\ f[1] = d.year /\ f[2] = d.month /\ f[3] = d.day /\ f[4] = d.second
      /\ g[1] = e.year /\ g[2] = e.month /\ g[3] = e.day /\ g[4] = e.second
  BY DEF Fields
<1> HIDE DEF f, g
<1>2. Later(d, e) <=> \E i \in 1 .. 4 : f[i] > g[i] /\ \A j \in 1 .. i - 1 : f[j] = g[j]
  BY DEF Later, f, g
<1>3. (\E i \in 1 .. 4 : f[i] > g[i] /\ \A j \in 1 .. i - 1 : f[j] = g[j]) <=>
        \/ f[1] > g[1]
        \/ f[1] = g[1] /\ f[2] > g[2]
        \/ f[1] = g[1] /\ f[2] = g[2] /\ f[3] > g[3]
        \/ f[1] = g[1] /\ f[2] = g[2] /\ f[3] = g[3] /\ f[4] > g[4]
  OBVIOUS
<1> QED BY <1>1, <1>2, <1>3

DateFields(d) == d.year \in Nat /\ d.month \in Nat /\ d.day \in Nat /\ d.second \in Nat

LEMMA LaterStrict ==
  ASSUME NEW d, NEW e, DateFields(d), DateFields(e), Later(d, e)
  PROVE  ~ Later(e, d)
BY LaterMeans DEF DateFields

LEMMA DateOf ==
  ASSUME NEW t \in Nat
  PROVE  DateFields(ToDate(t))
<1> DEFINE d == ToDate(t)
           p == SecondOf(t) \div Day
           q == SecondOf(t) % Day
<1>1. d.year = YearOf(t) /\ d.month = MonthOf(t) /\ d.day = p + 1 /\ d.second = q
  BY DateParts
<1>2. YearOf(t) \in Nat /\ MonthOf(t) \in 1 .. 13 /\ SecondOf(t) \in Nat
  BY YearParts, MonthParts, DateParts
<1>3. p \in Nat /\ q \in Nat
  BY <1>2, CalendarSizes, DivisionFacts
<1> HIDE DEF d, p, q
<1>4. DateFields(d)
  BY <1>1, <1>2, <1>3 DEF DateFields
<1> QED BY <1>4 DEF d

LEMMA DatesFollow ==
  ASSUME NEW t \in Nat, NEW u \in Nat, t < u
  PROVE  Later(ToDate(u), ToDate(t)) /\ ~ Later(ToDate(t), ToDate(u))
<1> DEFINE d == ToDate(t)
           e == ToDate(u)
<1>1. /\ d.year = YearOf(t) /\ d.month = MonthOf(t)
      /\ d.day = SecondOf(t) \div Day + 1 /\ d.second = SecondOf(t) % Day
      /\ e.year = YearOf(u) /\ e.month = MonthOf(u)
      /\ e.day = SecondOf(u) \div Day + 1 /\ e.second = SecondOf(u) % Day
  BY DateParts
<1>2. /\ YearOf(t) \in Nat /\ MonthOf(t) \in Nat /\ SecondOf(t) \in Nat
      /\ YearOf(u) \in Nat /\ MonthOf(u) \in Nat /\ SecondOf(u) \in Nat
  <2>1. ASSUME NEW v \in Nat PROVE YearOf(v) \in Nat /\ MonthOf(v) \in 1 .. 13 /\ SecondOf(v) \in Nat
    BY YearParts, MonthParts, DateParts
  <2>2. MonthOf(t) \in 1 .. 13 /\ MonthOf(u) \in 1 .. 13
    BY <2>1
  <2>3. MonthOf(t) \in Nat /\ MonthOf(u) \in Nat
    BY <2>2
  <2> QED BY <2>1, <2>3
<1> DEFINE p == SecondOf(t) \div Day
           q == SecondOf(u) \div Day
           a == SecondOf(t) % Day
           b == SecondOf(u) % Day
<1>3. /\ p \in Nat /\ a \in Nat /\ a < Day /\ SecondOf(t) = Day * p + a
      /\ q \in Nat /\ b \in Nat /\ b < Day /\ SecondOf(u) = Day * q + b
  BY <1>2, CalendarSizes, DivisionFacts
<1> HIDE DEF d, e, p, q, a, b
<1>4. DateFields(d) /\ DateFields(e)
  BY DateOf DEF d, e
<1>5. YearOf(t) <= YearOf(u)
  <2>1. /\ YearBegins(YearOf(t)) \in Nat /\ YearBegins(YearOf(t)) <= t
        /\ YearOf(t) \in 2000 .. Years[2]
    BY YearParts
  <2>2. YearBegins(YearOf(t)) <= u
    BY <2>1
  <2>3. \A n \in 2000 .. Years[2] : YearBegins(n) <= u => n <= YearOf(u)
    BY YearParts
  <2> QED BY <2>1, <2>2, <2>3
<1>6. YearOf(t) = YearOf(u) => MonthOf(t) <= MonthOf(u)
  <2> DEFINE y == YearBegins(YearOf(t))
             m == MonthBegins(YearOf(t), MonthOf(t))
  <2> SUFFICES ASSUME YearOf(t) = YearOf(u) PROVE MonthOf(t) <= MonthOf(u)
    OBVIOUS
  <2>1. y \in Nat /\ m \in Nat /\ MonthOf(t) \in 1 .. 13 /\ y + m <= t
    BY YearParts, MonthParts DEF Begun
  <2> HIDE DEF y, m
  <2>2. y + m <= u
    BY <2>1
  <2>3. Begun(u, MonthOf(t))
    BY <2>2 DEF Begun, y, m
  <2>4. \A n \in 1 .. 13 : Begun(u, n) => n <= MonthOf(u)
    BY MonthParts
  <2> QED BY <2>1, <2>3, <2>4
<1>7. YearOf(t) = YearOf(u) /\ MonthOf(t) = MonthOf(u) => SecondOf(t) < SecondOf(u)
  <2> DEFINE y == YearBegins(YearOf(t))
             m == MonthBegins(YearOf(t), MonthOf(t))
  <2> SUFFICES ASSUME YearOf(t) = YearOf(u), MonthOf(t) = MonthOf(u)
               PROVE  SecondOf(t) < SecondOf(u)
    OBVIOUS
  <2>1. y \in Nat /\ m \in Nat
    BY YearParts, MonthParts
  <2>2. t = y + m + SecondOf(t)
    BY DateParts
  <2>3. u = y + m + SecondOf(u)
    BY DateParts
  <2> HIDE DEF y, m
  <2> QED BY <1>2, <2>1, <2>2, <2>3
<1>8. SecondOf(t) < SecondOf(u) => p < q \/ (p = q /\ a < b)
  <2> SUFFICES ASSUME SecondOf(t) < SecondOf(u), q < p PROVE FALSE
    <3>1. CASE p = q
      BY <1>3, <3>1, CalendarSizes
    <3>2. CASE p < q
      BY <3>2
    <3> QED BY <1>3, <3>1, <3>2
  <2>1. q + 1 \in Nat /\ q + 1 <= p
    BY <1>3
  <2>2. (q + 1) * Day <= p * Day
    BY <1>3, <2>1, CalendarSizes, TimesMonotone
  <2>3. (q + 1) * Day = Day * q + Day /\ p * Day = Day * p
    BY <1>3, CalendarSizes
  <2>4. Day * q \in Nat /\ Day * p \in Nat
    BY <1>3, CalendarSizes
  <2> QED BY <1>3, <2>2, <2>3, <2>4, CalendarSizes
<1>9. Later(e, d)
  <2>1. /\ d.day = p + 1 /\ d.second = a /\ e.day = q + 1 /\ e.second = b
    BY <1>1 DEF p, q, a, b
  <2> QED BY <1>1, <1>2, <1>3, <1>5, <1>6, <1>7, <1>8, <2>1, LaterMeans
<1>10. ~ Later(d, e)
  BY <1>4, <1>9, LaterStrict
<1> QED BY <1>9, <1>10 DEF d, e

(* The date shown is the one of the time, and so is the one before. *)
CalendarKept ==
  /\ time = NoTime \/ (time \in Nat /\ date = ToDate(time))
  /\ \/ before = Nothing
     \/ /\ time # NoTime /\ before.time \in Nat /\ before.date = ToDate(before.time)

LEMMA CalendarStarts == CalendarInit => CalendarKept
BY DEF CalendarInit, CalendarKept

LEMMA MoveKeeps ==
  ASSUME CalendarKept, time # NoTime, NEW t \in Nat, Moved(t)
  PROVE  CalendarKept'
<1>1. time' = t /\ date' = ToDate(t) /\ before' = [time |-> time, date |-> date]
  BY DEF Moved
<1>2. time \in Nat /\ date = ToDate(time)
  BY DEF CalendarKept
<1>3. t # NoTime
  BY DEF NoTime
<1>4. before'.time = time /\ before'.date = date
  BY <1>1
<1> QED BY <1>1, <1>2, <1>3, <1>4 DEF CalendarKept

LEMMA CalendarStepKeeps ==
  ASSUME CalendarKept, [CalendarNext]_calendarVars
  PROVE  CalendarKept'
<1>1. CASE Convert
  <2>1. PICK t \in YearBegins(Years[1]) .. YearBegins(Years[2]) - 1 :
          time' = t /\ date' = ToDate(t) /\ UNCHANGED before /\ time = NoTime
    BY <1>1 DEF Convert
  <2>2. t \in Nat
    <3>1. Years[1] \in 2000 .. Years[2] /\ Years[2] \in 2000 .. Years[2]
      BY CalendarSizes
    <3>2. YearBegins(Years[1]) \in Nat /\ YearBegins(Years[2]) \in Nat
      BY <3>1, YearFacts
    <3> QED BY <3>2
  <2>3. before = Nothing
    BY <2>1 DEF CalendarKept
  <2> QED BY <2>1, <2>2, <2>3 DEF CalendarKept
<1>2. CASE Add
  <2>1. PICK d \in Durations : time # NoTime /\ Moved(time + d)
    BY <1>2 DEF Add
  <2>2. time + d \in Nat
    BY <2>1, CalendarAssumption DEF CalendarKept
  <2> QED BY <2>1, <2>2, MoveKeeps
<1>3. CASE Subtract
  <2>1. PICK d \in Durations : time # NoTime /\ d <= time /\ Moved(time - d)
    BY <1>3 DEF Subtract
  <2>2. time - d \in Nat
    BY <2>1, CalendarAssumption DEF CalendarKept
  <2> QED BY <2>1, <2>2, MoveKeeps
<1>4. CASE UNCHANGED calendarVars
  BY <1>4 DEF CalendarKept, calendarVars
<1> QED BY <1>1, <1>2, <1>3, <1>4 DEF CalendarNext

LEMMA DatesAreSound ==
  ASSUME CalendarKept
  PROVE  DatesSound
<1>1. RoundTrips
  <2> SUFFICES ASSUME time # NoTime, ~ Disagree(date) PROVE ToTime(date) = time
    BY DEF RoundTrips
  <2> QED BY TimeOfDate DEF CalendarKept
<1>2. DatesOrdered
  <2> SUFFICES ASSUME before # Nothing
               PROVE  time > before.time <=> Later(date, before.date)
    BY DEF DatesOrdered
  <2> DEFINE t == before.time
  <2>1. /\ time \in Nat /\ t \in Nat /\ date = ToDate(time) /\ before.date = ToDate(t)
    BY DEF CalendarKept
  <2> HIDE DEF t
  <2>2. CASE t < time
    BY <2>1, <2>2, DatesFollow DEF t
  <2>3. CASE time < t
    BY <2>1, <2>3, DatesFollow DEF t
  <2>4. CASE time = t
    <3>1. ~ Later(date, date)
      <4> DEFINE d == date
      <4>1. d.year \in Nat /\ d.month \in Nat /\ d.day \in Nat /\ d.second \in Nat
        BY <2>1, DateOf DEF DateFields
      <4> HIDE DEF d
      <4>2. ~ Later(d, d)
        BY <4>1, LaterMeans
      <4> QED BY <4>2 DEF d
    <3> QED BY <2>1, <2>4, <3>1 DEF t
  <2> QED BY <2>1, <2>2, <2>3, <2>4
<1> QED BY <1>1, <1>2 DEF DatesSound

(* Dates and times of the previous kernel, for any length of the day, any years  *)
(* from 2000 on and any durations: a time made a date and back is the same time,  *)
(* but for the half years of 2008 and 2012 whose leap second the two directions   *)
(* disagree about, and a time that is later by a duration has the later date      *)
(* (time.c, axk_time_to_date, axk_date_to_time, axk_time_add_duration).          *)
THEOREM DatesStaySound == CalendarSpec => []DatesSound
<1>1. CalendarKept /\ [CalendarNext]_calendarVars => CalendarKept'
  BY CalendarStepKeeps
<1>2. CalendarKept => DatesSound
  BY DatesAreSound
<1> QED BY <1>1, <1>2, CalendarStarts, PTL DEF CalendarSpec
-----------------------------------------------------------------------------
(* The timers.  Everything is told by what has passed since the external     *)
(* timer was started or ticked last (Phase): an interrupt that waits is of    *)
(* that tick once a calibration has had its first, a calibration's value was   *)
(* read at most MaxLate after a tick that lies so many periods back as there    *)
(* have been calls since, and the same holds of the clock's last tick.         *)
Ago(n, t) == (n - t) % TimeWidth

Instants == 0 .. TimeWidth - 1

Phase == TimerPeriod - Ago(device.due, instant)

StartStages == {"start tsc", "start lapic"}
WaitStages  == {"wait tsc", "wait lapic"}

Calls == calibrateTicks + (IF interrupted = Never THEN 0 ELSE 1)

Waits(v) == IF latched[v] = Never THEN 0 ELSE 1

Span(n) == n * TimerPeriod

TimingTypes ==
  /\ instant \in Instants /\ offset \in 0 .. CounterMax
  /\ device \in [on : BOOLEAN, due : Instants, vector : {Calibrating, Clock}]
  /\ latched \in [{Calibrating, Clock} -> Instants \union {Never}]
  /\ interrupted \in Instants \union {Never}
  /\ calibrateTicks \in Nat /\ calibrateValue \in Instants
  /\ delay \in [from : Instants, start : 0 .. CounterMax, delta : Nat, target : Int]
  /\ clockTicks \in [count : Nat, last : Instants]

(* What the processor's own code does tells whether a handler may run and     *)
(* whether the external timer ticks, and to which vector.                     *)
StagesKept ==
  /\ callback # "none" => stage \in StartStages \union WaitStages \union {"failed"}
  /\ stage \in StartStages \union WaitStages => callback # "none"
  /\ interrupted # Never => stage \in StartStages \union WaitStages
  /\ stage \in StartStages => Calls + Waits(Calibrating) <= 1
  /\ stage \in WaitStages =>
       /\ device.on <=> calibrateTicks <= Target
       /\ device.vector = Calibrating
  /\ stage = "done" => device.on /\ device.vector = Clock
  /\ device.on => stage \in WaitStages \union {"done"}
  /\ latched[Clock] # Never \/ clockTicks.count > 0 => stage = "done"

LatchesKept ==
  /\ device.on => Ago(device.due, instant) \in 1 .. TimerPeriod
  /\ \A v \in {Calibrating, Clock} : latched[v] # Never =>
       /\ Ago(instant, latched[v]) <= MaxLate
       /\ device.on /\ device.vector = v => Ago(instant, latched[v]) >= Phase
       /\ device.on /\ device.vector = v /\ (v = Clock \/ Calls > 0) =>
            Ago(instant, latched[v]) = Phase

ValueKept ==
  stage \in WaitStages =>
    /\ Calls \in 2 .. Target =>
         Ago(instant, calibrateValue) - (Span(Calls - 2 + Waits(Calibrating)) + Phase)
           \in -MaxLate .. 0
    /\ Calls > Target => calibrateValue - Span(Target - 1) \in -MaxLate .. MaxLate

LastTickKept ==
  clockTicks.count > 0 =>
    Ago(instant, clockTicks.last) - (Span(Waits(Clock)) + Phase) \in -MaxLate .. 0

(* How far the counter has come since the delay began, as long as it wraps    *)
(* around at most once before the target is looked for.                       *)
DelayKept ==
  stage \in {"overflow", "delaying"} =>
    LET reach == delay.start + Ago(instant, delay.from)
    IN  /\ reach <= CounterMax => Counter(offset) = reach
        /\ reach > CounterMax => Counter(offset) <= reach - (CounterMax + 1)
        /\ \/ delay.target = delay.delta - (CounterMax - delay.start)
              /\ (stage = "delaying" => reach > CounterMax)
           \/ stage = "delaying" /\ delay.target = delay.start + delay.delta

TimersKept ==
  /\ TimingTypes /\ StagesKept /\ LatchesKept /\ ValueKept /\ LastTickKept /\ DelayKept
  /\ TimersMeasure

LEMMA Modulo ==
  ASSUME NEW a \in Int, NEW n \in Nat, n > 0, NEW q \in Int, NEW r \in 0 .. n - 1, a = q * n + r
  PROVE  a % n = r
<1> DEFINE p == a \div n
           s == a % n
<1>1. p \in Int /\ s \in 0 .. n - 1 /\ a = p * n + s
  <2>1. p \in Int /\ s \in 0 .. n - 1 /\ a = n * p + s
    OBVIOUS
  <2>2. n * p = p * n
    BY <2>1
  <2> QED BY <2>1, <2>2
<1> HIDE DEF p, s
<1>2. (p - q) * n = r - s /\ p - q \in Int
  <2>1. (p - q) * n = p * n - q * n
    BY <1>1
  <2> QED BY <1>1, <2>1
<1> DEFINE d == p - q
<1>3. \A k \in Nat : k * n \in Nat /\ (k + 1) * n = k * n + n
  OBVIOUS
<1>4. d = 0
  <2>1. d \in Int /\ d * n = r - s /\ r - s < n /\ s - r < n
    BY <1>1, <1>2
  <2> HIDE DEF d
  <2>2. CASE d >= 1
    <3>1. d - 1 \in Nat /\ d = (d - 1) + 1
      BY <2>1, <2>2
    <3>2. d * n >= n
      BY <1>3, <3>1
    <3> QED BY <2>1, <3>2
  <2>3. CASE d <= -1
    <3> DEFINE e == -d - 1
    <3>1. e \in Nat /\ d = -(e + 1)
      BY <2>1, <2>3
    <3> HIDE DEF e
    <3>2. e * n \in Nat /\ (e + 1) * n = e * n + n
      BY <1>3, <3>1
    <3>3. d * n = -((e + 1) * n)
      BY <3>1
    <3> DEFINE x == d * n
               y == (e + 1) * n
               z == e * n
    <3>4. x = r - s /\ s - r < n /\ z \in Nat /\ y = z + n /\ x = -y
      BY <2>1, <3>2, <3>3
    <3> HIDE DEF x, y, z
    <3> QED BY <1>1, <3>4
  <2> QED BY <2>1, <2>2, <2>3
<1>5. p = q
  BY <1>1, <1>4
<1> QED BY <1>1, <1>2, <1>5 DEF s

LEMMA Limits ==
  /\ TimeWidth \in Nat /\ TimerPeriod \in Nat /\ Target \in Nat /\ MaxLate \in Nat
  /\ CounterMax \in Nat /\ Target >= 2 /\ TimerPeriod > MaxLate
  /\ Span(Target - 1) \in Nat /\ TimeWidth > Span(Target - 1) + MaxLate
  /\ Span(Target - 1) = Span(Target - 2) + TimerPeriod /\ Span(Target - 2) \in Nat
  /\ TimeWidth > TimerPeriod + MaxLate
<1>1. /\ TimeWidth \in Nat /\ TimerPeriod \in Nat /\ Target \in Nat /\ MaxLate \in Nat
      /\ CounterMax \in Nat /\ Target >= 2 /\ TimerPeriod > MaxLate
      /\ TimeWidth > Span(Target - 1) + MaxLate
  BY TimersAssumption DEF Span
<1> DEFINE k == Target - 2
<1>2. k \in Nat /\ Target - 1 = k + 1
  BY <1>1
<1> HIDE DEF k
<1>3. k * TimerPeriod \in Nat /\ (k + 1) * TimerPeriod = k * TimerPeriod + TimerPeriod
  BY <1>1, <1>2
<1>4. Span(k) \in Nat /\ Span(Target - 1) = Span(k) + TimerPeriod
  BY <1>2, <1>3 DEF Span
<1> QED BY <1>1, <1>4 DEF k

LEMMA SpanFacts ==
  ASSUME NEW n \in Nat
  PROVE  /\ Span(n) \in Nat /\ Span(0) = 0 /\ Span(1) = TimerPeriod
         /\ Span(n + 1) = Span(n) + TimerPeriod
         /\ \A m \in Nat : n <= m => Span(n) <= Span(m)
<1>1. TimerPeriod \in Nat
  BY Limits
<1>2. Span(n) \in Nat /\ Span(0) = 0 /\ Span(1) = TimerPeriod
  BY <1>1 DEF Span
<1>3. Span(n + 1) = Span(n) + TimerPeriod
  <2>1. (n + 1) * TimerPeriod = n * TimerPeriod + TimerPeriod
    BY <1>1
  <2> QED BY <2>1 DEF Span
<1>4. ASSUME NEW m \in Nat, n <= m PROVE Span(n) <= Span(m)
  BY <1>1, <1>4, TimesMonotone DEF Span
<1> QED BY <1>2, <1>3, <1>4

(* How long ago something was, without the remainder. *)
LEMMA AgoIs ==
  ASSUME NEW n \in Instants, NEW t \in Instants
  PROVE  /\ Ago(n, t) = IF n >= t THEN n - t ELSE n - t + TimeWidth
         /\ Ago(n, t) \in Instants
<1>1. TimeWidth \in Nat /\ TimeWidth > 0
  BY Limits
<1>2. CASE n >= t
  <2>1. n - t \in 0 .. TimeWidth - 1 /\ n - t = 0 * TimeWidth + (n - t)
    BY <1>1, <1>2 DEF Instants
  <2>2. (n - t) % TimeWidth = n - t
    BY <1>1, <2>1, Modulo, 0 \in Int
  <2> QED BY <1>2, <2>1, <2>2 DEF Ago, Instants
<1>3. CASE ~ (n >= t)
  <2> DEFINE r == n - t + TimeWidth
  <2>1. r \in 0 .. TimeWidth - 1 /\ n - t = (-1) * TimeWidth + r /\ n - t \in Int
    BY <1>1, <1>3 DEF Instants
  <2> HIDE DEF r
  <2>2. (n - t) % TimeWidth = r
    BY <1>1, <2>1, Modulo, -1 \in Int
  <2> QED BY <1>3, <2>1, <2>2 DEF Ago, Instants, r
<1> QED BY <1>2, <1>3

LEMMA AgoNat ==
  ASSUME NEW n \in Instants, NEW t \in Instants
  PROVE  Ago(n, t) \in Nat /\ Ago(n, t) < TimeWidth
<1>1. Ago(n, t) \in Instants
  BY AgoIs
<1> QED BY <1>1, Limits DEF Instants

LEMMA NextIs ==
  ASSUME NEW n \in Instants
  PROVE  /\ (n + 1) % TimeWidth = IF n = TimeWidth - 1 THEN 0 ELSE n + 1
         /\ (n + 1) % TimeWidth \in Instants
<1>1. TimeWidth \in Nat /\ TimeWidth > 1
  BY Limits
<1>2. CASE n = TimeWidth - 1
  <2>1. n + 1 = 1 * TimeWidth + 0 /\ 0 \in 0 .. TimeWidth - 1 /\ n + 1 \in Int
    BY <1>1, <1>2
  <2>2. (n + 1) % TimeWidth = 0
    BY <1>1, <2>1, Modulo, 1 \in Int
  <2> QED BY <1>1, <1>2, <2>2 DEF Instants
<1>3. CASE n # TimeWidth - 1
  <2>1. n + 1 = 0 * TimeWidth + (n + 1) /\ n + 1 \in 0 .. TimeWidth - 1 /\ n + 1 \in Int
    BY <1>1, <1>3 DEF Instants
  <2>2. (n + 1) % TimeWidth = n + 1
    BY <1>1, <2>1, Modulo, 0 \in Int
  <2> QED BY <1>1, <1>3, <2>1, <2>2 DEF Instants
<1> QED BY <1>2, <1>3

LEMMA DueIs ==
  ASSUME NEW n \in Instants
  PROVE  /\ (n + TimerPeriod) % TimeWidth \in Instants
         /\ Ago((n + TimerPeriod) % TimeWidth, n) = TimerPeriod
         /\ Ago(n, n) = 0
<1>1. TimeWidth \in Nat /\ TimeWidth > TimerPeriod /\ TimerPeriod \in Nat
  BY Limits
<1> DEFINE d == (n + TimerPeriod) % TimeWidth
<1>2. d = IF n + TimerPeriod >= TimeWidth THEN n + TimerPeriod - TimeWidth ELSE n + TimerPeriod
  <2>1. CASE n + TimerPeriod >= TimeWidth
    <3> DEFINE r == n + TimerPeriod - TimeWidth
    <3>1. /\ r \in 0 .. TimeWidth - 1 /\ n + TimerPeriod = 1 * TimeWidth + r
          /\ n + TimerPeriod \in Int
      BY <1>1, <2>1 DEF Instants
    <3> HIDE DEF r
    <3>2. (n + TimerPeriod) % TimeWidth = r
      BY <1>1, <3>1, Modulo, 1 \in Int
    <3> QED BY <2>1, <3>2 DEF r
  <2>2. CASE ~ (n + TimerPeriod >= TimeWidth)
    <3> DEFINE r == n + TimerPeriod
    <3>1. r \in 0 .. TimeWidth - 1 /\ r = 0 * TimeWidth + r /\ r \in Int
      BY <1>1, <2>2 DEF Instants
    <3> HIDE DEF r
    <3>2. r % TimeWidth = r
      BY <1>1, <3>1, Modulo, 0 \in Int
    <3> QED BY <2>2, <3>2 DEF r
  <2> QED BY <2>1, <2>2
<1> HIDE DEF d
<1>3. d \in Instants
  BY <1>1, <1>2 DEF Instants
<1>4. Ago(d, n) = TimerPeriod /\ Ago(n, n) = 0
  <2>1. /\ Ago(d, n) = IF d >= n THEN d - n ELSE d - n + TimeWidth
        /\ Ago(n, n) = IF n >= n THEN n - n ELSE n - n + TimeWidth
    BY <1>3, AgoIs
  <2> HIDE DEF Ago
  <2> QED BY <1>1, <1>2, <2>1 DEF Instants
<1> QED BY <1>3, <1>4 DEF d

(* A unit of time later. *)
LEMMA AgoSteps ==
  ASSUME NEW n \in Instants, NEW m, m = (n + 1) % TimeWidth, NEW t \in Instants
  PROVE  /\ m \in Instants
         /\ Ago(m, t) = IF Ago(n, t) = TimeWidth - 1 THEN 0 ELSE Ago(n, t) + 1
         /\ Ago(t, m) = IF t = n THEN TimeWidth - 1 ELSE Ago(t, n) - 1
         /\ Ago(t, n) = 1 <=> t = m
         /\ Ago(t, n) = 0 <=> t = n
<1>1. TimeWidth \in Nat /\ TimeWidth > 1
  BY Limits
<1>2. m \in Instants /\ m = IF n = TimeWidth - 1 THEN 0 ELSE n + 1
  BY NextIs
<1>3. /\ Ago(n, t) = IF n >= t THEN n - t ELSE n - t + TimeWidth
      /\ Ago(m, t) = IF m >= t THEN m - t ELSE m - t + TimeWidth
      /\ Ago(t, n) = IF t >= n THEN t - n ELSE t - n + TimeWidth
      /\ Ago(t, m) = IF t >= m THEN t - m ELSE t - m + TimeWidth
  BY <1>2, AgoIs
<1> HIDE DEF Ago
<1>4. CASE n = TimeWidth - 1
  BY <1>1, <1>2, <1>3, <1>4 DEF Instants
<1>5. CASE n # TimeWidth - 1
  BY <1>1, <1>2, <1>3, <1>5 DEF Instants
<1> QED BY <1>4, <1>5

(* The counter counts with the time. *)
LEMMA CounterSteps ==
  ASSUME NEW b \in 0 .. CounterMax, NEW n \in Instants, NEW m, m = (n + 1) % TimeWidth
  PROVE  /\ (b + n) % (CounterMax + 1) \in 0 .. CounterMax
         /\ (b + m) % (CounterMax + 1) =
              IF (b + n) % (CounterMax + 1) = CounterMax THEN 0
              ELSE ((b + n) % (CounterMax + 1)) + 1
<1> DEFINE M == CounterMax + 1
           k == TimeWidth \div M
           q == (b + n) \div M
           r == (b + n) % M
<1>1. /\ CounterMax \in Nat /\ M \in Nat /\ M > 0 /\ M = CounterMax + 1
      /\ TimeWidth \in Nat /\ TimeWidth > 0 /\ TimeWidth % M = 0
  BY Limits, TimersAssumption
<1>2. n \in 0 .. TimeWidth - 1 /\ b \in Nat
  BY <1>1 DEF Instants
<1>3. m = IF n = TimeWidth - 1 THEN 0 ELSE n + 1
  BY NextIs
<1> HIDE DEF M
<1>4. k \in Int /\ TimeWidth = k * M
  <2>1. TimeWidth = M * (TimeWidth \div M) + (TimeWidth % M) /\ TimeWidth \div M \in Int
    BY <1>1, DivisionFacts
  <2>2. M * (TimeWidth \div M) = (TimeWidth \div M) * M
    BY <1>1, <2>1
  <2> QED BY <1>1, <2>1, <2>2
<1>5. q \in Int /\ r \in 0 .. M - 1 /\ b + n = q * M + r
  <2>1. b + n = M * ((b + n) \div M) + ((b + n) % M) /\ (b + n) \div M \in Int /\ r \in 0 .. M - 1
    BY <1>1, <1>2, b + n \in Nat, DivisionFacts
  <2>2. M * ((b + n) \div M) = ((b + n) \div M) * M
    BY <1>1, <2>1
  <2> QED BY <2>1, <2>2
<1> HIDE DEF k, q, r
<1>6. \A p \in Int, s \in 0 .. M - 1 : b + m = p * M + s => (b + m) % M = s
  <2> SUFFICES ASSUME NEW p \in Int, NEW s \in 0 .. M - 1, b + m = p * M + s
               PROVE  (b + m) % M = s
    OBVIOUS
  <2> DEFINE a == b + m
  <2>1. a \in Int /\ a = p * M + s
    BY <1>2, <1>3
  <2> HIDE DEF a
  <2>2. a % M = s
    BY <1>1, <2>1, Modulo
  <2> QED BY <2>2 DEF a
<1> DEFINE t == IF m = 0 THEN q - k ELSE q
<1>7. t \in Int /\ b + m = t * M + (r + 1)
  <2>1. CASE n = TimeWidth - 1
    <3>1. (q - k) * M = q * M - k * M
      BY <1>1, <1>4, <1>5
    <3>2. b + m = b + n + 1 - k * M
      BY <1>1, <1>2, <1>3, <1>4, <2>1
    <3> DEFINE x == q * M
               y == k * M
               z == (q - k) * M
    <3>3. x \in Int /\ y \in Int /\ z = x - y /\ b + n = x + r /\ b + m = b + n + 1 - y
      BY <1>1, <1>4, <1>5, <3>1, <3>2
    <3> HIDE DEF x, y, z
    <3>4. b + m = z + (r + 1)
      BY <1>1, <1>2, <1>5, <3>3
    <3> QED BY <1>3, <1>4, <1>5, <2>1, <3>4 DEF z
  <2>2. CASE n # TimeWidth - 1
    <3>1. m = n + 1 /\ m # 0
      BY <1>2, <1>3, <2>2
    <3> DEFINE x == q * M
    <3>2. x \in Int /\ b + n = x + r
      BY <1>1, <1>5
    <3> HIDE DEF x
    <3>3. b + m = x + (r + 1)
      BY <1>1, <1>2, <1>5, <3>1, <3>2
    <3> QED BY <1>5, <3>1, <3>3 DEF x
  <2> QED BY <2>1, <2>2
<1> HIDE DEF t
<1>8. CASE r = CounterMax
  <2>1. (t + 1) * M = t * M + M
    BY <1>1, <1>7
  <2>2. t * M + (r + 1) = (t + 1) * M + 0
    BY <1>1, <1>7, <1>8, <2>1
  <2>3. t + 1 \in Int /\ 0 \in 0 .. M - 1 /\ b + m = (t + 1) * M + 0
    BY <1>1, <1>7, <2>2
  <2>4. (b + m) % M = 0
    BY <1>6, <2>3
  <2> QED BY <1>1, <1>5, <1>8, <2>4 DEF M, r
<1>9. CASE r # CounterMax
  <2>1. r + 1 \in 0 .. M - 1
    BY <1>1, <1>5, <1>9
  <2>2. (b + m) % M = r + 1
    BY <1>6, <1>7, <2>1
  <2> QED BY <1>1, <1>5, <1>9, <2>2 DEF M, r
<1> QED BY <1>8, <1>9

(* The comparators that have been considered: the one that was chosen has all *)
(* that is said of it.                                                        *)
Considered(c, i) ==
  { f \in [index : 0 .. i, periodic : BOOLEAN, long : BOOLEAN, fsb : BOOLEAN, of : {c}] :
      /\ f.index = 0 => ~ f.periodic
      /\ f.long => f.periodic
      /\ f.fsb => f.long
      /\ f.periodic => "periodic" \in c[f.index]
      /\ f.long => "long" \in c[f.index]
      /\ f.fsb => "fsb" \in c[f.index] }

LEMMA ConsiderKeeps ==
  ASSUME NEW c \in Comparators, NEW i \in 1 .. Len(c), NEW f \in Considered(c, i - 1)
  PROVE  Consider(f, c[i], i) \in Considered(c, i)
<1> DEFINE periodic == "periodic" \in c[i]
           long     == periodic /\ "long" \in c[i]
           fsb      == long /\ "fsb" \in c[i]
           better   == \/ f.index = 0
                       \/ periodic /\ ~ f.periodic
                       \/ long /\ ~ f.long
                       \/ fsb
           index    == IF better THEN i ELSE f.index
           e == [index |-> index, periodic |-> f.periodic \/ periodic,
                 long |-> f.long \/ long, fsb |-> fsb, of |-> c]
<1>1. c \in Seq(SUBSET Flags) /\ Len(c) \in Nat
  BY TimersAssumption
<1>2. /\ f \in [index : 0 .. i - 1, periodic : BOOLEAN, long : BOOLEAN, fsb : BOOLEAN, of : {c}]
      /\ f.index = 0 => ~ f.periodic
      /\ f.long => f.periodic
      /\ f.fsb => f.long
      /\ f.periodic => "periodic" \in c[f.index]
      /\ f.long => "long" \in c[f.index]
      /\ f.fsb => "fsb" \in c[f.index]
  BY DEF Considered
<1>3. CASE f.fsb
  <2>1. Consider(f, c[i], i) = f
    BY <1>3 DEF Consider
  <2>2. f.index \in 0 .. i
    BY <1>1, <1>2
  <2>3. f \in [index : 0 .. i, periodic : BOOLEAN, long : BOOLEAN, fsb : BOOLEAN, of : {c}]
    BY <1>2, <2>2
  <2> QED BY <1>2, <2>1, <2>3 DEF Considered
<1>4. CASE ~ f.fsb
  <2>1. Consider(f, c[i], i) = e
    BY <1>2, <1>4 DEF Consider
  <2>2. /\ index \in 0 .. i /\ i > 0
        /\ better => index = i
        /\ ~ better => index = f.index
    BY <1>1, <1>2
  <2> HIDE DEF index
  <2>3. e \in [index : 0 .. i, periodic : BOOLEAN, long : BOOLEAN, fsb : BOOLEAN, of : {c}]
    BY <1>2, <2>2
  <2>4. /\ e.index = index /\ e.periodic = (f.periodic \/ periodic)
        /\ e.long = (f.long \/ long) /\ e.fsb = fsb
    OBVIOUS
  <2> HIDE DEF e
  <2>5. /\ index = 0 => ~ (f.periodic \/ periodic)
        /\ (f.long \/ long) => (f.periodic \/ periodic)
        /\ fsb => (f.long \/ long)
        /\ (f.periodic \/ periodic) => "periodic" \in c[index]
        /\ (f.long \/ long) => "long" \in c[index]
        /\ fsb => "fsb" \in c[index]
    <3>1. CASE better
      BY <1>2, <2>2, <3>1
    <3>2. CASE ~ better
      BY <1>2, <2>2, <3>2
    <3> QED BY <3>1, <3>2
  <2> QED BY <2>1, <2>3, <2>4, <2>5 DEF Considered
<1> QED BY <1>3, <1>4

LEMMA BestConsidered ==
  ASSUME NEW c \in Comparators
  PROVE  Best(c) \in Considered(c, Len(c))
<1> DEFINE n == Len(c)
           none == Unchosen(c)
           Eq(g) == g = [i \in 0 .. n |-> IF i = 0 THEN none ELSE Consider(g[i - 1], c[i], i)]
           best == CHOOSE g : Eq(g)
           V == [i \in 0 .. n |-> Considered(c, i)]
           F == [i \in 1 .. n |-> [v \in V[i - 1] |-> Consider(v, c[i], i)]]
<1>1. n \in Nat /\ \A i \in 0 .. n : V[i] = Considered(c, i)
  BY TimersAssumption
<1>2. Best(c) = best[n]
  BY DEF Best
<1> HIDE DEF n
<1>3. none \in V[0]
  <2>2. none \in Considered(c, 0)
    BY DEF Considered, Unchosen
  <2> QED BY <1>1, <2>2
<1>4. ASSUME NEW i \in 1 .. n, NEW v \in V[i - 1] PROVE Consider(v, c[i], i) \in V[i]
  <2>1. i - 1 \in 0 .. n /\ i \in 0 .. n /\ i \in 1 .. Len(c)
    BY <1>1 DEF n
  <2>2. v \in Considered(c, i - 1) /\ V[i] = Considered(c, i)
    BY <1>1, <2>1
  <2> QED BY <2>1, <2>2, ConsiderKeeps
<1> HIDE DEF none, V
<1>5. \E g : Eq(g)
  <2>1. ASSUME NEW i \in 1 .. n, NEW v \in V[i - 1] PROVE F[i][v] = Consider(v, c[i], i)
    BY Zenon
  <2> HIDE DEF F
  <2>2. PICK g : Chained(g, n, none, V, F)
    <3>1. Chainable(n, none, V, F)
      BY <1>1, <1>3, <1>4, <2>1 DEF Chainable
    <3> QED BY <3>1, Chains
  <2>3. ASSUME NEW i \in 1 .. n PROVE F[i][g[i - 1]] = Consider(g[i - 1], c[i], i)
    <3>1. g[i - 1] \in V[i - 1]
      BY <1>1, <2>2 DEF Chained
    <3> QED BY <2>1, <3>1
  <2>4. \A i \in 0 .. n : (IF i = 0 THEN none ELSE F[i][g[i - 1]])
                            = (IF i = 0 THEN none ELSE Consider(g[i - 1], c[i], i))
    BY <1>1, <2>3
  <2>5. Eq(g)
    BY <2>2, <2>4 DEF Chained
  <2> QED BY <2>5
<1>6. Eq(best)
  BY <1>5
<1> HIDE DEF best
<1>7. \A i \in 0 .. n : best[i] \in V[i]
  <2>1. best[0] \in V[0]
    BY <1>1, <1>3, <1>6
  <2>2. ASSUME NEW i \in 1 .. n, best[i - 1] \in V[i - 1] PROVE best[i] \in V[i]
    <3>1. best[i] = Consider(best[i - 1], c[i], i)
      BY <1>1, <1>6
    <3> QED BY <1>4, <2>2, <3>1
  <2> QED BY <1>1, <2>1, <2>2, ChainHolds
<1>8. best[n] \in Considered(c, n)
  BY <1>1, <1>7
<1> QED BY <1>2, <1>8 DEF n

LEMMA TimersTyped ==
  ASSUME TimersKept
  PROVE  /\ instant \in Instants /\ offset \in 0 .. CounterMax
         /\ device \in [on : BOOLEAN, due : Instants, vector : {Calibrating, Clock}]
         /\ device.on \in BOOLEAN /\ device.due \in Instants
         /\ device.vector \in {Calibrating, Clock}
         /\ latched \in [{Calibrating, Clock} -> Instants \union {Never}]
         /\ latched[Calibrating] \in Instants \union {Never}
         /\ latched[Clock] \in Instants \union {Never}
         /\ interrupted \in Instants \union {Never}
         /\ calibrateTicks \in Nat /\ calibrateValue \in Instants
         /\ delay \in [from : Instants, start : 0 .. CounterMax, delta : Nat, target : Int]
         /\ delay.from \in Instants /\ delay.start \in 0 .. CounterMax
         /\ delay.delta \in Nat /\ delay.target \in Int
         /\ clockTicks \in [count : Nat, last : Instants]
         /\ clockTicks.count \in Nat /\ clockTicks.last \in Instants
         /\ Calibrating # Clock /\ Never \notin Instants
<1>1. TimingTypes
  BY DEF TimersKept
<1>2. Calibrating # Clock /\ Never \notin Instants
  BY Limits DEF Calibrating, Clock, Never, Instants
<1>3. /\ instant \in Instants /\ offset \in 0 .. CounterMax
      /\ interrupted \in Instants \union {Never}
      /\ calibrateTicks \in Nat /\ calibrateValue \in Instants
  BY <1>1 DEF TimingTypes
<1>4. /\ device \in [on : BOOLEAN, due : Instants, vector : {Calibrating, Clock}]
      /\ device.on \in BOOLEAN /\ device.due \in Instants
      /\ device.vector \in {Calibrating, Clock}
  BY <1>1 DEF TimingTypes
<1>5. /\ latched \in [{Calibrating, Clock} -> Instants \union {Never}]
      /\ latched[Calibrating] \in Instants \union {Never}
      /\ latched[Clock] \in Instants \union {Never}
  BY <1>1 DEF TimingTypes
<1>6. /\ delay \in [from : Instants, start : 0 .. CounterMax, delta : Nat, target : Int]
      /\ delay.from \in Instants /\ delay.start \in 0 .. CounterMax
      /\ delay.delta \in Nat /\ delay.target \in Int
  BY <1>1 DEF TimingTypes
<1>7. /\ clockTicks \in [count : Nat, last : Instants]
      /\ clockTicks.count \in Nat /\ clockTicks.last \in Instants
  BY <1>1 DEF TimingTypes
<1> QED BY <1>2, <1>3, <1>4, <1>5, <1>6, <1>7

LEMMA TimingBegins ==
  ASSUME TimingInit
  PROVE  TimersKept
<1> USE DEF TimingInit
<1>1. TimeWidth \in Nat /\ TimeWidth > 0 /\ CounterMax \in Nat
  BY Limits
<1>2. TimingTypes
  <2>1. 0 \in Instants /\ 0 \in 0 .. CounterMax /\ 0 \in Nat /\ 0 \in Int
    BY <1>1 DEF Instants
  <2>2. device \in [on : BOOLEAN, due : Instants, vector : {Calibrating, Clock}]
    BY <2>1
  <2>3. latched \in [{Calibrating, Clock} -> Instants \union {Never}]
    OBVIOUS
  <2>4. delay \in [from : Instants, start : 0 .. CounterMax, delta : Nat, target : Int]
    BY <2>1 DEF NoDelay
  <2>5. clockTicks \in [count : Nat, last : Instants]
    BY <2>1
  <2> QED BY <2>1, <2>2, <2>3, <2>4, <2>5 DEF TimingTypes
<1>3. StagesKept
  BY DEF StagesKept, StartStages, WaitStages
<1>4. LatchesKept
  BY DEF LatchesKept
<1>5. ValueKept /\ LastTickKept /\ DelayKept
  BY DEF ValueKept, LastTickKept, DelayKept, WaitStages
<1>6. TimersMeasure
  BY DEF TimersMeasure, Calibrated, SleptEnough, ClockEven, ComparatorHolds, NoMeasure, NoHpet,
         Unchosen
<1> QED BY <1>2, <1>3, <1>4, <1>5, <1>6 DEF TimersKept

(* What does not touch a measurement or the comparator keeps what they tell.    *)
LEMMA MeasuresStay ==
  ASSUME TimersMeasure, UNCHANGED <<measure, comparator>>
  PROVE  TimersMeasure'
BY DEF TimersMeasure, Calibrated, SleptEnough, ClockEven, ComparatorHolds, Near

(* The counter has come as far as the time, as long as it has not wrapped      *)
(* around twice.                                                             *)
LEMMA DelayPasses ==
  ASSUME TimersKept, Pass
  PROVE  DelayKept'
<1>1. /\ instant \in Instants /\ instant' = (instant + 1) % TimeWidth
      /\ offset \in 0 .. CounterMax /\ delay.from \in Instants /\ delay.start \in 0 .. CounterMax
      /\ CounterMax \in Nat /\ TimeWidth \in Nat
  BY TimersTyped, Limits DEF Pass
<1> SUFFICES ASSUME stage \in {"overflow", "delaying"} PROVE DelayKept'
  BY DEF DelayKept, Pass
<1> DEFINE a == Ago(instant, delay.from)
           b == Ago(instant', delay.from)
           c == Counter(offset)
           d == (offset + instant') % (CounterMax + 1)
           s == delay.start
<1>2. a \in Instants /\ b = a + 1
  <2>1. a < TimeWidth - 1
    BY DEF Elapsed, Ago, Pass
  <2>2. a \in Instants /\ b = IF a = TimeWidth - 1 THEN 0 ELSE a + 1
    BY <1>1, AgoIs, AgoSteps
  <2> HIDE DEF a, b
  <2> QED BY <1>1, <2>1, <2>2 DEF Instants
<1>3. c \in 0 .. CounterMax /\ d = IF c = CounterMax THEN 0 ELSE c + 1
  BY <1>1, CounterSteps DEF Counter
<1>4. UNCHANGED <<offset, delay, stage>> /\ Counter(offset)' = d
  BY DEF timings, Counter, Pass
<1>5. /\ s + a <= CounterMax => c = s + a
      /\ s + a > CounterMax => c <= (s + a) - (CounterMax + 1)
      /\ \/ delay.target = delay.delta - (CounterMax - s)
              /\ (stage = "delaying" => s + a > CounterMax)
         \/ stage = "delaying" /\ delay.target = s + delay.delta
  <2>1. DelayKept
    BY DEF TimersKept
  <2> QED BY <2>1 DEF DelayKept
<1> HIDE DEF a, b, c, d
<1>6. /\ s + b <= CounterMax => d = s + b
      /\ s + b > CounterMax => d <= (s + b) - (CounterMax + 1)
      /\ s + a > CounterMax => s + b > CounterMax
  <2>1. a \in Int /\ a >= 0
    BY <1>1, <1>2 DEF Instants
  <2> QED BY <1>1, <1>2, <1>3, <1>5, <2>1
<1>7. delay' = delay /\ stage' = stage /\ Ago(instant', delay'.from) = b
  BY <1>4 DEF b
<1> QED BY <1>4, <1>5, <1>6, <1>7 DEF DelayKept

(* A unit of time later an interrupt that waits is a unit older, and the timer *)
(* has ticked if it was due, for which no interrupt of the tick before waited. *)
LEMMA PassFacts ==
  ASSUME TimersKept, Pass
  PROVE  /\ instant' \in Instants
         /\ UNCHANGED <<offset, stage, comparator, interrupted, callback, calibrateTicks,
                        calibrateValue, delay, clockTicks, measure>>
         /\ device'.on = device.on /\ device'.vector = device.vector
         /\ device' \in [on : BOOLEAN, due : Instants, vector : {Calibrating, Clock}]
         /\ Phase \in Int /\ Phase' \in Int
         /\ device.on => Phase \in 0 .. TimerPeriod - 1 /\ Phase' \in 0 .. TimerPeriod - 1
         /\ \A t \in Instants :
              /\ Ago(instant, t) \in Nat
              /\ Ago(instant, t) < TimeWidth - 1 => Ago(instant', t) = Ago(instant, t) + 1
         /\ \A v \in {Calibrating, Clock} : latched[v] # Never =>
              Ago(instant', latched[v]) = Ago(instant, latched[v]) + 1
              /\ Ago(instant, latched[v]) < MaxLate
         /\ \/ /\ device.on /\ Phase = TimerPeriod - 1 /\ Phase' = 0
               /\ latched[device.vector] = Never
               /\ latched' = [latched EXCEPT ![device.vector] = instant']
               /\ Ago(instant', instant') = 0
            \/ /\ device.on => Phase' = Phase + 1
               /\ latched' = latched
<1> DEFINE v == device.vector
           due == device.due
<1>1. /\ instant \in Instants /\ due \in Instants /\ v \in {Calibrating, Clock}
      /\ device.on \in BOOLEAN
      /\ device \in [on : BOOLEAN, due : Instants, vector : {Calibrating, Clock}]
      /\ latched \in [{Calibrating, Clock} -> Instants \union {Never}]
      /\ \A w \in {Calibrating, Clock} : latched[w] \in Instants \union {Never}
  BY TimersTyped
<1>2. /\ TimeWidth \in Nat /\ TimerPeriod \in Nat /\ MaxLate \in Nat /\ TimerPeriod > MaxLate
      /\ TimeWidth > TimerPeriod + MaxLate
  BY Limits
<1>3. /\ instant' = (instant + 1) % TimeWidth
      /\ \A w \in {Calibrating, Clock} : latched[w] # Never => Ago(instant, latched[w]) < MaxLate
      /\ UNCHANGED <<offset, stage, comparator, interrupted, callback, calibrateTicks,
                     calibrateValue, delay, clockTicks, measure>>
      /\ IF device.on /\ due = instant'
         THEN /\ device' = [device EXCEPT !.due = (due + TimerPeriod) % TimeWidth]
              /\ latched' = Latched(v, instant')
         ELSE UNCHANGED <<device, latched>>
  BY <1>1 DEF Pass, Elapsed, Ago, calibration, timings
<1>4. \A t \in Instants :
        /\ instant' \in Instants
        /\ Ago(instant, t) \in Instants
        /\ Ago(instant', t) = IF Ago(instant, t) = TimeWidth - 1 THEN 0 ELSE Ago(instant, t) + 1
        /\ Ago(t, instant') = IF t = instant THEN TimeWidth - 1 ELSE Ago(t, instant) - 1
        /\ Ago(t, instant) \in Instants
        /\ Ago(t, instant) = 1 <=> t = instant'
        /\ Ago(t, instant) = 0 <=> t = instant
  BY <1>1, <1>3, AgoSteps, AgoIs
<1>5. instant' \in Instants
  BY <1>1, <1>4
<1>6. /\ (instant' + TimerPeriod) % TimeWidth \in Instants
      /\ Ago((instant' + TimerPeriod) % TimeWidth, instant') = TimerPeriod
      /\ Ago(instant', instant') = 0
  BY <1>5, DueIs
<1>7. \A t \in Instants :
        /\ Ago(instant, t) \in Nat
        /\ Ago(instant, t) < TimeWidth - 1 => Ago(instant', t) = Ago(instant, t) + 1
  BY <1>2, <1>4 DEF Instants
<1>8. \A w \in {Calibrating, Clock} : latched[w] # Never =>
        Ago(instant', latched[w]) = Ago(instant, latched[w]) + 1
        /\ Ago(instant, latched[w]) < MaxLate
  BY <1>1, <1>2, <1>3, <1>7
<1>9. /\ device.on => Ago(due, instant) \in 1 .. TimerPeriod
      /\ device.on /\ latched[v] # Never => Ago(instant, latched[v]) >= Phase
  BY <1>1 DEF TimersKept, LatchesKept
<1>10. Phase = TimerPeriod - Ago(due, instant) /\ Phase' = TimerPeriod - Ago(device'.due, instant')
  BY DEF Phase
<1>11. Ago(due, instant) \in Int
  BY <1>1, <1>2, <1>4 DEF Instants
<1>12. CASE device.on /\ due = instant'
  <2>1. /\ device' = [device EXCEPT !.due = (instant' + TimerPeriod) % TimeWidth]
        /\ latched' = Latched(v, instant')
    BY <1>3, <1>12
  <2>2. /\ device' \in [on : BOOLEAN, due : Instants, vector : {Calibrating, Clock}]
        /\ device'.on = device.on /\ device'.vector = v
        /\ device'.due = (instant' + TimerPeriod) % TimeWidth
    BY <1>1, <1>6, <2>1
  <2>3. Phase = TimerPeriod - 1 /\ Phase' = 0
    <3>1. Ago(due, instant) = 1
      BY <1>1, <1>4, <1>12
    <3> QED BY <1>2, <1>6, <1>10, <2>2, <3>1
  <2>4. latched[v] = Never
    <3> SUFFICES ASSUME latched[v] # Never PROVE FALSE
      OBVIOUS
    <3>1. Ago(instant, latched[v]) >= TimerPeriod - 1 /\ Ago(instant, latched[v]) < MaxLate
      BY <1>1, <1>8, <1>9, <1>12, <2>3
    <3>2. Ago(instant, latched[v]) \in Nat
      BY <1>1, <1>7
    <3> QED BY <1>2, <3>1, <3>2
  <2>5. latched' = [latched EXCEPT ![v] = instant']
    BY <2>1, <2>4 DEF Latched
  <2> HIDE DEF Ago, Phase, v, due
  <2> QED BY <1>2, <1>3, <1>5, <1>6, <1>7, <1>8, <1>12, <2>2, <2>3, <2>4, <2>5 DEF v
<1>13. CASE ~ (device.on /\ due = instant')
  <2>1. device' = device /\ latched' = latched
    BY <1>3, <1>13
  <2>2. Phase \in Int /\ Phase' \in Int
    <3>1. Ago(device'.due, instant') \in Int
      BY <1>1, <1>2, <1>4, <1>11, <2>1 DEF Instants
    <3> QED BY <1>2, <1>10, <1>11, <3>1
  <2>3. device.on => /\ Phase' = Phase + 1 /\ Phase \in 0 .. TimerPeriod - 1
                     /\ Phase' \in 0 .. TimerPeriod - 1
    <3> SUFFICES ASSUME device.on PROVE /\ Phase' = Phase + 1 /\ Phase \in 0 .. TimerPeriod - 1
                                        /\ Phase' \in 0 .. TimerPeriod - 1
      OBVIOUS
    <3>1. Ago(due, instant) # 1 /\ due # instant
      BY <1>1, <1>4, <1>9, <1>13
    <3>2. Ago(due, instant') = Ago(due, instant) - 1
      BY <1>1, <1>4, <3>1
    <3> HIDE DEF Ago, Phase, due
    <3> QED BY <1>2, <1>9, <1>10, <1>11, <2>1, <3>1, <3>2 DEF due
  <2> HIDE DEF Ago, Phase, v, due
  <2> QED BY <1>1, <1>3, <1>5, <1>7, <1>8, <2>1, <2>2, <2>3
<1> QED BY <1>12, <1>13

(* What the processor's own code and the calls tell, for the steps below.       *)
LEMMA StageFacts ==
  ASSUME TimersKept
  PROVE  /\ callback # "none" => stage \in StartStages \union WaitStages \union {"failed"}
         /\ stage \in StartStages \union WaitStages => callback # "none"
         /\ interrupted # Never => stage \in StartStages \union WaitStages
         /\ stage \in StartStages => Calls + Waits(Calibrating) <= 1
         /\ stage \in WaitStages =>
              /\ device.on <=> calibrateTicks <= Target
              /\ device.vector = Calibrating
         /\ stage = "done" => device.on /\ device.vector = Clock
         /\ device.on => stage \in WaitStages \union {"done"}
         /\ latched[Clock] # Never \/ clockTicks.count > 0 => stage = "done"
         /\ stage \in WaitStages => stage # "done"
         /\ Calls \in {calibrateTicks, calibrateTicks + 1} /\ Calls \in Nat
         /\ Waits(Calibrating) \in {0, 1} /\ Waits(Clock) \in {0, 1}
<1>1. StagesKept
  BY DEF TimersKept
<1>2. Calls \in {calibrateTicks, calibrateTicks + 1} /\ Calls \in Nat
  BY TimersTyped DEF Calls
<1>3. Waits(Calibrating) \in {0, 1} /\ Waits(Clock) \in {0, 1}
  BY DEF Waits
<1>4. stage \in WaitStages => stage # "done"
  BY DEF WaitStages
<1> QED BY <1>1, <1>2, <1>3, <1>4 DEF StagesKept

LEMMA PassKeepsStages ==
  ASSUME TimersKept, Pass
  PROVE  TimingTypes' /\ StagesKept' /\ LatchesKept'
<1> DEFINE v == device.vector
<1>1. /\ device.on \in BOOLEAN /\ v \in {Calibrating, Clock} /\ Calibrating # Clock
      /\ latched \in [{Calibrating, Clock} -> Instants \union {Never}]
      /\ Never \notin Instants
  BY TimersTyped
<1>2. /\ instant' \in Instants
      /\ UNCHANGED <<offset, stage, comparator, interrupted, callback, calibrateTicks,
                     calibrateValue, delay, clockTicks, measure>>
      /\ device'.on = device.on /\ device'.vector = v
  BY PassFacts
<1>3. TimingTypes'
  <2>1. device' \in [on : BOOLEAN, due : Instants, vector : {Calibrating, Clock}]
    BY PassFacts
  <2>2. latched' \in [{Calibrating, Clock} -> Instants \union {Never}]
    BY <1>1, <1>2, PassFacts
  <2>3. TimingTypes
    BY DEF TimersKept
  <2> QED BY <1>2, <2>1, <2>2, <2>3 DEF TimingTypes
<1>4. Calls' = Calls
  BY <1>2 DEF Calls
<1>5. StagesKept'
  <2>1. stage \in StartStages => latched' = latched
    <3>1. stage \in StartStages => ~ device.on
      BY StageFacts DEF StartStages, WaitStages
    <3> QED BY <3>1, PassFacts
  <2>2. stage \in StartStages => Waits(Calibrating)' = Waits(Calibrating)
    BY <2>1 DEF Waits
  <2>3. latched'[Clock] # Never => latched[Clock] # Never \/ (device.on /\ v = Clock)
    BY <1>1, PassFacts
  <2>4. device.on /\ v = Clock => stage = "done"
    BY <1>1, StageFacts
  <2> QED BY <1>2, <1>4, <2>2, <2>3, <2>4, StageFacts DEF StagesKept
<1>6. LatchesKept'
  <2>1. device.on => Ago(device.due, instant)' \in 1 .. TimerPeriod
    <3>1. device.on => Phase' \in 0 .. TimerPeriod - 1
      BY PassFacts
    <3>2. Phase' = TimerPeriod - Ago(device.due, instant)' /\ Ago(device.due, instant)' \in Int
      <4>1. device'.due \in Instants
        BY PassFacts
      <4>2. Ago(device'.due, instant') \in Instants /\ TimeWidth \in Nat
        BY <1>2, <4>1, AgoIs, Limits
      <4>3. Ago(device.due, instant)' = Ago(device'.due, instant')
        BY DEF Ago
      <4> QED BY <4>2, <4>3 DEF Phase, Instants
    <3> QED BY <3>1, <3>2, Limits
  <2>2. ASSUME NEW w \in {Calibrating, Clock}, latched'[w] # Never
        PROVE  /\ Ago(instant', latched'[w]) <= MaxLate
               /\ device.on /\ v = w => Ago(instant', latched'[w]) >= Phase'
               /\ device.on /\ v = w /\ (w = Clock \/ Calls > 0) =>
                    Ago(instant', latched'[w]) = Phase'
    <3>1. CASE latched' = latched /\ (device.on => Phase' = Phase + 1)
      <4> DEFINE a == Ago(instant, latched[w])
                 b == Ago(instant', latched[w])
      <4>1. /\ latched[w] # Never /\ b = a + 1 /\ a < MaxLate /\ a \in Nat
            /\ Phase \in Int
        BY <1>1, <2>2, <3>1, PassFacts
      <4>2. /\ device.on /\ v = w => a >= Phase
            /\ device.on /\ v = w /\ (w = Clock \/ Calls > 0) => a = Phase
        BY <4>1 DEF TimersKept, LatchesKept
      <4> HIDE DEF a, b
      <4>3. /\ b <= MaxLate
            /\ device.on /\ v = w => b >= Phase'
            /\ device.on /\ v = w /\ (w = Clock \/ Calls > 0) => b = Phase'
        BY <3>1, <4>1, <4>2, Limits
      <4> QED BY <3>1, <4>3 DEF b
    <3>2. CASE /\ Phase' = 0 /\ Ago(instant', instant') = 0
               /\ latched' = [latched EXCEPT ![v] = instant']
      <4>1. CASE w = v
        <5>1. latched'[w] = instant'
          BY <1>1, <3>2, <4>1
        <5> QED BY <3>2, <5>1, Limits
      <4>2. CASE w # v
        <5>1. latched'[w] = latched[w]
          BY <1>1, <3>2, <4>2
        <5>2. /\ Ago(instant', latched[w]) = Ago(instant, latched[w]) + 1
              /\ Ago(instant, latched[w]) < MaxLate /\ Ago(instant, latched[w]) \in Nat
          BY <1>1, <2>2, <5>1, PassFacts
        <5> QED BY <4>2, <5>1, <5>2, Limits
      <4> QED BY <4>1, <4>2
    <3> QED BY <3>1, <3>2, PassFacts
  <2>3. \A w \in {Calibrating, Clock} : latched'[w] # Never =>
          /\ Ago(instant', latched'[w]) <= MaxLate
          /\ device'.on /\ device'.vector = w => Ago(instant', latched'[w]) >= Phase'
          /\ device'.on /\ device'.vector = w /\ (w = Clock \/ Calls' > 0) =>
               Ago(instant', latched'[w]) = Phase'
    BY <1>2, <1>4, <2>2
  <2> HIDE DEF v
  <2> QED BY <1>2, <2>1, <2>3 DEF LatchesKept
<1> QED BY <1>3, <1>5, <1>6

(* The distance to the tick at which the value was read grows with the time.    *)
LEMMA PassKeepsValue ==
  ASSUME TimersKept, Pass
  PROVE  ValueKept' /\ LastTickKept'
<1>1. /\ calibrateValue \in Instants /\ clockTicks.last \in Instants
      /\ device.vector \in {Calibrating, Clock} /\ Calibrating # Clock
      /\ latched \in [{Calibrating, Clock} -> Instants \union {Never}]
      /\ Never \notin Instants /\ clockTicks.count \in Nat
  BY TimersTyped
<1>2. /\ instant' \in Instants
      /\ UNCHANGED <<stage, interrupted, calibrateTicks, calibrateValue, clockTicks>>
      /\ Phase \in Int /\ Phase' \in Int
      /\ device.on => Phase \in 0 .. TimerPeriod - 1 /\ Phase' \in 0 .. TimerPeriod - 1
  BY PassFacts
<1>3. Calls' = Calls
  BY <1>2 DEF Calls
<1>4. /\ TimeWidth \in Nat /\ TimerPeriod \in Nat /\ MaxLate \in Nat /\ Target \in Nat
      /\ TimerPeriod > MaxLate
      /\ Span(Target - 1) \in Nat /\ TimeWidth > Span(Target - 1) + MaxLate
      /\ Span(Target - 1) = Span(Target - 2) + TimerPeriod /\ Span(Target - 2) \in Nat
      /\ TimeWidth > TimerPeriod + MaxLate /\ Target >= 2
  BY Limits
(* The step, for a value that was read s + p periods after its tick. *)
<1>5. ASSUME NEW t \in Instants, NEW s \in Nat, NEW v \in {Calibrating, Clock},
             device.on, device.vector = v,
             latched[v] # Never => Ago(instant, latched[v]) = Phase,
             s + TimerPeriod + MaxLate < TimeWidth,
             Ago(instant, t) - (s + (IF Waits(v) = 0 THEN 0 ELSE TimerPeriod) + Phase)
               \in -MaxLate .. 0
      PROVE  Ago(instant', t) - (s + (IF Waits(v)' = 0 THEN 0 ELSE TimerPeriod) + Phase')
               \in -MaxLate .. 0
  <2> DEFINE a == Ago(instant, t)
             b == Ago(instant', t)
  <2>0. /\ s \in Nat /\ s + TimerPeriod + MaxLate < TimeWidth
        /\ Phase \in 0 .. TimerPeriod - 1 /\ Phase' \in Int
        /\ TimeWidth \in Nat /\ TimerPeriod \in Nat /\ MaxLate \in Nat
    BY <1>2, <1>4, <1>5
  <2>1. /\ a \in Nat
        /\ a < TimeWidth - 1 => b = a + 1
    BY <1>5, PassFacts
  <2>2. /\ Waits(v) = IF latched[v] = Never THEN 0 ELSE 1
        /\ Waits(v)' = IF latched'[v] = Never THEN 0 ELSE 1
    BY DEF Waits
  <2>3. CASE latched[v] # Never
    <3>1. Phase < MaxLate /\ Phase' = Phase + 1 /\ latched' = latched
      BY <1>2, <1>5, <2>3, PassFacts
    <3> HIDE DEF a, b
    <3>2. a - (s + TimerPeriod + Phase) \in -MaxLate .. 0
      BY <1>5, <2>2, <2>3 DEF a
    <3>3. b - (s + TimerPeriod + Phase') \in -MaxLate .. 0
      BY <2>0, <2>1, <3>1, <3>2
    <3> QED BY <2>2, <2>3, <3>1, <3>3 DEF b
  <2>4. CASE latched[v] = Never
    <3> HIDE DEF a, b
    <3>1. a - (s + 0 + Phase) \in -MaxLate .. 0
      BY <1>5, <2>2, <2>4 DEF a
    <3>2. b = a + 1
      BY <2>0, <2>1, <3>1
    <3>3. CASE latched' = latched /\ Phase' = Phase + 1
      <4>1. b - (s + 0 + Phase') \in -MaxLate .. 0
        BY <2>0, <2>1, <3>1, <3>2, <3>3
      <4> QED BY <2>2, <2>4, <3>3, <4>1 DEF b
    <3>4. CASE /\ Phase = TimerPeriod - 1 /\ Phase' = 0
               /\ latched' = [latched EXCEPT ![v] = instant']
      <4>1. latched'[v] # Never
        BY <1>1, <1>2, <1>5, <3>4
      <4>2. b - (s + TimerPeriod + Phase') \in -MaxLate .. 0
        BY <2>0, <2>1, <3>1, <3>2, <3>4
      <4> QED BY <2>2, <4>1, <4>2 DEF b
    <3> QED BY <1>5, <3>3, <3>4, PassFacts
  <2> QED BY <2>3, <2>4
<1>6. ValueKept'
  <2>1. CASE stage \in WaitStages /\ Calls \in 2 .. Target
    <3> DEFINE k == Calls - 2
    <3>1. k \in Nat /\ k <= Target - 2 /\ Target - 2 \in Nat
      BY <1>4, <2>1
    <3>2. Span(k) \in Nat /\ Span(k) <= Span(Target - 2) /\ Span(k + 1) = Span(k) + TimerPeriod
      BY <3>1, SpanFacts
    <3>3. /\ device.on /\ device.vector = Calibrating
          /\ latched[Calibrating] # Never => Ago(instant, latched[Calibrating]) = Phase
      <4>1. device.on /\ device.vector = Calibrating
        BY <1>4, <2>1, StageFacts, TimersTyped
      <4> QED BY <2>1, <4>1 DEF TimersKept, LatchesKept
    <3>4. /\ Waits(Calibrating) \in {0, 1} /\ Waits(Calibrating)' \in {0, 1}
      BY DEF Waits
    <3>5. Ago(instant, calibrateValue) - (Span(k + Waits(Calibrating)) + Phase) \in -MaxLate .. 0
      BY <2>1 DEF TimersKept, ValueKept
    <3> HIDE DEF k
    <3>6. /\ Span(k + Waits(Calibrating)) =
                Span(k) + (IF Waits(Calibrating) = 0 THEN 0 ELSE TimerPeriod)
          /\ Span(k + Waits(Calibrating)') =
                Span(k) + (IF Waits(Calibrating)' = 0 THEN 0 ELSE TimerPeriod)
      BY <1>4, <3>1, <3>2, <3>4, k + 0 = k
    <3>7. Span(k) + TimerPeriod + MaxLate < TimeWidth
      BY <1>4, <3>2
    <3>8. Ago(instant', calibrateValue)
            - (Span(k) + (IF Waits(Calibrating)' = 0 THEN 0 ELSE TimerPeriod) + Phase')
            \in -MaxLate .. 0
      BY <1>1, <1>5, <3>2, <3>3, <3>5, <3>6, <3>7
    <3>9. Ago(instant', calibrateValue) - (Span(k + Waits(Calibrating)') + Phase') \in -MaxLate .. 0
      BY <3>6, <3>8
    <3> QED BY <1>2, <1>3, <1>4, <2>1, <3>9 DEF ValueKept, k
  <2>2. CASE ~ (stage \in WaitStages /\ Calls \in 2 .. Target)
    BY <1>2, <1>3, <2>2 DEF TimersKept, ValueKept
  <2> QED BY <2>1, <2>2
<1>7. LastTickKept'
  <2>1. CASE clockTicks.count > 0
    <3>1. /\ device.on /\ device.vector = Clock
          /\ latched[Clock] # Never => Ago(instant, latched[Clock]) = Phase
      <4>1. device.on /\ device.vector = Clock
        BY <2>1, StageFacts
      <4> QED BY <4>1 DEF TimersKept, LatchesKept
    <3>2. Waits(Clock) \in {0, 1} /\ Waits(Clock)' \in {0, 1}
      BY DEF Waits
    <3>3. Span(0) = 0 /\ Span(1) = TimerPeriod
      BY SpanFacts, 0 \in Nat
    <3>4. /\ Span(Waits(Clock)) = 0 + (IF Waits(Clock) = 0 THEN 0 ELSE TimerPeriod)
          /\ Span(Waits(Clock)') = 0 + (IF Waits(Clock)' = 0 THEN 0 ELSE TimerPeriod)
      BY <1>4, <3>2, <3>3
    <3>5. Ago(instant, clockTicks.last) - (Span(Waits(Clock)) + Phase) \in -MaxLate .. 0
      BY <2>1 DEF TimersKept, LastTickKept
    <3>6. Ago(instant', clockTicks.last)
            - (0 + (IF Waits(Clock)' = 0 THEN 0 ELSE TimerPeriod) + Phase') \in -MaxLate .. 0
      <4>1. 0 + TimerPeriod + MaxLate < TimeWidth /\ 0 \in Nat
        BY <1>4
      <4> QED BY <1>1, <1>5, <3>1, <3>4, <3>5, <4>1
    <3>7. Ago(instant', clockTicks.last) - (Span(Waits(Clock)') + Phase') \in -MaxLate .. 0
      BY <3>4, <3>6
    <3> QED BY <1>2, <3>7 DEF LastTickKept
  <2>2. CASE ~ (clockTicks.count > 0)
    BY <1>2, <2>2 DEF LastTickKept
  <2> QED BY <2>1, <2>2
<1> QED BY <1>6, <1>7

LEMMA PassKeeps ==
  ASSUME TimersKept, Pass
  PROVE  TimersKept'
<1>1. TimersMeasure'
  BY MeasuresStay DEF TimersKept, Pass, timings
<1> QED BY <1>1, PassKeepsStages, PassKeepsValue, DelayPasses DEF TimersKept

(* A call of the calibration: the second notes the time, the last measures.     *)
LEMMA CallbackKeeps ==
  ASSUME TimersKept, stage # "failed", Callback
  PROVE  TimersKept'
<1>1. /\ interrupted = Never /\ latched[Calibrating] # Never /\ callback # "none"
      /\ latched' = [latched EXCEPT ![Calibrating] = Never]
      /\ calibrateValue' = IF calibrateTicks = 1 THEN instant
                           ELSE IF calibrateTicks = Target THEN Ago(instant, calibrateValue)
                           ELSE calibrateValue
      /\ interrupted' = instant
      /\ UNCHANGED <<instant, offset, stage, comparator, device, callback, calibrateTicks,
                     delay, clockTicks, measure>>
  BY DEF Callback, timings, Begins, Ends, Elapsed, Ago
<1>2. /\ instant \in Instants /\ calibrateTicks \in Nat /\ calibrateValue \in Instants
      /\ latched \in [{Calibrating, Clock} -> Instants \union {Never}]
      /\ latched[Calibrating] \in Instants /\ Never \notin Instants /\ Calibrating # Clock
  BY <1>1, TimersTyped
<1>3. latched' \in [{Calibrating, Clock} -> Instants \union {Never}]
      /\ latched'[Calibrating] = Never /\ latched'[Clock] = latched[Clock]
  BY <1>1, <1>2
<1>4. TimingTypes'
  <2>1. calibrateValue' \in Instants
    BY <1>1, <1>2, AgoIs
  <2>2. TimingTypes
    BY DEF TimersKept
  <2> QED BY <1>1, <1>2, <1>3, <2>1, <2>2 DEF TimingTypes
<1>5. /\ Calls = calibrateTicks /\ Calls' = calibrateTicks + 1
      /\ Waits(Calibrating) = 1 /\ Waits(Calibrating)' = 0 /\ Waits(Clock)' = Waits(Clock)
      /\ Phase' = Phase
  <2>1. Calls = calibrateTicks /\ Calls' = calibrateTicks + 1
    BY <1>1, <1>2 DEF Calls
  <2>2. /\ Waits(Calibrating) = 1 /\ Waits(Calibrating)' = 0 /\ Waits(Clock)' = Waits(Clock)
    BY <1>1, <1>3 DEF Waits
  <2> QED BY <1>1, <2>1, <2>2 DEF Phase, Ago
<1>6. stage \in StartStages \union WaitStages /\ stage # "done"
  BY <1>1, StageFacts DEF StartStages, WaitStages
<1>7. StagesKept'
  <2>1. stage \in StartStages => Calls' + Waits(Calibrating)' <= 1
    BY <1>2, <1>5, StageFacts
  <2> QED BY <1>1, <1>3, <1>6, <2>1, StageFacts DEF StagesKept
<1>8. LatchesKept'
  <2>1. device.on => Ago(device.due, instant) \in 1 .. TimerPeriod
    BY DEF TimersKept, LatchesKept
  <2>2. latched[Clock] # Never =>
          /\ Ago(instant, latched[Clock]) <= MaxLate
          /\ device.on /\ device.vector = Clock => Ago(instant, latched[Clock]) = Phase
    BY <1>2 DEF TimersKept, LatchesKept
  <2>3. Phase \in Int /\ (latched[Clock] # Never => Ago(instant, latched[Clock]) \in Int)
    <3>1. Ago(device.due, instant) \in Instants
      BY <1>2, TimersTyped, AgoIs
    <3>2. latched[Clock] # Never => Ago(instant, latched[Clock]) \in Instants
      BY <1>2, AgoIs
    <3> QED BY <3>1, <3>2, Limits DEF Phase, Instants
  <2> QED BY <1>1, <1>3, <1>5, <2>1, <2>2, <2>3 DEF LatchesKept
<1>9. ValueKept'
  <2> SUFFICES ASSUME stage \in WaitStages
               PROVE  /\ Calls' \in 2 .. Target =>
                           Ago(instant', calibrateValue')
                             - (Span(Calls' - 2 + Waits(Calibrating)') + Phase') \in -MaxLate .. 0
                      /\ Calls' > Target => calibrateValue' - Span(Target - 1) \in -MaxLate .. MaxLate
    BY <1>1 DEF ValueKept
  <2>1. /\ Target \in Nat /\ Target >= 2 /\ MaxLate \in Nat
        /\ Span(0) = 0 /\ Span(Target - 1) \in Nat
    BY Limits, SpanFacts, 0 \in Nat
  <2>2. /\ calibrateTicks <= Target => device.on
        /\ device.vector = Calibrating
    BY StageFacts
  <2>3. calibrateTicks \in 1 .. Target => Phase \in 0 .. MaxLate
    <3> SUFFICES ASSUME calibrateTicks \in 1 .. Target PROVE Phase \in 0 .. MaxLate
      OBVIOUS
    <3>1. Ago(instant, latched[Calibrating]) = Phase /\ Phase <= MaxLate
      <4>1. device.on /\ device.vector = Calibrating /\ Calls > 0
        BY <1>2, <1>5, <2>2
      <4> QED BY <1>1, <4>1 DEF TimersKept, LatchesKept
    <3>2. Ago(instant, latched[Calibrating]) \in Nat
      BY <1>2, AgoNat
    <3> QED BY <2>1, <3>1, <3>2
  <2>4. calibrateTicks \in 2 .. Target =>
          Ago(instant, calibrateValue) - (Span(calibrateTicks - 1) + Phase) \in -MaxLate .. 0
    <3> SUFFICES ASSUME calibrateTicks \in 2 .. Target
                 PROVE  Ago(instant, calibrateValue) - (Span(calibrateTicks - 1) + Phase)
                          \in -MaxLate .. 0
      OBVIOUS
    <3>1. (calibrateTicks - 2) + 1 = calibrateTicks - 1
      BY <1>2
    <3>2. Ago(instant, calibrateValue) - (Span(Calls - 2 + Waits(Calibrating)) + Phase)
            \in -MaxLate .. 0
      BY <1>5 DEF TimersKept, ValueKept
    <3> QED BY <1>5, <3>1, <3>2
  <2>5. CASE calibrateTicks = 0
    BY <1>5, <2>1, <2>5
  <2>6. CASE calibrateTicks = 1
    <3>1. Ago(instant', calibrateValue') = 0
      BY <1>1, <1>2, <2>6, DueIs
    <3>2. Calls' = 2 /\ Span(Calls' - 2 + Waits(Calibrating)') = 0
      BY <1>5, <2>1, <2>6
    <3>3. 0 - (0 + Phase) \in -MaxLate .. 0
      BY <2>1, <2>3, <2>6
    <3> QED BY <1>5, <2>1, <3>1, <3>2, <3>3
  <2>7. CASE calibrateTicks \in 2 .. Target - 1
    <3>1. calibrateValue' = calibrateValue /\ calibrateTicks \in 2 .. Target
      BY <1>1, <2>1, <2>7
    <3>2. Calls' - 2 + Waits(Calibrating)' = calibrateTicks - 1 /\ ~ (Calls' > Target)
      BY <1>5, <1>2, <2>1, <2>7
    <3> QED BY <1>1, <1>5, <2>4, <3>1, <3>2
  <2>8. CASE calibrateTicks = Target
    <3>1. calibrateValue' = Ago(instant, calibrateValue) /\ Ago(instant, calibrateValue) \in Nat
      BY <1>1, <1>2, <2>1, <2>8, AgoNat
    <3>2. calibrateValue' - Span(Target - 1) \in -MaxLate .. MaxLate
      <4> DEFINE x == calibrateValue'
                 y == Span(Target - 1)
      <4>1. x - (y + Phase) \in -MaxLate .. 0 /\ Phase \in 0 .. MaxLate /\ x \in Nat /\ y \in Nat
        BY <1>2, <2>1, <2>3, <2>4, <2>8, <3>1
      <4> HIDE DEF x, y
      <4>2. x - y \in -MaxLate .. MaxLate
        BY <2>1, <4>1
      <4> QED BY <4>2 DEF x, y
    <3>3. ~ (Calls' \in 2 .. Target)
      BY <1>5, <2>1, <2>8
    <3> QED BY <3>2, <3>3
  <2>9. CASE calibrateTicks > Target
    <3>1. calibrateValue' = calibrateValue /\ Calls > Target /\ ~ (Calls' \in 2 .. Target)
      BY <1>1, <1>2, <1>5, <2>1, <2>9
    <3>2. calibrateValue - Span(Target - 1) \in -MaxLate .. MaxLate
      BY <3>1 DEF TimersKept, ValueKept
    <3> QED BY <3>1, <3>2
  <2> QED BY <1>2, <2>1, <2>5, <2>6, <2>7, <2>8, <2>9
<1>10. LastTickKept' /\ DelayKept'
  <2>1. clockTicks.count > 0 => stage = "done"
    BY StageFacts
  <2>2. LastTickKept'
    BY <1>1, <1>6, <2>1 DEF LastTickKept
  <2>3. DelayKept'
    BY <1>1, <1>6 DEF DelayKept, StartStages, WaitStages
  <2> QED BY <2>2, <2>3
<1>11. TimersMeasure'
  BY <1>1, MeasuresStay DEF TimersKept
<1> QED BY <1>4, <1>7, <1>8, <1>9, <1>10, <1>11 DEF TimersKept

LEMMA CallbackEndsKeeps ==
  ASSUME TimersKept, CallbackEnds
  PROVE  TimersKept'
<1>1. /\ interrupted # Never /\ interrupted' = Never /\ calibrateTicks' = calibrateTicks + 1
      /\ device' = IF calibrateTicks >= Target THEN [device EXCEPT !.on = FALSE] ELSE device
      /\ UNCHANGED <<instant, offset, stage, comparator, latched, callback, calibrateValue,
                     delay, clockTicks, measure>>
  BY DEF CallbackEnds, Stopped, timerHardware, timings
<1>2. /\ calibrateTicks \in Nat /\ Target \in Nat /\ Target >= 2
      /\ device \in [on : BOOLEAN, due : Instants, vector : {Calibrating, Clock}]
      /\ device.on \in BOOLEAN
  BY TimersTyped, Limits
<1>3. /\ device' \in [on : BOOLEAN, due : Instants, vector : {Calibrating, Clock}]
      /\ device'.due = device.due /\ device'.vector = device.vector
      /\ device'.on <=> device.on /\ calibrateTicks < Target
  <2>1. CASE calibrateTicks >= Target
    <3>1. device' = [device EXCEPT !.on = FALSE]
      BY <1>1, <2>1
    <3>2. /\ device' \in [on : BOOLEAN, due : Instants, vector : {Calibrating, Clock}]
          /\ device'.due = device.due /\ device'.vector = device.vector
      BY <1>2, <3>1
    <3>3. device'.on = FALSE
      BY <1>2, <3>1
    <3>4. ~ (calibrateTicks < Target)
      BY <1>2, <2>1
    <3> QED BY <3>2, <3>3, <3>4
  <2>2. CASE ~ (calibrateTicks >= Target)
    BY <1>1, <1>2, <2>2
  <2> QED BY <2>1, <2>2
<1>4. TimingTypes'
  <2>1. TimingTypes
    BY DEF TimersKept
  <2> QED BY <1>1, <1>2, <1>3, <2>1 DEF TimingTypes
<1>5. /\ Calls' = Calls /\ Waits(Calibrating)' = Waits(Calibrating)
      /\ Waits(Clock)' = Waits(Clock) /\ Phase' = Phase
  BY <1>1, <1>2, <1>3 DEF Calls, Waits, Phase, Ago
<1>6. stage \in StartStages \union WaitStages /\ stage # "done"
  BY <1>1, StageFacts DEF StartStages, WaitStages
<1>7. StagesKept'
  <2>1. stage \in WaitStages => (device'.on <=> calibrateTicks' <= Target)
    BY <1>1, <1>2, <1>3, StageFacts
  <2> QED BY <1>1, <1>3, <1>5, <1>6, <2>1, StageFacts DEF StagesKept
<1>8. LatchesKept'
  BY <1>1, <1>3, <1>5 DEF TimersKept, LatchesKept, Ago
<1>9. ValueKept'
  BY <1>1, <1>5 DEF TimersKept, ValueKept
<1>10. LastTickKept' /\ DelayKept'
  <2>1. clockTicks.count > 0 => stage = "done"
    BY StageFacts
  <2>2. LastTickKept'
    BY <1>1, <1>6, <2>1 DEF LastTickKept
  <2>3. DelayKept'
    BY <1>1, <1>6 DEF DelayKept, StartStages, WaitStages
  <2> QED BY <2>2, <2>3
<1>11. TimersMeasure'
  BY <1>1, MeasuresStay DEF TimersKept
<1> QED BY <1>4, <1>7, <1>8, <1>9, <1>10, <1>11 DEF TimersKept

LEMMA UnhandledKeeps ==
  ASSUME TimersKept, Unhandled
  PROVE  TimersKept'
<1>1. /\ callback = "none" /\ latched' = [latched EXCEPT ![Calibrating] = Never]
      /\ UNCHANGED <<instant, offset, stage, comparator, device, interrupted, callback,
                     calibrateTicks, calibrateValue, delay, clockTicks, measure>>
  BY DEF Unhandled, calibration, timings
<1>2. /\ latched \in [{Calibrating, Clock} -> Instants \union {Never}]
      /\ Never \notin Instants /\ Calibrating # Clock
  BY TimersTyped
<1>3. latched' \in [{Calibrating, Clock} -> Instants \union {Never}]
      /\ latched'[Calibrating] = Never /\ latched'[Clock] = latched[Clock]
  BY <1>1, <1>2
<1>4. TimingTypes'
  <2>1. TimingTypes
    BY DEF TimersKept
  <2> QED BY <1>1, <1>3, <2>1 DEF TimingTypes
<1>5. stage \notin StartStages \union WaitStages
  BY <1>1, StageFacts
<1>6. /\ Calls' = Calls /\ Waits(Clock)' = Waits(Clock) /\ Phase' = Phase
  BY <1>1, <1>3 DEF Calls, Waits, Phase, Ago
<1>7. StagesKept'
  BY <1>1, <1>3, <1>5, StageFacts DEF StagesKept
<1>8. LatchesKept'
  <2>1. /\ device.on => Ago(device.due, instant) \in 1 .. TimerPeriod
        /\ latched[Clock] # Never =>
             /\ Ago(instant, latched[Clock]) <= MaxLate
             /\ device.on /\ device.vector = Clock =>
                  /\ Ago(instant, latched[Clock]) >= Phase
                  /\ Ago(instant, latched[Clock]) = Phase
    BY DEF TimersKept, LatchesKept
  <2> QED BY <1>1, <1>3, <1>6, <2>1 DEF LatchesKept
<1>9. ValueKept'
  BY <1>1, <1>5 DEF ValueKept
<1>10. LastTickKept' /\ DelayKept'
  BY <1>1, <1>6 DEF TimersKept, LastTickKept, DelayKept, Ago, Counter
<1>11. TimersMeasure'
  BY <1>1, MeasuresStay DEF TimersKept
<1> QED BY <1>4, <1>7, <1>8, <1>9, <1>10, <1>11 DEF TimersKept

(* A tick of the clock measures the time since the one before.                *)
LEMMA ClockTickKeeps ==
  ASSUME TimersKept, ClockTick
  PROVE  TimersKept'
<1>1. /\ latched[Clock] # Never /\ latched' = [latched EXCEPT ![Clock] = Never]
      /\ clockTicks' = [count |-> clockTicks.count + 1, last |-> instant]
      /\ measure' = IF clockTicks.count < 2 THEN NoMeasure
                    ELSE [of |-> "clock", meant |-> TimerPeriod, is |-> Ago(instant, clockTicks.last)]
      /\ UNCHANGED <<instant, offset, stage, comparator, device, interrupted, callback,
                     calibrateTicks, calibrateValue, delay>>
  BY DEF ClockTick, calibration, Elapsed, Ago
<1>2. /\ latched \in [{Calibrating, Clock} -> Instants \union {Never}]
      /\ latched[Clock] \in Instants /\ instant \in Instants
      /\ Never \notin Instants /\ Calibrating # Clock
      /\ clockTicks.count \in Nat /\ clockTicks.last \in Instants
  BY <1>1, TimersTyped
<1>3. latched' \in [{Calibrating, Clock} -> Instants \union {Never}]
      /\ latched'[Clock] = Never /\ latched'[Calibrating] = latched[Calibrating]
  BY <1>1, <1>2
<1>4. clockTicks' \in [count : Nat, last : Instants]
      /\ clockTicks'.count > 0 /\ clockTicks'.last = instant
  BY <1>1, <1>2
<1>5. stage = "done" /\ device.on /\ device.vector = Clock
      /\ stage \notin StartStages \union WaitStages
  BY <1>1, StageFacts DEF StartStages, WaitStages
<1>6. Phase' = Phase /\ Waits(Clock)' = 0 /\ Waits(Clock) = 1 /\ Calls' = Calls
  BY <1>1, <1>3 DEF Phase, Ago, Waits, Calls
<1>7. Phase \in 0 .. MaxLate /\ MaxLate \in Nat
  <2>1. Phase = Ago(instant, latched[Clock]) /\ Ago(instant, latched[Clock]) <= MaxLate
    BY <1>1, <1>5 DEF TimersKept, LatchesKept
  <2>2. Ago(instant, latched[Clock]) \in Nat
    BY <1>2, AgoNat
  <2> QED BY <2>1, <2>2, Limits
<1>8. TimingTypes'
  <2>1. TimingTypes
    BY DEF TimersKept
  <2> QED BY <1>1, <1>3, <1>4, <2>1 DEF TimingTypes
<1>9. StagesKept'
  BY <1>1, <1>3, <1>5, StageFacts DEF StagesKept
<1>10. LatchesKept'
  <2>1. /\ device.on => Ago(device.due, instant) \in 1 .. TimerPeriod
        /\ latched[Calibrating] # Never => Ago(instant, latched[Calibrating]) <= MaxLate
    BY DEF TimersKept, LatchesKept
  <2> QED BY <1>1, <1>2, <1>3, <1>5, <1>6, <2>1 DEF LatchesKept
<1>11. ValueKept' /\ DelayKept'
  BY <1>1, <1>5 DEF ValueKept, DelayKept
<1>12. LastTickKept'
  <2>1. Ago(instant, instant) = 0
    BY <1>2, DueIs
  <2>2. Span(0) = 0
    BY SpanFacts, 0 \in Nat
  <2>3. 0 - (0 + Phase) \in -MaxLate .. 0
    BY <1>7
  <2> QED BY <1>1, <1>4, <1>6, <2>1, <2>2, <2>3 DEF LastTickKept
<1>13. TimersMeasure'
  <2>1. TimersMeasure
    BY DEF TimersKept
  <2>2. CASE clockTicks.count < 2
    <3>1. measure'.of = "nothing"
      BY <1>1, <2>2 DEF NoMeasure
    <3> QED BY <1>1, <2>1, <3>1 DEF TimersMeasure, Calibrated, SleptEnough, ClockEven,
                                    ComparatorHolds
  <2>3. CASE ~ (clockTicks.count < 2)
    <3>1. /\ measure'.of = "clock" /\ measure'.meant = TimerPeriod
          /\ measure'.is = Ago(instant, clockTicks.last)
      BY <1>1, <2>3
    <3>2. clockTicks.count > 0
      BY <1>2, <2>3
    <3>3. Ago(instant, clockTicks.last) - (TimerPeriod + Phase) \in -MaxLate .. 0
      <4>1. Span(1) = TimerPeriod
        BY SpanFacts, 0 \in Nat
      <4> QED BY <1>6, <3>2, <4>1 DEF TimersKept, LastTickKept
    <3>4. Ago(instant, clockTicks.last) - TimerPeriod \in -MaxLate .. MaxLate
      <4> DEFINE x == Ago(instant, clockTicks.last)
      <4>1. x \in Nat /\ x - (TimerPeriod + Phase) \in -MaxLate .. 0 /\ TimerPeriod \in Nat
        BY <1>2, <3>3, AgoNat, Limits
      <4> HIDE DEF x
      <4>2. x - TimerPeriod \in -MaxLate .. MaxLate
        BY <1>7, <4>1
      <4> QED BY <4>2 DEF x
    <3>5. Near'
      BY <3>1, <3>4 DEF Near
    <3> QED BY <1>1, <2>1, <3>1, <3>5 DEF TimersMeasure, Calibrated, SleptEnough, ClockEven,
                                          ComparatorHolds
  <2> QED BY <2>2, <2>3
<1> QED BY <1>8, <1>9, <1>10, <1>11, <1>12, <1>13 DEF TimersKept

(* What the processor's code does while no interrupt is of importance and the   *)
(* timer stands still keeps the rest.                                        *)
LEMMA StepKeeps ==
  ASSUME TimersKept,
         UNCHANGED <<instant, device, latched, interrupted, clockTicks>>,
         offset' \in 0 .. CounterMax, calibrateTicks' \in Nat, calibrateValue' \in Instants,
         delay' \in [from : Instants, start : 0 .. CounterMax, delta : Nat, target : Int],
         ~ device.on, interrupted = Never, stage # "done", stage' # "done",
         stage' \notin WaitStages,
         callback' # "none" => stage' \in StartStages \union {"failed"},
         stage' \in StartStages => calibrateTicks' = 0 /\ callback' # "none",
         DelayKept', TimersMeasure'
  PROVE  TimersKept'
<1>1. TimingTypes'
  <2>1. TimingTypes
    BY DEF TimersKept
  <2> QED BY <2>1 DEF TimingTypes
<1>2. StagesKept'
  <2>1. stage' \in StartStages => Calls' + Waits(Calibrating)' <= 1
    <3> SUFFICES ASSUME stage' \in StartStages PROVE Calls' + Waits(Calibrating)' <= 1
      OBVIOUS
    <3>1. Calls' = 0 /\ Waits(Calibrating)' \in {0, 1}
      BY DEF Calls, Waits
    <3> QED BY <3>1
  <2>2. latched[Clock] = Never /\ ~ (clockTicks.count > 0)
    BY StageFacts
  <2> QED BY <2>1, <2>2 DEF StagesKept
<1>3. LatchesKept'
  <2>1. LatchesKept
    BY DEF TimersKept
  <2> QED BY <2>1 DEF LatchesKept, Ago
<1>4. ValueKept'
  BY DEF ValueKept
<1>5. LastTickKept'
  <2>1. ~ (clockTicks.count > 0)
    BY StageFacts
  <2> QED BY <2>1 DEF LastTickKept
<1> QED BY <1>1, <1>2, <1>3, <1>4, <1>5 DEF TimersKept

LEMMA HpetInitKeeps ==
  ASSUME TimersKept, HpetInit
  PROVE  TimersKept'
<1>1. /\ stage = "hpet" /\ stage' \in {"tsc", "lapic"}
      /\ UNCHANGED <<instant, offset, device, latched, interrupted, callback, calibrateTicks,
                     calibrateValue, delay, clockTicks, measure>>
  BY DEF HpetInit, calibration, timings
<1>2. /\ interrupted = Never /\ ~ device.on /\ callback = "none"
      /\ stage' \notin WaitStages /\ stage' \notin StartStages
  BY <1>1, StageFacts DEF StartStages, WaitStages
<1>3. DelayKept'
  BY <1>1 DEF DelayKept
<1>4. TimersMeasure'
  <2>1. CASE comparator' = comparator
    BY <1>1, <2>1, MeasuresStay DEF TimersKept
  <2>2. ASSUME NEW c \in Comparators, Best(c).periodic, comparator' = Best(c)
        PROVE  TimersMeasure'
    <3>1. comparator' \in Considered(c, Len(c)) /\ comparator'.periodic
      BY <2>2, BestConsidered
    <3>2. ComparatorHolds'
      BY <3>1 DEF Considered, ComparatorHolds
    <3>3. Calibrated' /\ SleptEnough' /\ ClockEven'
      BY <1>1 DEF TimersKept, TimersMeasure, Calibrated, SleptEnough, ClockEven, Near
    <3> QED BY <3>2, <3>3 DEF TimersMeasure
  <2> QED BY <2>1, <2>2 DEF HpetInit
<1> QED BY <1>1, <1>2, <1>3, <1>4, TimersTyped, StepKeeps

LEMMA PrepareKeeps ==
  ASSUME TimersKept, NEW u \in Users, Prepare(u)
  PROVE  TimersKept'
<1>1. /\ interrupted = Never /\ stage = u /\ stage' \in StartStages /\ callback' = u
      /\ calibrateTicks' = 0 /\ calibrateValue' = 0
      /\ UNCHANGED <<instant, offset, device, latched, interrupted, comparator,
                     delay, clockTicks, measure>>
  BY DEF Prepare, Does, Starting, StartStages, timerHardware, timings
<1>2. u # "none" /\ stage \notin WaitStages \union {"done"} /\ stage' \notin WaitStages \union {"done"}
      /\ stage' \notin {"overflow", "delaying"}
  BY <1>1 DEF Users, StartStages, WaitStages
<1>3. ~ device.on
  BY <1>2, StageFacts
<1>4. 0 \in Nat /\ 0 \in Instants
  BY Limits DEF Instants
<1>5. DelayKept' /\ TimersMeasure'
  BY <1>1, <1>2, MeasuresStay DEF DelayKept, TimersKept
<1> QED BY <1>1, <1>2, <1>3, <1>4, <1>5, TimersTyped, StepKeeps

(* A timer begins anew: nothing that waits is older than the start.            *)
LEMMA StartFacts ==
  ASSUME TimersKept, NEW v \in {Calibrating, Clock}, Start(v), instant' = instant
  PROVE  /\ device' \in [on : BOOLEAN, due : Instants, vector : {Calibrating, Clock}]
         /\ device'.on /\ device'.vector = v /\ Phase' = 0
         /\ Ago(device'.due, instant') \in 1 .. TimerPeriod
         /\ latched' \in [{Calibrating, Clock} -> Instants \union {Never}]
         /\ \A w \in {Calibrating, Clock} : w # v => latched'[w] = latched[w]
         /\ latched'[v] = latched[v] \/ (latched[v] = Never /\ latched'[v] = instant)
         /\ Ago(instant, instant) = 0
<1>1. /\ instant \in Instants /\ Calibrating # Clock
      /\ latched \in [{Calibrating, Clock} -> Instants \union {Never}]
  BY TimersTyped
<1>2. /\ (instant + TimerPeriod) % TimeWidth \in Instants
      /\ Ago((instant + TimerPeriod) % TimeWidth, instant) = TimerPeriod
      /\ Ago(instant, instant) = 0
  BY <1>1, DueIs
<1>3. /\ TimerPeriod \in Nat /\ TimerPeriod > 0
  BY Limits
<1> DEFINE due == (instant + TimerPeriod) % TimeWidth
<1>4. device' = [on |-> TRUE, due |-> due, vector |-> v]
  BY DEF Start
<1>5. due \in Instants /\ Ago(due, instant) = TimerPeriod
  BY <1>2
<1> HIDE DEF due
<1>6. /\ device' \in [on : BOOLEAN, due : Instants, vector : {Calibrating, Clock}]
      /\ device'.on /\ device'.vector = v /\ device'.due = due
  BY <1>4, <1>5
<1>7. /\ Phase' = 0 /\ Ago(device'.due, instant') \in 1 .. TimerPeriod
  <2>1. Ago(device'.due, instant') = TimerPeriod
    BY <1>5, <1>6
  <2>2. Phase' = TimerPeriod - Ago(device'.due, instant')
    BY DEF Phase, Ago
  <2> QED BY <1>3, <2>1, <2>2
<1>8. latched' = latched \/ latched' = Latched(v, instant)
  BY DEF Start
<1>9. latched' = latched \/ (latched[v] = Never /\ latched' = [latched EXCEPT ![v] = instant])
  BY <1>8 DEF Latched
<1>10. /\ latched' \in [{Calibrating, Clock} -> Instants \union {Never}]
       /\ \A w \in {Calibrating, Clock} : w # v => latched'[w] = latched[w]
       /\ latched'[v] = latched[v] \/ (latched[v] = Never /\ latched'[v] = instant)
  BY <1>1, <1>9
<1> QED BY <1>2, <1>6, <1>7, <1>10

LEMMA StartCalibrationKeeps ==
  ASSUME TimersKept, NEW u \in Users, StartCalibration(u)
  PROVE  TimersKept'
<1>1. /\ interrupted = Never /\ stage \in StartStages
      /\ UNCHANGED <<instant, offset, interrupted, comparator, callback, calibrateTicks,
                     calibrateValue, delay, clockTicks, measure>>
  BY DEF StartCalibration, Does, Starting, StartStages, calibration, timings
<1>2. /\ stage # "done" /\ stage \notin WaitStages /\ stage \in StartStages \union WaitStages
      /\ stage \notin WaitStages \union {"done"}
  BY <1>1 DEF StartStages, WaitStages
<1>3. /\ ~ device.on /\ callback # "none" /\ latched[Clock] = Never /\ ~ (clockTicks.count > 0)
      /\ Calls + Waits(Calibrating) <= 1 /\ Calls \in Nat
  BY <1>1, <1>2, StageFacts
<1>4. TimersMeasure'
  BY <1>1, MeasuresStay DEF TimersKept
<1>5. CASE stage' = "failed" /\ UNCHANGED <<device, latched>>
  <2>1. DelayKept' /\ stage' \notin WaitStages \union StartStages \union {"done"}
    BY <1>5 DEF DelayKept, WaitStages, StartStages
  <2> QED BY <1>1, <1>2, <1>3, <1>4, <1>5, <2>1, TimersTyped, StepKeeps
<1>6. CASE stage' \in WaitStages /\ Start(Calibrating)
  <2>1. /\ stage' \notin StartStages /\ stage' # "done" /\ stage' \notin {"overflow", "delaying"}
    BY <1>6 DEF StartStages, WaitStages
  <2>2. /\ device' \in [on : BOOLEAN, due : Instants, vector : {Calibrating, Clock}]
        /\ device'.on /\ device'.vector = Calibrating /\ Phase' = 0
        /\ Ago(device'.due, instant') \in 1 .. TimerPeriod
        /\ latched' \in [{Calibrating, Clock} -> Instants \union {Never}]
        /\ latched'[Clock] = Never
        /\ \/ latched'[Calibrating] = latched[Calibrating]
           \/ latched[Calibrating] = Never /\ latched'[Calibrating] = instant
        /\ Ago(instant, instant) = 0
    BY <1>1, <1>3, <1>6, StartFacts, TimersTyped
  <2>3. TimingTypes'
    <3>1. TimingTypes
      BY DEF TimersKept
    <3> QED BY <1>1, <2>2, <3>1 DEF TimingTypes
  <2>4. Calls' = Calls /\ Calls = calibrateTicks /\ calibrateTicks <= 1
    <3>1. Calls' = Calls /\ Calls = calibrateTicks
      BY <1>1, TimersTyped DEF Calls
    <3> QED BY <1>3, <3>1, StageFacts
  <2>5. StagesKept'
    <3>1. calibrateTicks' <= Target
      BY <1>1, <2>4, Limits, TimersTyped
    <3> QED BY <1>1, <1>3, <1>6, <2>1, <2>2, <3>1 DEF StagesKept
  <2>6. LatchesKept'
    <3>1. latched[Calibrating] # Never =>
            /\ Ago(instant, latched[Calibrating]) <= MaxLate
            /\ Ago(instant, latched[Calibrating]) \in Nat /\ Calls = 0
      <4>1. latched[Calibrating] # Never => Ago(instant, latched[Calibrating]) <= MaxLate
        BY DEF TimersKept, LatchesKept
      <4>2. latched[Calibrating] # Never => Ago(instant, latched[Calibrating]) \in Nat
        BY TimersTyped, AgoNat
      <4>3. latched[Calibrating] # Never => Calls = 0
        BY <1>3 DEF Waits
      <4> QED BY <4>1, <4>2, <4>3
    <3>2. latched'[Calibrating] # Never =>
            /\ Ago(instant', latched'[Calibrating]) <= MaxLate
            /\ Ago(instant', latched'[Calibrating]) >= Phase'
            /\ Calls' > 0 => Ago(instant', latched'[Calibrating]) = Phase'
      <4>1. CASE latched'[Calibrating] = latched[Calibrating]
        BY <1>1, <2>2, <2>4, <3>1, <4>1
      <4>2. CASE latched'[Calibrating] = instant
        BY <1>1, <2>2, <4>2, Limits
      <4> QED BY <2>2, <4>1, <4>2
    <3>3. Calibrating # Clock
      BY TimersTyped
    <3> QED BY <2>2, <3>2, <3>3 DEF LatchesKept
  <2>7. ValueKept'
    <3>1. ~ (Calls' \in 2 .. Target) /\ ~ (Calls' > Target)
      BY <1>3, <2>4, Limits
    <3> QED BY <3>1 DEF ValueKept
  <2>8. LastTickKept' /\ DelayKept'
    BY <1>1, <1>3, <2>1 DEF LastTickKept, DelayKept
  <2> QED BY <1>4, <2>3, <2>5, <2>6, <2>7, <2>8 DEF TimersKept
<1> QED BY <1>5, <1>6 DEF StartCalibration, Does, Waiting, WaitStages

LEMMA FinishCalibrationKeeps ==
  ASSUME TimersKept, NEW u \in Users, FinishCalibration(u)
  PROVE  TimersKept'
<1>1. /\ calibrateTicks > Target /\ interrupted = Never /\ stage \in WaitStages
      /\ stage' \in {"lapic", "delay"}
      /\ measure' = [of |-> "calibration", meant |-> Span(Target - 1), is |-> calibrateValue]
      /\ callback' = "none" /\ calibrateTicks' = 0 /\ calibrateValue' = 0
      /\ UNCHANGED <<instant, offset, device, latched, interrupted, comparator, delay, clockTicks>>
  BY DEF FinishCalibration, Does, Waiting, Following, WaitStages, timerHardware, Span
<1>2. /\ stage # "done" /\ stage' \notin WaitStages \union StartStages \union {"done"}
      /\ stage' \notin {"overflow", "delaying"}
  BY <1>1 DEF StartStages, WaitStages
<1>3. ~ device.on /\ Calls > Target
  <2>1. Calls = calibrateTicks
    BY <1>1, TimersTyped DEF Calls
  <2>2. ~ (calibrateTicks <= Target)
    BY <1>1, TimersTyped, Limits
  <2> QED BY <1>1, <2>1, <2>2, StageFacts
<1>4. 0 \in Nat /\ 0 \in Instants
  BY Limits DEF Instants
<1>5. TimersMeasure'
  <2>1. measure'.of = "calibration" /\ measure'.meant = Span(Target - 1) /\ measure'.is = calibrateValue
    BY <1>1
  <2>2. calibrateValue - Span(Target - 1) \in -MaxLate .. MaxLate
    BY <1>1, <1>3 DEF TimersKept, ValueKept
  <2>3. Near'
    BY <2>1, <2>2 DEF Near
  <2>4. ComparatorHolds'
    BY <1>1 DEF TimersKept, TimersMeasure, ComparatorHolds
  <2> QED BY <2>1, <2>3, <2>4 DEF TimersMeasure, Calibrated, SleptEnough, ClockEven
<1>6. DelayKept'
  BY <1>2 DEF DelayKept
<1> QED BY <1>1, <1>2, <1>3, <1>4, <1>5, <1>6, TimersTyped, StepKeeps

LEMMA BeginDelayKeeps ==
  ASSUME TimersKept, BeginDelay
  PROVE  TimersKept'
<1>1. /\ offset' \in 0 .. CounterMax /\ interrupted = Never /\ stage = "delay"
      /\ measure' = NoMeasure
      /\ UNCHANGED <<instant, latched, comparator, device, interrupted, callback, calibrateTicks,
                     calibrateValue, clockTicks>>
  BY DEF BeginDelay, Does, calibration
<1>2. /\ ~ device.on /\ callback = "none" /\ stage # "done"
  BY <1>1, StageFacts DEF StartStages, WaitStages
<1>3. TimersMeasure'
  <2>1. measure'.of = "nothing"
    BY <1>1 DEF NoMeasure
  <2>2. ComparatorHolds'
    BY <1>1 DEF TimersKept, TimersMeasure, ComparatorHolds
  <2> QED BY <2>1, <2>2 DEF TimersMeasure, Calibrated, SleptEnough, ClockEven
<1>4. CASE stage' = "failed" /\ UNCHANGED delay
  <2>1. DelayKept' /\ stage' \notin WaitStages \union StartStages \union {"done"}
    BY <1>4 DEF DelayKept, WaitStages, StartStages
  <2> QED BY <1>1, <1>2, <1>3, <1>4, <2>1, TimersTyped, StepKeeps
<1>5. ASSUME NEW delta \in Delays,
             LET start == Counter(offset')
                 left  == CounterMax - start
                 wrap  == delta > left
             IN  /\ stage' = (IF wrap THEN "overflow" ELSE "delaying")
                 /\ delay' = [from |-> instant, start |-> start, delta |-> delta,
                              target |-> IF wrap THEN delta - left ELSE start + delta]
      PROVE  TimersKept'
  <2> DEFINE start == Counter(offset')
             wrap  == delta > CounterMax - start
             aim    == IF wrap THEN delta - (CounterMax - start) ELSE start + delta
  <2>1. /\ stage' = (IF wrap THEN "overflow" ELSE "delaying")
        /\ delay' = [from |-> instant, start |-> start, delta |-> delta, target |-> aim]
    BY <1>5
  <2>2. instant \in Instants /\ delta \in Nat /\ CounterMax \in Nat
    BY TimersTyped, Limits, TimersAssumption
  <2>3. start \in 0 .. CounterMax
    <3>1. (offset' + instant) % (CounterMax + 1) \in 0 .. CounterMax
      BY <1>1, <2>2, CounterSteps
    <3> QED BY <3>1 DEF Counter
  <2>4. Counter(offset)' = start
    BY <1>1 DEF Counter
  <2> HIDE DEF start
  <2>5. /\ aim \in Int
        /\ wrap => aim = delta - (CounterMax - start)
        /\ ~ wrap => aim = start + delta
    BY <2>2, <2>3
  <2> HIDE DEF aim, wrap
  <2>6. /\ delay' \in [from : Instants, start : 0 .. CounterMax, delta : Nat, target : Int]
        /\ delay'.from = instant /\ delay'.start = start /\ delay'.delta = delta
        /\ delay'.target = aim
    BY <2>1, <2>2, <2>3, <2>5
  <2>7. Ago(instant, instant) = 0 /\ start + 0 = start /\ ~ (start > CounterMax)
    BY <2>2, <2>3, DueIs
  <2>8. DelayKept'
    <3>1. stage' = "delaying" => ~ wrap
      BY <2>1
    <3>2. \/ delay'.target = delay'.delta - (CounterMax - delay'.start)
               /\ (stage' = "delaying" => delay'.start + Ago(instant', delay'.from) > CounterMax)
          \/ stage' = "delaying" /\ delay'.target = delay'.start + delay'.delta
      <4>1. CASE wrap
        BY <2>5, <2>6, <3>1, <4>1
      <4>2. CASE ~ wrap
        BY <2>1, <2>5, <2>6, <4>2
      <4> QED BY <4>1, <4>2
    <3>3. delay'.start + Ago(instant', delay'.from) = start
      BY <1>1, <2>6, <2>7
    <3> QED BY <2>4, <2>6, <2>7, <3>2, <3>3 DEF DelayKept
  <2>9. stage' \notin WaitStages \union StartStages \union {"done"}
    BY <2>1 DEF WaitStages, StartStages
  <2> QED BY <1>1, <1>2, <1>3, <2>6, <2>8, <2>9, TimersTyped, StepKeeps
<1>6. \/ stage' = "failed" /\ UNCHANGED delay
      \/ \E delta \in Delays :
           LET start == Counter(offset')
               left  == CounterMax - start
               wrap  == delta > left
           IN  /\ stage' = (IF wrap THEN "overflow" ELSE "delaying")
               /\ delay' = [from |-> instant, start |-> start, delta |-> delta,
                            target |-> IF wrap THEN delta - left ELSE start + delta]
  BY DEF BeginDelay, Does
<1> QED BY <1>4, <1>5, <1>6

LEMMA OverflowKeeps ==
  ASSUME TimersKept, Overflow
  PROVE  TimersKept'
<1>1. /\ interrupted = Never /\ stage = "overflow" /\ stage' = "delaying"
      /\ Counter(offset) < delay.start
      /\ UNCHANGED <<instant, offset, latched, comparator, device, interrupted, callback,
                     calibrateTicks, calibrateValue, delay, clockTicks, measure>>
  BY DEF Overflow, Does, calibration, timings, timerHardware
<1>2. /\ ~ device.on /\ callback = "none" /\ stage # "done"
      /\ stage' \notin WaitStages \union StartStages \union {"done"}
  BY <1>1, StageFacts DEF StartStages, WaitStages
<1>3. TimersMeasure'
  BY <1>1, MeasuresStay DEF TimersKept
<1>4. DelayKept'
  <2> DEFINE a == Ago(instant, delay.from)
             c == Counter(offset)
             s == delay.start
  <2>1. a \in Nat /\ s \in Nat /\ CounterMax \in Nat
    BY TimersTyped, AgoNat, Limits
  <2>2. /\ s + a <= CounterMax => c = s + a
        /\ s + a > CounterMax => c <= (s + a) - (CounterMax + 1)
        /\ delay.target = delay.delta - (CounterMax - s)
    BY <1>1 DEF TimersKept, DelayKept
  <2>3. c < s
    BY <1>1
  <2> HIDE DEF a, c, s
  <2>4. s + a > CounterMax
    BY <2>1, <2>2, <2>3
  <2>5. Counter(offset)' = c /\ Ago(instant', delay'.from) = a /\ delay'.start = s
    BY <1>1 DEF Counter, a, c, s
  <2> QED BY <1>1, <2>2, <2>4, <2>5 DEF DelayKept
<1> QED BY <1>1, <1>2, <1>3, <1>4, TimersTyped, StepKeeps

(* The delay ends when the counter has come to its target, and not before.      *)
LEMMA EndDelayKeeps ==
  ASSUME TimersKept, EndDelay
  PROVE  TimersKept'
<1>1. /\ interrupted = Never /\ stage = "delaying" /\ stage' = "clock"
      /\ Counter(offset) >= delay.target
      /\ measure' = [of |-> "delay", meant |-> delay.delta, is |-> Ago(instant, delay.from)]
      /\ delay' = NoDelay /\ offset' = 0
      /\ UNCHANGED <<instant, latched, comparator, device, interrupted, callback, calibrateTicks,
                     calibrateValue, clockTicks>>
  BY DEF EndDelay, Does, calibration, Elapsed, Ago
<1>2. /\ ~ device.on /\ callback = "none" /\ stage # "done"
      /\ stage' \notin WaitStages \union StartStages \union {"done"}
  BY <1>1, StageFacts DEF StartStages, WaitStages
<1>3. Ago(instant, delay.from) >= delay.delta
  <2> DEFINE a == Ago(instant, delay.from)
             c == Counter(offset)
             s == delay.start
             d == delay.delta
             t == delay.target
  <2>1. /\ a \in Nat /\ s \in Nat /\ d \in Nat /\ t \in Int /\ CounterMax \in Nat /\ c \in Nat
    <3>1. c \in 0 .. CounterMax
      BY TimersTyped, CounterSteps DEF Counter
    <3> HIDE DEF c
    <3> QED BY <3>1, TimersTyped, AgoNat, Limits
  <2>2. /\ s + a <= CounterMax => c = s + a
        /\ s + a > CounterMax => c <= (s + a) - (CounterMax + 1)
        /\ (t = d - (CounterMax - s) /\ s + a > CounterMax) \/ t = s + d
    BY <1>1 DEF TimersKept, DelayKept
  <2>3. c >= t
    BY <1>1
  <2> HIDE DEF a, c, s, d, t
  <2>4. a >= d
    BY <2>1, <2>2, <2>3
  <2> QED BY <2>4 DEF a, d
<1>4. TimersMeasure'
  <2>1. measure'.of = "delay" /\ measure'.is >= measure'.meant
    BY <1>1, <1>3
  <2>2. ComparatorHolds'
    BY <1>1 DEF TimersKept, TimersMeasure, ComparatorHolds
  <2> QED BY <2>1, <2>2 DEF TimersMeasure, Calibrated, SleptEnough, ClockEven
<1>5. DelayKept'
  BY <1>1 DEF DelayKept
<1>6. /\ offset' \in 0 .. CounterMax
      /\ delay' \in [from : Instants, start : 0 .. CounterMax, delta : Nat, target : Int]
  <2>1. 0 \in Instants /\ 0 \in 0 .. CounterMax
    BY Limits DEF Instants
  <2> QED BY <1>1, <2>1 DEF NoDelay
<1> QED BY <1>1, <1>2, <1>4, <1>5, <1>6, TimersTyped, StepKeeps

LEMMA StartClockKeeps ==
  ASSUME TimersKept, StartClock
  PROVE  TimersKept'
<1>1. /\ interrupted = Never /\ stage = "clock"
      /\ UNCHANGED <<instant, offset, interrupted, comparator, callback, calibrateTicks,
                     calibrateValue, delay, clockTicks, measure>>
  BY DEF StartClock, Does, calibration, timings
<1>2. /\ ~ device.on /\ callback = "none" /\ stage # "done"
      /\ latched[Clock] = Never /\ ~ (clockTicks.count > 0)
  BY <1>1, StageFacts DEF StartStages, WaitStages
<1>3. TimersMeasure'
  BY <1>1, MeasuresStay DEF TimersKept
<1>4. CASE stage' = "failed" /\ UNCHANGED <<device, latched>>
  <2>1. DelayKept' /\ stage' \notin WaitStages \union StartStages \union {"done"}
    BY <1>4 DEF DelayKept, WaitStages, StartStages
  <2> QED BY <1>1, <1>2, <1>3, <1>4, <2>1, TimersTyped, StepKeeps
<1>5. CASE stage' = "done" /\ Start(Clock)
  <2>1. stage' \notin StartStages \union WaitStages /\ stage' \notin {"overflow", "delaying"}
    BY <1>5 DEF StartStages, WaitStages
  <2>2. /\ device' \in [on : BOOLEAN, due : Instants, vector : {Calibrating, Clock}]
        /\ device'.on /\ device'.vector = Clock /\ Phase' = 0
        /\ Ago(device'.due, instant') \in 1 .. TimerPeriod
        /\ latched' \in [{Calibrating, Clock} -> Instants \union {Never}]
        /\ latched'[Calibrating] = latched[Calibrating]
        /\ latched'[Clock] \in {Never, instant}
        /\ Ago(instant, instant) = 0
    BY <1>1, <1>2, <1>5, StartFacts, TimersTyped
  <2>3. TimingTypes'
    <3>1. TimingTypes
      BY DEF TimersKept
    <3> QED BY <1>1, <2>2, <3>1 DEF TimingTypes
  <2>4. StagesKept'
    BY <1>1, <1>2, <1>5, <2>1, <2>2 DEF StagesKept
  <2>5. LatchesKept'
    <3>1. latched'[Calibrating] # Never => Ago(instant', latched'[Calibrating]) <= MaxLate
      BY <1>1, <2>2 DEF TimersKept, LatchesKept
    <3>2. latched'[Clock] # Never =>
            /\ Ago(instant', latched'[Clock]) = Phase' /\ Phase' = 0 /\ 0 <= MaxLate
      BY <1>1, <2>2, Limits
    <3>3. Calibrating # Clock
      BY TimersTyped
    <3> QED BY <2>2, <3>1, <3>2, <3>3 DEF LatchesKept
  <2>6. ValueKept' /\ LastTickKept' /\ DelayKept'
    BY <1>1, <1>2, <2>1 DEF ValueKept, LastTickKept, DelayKept
  <2> QED BY <1>3, <2>3, <2>4, <2>5, <2>6 DEF TimersKept
<1> QED BY <1>4, <1>5 DEF StartClock, Does

LEMMA TimersStay ==
  ASSUME TimersKept, UNCHANGED timingVars
  PROVE  TimersKept'
BY DEF TimersKept, timingVars, timerHardware, calibration, timings, TimingTypes, StagesKept,
       LatchesKept, ValueKept, LastTickKept, DelayKept, TimersMeasure, Calibrated, SleptEnough,
       ClockEven, ComparatorHolds, Near, Calls, Waits, Phase, Ago, Counter

THEOREM TimersInvariant == TimingSpec => []TimersKept
<1>1. TimingInit => TimersKept
  BY TimingBegins
<1>2. TimersKept /\ [TimingNext]_timingVars => TimersKept'
  <2> SUFFICES ASSUME TimersKept, [TimingNext]_timingVars PROVE TimersKept'
    OBVIOUS
  <2>1. CASE UNCHANGED timingVars
    BY <2>1, TimersStay
  <2>2. CASE TimingNext
    BY <2>2, HpetInitKeeps, PassKeeps, CallbackKeeps, CallbackEndsKeeps, UnhandledKeeps,
       ClockTickKeeps, PrepareKeeps, StartCalibrationKeeps, FinishCalibrationKeeps,
       BeginDelayKeeps, OverflowKeeps, EndDelayKeeps, StartClockKeeps DEF TimingNext
  <2> QED BY <2>1, <2>2
<1> QED BY <1>1, <1>2, PTL DEF TimingSpec

(* What is measured is right, for every period, target, counter and delay: a    *)
(* calibration and the clock's ticks are off by no more than an interrupt is    *)
(* late, a delay is never short, and the comparator can do what is said of it.  *)
THEOREM TimersMeasureRight == TimingSpec => []TimersMeasure
<1>1. TimersKept => TimersMeasure
  BY DEF TimersKept
<1> QED BY <1>1, TimersInvariant, PTL
============================================================================
