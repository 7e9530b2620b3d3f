-------------------------------- MODULE Startup --------------------------------
(***************************************************************************)
(* The start of the processors in the previous kernel: the entry of the     *)
(* first and of the others (axon/source_old/arch_x86/entry.c), the choice of  *)
(* the timers and the rendezvous that sets the time stamp counters            *)
(* (axon/source_old/arch_x86/timers_x86.c), and the creation of the           *)
(* schedulers (axon/source_old/scheduler).  The entry is modelled from the    *)
(* initialisation of the timers on, past the halt it has in front for now.    *)
(* Of the assembly of the others' start code only its use here is known: it    *)
(* takes the stack, counts itself and waits to be let go.                     *)
(***************************************************************************)
EXTENDS Integers, FiniteSets, Functions

CONSTANT Others  \* the processors but the first: the lapic_list without bsp_id

ASSUME OthersAssumption == IsFiniteSet(Others)

VARIABLES
  bsp,       \* where the first processor is
  timers,    \* g_external_timer, g_counter, and whether there is an HPET
  target,    \* the processors left to start; in start_aux_processors
  stack,     \* axk_ap_stack, and the stack each processor took from it
  ap,        \* where each of the others is
  id,        \* g_cpu_id, and the identifier each of them was given
  sysinfo,   \* g_container: its entries, and whether one is being inserted
  flags,     \* axk_ap_wait_flag, g_topology_sync, sync_point_2, g_schd_sync, g_test_sync
  points,    \* g_tsc_sync_point and g_tsc_sync_point_3
  table,     \* g_tsc_sync_table is allocated
  ext_ticks, \* g_ext_tick_counter
  schedulers,\* g_local_schd: how often each has been initialised
  synced,    \* history: the counters of all processors were compared
  misused    \* history: the table was used when it was not there

startupVars == <<bsp, timers, target, stack, ap, id, sysinfo, flags, points, table,
                 ext_ticks, schedulers, synced, misused>>

OtherCount == Cardinality(Others)
NoTimers == [external |-> "none", counter |-> "none", hpet |-> FALSE]

StartupInit ==
  /\ bsp = "timers" /\ timers = NoTimers
  /\ target = Others
  /\ stack = [next |-> 0, of |-> [p \in Others |-> 0]]
  /\ ap = [p \in Others |-> "off"]
  /\ id = [next |-> 1, of |-> [p \in Others |-> 0]]
  /\ sysinfo = [general |-> FALSE, cpus |-> {}, writing |-> FALSE]
  /\ flags = {} /\ points = [first |-> 0, third |-> 0]
  /\ table = FALSE /\ ext_ticks = 0 /\ schedulers = [i \in {} |-> 0]
  /\ synced = FALSE /\ misused = FALSE

BspVars == <<bsp, timers, target, stack, ext_ticks, schedulers, synced>>

-----------------------------------------------------------------------------
(* axk_timers_init.  The PIT is left out when the HPET replaces it; without   *)
(* a PIT where one is needed, a timer of the local APIC, a counter, or their   *)
(* calibration, the kernel panics.                                          *)
Chosen(hpet, tsc) ==
  [external |-> IF hpet THEN "hpet" ELSE "pit",
   counter |-> IF tsc THEN "tsc" ELSE IF hpet THEN "hpet" ELSE "none",
   hpet |-> hpet]

TimersInit ==
  /\ bsp = "timers"
  /\ \E hpet, legacy, pit, tsc, local \in BOOLEAN :
       LET t == Chosen(hpet, tsc)
       IN  IF ((hpet /\ legacy) \/ pit) /\ local /\ t.counter # "none"
           THEN timers' = t /\ bsp' = "start"
           ELSE bsp' = "panic" /\ UNCHANGED timers
  /\ UNCHANGED <<target, stack, ap, id, sysinfo, flags, points, table, ext_ticks,
                 schedulers, synced, misused>>

(* INIT, a stack, and the first signal to start; the processors one by one.    *)
StartNext ==
  /\ bsp = "start" /\ target # {}
  /\ stack' = [stack EXCEPT !.next = @ + 1]
  /\ \E p \in target :
       /\ target' = target \ {p}
       /\ ap' = [ap EXCEPT ![p] = "signalled"]
  /\ bsp' = "wait"
  /\ UNCHANGED <<timers, id, sysinfo, flags, points, table, ext_ticks, schedulers,
                 synced, misused>>

(* Two milliseconds, a second signal to a processor that has not counted        *)
(* itself, and a second.                                                      *)
Signalled == \E p \in Others : ap[p] = "signalled"

AwaitStart ==
  /\ bsp \in {"wait", "wait again"}
  /\ bsp' = IF ~ Signalled THEN "start" ELSE IF bsp = "wait" THEN "wait again" ELSE "panic"
  /\ UNCHANGED <<timers, target, stack, ap, id, sysinfo, flags, points, table,
                 ext_ticks, schedulers, synced, misused>>

LetGo ==
  /\ bsp = "start" /\ target = {}
  /\ bsp' = "info" /\ flags' = flags \union {"wait"}
  /\ UNCHANGED <<timers, target, stack, ap, id, sysinfo, points, table, ext_ticks,
                 schedulers, synced, misused>>

BuildInfo ==
  /\ bsp = "info"
  /\ bsp' = "interlink" /\ sysinfo' = [sysinfo EXCEPT !.general = TRUE, !.cpus = {0}]
  /\ flags' = flags \union {"topology"}
  /\ UNCHANGED <<timers, target, stack, ap, id, points, table, ext_ticks,
                 schedulers, synced, misused>>

(* axk_sysinfo_query for the general entry.  It takes no lock: a search that    *)
(* meets an insertion, whose rotations move the entries about, may miss it.    *)
Answers == IF sysinfo.writing THEN {sysinfo.general, FALSE} ELSE {sysinfo.general}

(* axk_interlink_init, while the others may write what they have.             *)
InterlinkInit ==
  /\ bsp = "interlink"
  /\ \E found \in Answers : bsp' = IF found THEN "sync" ELSE "panic"
  /\ UNCHANGED <<timers, target, stack, ap, id, sysinfo, flags, points, table,
                 ext_ticks, schedulers, synced, misused>>

(* axk_timers_bsp_sync: only a time stamp counter is set and compared.         *)
SyncBegin ==
  /\ bsp = "sync"
  /\ IF timers.counter = "tsc" /\ OtherCount > 0 THEN bsp' = "first point" /\ table' = TRUE
     ELSE bsp' = "clock" /\ UNCHANGED table
  /\ UNCHANGED <<timers, target, stack, ap, id, sysinfo, flags, points, ext_ticks,
                 schedulers, synced, misused>>

FirstPoint ==
  /\ bsp = "first point" /\ points.first >= OtherCount
  /\ bsp' = "second point" /\ points' = [points EXCEPT !.first = 0]
  /\ UNCHANGED <<timers, target, stack, ap, id, sysinfo, flags, table, ext_ticks,
                 schedulers, synced, misused>>

SecondPoint ==
  /\ bsp = "second point"
  /\ bsp' = "third point" /\ flags' = flags \union {"second"}
  /\ UNCHANGED <<timers, target, stack, ap, id, sysinfo, points, table, ext_ticks,
                 schedulers, synced, misused>>

(* Mutant: the table is freed when all have been let go. *)
AllLetGo == points.first = 0

AllWritten == points.third >= OtherCount

(* When the counters differ the HPET takes over, if there is one.             *)
Compare(agree) ==
  /\ bsp = "third point" /\ AllWritten
  /\ table' = FALSE /\ synced' = TRUE
  /\ IF agree THEN bsp' = "clock" /\ UNCHANGED timers
     ELSE IF timers.hpet THEN bsp' = "clock" /\ timers' = [timers EXCEPT !.counter = "hpet"]
     ELSE bsp' = "panic" /\ UNCHANGED timers
  /\ UNCHANGED <<target, stack, ap, id, sysinfo, flags, points, ext_ticks,
                 schedulers, misused>>

Tick ==
  /\ bsp = "clock" /\ ext_ticks < 3
  /\ ext_ticks' = ext_ticks + 1
  /\ UNCHANGED <<bsp, timers, target, stack, ap, id, sysinfo, flags, points, table,
                 schedulers, synced, misused>>

(* The others are let go only if they were compared: without a time stamp      *)
(* counter nobody takes the third point back to zero.                         *)
ClockSynced ==
  /\ bsp = "clock" /\ ext_ticks = 3
  /\ points' = IF synced THEN [points EXCEPT !.third = 0] ELSE points
  /\ bsp' = "global"
  /\ UNCHANGED <<timers, target, stack, ap, id, sysinfo, flags, table, ext_ticks,
                 schedulers, synced, misused>>

(* axk_scheduler_init_global. *)
InitGlobal ==
  /\ bsp = "global"
  /\ \/ /\ FALSE \in Answers
        /\ bsp' = "panic" /\ UNCHANGED <<schedulers, flags>>
     \/ /\ TRUE \in Answers
        /\ bsp' = "local"
        /\ schedulers' = [i \in 0 .. OtherCount |-> 0]
        /\ flags' = flags \union {"schedulers"}
  /\ UNCHANGED <<timers, target, stack, ap, id, sysinfo, points, table, ext_ticks,
                 synced, misused>>

InitLocal(i) ==
  schedulers' = [j \in DOMAIN schedulers |-> IF j = i THEN schedulers[j] + 1 ELSE schedulers[j]]

InitLocalBsp ==
  /\ bsp = "local" /\ InitLocal(0)
  /\ bsp' = "done" /\ flags' = flags \union {"test"}
  /\ UNCHANGED <<timers, target, stack, ap, id, sysinfo, points, table, ext_ticks,
                 synced, misused>>

-----------------------------------------------------------------------------
At(p, here, there) == ap[p] = here /\ ap' = [ap EXCEPT ![p] = there]

(* The start code, which is assembly.                                        *)
Wake(p) ==
  /\ At(p, "signalled", "held")
  /\ stack' = [stack EXCEPT !.of[p] = stack.next]
  /\ UNCHANGED <<bsp, timers, target, id, sysinfo, flags, points, table, ext_ticks,
                 schedulers, synced, misused>>

Enter(p) ==
  /\ "wait" \in flags /\ At(p, "held", "info")
  /\ id' = [next |-> id.next + 1, of |-> [id.of EXCEPT ![p] = id.next]]
  /\ UNCHANGED <<BspVars, sysinfo, flags, points, table, misused>>

(* axk_sysinfo_write inserts into the tree with the lock held.               *)
WriteInfo(p) ==
  /\ "topology" \in flags /\ ~ sysinfo.writing
  /\ At(p, "info", "writing") /\ sysinfo' = [sysinfo EXCEPT !.writing = TRUE]
  /\ UNCHANGED <<BspVars, id, flags, points, table, misused>>

InfoWritten(p) ==
  /\ At(p, "writing", "sync")
  /\ sysinfo' = [sysinfo EXCEPT !.writing = FALSE, !.cpus = @ \union {id.of[p]}]
  /\ UNCHANGED <<BspVars, id, flags, points, table, misused>>

(* axk_timers_ap_sync. *)
Arrive(p) ==
  /\ timers.counter = "tsc" /\ At(p, "sync", "first point")
  /\ points' = [points EXCEPT !.first = @ + 1]
  /\ UNCHANGED <<BspVars, id, sysinfo, flags, table, misused>>

SetCounter(p) ==
  /\ points.first = 0 /\ At(p, "first point", "second point")
  /\ misused' = (misused \/ ~ table)
  /\ UNCHANGED <<BspVars, id, sysinfo, flags, points, table>>

WriteCounter(p) ==
  /\ "second" \in flags /\ At(p, "second point", "third point")
  /\ misused' = (misused \/ ~ table)
  /\ UNCHANGED <<BspVars, id, sysinfo, flags, points, table>>

CountIn(p) ==
  /\ \/ At(p, "third point", "last point")
     \/ timers.counter # "tsc" /\ At(p, "sync", "last point")
  /\ points' = [points EXCEPT !.third = @ + 1]
  /\ UNCHANGED <<BspVars, id, sysinfo, flags, table, misused>>

Depart(p) ==
  /\ points.third = 0 /\ At(p, "last point", "local")
  /\ UNCHANGED <<BspVars, id, sysinfo, flags, points, table, misused>>

InitLocalAp(p) ==
  /\ "schedulers" \in flags /\ At(p, "local", "test")
  /\ InitLocal(id.of[p])
  /\ UNCHANGED <<bsp, timers, target, stack, id, sysinfo, flags, points, table,
                 ext_ticks, synced, misused>>

Finish(p) ==
  /\ "test" \in flags /\ At(p, "test", "done")
  /\ UNCHANGED <<BspVars, id, sysinfo, flags, points, table, misused>>

StartupNext ==
  /\ bsp # "panic"
  /\ \/ TimersInit \/ StartNext \/ AwaitStart \/ LetGo \/ BuildInfo
     \/ InterlinkInit \/ SyncBegin \/ FirstPoint \/ SecondPoint \/ \E agree \in BOOLEAN : Compare(agree)
     \/ Tick \/ ClockSynced \/ InitGlobal \/ InitLocalBsp
     \/ \E p \in Others :
          \/ Wake(p) \/ Enter(p) \/ WriteInfo(p) \/ InfoWritten(p) \/ Arrive(p)
          \/ SetCounter(p) \/ WriteCounter(p) \/ CountIn(p) \/ Depart(p)
          \/ InitLocalAp(p) \/ Finish(p)

StartupSpec == StartupInit /\ [][StartupNext]_startupVars

-----------------------------------------------------------------------------
(* However the processors run against each other, none uses the table of the   *)
(* counters before it is allocated or after it is freed; each has a stack and  *)
(* an identifier of its own, and initialises its own scheduler, once; and     *)
(* where the time stamp counters were compared, all entries are written when   *)
(* the first processor reads the system's for its schedulers, and every other  *)
(* that has come to the end of the rendezvous can leave it.  Nothing of the    *)
(* kind holds for the read in InterlinkInit, nor without the comparison.       *)
StartupSound ==
  /\ ~ misused
  /\ \A p, q \in Others : p # q =>
       /\ stack.of[p] = stack.of[q] => stack.of[p] = 0
       /\ id.of[p] = id.of[q] => id.of[p] = 0
  /\ \A i \in DOMAIN schedulers : schedulers[i] <= 1
  /\ \A p \in Others : ap[p] \in {"test", "done"} => schedulers[id.of[p]] = 1
  /\ synced /\ bsp = "global" => ~ sysinfo.writing /\ sysinfo.cpus = 0 .. OtherCount
  /\ synced /\ bsp \in {"global", "local", "done"} => points.third = 0
=============================================================================
