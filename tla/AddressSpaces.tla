---------------------------- MODULE AddressSpaces ----------------------------
(***************************************************************************)
(* What the memory maps promise (axon/public/axon/memory/memory_map.h): a   *)
(* map is a partial function from virtual pages to physical pages; an       *)
(* operation on a map changes the one address it was called for, once, and  *)
(* nothing of any other map; the work on tables before and after shows      *)
(* nowhere; destroying a map ends all its mappings.                         *)
(***************************************************************************)
CONSTANTS
  Maps,
  Addresses,
  Frames,
  None        \* an address that is not mapped

VARIABLES
  space,      \* of each map, what its addresses map to
  doing       \* of each map: idle, an add that is not yet decided, or tidying

vars == <<space, doing>>

Nowhere == [a \in Addresses |-> None]

Idle    == [kind |-> "idle"]
Tidying == [kind |-> "tidying"]
Adding(a, f, overwrite) ==
  [kind |-> "add", addr |-> a, frame |-> f, overwrite |-> overwrite]

Becomes(m, d) == doing' = [doing EXCEPT ![m] = d]

(* The end of what a caller notices; tables may remain to be given back.    *)
Decided(m) == Becomes(m, Idle) \/ Becomes(m, Tidying)

Init ==
  /\ space = [m \in Maps |-> Nowhere]
  /\ doing = [m \in Maps |-> Idle]

AskToMap(m, a, f, overwrite) ==
  /\ doing[m] = Idle
  /\ Becomes(m, Adding(a, f, overwrite))
  /\ UNCHANGED space

Map(m, a, f, overwrite) ==
  /\ doing[m] = Adding(a, f, overwrite)
  /\ space[m][a] = None \/ overwrite
  /\ space' = [space EXCEPT ![m][a] = f]
  /\ Becomes(m, Idle)

Refuse(m) == doing[m].kind = "add" /\ Decided(m) /\ UNCHANGED space

Unmap(m, a) ==
  /\ doing[m] = Idle /\ space[m][a] # None
  /\ space' = [space EXCEPT ![m][a] = None]
  /\ Decided(m)

Destroy(m) ==
  /\ doing[m] = Idle
  /\ space' = [space EXCEPT ![m] = Nowhere]
  /\ Becomes(m, Tidying)

Tidied(m) == doing[m] = Tidying /\ Becomes(m, Idle) /\ UNCHANGED space

Next ==
  \E m \in Maps :
    \/ \E a \in Addresses, f \in Frames, overwrite \in BOOLEAN :
         AskToMap(m, a, f, overwrite) \/ Map(m, a, f, overwrite)
    \/ \E a \in Addresses : Unmap(m, a)
    \/ Refuse(m) \/ Destroy(m) \/ Tidied(m)

Spec == Init /\ [][Next]_vars
=============================================================================
