---------------------------- MODULE MCMemoryMap ----------------------------
(* Tables of two entries.  Of the three addresses two share a PT and the     *)
(* third shares only the PDPT with them.                                     *)
EXTENDS MemoryMap

CONSTANT First \* a map

MCSlots == {0, 1}

MCAddresses == {<<0, 0, 0, 0>>, <<0, 0, 0, 1>>, <<0, 1, 0, 0>>}

(* One map, with every shape of its tree; the others are made and destroyed. *)
MCAlone == [m \in Maps |-> IF m = First THEN MCAddresses ELSE {}]

(* Maps that compete for pages, where an address each is enough.             *)
MCTogether == [m \in Maps |-> {<<0, 0, 0, 0>>}]
============================================================================
