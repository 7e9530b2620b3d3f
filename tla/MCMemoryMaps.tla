----------------------------- MODULE MCMemoryMaps -----------------------------
(* Two scenarios of the memory maps, of which a behaviour stays in one:       *)
(* "alone", one map with every shape of its tree beside one that is only made *)
(* and destroyed, and "together", two maps that compete for fewer pages than  *)
(* both need, with each other and with everybody else, where an address each  *)
(* is enough.  The properties are those of the first, whose constants say     *)
(* more (two frames).                                                         *)
EXTENDS MCMemoryMap

VARIABLE scenario

CONSTANTS OneFrame, Kept

Together == INSTANCE MemoryMap WITH
  MaxOther <- 1, Reserved <- Kept, Uses <- MCTogether, Frames <- OneFrame

Starts ==
  \/ scenario = "alone" /\ Init
  \/ scenario = "together" /\ Together!Init

Goes ==
  /\ \/ scenario = "alone" /\ Next
     \/ scenario = "together" /\ Together!Next
  /\ UNCHANGED scenario

Scenarios == Starts /\ [][Goes]_<<vars, scenario>>
============================================================================
