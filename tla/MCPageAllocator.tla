-------------------------- MODULE MCPageAllocator --------------------------
(* Two processors and one or two user processes over a few pages.            *)
EXTENDS PageAllocator, TLC

(* Pages 1 and 2 as the boot may leave them, the others free.  The tables    *)
(* with holes elsewhere come from acquires and locks.                        *)
MCBootTables ==
  {t \in [Pages -> BootRecords] :
     \A p \in Pages \ {1, 2} : t[p].state = "AVAILABLE"}

Symmetric == Permutations(Callers) \union Permutations(Users)
============================================================================
