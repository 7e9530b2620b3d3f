----------------------------- MODULE PageLedger -----------------------------
(***************************************************************************)
(* What the physical page allocator promises: every page of memory has one  *)
(* owner or is free, pages change hands only between an owner and the free  *)
(* pool, and memory the firmware or the boot loader still uses comes back   *)
(* as a whole class or not at all.                                          *)
(***************************************************************************)
CONSTANTS
  Pages,     \* the pages that are accounted for
  Owners,    \* who can own a page
  Free,      \* the owner of a page nobody owns
  Classes,   \* firmware tables, boot loader data: reclaimable later
  Fixed      \* the owner of memory that is never given out

VARIABLE owner

Init == owner \in [Pages -> {Free, Fixed} \union Classes]

OwnedBy(o) == {p \in Pages : owner[p] = o}

Assign(S, o) == owner' = [p \in Pages |-> IF p \in S THEN o ELSE owner[p]]

(* Free pages get one owner. *)
Grant == \E S \in SUBSET OwnedBy(Free), o \in Owners : S # {} /\ Assign(S, o)

(* Owned pages become free. *)
Return == \E S \in SUBSET Pages :
            S # {} /\ (\A p \in S : owner[p] \in Owners) /\ Assign(S, Free)

(* All the memory of a class becomes free at once. *)
Reclaim == \E k \in Classes : OwnedBy(k) # {} /\ Assign(OwnedBy(k), Free)

Next == Grant \/ Return \/ Reclaim

Spec == Init /\ [][Next]_owner
=============================================================================
