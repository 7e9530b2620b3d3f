------------------------------ MODULE PageScan ------------------------------
(***************************************************************************)
(* The two loops of axk_page_acquire (axon/source/memory/page_allocator.c,  *)
(* lines 246-371) over one state of the page list, one iteration per step.  *)
(* The caller holds the allocator's lock throughout, so the page list does  *)
(* not change under the loops.                                              *)
(***************************************************************************)
EXTENDS PageSelect, Sequences

CONSTANT MaxCount      \* the largest number of pages asked for

ASSUME MaxCountAssumption == MaxCount \in Nat \ {0}

VARIABLES
  free,               \* the pages whose state is AVAILABLE
  count, high, consecutive,   \* the arguments
  pc,                 \* search, choose, fill; then granted, refused or leaked
  i,                  \* the loop's position
  searching,          \* cons_search_state: 0 (no page of a run yet) or 1
  range_start, range_count, largest_range_index, largest_range_count,
  out_page_list

args   == <<free, count, high, consecutive>>
ranges == <<searching, range_start, range_count, largest_range_index, largest_range_count>>
scanVars == <<args, pc, i, ranges, out_page_list>>

ScanInit ==
  /\ free \in SUBSET Pages
  /\ count \in 1 .. MaxCount
  /\ high \in BOOLEAN
  /\ consecutive \in BOOLEAN
  /\ pc = "search"
  /\ i = 1
  /\ searching = 0
  /\ range_start = 0
  /\ range_count = 0
  /\ largest_range_index = 0
  /\ largest_range_count = 0
  /\ out_page_list = <<>>

IsFree == Index(i, high) \in free

(* for( uint64_t i = 1; i < g_page_count; i++ ) runs out. *)
EndSearch ==
  /\ pc = "search" /\ i = PageCount
  /\ pc' = "choose"
  /\ UNCHANGED <<args, i, ranges, out_page_list>>

(* State 0 meets a free page; a single page is all that is wanted, or not.  *)
StartRun ==
  /\ pc = "search" /\ i < PageCount /\ searching = 0 /\ IsFree
  /\ range_start' = Index(i, high)
  /\ range_count' = 1
  /\ searching' = 1
  /\ pc' = IF count = 1 THEN "choose" ELSE "search"
  /\ i' = i + 1
  /\ UNCHANGED <<args, largest_range_index, largest_range_count, out_page_list>>

(* Mutant: the start of the longest run is worked out as if going up. *)
ExtendRunUpwards ==
  /\ pc = "search" /\ i < PageCount /\ searching = 1 /\ IsFree
  /\ range_count' = range_count + 1
  /\ IF range_count' >= count
     THEN pc' = "choose" /\ UNCHANGED <<largest_range_index, largest_range_count>>
     ELSE /\ pc' = pc
          /\ IF range_count' > largest_range_count
             THEN /\ largest_range_count' = range_count'
                  /\ largest_range_index' = Index(i, high) - range_count' + 1
             ELSE UNCHANGED <<largest_range_index, largest_range_count>>
  /\ i' = i + 1
  /\ UNCHANGED <<args, searching, range_start, out_page_list>>

(* State 1 meets another: the run is long enough, or it may be the longest. *)
ExtendRun ==
  /\ pc = "search" /\ i < PageCount /\ searching = 1 /\ IsFree
  /\ range_count' = range_count + 1
  /\ IF range_count' >= count
     THEN pc' = "choose" /\ UNCHANGED <<largest_range_index, largest_range_count>>
     ELSE /\ pc' = pc
          /\ IF range_count' > largest_range_count
             THEN /\ largest_range_count' = range_count'
                  /\ largest_range_index' =
                       IF high THEN Index(i, high) ELSE Index(i, high) - range_count' + 1
             ELSE UNCHANGED <<largest_range_index, largest_range_count>>
  /\ i' = i + 1
  /\ UNCHANGED <<args, searching, range_start, out_page_list>>

(* Mutant: the end of a run resets everything known of runs. *)
EndRunForgetting ==
  /\ pc = "search" /\ i < PageCount /\ ~ IsFree
  /\ searching' = 0 /\ range_start' = 0 /\ range_count' = 0
  /\ largest_range_index' = 0 /\ largest_range_count' = 0
  /\ i' = i + 1
  /\ UNCHANGED <<args, pc, out_page_list>>

(* A page that is not free ends the run, if there is one. *)
EndRun ==
  /\ pc = "search" /\ i < PageCount /\ ~ IsFree
  /\ range_start' = IF searching = 1 THEN 0 ELSE range_start
  /\ range_count' = IF searching = 1 THEN 0 ELSE range_count
  /\ searching' = 0
  /\ i' = i + 1
  /\ UNCHANGED <<args, pc, largest_range_index, largest_range_count, out_page_list>>

(* n pages upwards from page p. *)
PagesFrom(p, n) == [k \in 1 .. n |-> p + k - 1]

TakeRun ==
  /\ pc = "choose" /\ range_count >= count
  /\ out_page_list' = PagesFrom(IF high THEN range_start - count + 1 ELSE range_start, count)
  /\ pc' = "granted"
  /\ UNCHANGED <<args, i, ranges>>

(* if( b_consecutive ) { return false; } - with the lock held. *)
GiveUp ==
  /\ pc = "choose" /\ range_count < count /\ consecutive
  /\ pc' = "leaked"
  /\ UNCHANGED <<args, i, ranges, out_page_list>>

(* Mutants: nothing is left out; all below the range is left out too. *)
InNoRange(p) == FALSE

InRangeOrBelow(p) == p < largest_range_index + largest_range_count

TakeLargest ==
  /\ pc = "choose" /\ range_count < count /\ ~ consecutive
  /\ out_page_list' = PagesFrom(largest_range_index, largest_range_count)
  /\ i' = 1
  /\ pc' = "fill"
  /\ UNCHANGED <<args, ranges>>

InRange(p) == p >= largest_range_index /\ p < largest_range_index + largest_range_count

(* Mutant: a page that is left out is looked at again and again. *)
FillStuck ==
  /\ pc = "fill" /\ i < PageCount
  /\ IF ~ InRange(i) /\ IsFree
     THEN /\ out_page_list' = Append(out_page_list, Index(i, high))
          /\ pc' = IF Len(out_page_list') >= count THEN "granted" ELSE pc
     ELSE UNCHANGED <<out_page_list, pc>>
  /\ i' = IF InRange(i) THEN i ELSE i + 1
  /\ UNCHANGED <<args, ranges>>

(* One iteration of the second loop. *)
Fill ==
  /\ pc = "fill" /\ i < PageCount
  /\ IF ~ InRange(i) /\ IsFree
     THEN /\ out_page_list' = Append(out_page_list, Index(i, high))
          /\ pc' = IF Len(out_page_list') >= count THEN "granted" ELSE pc
     ELSE UNCHANGED <<out_page_list, pc>>
  /\ i' = i + 1
  /\ UNCHANGED <<args, ranges>>

(* Not enough pages: the list is cleared and the lock released. *)
Refuse ==
  /\ pc = "fill" /\ i = PageCount
  /\ out_page_list' = [k \in 1 .. count |-> 0]
  /\ pc' = "refused"
  /\ UNCHANGED <<args, i, ranges>>

ScanNext ==
  \/ EndSearch \/ StartRun \/ ExtendRun \/ EndRun
  \/ TakeRun \/ GiveUp \/ TakeLargest \/ Fill \/ Refuse

ScanSpec == ScanInit /\ [][ScanNext]_scanVars

-----------------------------------------------------------------------------
PCs == {"search", "choose", "fill", "granted", "refused", "leaked"}

LoopsTyped ==
  /\ free \in SUBSET Pages
  /\ count \in Nat \ {0} /\ high \in BOOLEAN /\ consecutive \in BOOLEAN
  /\ pc \in PCs
  /\ i \in 1 .. PageCount
  /\ searching \in {0, 1}
  /\ range_start \in Nat /\ range_count \in Nat
  /\ largest_range_index \in Nat /\ largest_range_count \in Nat
  /\ out_page_list \in Seq(Nat)

ListedPages(s) == {s[k] : k \in 1 .. Len(s)}

Distinct(s) == \A k, m \in 1 .. Len(s) : k # m => s[k] # s[m]

(* The loops compute the selection that PageSelect defines, and succeed     *)
(* exactly when it says so: the three flags, the two passes and the three   *)
(* early exits agree with the plain reading of the code's comments.         *)
LoopsSelect ==
  /\ pc = "granted" => /\ Succeeds(free, count, high, consecutive)
                       /\ ListedPages(out_page_list) = Selected(free, count, high)
  /\ pc \in {"refused", "leaked"} => ~ Succeeds(free, count, high, consecutive)

(* A granted list has the length asked for, and every page in it was free;  *)
(* scanning upwards no page is listed twice and page 0 is never given out.  *)
GrantSound ==
  pc = "granted" =>
    /\ Len(out_page_list) = count
    /\ ListedPages(out_page_list) \subseteq free
    /\ ~ high => Distinct(out_page_list) /\ 0 \notin ListedPages(out_page_list)

(* Scanning upwards, an acquire that may be scattered is refused only when  *)
(* fewer pages are free (page 0 apart) than it asks for; one that must be   *)
(* consecutive gets consecutive pages.                                      *)
RefusalJustified ==
  /\ pc = "refused" /\ ~ high => Cardinality(free \ {0}) < count
  /\ pc = "granted" /\ consecutive =>
       \A k \in 1 .. Len(out_page_list) : out_page_list[k] = out_page_list[1] + k - 1

(* A granted list names no page twice: "Skip pages from the large range we  *)
(* already selected" (page_allocator.c:342).                                *)
NoPageTwice == pc = "granted" => Distinct(out_page_list)
=============================================================================
