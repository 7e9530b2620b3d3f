--------------------------------- MODULE Heap ---------------------------------
(***************************************************************************)
(* The kernel heap of axon/source_old/memory/kheap.c.  Addresses are offsets *)
(* from the start of the heap in units of a tag's 16 bytes, sizes are those  *)
(* rounded to KHEAP_ALIGN.  All calls hold g_lock; an allocation looks at    *)
(* one tag per step.  The flag BEGIN is written in one field and read in     *)
(* another, where it never is, and is left out.                              *)
(***************************************************************************)
EXTENDS Integers, FiniteSets

CONSTANTS
  PageUnits,   \* units on a page
  HeapPages,   \* bound: pages in the heap's address range
  MinAlloc,    \* AXK_KHEAP_MIN_ALLOC, in units
  Sizes,       \* sizes asked for
  MaxHeld,     \* bound: blocks in use at once
  MaxPages     \* bound: g_kheap_pages goes no higher

ASSUME HeapAssumption ==
  /\ PageUnits \in Nat \ {0} /\ HeapPages \in Nat \ {0}
  /\ MinAlloc \in Nat /\ Sizes \subseteq Nat

VARIABLES
  mem,         \* what the units hold: a tag, or anything else
  mapped,      \* pages of the heap that are mapped
  pages,       \* g_kheap_pages
  lowest,      \* g_lowest_tag
  highest,     \* g_highest_tag
  scan,        \* the allocation under way: size, pos and b_movelowtag
  blocks,      \* history: the blocks that callers have
  heapBroken   \* a page fault, a panic or a tag read where none is

heapVars == <<mem, mapped, pages, lowest, highest, scan, blocks, heapBroken>>

Units == 0 .. HeapPages * PageUnits - 1

PageOf(u) == u \div PageUnits

Junk == [next |-> -1, prev |-> -1, present |-> FALSE]

None == -1

NoScan == [size |-> 0, pos |-> 0, movelow |-> FALSE]

EndTag(prev) == [next |-> 0, prev |-> prev, present |-> FALSE]

(* axk_kheap_init: a page, and a tag that is both the first and the last. *)
HeapInit ==
  /\ mem = [u \in Units |-> IF u = 0 THEN EndTag(0) ELSE Junk]
  /\ mapped = {0} /\ pages = 1
  /\ lowest = 0 /\ highest = 0
  /\ scan = NoScan /\ blocks = {} /\ heapBroken = FALSE

IsTag(u) == u \in Units /\ PageOf(u) \in mapped /\ mem[u] # Junk

IsLast(u) == mem[u].next = 0

(* What a page held is lost when it is mapped again or unmapped. *)
Lost(m, ps) == [u \in Units |-> IF PageOf(u) \in ps THEN Junk ELSE m[u]]

Break ==
  /\ heapBroken' = TRUE
  /\ UNCHANGED <<mem, mapped, pages, lowest, highest, scan, blocks>>

-----------------------------------------------------------------------------
Alloc(size) ==
  /\ scan = NoScan /\ Cardinality(blocks) < MaxHeld /\ pages < MaxPages
  /\ scan' = [size |-> size, pos |-> lowest, movelow |-> FALSE]
  /\ UNCHANGED <<mem, mapped, pages, lowest, highest, blocks, heapBroken>>

Scanning == scan # NoScan /\ IsTag(scan.pos)

SkipPresent ==
  /\ Scanning /\ mem[scan.pos].present
  /\ scan' = [scan EXCEPT !.pos = mem[scan.pos].next,
                          !.movelow = @ \/ scan.pos = lowest]
  /\ UNCHANGED <<mem, mapped, pages, lowest, highest, blocks, heapBroken>>

PagesTo(from, to) == PageOf(from) + 1 .. PageOf(to)

(* alloc_helper_expand: the last tag becomes the block's, and a new last tag *)
(* is written behind the block.                                              *)
TakeEnd ==
  /\ Scanning /\ ~ mem[scan.pos].present /\ IsLast(scan.pos)
  /\ LET at  == scan.pos
         end == at + 1 + scan.size
         new == PagesTo(at, end)
     IN  /\ end \in Units
         /\ mem' = [u \in Units |->
              CASE u = at  -> [mem[at] EXCEPT !.next = end, !.present = TRUE]
                [] u = end -> EndTag(at)
                [] u \in at + 1 .. end - 1 -> Junk
                [] OTHER   -> Lost(mem, new)[u]]
         /\ mapped' = mapped \union new /\ pages' = pages + Cardinality(new)
         /\ lowest' = IF lowest = at \/ scan.movelow THEN end ELSE lowest
         /\ highest' = end
         /\ blocks' = blocks \union {[at |-> at, size |-> scan.size]}
  /\ scan' = NoScan
  /\ UNCHANGED heapBroken

(* alloc_helper_avail on a free block that is not the last: it is split, or  *)
(* not, but b_avail stays false, so that it is not taken either.             *)
Space(at) == mem[at].next - (at + 1)

Splits(at) == Space(at) > scan.size + MinAlloc

Needed(at) == at + (IF Splits(at) THEN scan.size + 1 ELSE scan.size)

(* The pages up to the end, but not the page of the next tag when that is    *)
(* the last one.  They may be mapped already: they are mapped over, and      *)
(* counted again.                                                            *)
PagesIn(at) ==
  LET last == PageOf(Needed(at) - 1)
  IN  PageOf(at) + 1 .. (IF PageOf(mem[at].next) = last THEN last - 1 ELSE last)

FreeAt(at) == Scanning /\ at = scan.pos /\ ~ mem[at].present /\ ~ IsLast(at)

PassTooSmall ==
  /\ FreeAt(scan.pos) /\ Space(scan.pos) < scan.size
  /\ scan' = [scan EXCEPT !.pos = mem[scan.pos].next]
  /\ UNCHANGED <<mem, mapped, pages, lowest, highest, blocks, heapBroken>>

(* The new tag needs its page. *)
SplitFails(at) ==
  Splits(at) /\ PageOf(Needed(at)) \notin mapped \union PagesIn(at)

PassFree ==
  /\ FreeAt(scan.pos) /\ Space(scan.pos) >= scan.size
  /\ LET at  == scan.pos
         new == Needed(at)
     IN  /\ ~ SplitFails(at)
         /\ mem' = LET m == Lost(mem, PagesIn(at)) IN
                   IF Splits(at)
                   THEN [m EXCEPT ![new] = [mem[at] EXCEPT !.prev = at], ![at].next = new]
                   ELSE m
         /\ mapped' = mapped \union PagesIn(at)
         /\ pages' = pages + Cardinality(PagesIn(at))
         /\ scan' = [scan EXCEPT !.pos = mem'[at].next]
  /\ UNCHANGED <<lowest, highest, blocks, heapBroken>>

ScanBreaks ==
  /\ scan # NoScan
  /\ \/ ~ IsTag(scan.pos)
     \/ FreeAt(scan.pos) /\ Space(scan.pos) >= scan.size /\ SplitFails(scan.pos)
  /\ Break

-----------------------------------------------------------------------------
(* axk_kheap_free.  (axk_kheap_realloc is a free and then an alloc.) *)

PrevFree(at) == IF mem[mem[at].prev].present THEN None ELSE mem[at].prev

NextFree(at) ==
  LET n == mem[at].next
  IN  IF IsLast(n) \/ mem[n].present THEN None ELSE n

Merged(at) ==
  [begin |-> IF PrevFree(at) # None THEN PrevFree(at) ELSE at,
   end   |-> IF NextFree(at) # None THEN mem[NextFree(at)].next ELSE mem[at].next]

FreeFails(at) ==
  \/ ~ IsTag(at) \/ IsLast(at)
  \/ ~ IsTag(mem[at].prev) \/ ~ IsTag(mem[at].next)
  \/ ~ IsTag(Merged(at).end)

(* Mutant: from the first block's own page. *)
InnerFromFirst(begin, end) == PageOf(begin) .. PageOf(end) - 1

Inner(begin, end) == PageOf(begin) + 1 .. PageOf(end) - 1

(* The pages within the merged block are unmapped, and that of the last tag  *)
(* when the block was the last.                                              *)
FreeBlock(b) ==
  /\ scan = NoScan /\ ~ FreeFails(b.at)
  /\ LET begin == Merged(b.at).begin
         end   == Merged(b.at).end
         last  == IsLast(mem[b.at].next)
         gone  == mapped \intersect (Inner(begin, end) \union
                    (IF last /\ PageOf(end) > PageOf(begin) THEN {PageOf(end)} ELSE {}))
         joined == [mem EXCEPT ![begin].next = IF last THEN 0 ELSE end,
                               ![begin].present = FALSE,
                               ![end].prev = begin]
     IN  /\ mem' = Lost(joined, gone)
         /\ mapped' = mapped \ gone /\ pages' = pages - Cardinality(gone)
         /\ highest' = IF last THEN begin ELSE highest
         /\ lowest' = IF begin < lowest THEN begin ELSE lowest
  /\ blocks' = blocks \ {b}
  /\ UNCHANGED <<scan, heapBroken>>

FreeBreaks(b) == scan = NoScan /\ FreeFails(b.at) /\ Break

HeapNext ==
  /\ ~ heapBroken
  /\ \/ \E size \in Sizes : Alloc(size)
     \/ SkipPresent \/ TakeEnd \/ PassTooSmall \/ PassFree \/ ScanBreaks
     \/ \E b \in blocks : FreeBlock(b) \/ FreeBreaks(b)

HeapSpec == HeapInit /\ [][HeapNext]_heapVars

-----------------------------------------------------------------------------
Extent(b) == b.at .. b.at + b.size

(* The blocks that callers have lie apart, on mapped pages, each behind its  *)
(* own tag, whatever was allocated, split, merged and unmapped before.       *)
BlocksApart ==
  \A b \in blocks :
    /\ \A u \in Extent(b) : PageOf(u) \in mapped
    /\ mem[b.at] # Junk /\ mem[b.at].present
    /\ \A u \in Extent(b) \ {b.at} : mem[u] = Junk
    /\ \A c \in blocks \ {b} : Extent(b) \intersect Extent(c) = {}
=============================================================================
