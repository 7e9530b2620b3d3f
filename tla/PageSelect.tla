----------------------------- MODULE PageSelect -----------------------------
(***************************************************************************)
(* Which pages axk_page_acquire picks, said without its loops               *)
(* (axon/source/memory/page_allocator.c, lines 267-371): the first run of   *)
(* free pages that is long enough; failing that the longest run, completed  *)
(* with the first other pages of the scan.  PageScan shows that the loops   *)
(* compute this.                                                            *)
(***************************************************************************)
EXTENDS Integers, FiniteSets, FiniteSetsExt

CONSTANT PageCount     \* g_page_count

ASSUME PageCountAssumption == PageCount \in Nat \ {0}

Pages == 0 .. PageCount - 1

(* The scan has PageCount - 1 positions: upwards it leaves out page 0,      *)
(* downwards (AXK_PAGE_FLAG_PREFER_HIGH) it leaves out the last page.       *)
Positions == 1 .. PageCount - 1

Index(i, high) == IF high THEN PageCount - i - 1 ELSE i

IndexesOf(S, high) == {Index(i, high) : i \in S}

(* The positions at which a run of k free pages starts. *)
RunStarts(free, k, high) ==
  {i \in Positions : \A j \in i .. i + k - 1 : j \in Positions /\ Index(j, high) \in free}

FirstRun(free, k, high) ==
  LET first == Min(RunStarts(free, k, high)) IN first .. first + k - 1

(* The length of the longest run, a single page not counting as a run.      *)
LongestRun(free, high) ==
  Max({0} \union {k \in 2 .. PageCount - 1 : RunStarts(free, k, high) # {}})

(* The pages of the longest run, the first one of that length.              *)
LargestRange(free, high) ==
  LET k == LongestRun(free, high) IN
  IF k = 0 THEN {} ELSE IndexesOf(FirstRun(free, k, high), high)

(* What the second pass may add: line 343 compares the position, not the    *)
(* page, with the range it wants to leave out.                              *)
Remaining(free, high) ==
  {i \in Positions : i \notin LargestRange(free, high) /\ Index(i, high) \in free}

(* Mutant: the second pass stops one page early. *)
FirstButOneOf(S, n) == {i \in S : Cardinality({j \in S : j < i}) + 1 < n}

(* The first n members of a set of numbers. *)
FirstOf(S, n) == {i \in S : Cardinality({j \in S : j < i}) < n}

RunFound(free, n, high) == RunStarts(free, n, high) # {}

Enough(free, n, high) ==
  Cardinality(LargestRange(free, high)) + Cardinality(Remaining(free, high)) >= n

(* Does an acquire of n pages succeed, and which pages does it lock?        *)
Succeeds(free, n, high, consecutive) ==
  RunFound(free, n, high) \/ (~ consecutive /\ Enough(free, n, high))

Selected(free, n, high) ==
  IF RunFound(free, n, high)
  THEN IndexesOf(FirstRun(free, n, high), high)
  ELSE LET range == LargestRange(free, high)
       IN range \union
          IndexesOf(FirstOf(Remaining(free, high), n - Cardinality(range)), high)
=============================================================================
