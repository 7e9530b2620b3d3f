--------------------------- MODULE PageScanProofs ---------------------------
(***************************************************************************)
(* The loops of axk_page_acquire for any memory and any request: a granted  *)
(* list has the length asked for, names free pages only and, scanning       *)
(* upwards, names none twice.                                               *)
(***************************************************************************)
EXTENDS PageScan, FiniteSetTheorems, TLAPS

(* The run the search is in: the last range_count positions, all free.      *)
RunInv ==
  pc \in {"search", "choose"} =>
    /\ range_count <= count /\ range_count < i
    /\ pc = "search" => range_count < count
    /\ searching = 0 <=> range_count = 0
    /\ range_count > 0 => range_start = Index(i - range_count, high)
    /\ \A j \in i - range_count .. i - 1 : Index(j, high) \in free

(* The longest run: shorter than the request, and free.                     *)
LargestInv ==
  /\ largest_range_count < count
  /\ \A p \in Nat : InRange(p) => p \in free
  /\ ~ high /\ largest_range_count > 0 => largest_range_index > 0

(* The list while it is filled: scanning upwards, what is in it is in the   *)
(* longest run or behind the scan.                                          *)
FillInv ==
  pc = "fill" =>
    /\ Len(out_page_list) < count
    /\ ListedPages(out_page_list) \subseteq free
    /\ ~ high => /\ Distinct(out_page_list) /\ 0 \notin ListedPages(out_page_list)
                 /\ \A p \in ListedPages(out_page_list) : InRange(p) \/ p < i

ScanInv == LoopsTyped /\ RunInv /\ LargestInv /\ FillInv /\ GrantSound

(* The page at the loop's position, in either direction. *)
LEMMA HereIsAPage ==
  ASSUME LoopsTyped, i < PageCount
  PROVE  /\ Index(i, high) \in Nat /\ i \in Nat /\ i + 1 \in 1 .. PageCount
         /\ high => Index(i, high) = PageCount - i - 1
         /\ ~ high => Index(i, high) = i
BY PageCountAssumption DEF Index, LoopsTyped

LEMMA PagesAreNumbers == LoopsTyped => \A p \in free : p \in Nat
BY PageCountAssumption DEF LoopsTyped, Pages

(* The list of n pages upwards from page p.                                 *)
LEMMA PagesFromFacts ==
  ASSUME NEW p \in Nat, NEW n \in Nat
  PROVE  /\ PagesFrom(p, n) \in Seq(Nat) /\ Len(PagesFrom(p, n)) = n
         /\ ListedPages(PagesFrom(p, n)) = p .. p + n - 1
         /\ Distinct(PagesFrom(p, n))
<1>1. PagesFrom(p, n) \in Seq(Nat) /\ Len(PagesFrom(p, n)) = n
  <2>1. \A k \in 1 .. n : p + k - 1 \in Nat
    OBVIOUS
  <2> QED BY <2>1 DEF PagesFrom
<1>2. \A k \in 1 .. n : PagesFrom(p, n)[k] = p + k - 1
  BY DEF PagesFrom
<1>3. \A q \in p .. p + n - 1 : q - p + 1 \in 1 .. n /\ q = p + (q - p + 1) - 1
  OBVIOUS
<1>4. ListedPages(PagesFrom(p, n)) = p .. p + n - 1
  <2>1. ListedPages(PagesFrom(p, n)) = {p + k - 1 : k \in 1 .. n}
    BY <1>1, <1>2 DEF ListedPages
  <2>2. \A k \in 1 .. n : p + k - 1 \in p .. p + n - 1
    OBVIOUS
  <2> QED BY <2>1, <2>2, <1>3
<1>5. Distinct(PagesFrom(p, n))
  BY <1>1, <1>2 DEF Distinct
<1> QED BY <1>1, <1>4, <1>5

(* A page joins the list. *)
LEMMA AppendFacts ==
  ASSUME NEW s \in Seq(Nat), NEW p \in Nat
  PROVE  /\ Append(s, p) \in Seq(Nat) /\ Len(Append(s, p)) = Len(s) + 1
         /\ ListedPages(Append(s, p)) = ListedPages(s) \union {p}
         /\ Distinct(s) /\ p \notin ListedPages(s) => Distinct(Append(s, p))
<1>1. /\ Append(s, p) \in Seq(Nat) /\ Len(Append(s, p)) = Len(s) + 1 /\ Len(s) \in Nat
      /\ \A k \in 1 .. Len(s) : Append(s, p)[k] = s[k]
      /\ Append(s, p)[Len(s) + 1] = p
  OBVIOUS
<1>2. 1 .. Len(s) + 1 = (1 .. Len(s)) \union {Len(s) + 1}
  BY <1>1
<1> QED BY <1>1, <1>2 DEF ListedPages, Distinct

LEMMA ScanBegins == ScanInit => ScanInv
BY PageCountAssumption, MaxCountAssumption
DEF ScanInit, ScanInv, LoopsTyped, PCs, RunInv, LargestInv, InRange, FillInv, GrantSound

LEMMA ScanStep == ScanInv /\ [ScanNext]_scanVars => ScanInv'
<1> SUFFICES ASSUME ScanInv, [ScanNext]_scanVars PROVE ScanInv'
  OBVIOUS
<1> USE PageCountAssumption, PagesAreNumbers DEF ScanInv
<1>1. CASE EndSearch
  BY <1>1 DEF EndSearch, args, ranges, LoopsTyped, PCs, RunInv, LargestInv, InRange, FillInv,
     GrantSound
<1>2. CASE StartRun
  <2>1. LoopsTyped'
    BY <1>2, HereIsAPage DEF StartRun, args, LoopsTyped, PCs
  <2>2. RunInv'
    BY <1>2, HereIsAPage DEF StartRun, args, LoopsTyped, RunInv, IsFree
  <2>3. LargestInv' /\ FillInv' /\ GrantSound'
    BY <1>2 DEF StartRun, args, LoopsTyped, LargestInv, InRange, FillInv, GrantSound
  <2> QED BY <2>1, <2>2, <2>3
<1>3. CASE ExtendRun
  <2>1. /\ Index(i, high) \in Nat /\ Index(i, high) \in free /\ i \in Nat /\ i + 1 \in 1 .. PageCount
        /\ high => Index(i, high) = PageCount - i - 1
        /\ ~ high => Index(i, high) = i
        /\ i' = i + 1 /\ range_count' = range_count + 1 /\ pc = "search"
        /\ UNCHANGED <<free, count, high, consecutive, searching, range_start, out_page_list>>
    BY <1>3, HereIsAPage DEF ExtendRun, args, IsFree
  <2>2. /\ range_count \in Nat /\ count \in Nat /\ range_count < count /\ range_count < i
        /\ range_count > 0 => range_start = Index(i - range_count, high)
        /\ \A j \in i - range_count .. i - 1 : Index(j, high) \in free
    BY <2>1 DEF RunInv, LoopsTyped
  <2>3. \A j \in i' - range_count' .. i' - 1 : Index(j, high) \in free
    <3>1. \A j \in i' - range_count' .. i' - 1 : j = i \/ j \in i - range_count .. i - 1
      BY <2>1, <2>2
    <3> QED BY <2>1, <2>2, <3>1
  <2>4. range_start = Index(i' - range_count', high)
    <3>1. i' - range_count' = i - range_count
      BY <2>1, <2>2
    <3>2. range_count > 0
      BY <1>3, <2>2 DEF ExtendRun, RunInv
    <3> QED BY <2>2, <3>1, <3>2
  <2>5. RunInv'
    BY <1>3, <2>1, <2>2, <2>3, <2>4 DEF ExtendRun, RunInv
  <2>6. i - range_count >= 1 /\ range_count + 1 <= i
    BY <2>1, <2>2
  <2>7. /\ pc' \in {"search", "choose"}
        /\ \/ UNCHANGED <<largest_range_index, largest_range_count>>
           \/ /\ largest_range_count' = range_count + 1 /\ range_count + 1 < count
              /\ largest_range_index' =
                   IF high THEN Index(i, high) ELSE Index(i, high) - (range_count + 1) + 1
    BY <1>3, <2>1, <2>2 DEF ExtendRun
  <2>8. CASE UNCHANGED <<largest_range_index, largest_range_count>>
    BY <2>1, <2>2, <2>5, <2>7, <2>8
    DEF LoopsTyped, PCs, LargestInv, InRange, FillInv, GrantSound
  <2>9. CASE /\ largest_range_count' = range_count + 1 /\ range_count + 1 < count
             /\ largest_range_index' =
                  IF high THEN Index(i, high) ELSE Index(i, high) - (range_count + 1) + 1
    <3>1. largest_range_index' = IF high THEN PageCount - i - 1 ELSE i - range_count
      BY <2>1, <2>2, <2>9
    <3>2. largest_range_index' \in Nat /\ (~ high => largest_range_index' > 0)
      BY <2>1, <2>6, <2>9, <3>1
    <3>3. LoopsTyped'
      BY <2>1, <2>2, <2>7, <2>9, <3>2 DEF LoopsTyped, PCs
    <3>4. ASSUME NEW p \in Nat, p >= largest_range_index',
                 p < largest_range_index' + largest_range_count'
          PROVE  p \in free
      <4>1. CASE high
        <5>0. p >= PageCount - i - 1 /\ p < PageCount - i - 1 + (range_count + 1)
          BY <2>9, <3>1, <3>4, <4>1
        <5>1. PageCount - p - 1 \in i - range_count .. i
          BY <2>1, <2>2, <5>0
        <5>2. Index(PageCount - p - 1, high) = p
          BY <4>1 DEF Index
        <5> QED BY <2>1, <2>2, <2>3, <5>1, <5>2
      <4>2. CASE ~ high
        <5>1. p \in i - range_count .. i /\ Index(p, high) = p
          BY <2>1, <2>2, <2>9, <3>1, <3>4, <4>2 DEF Index
        <5> QED BY <2>1, <2>2, <2>3, <5>1
      <4> QED BY <4>1, <4>2
    <3>5. LargestInv'
      BY <2>1, <2>9, <3>2, <3>4 DEF LargestInv, InRange
    <3>6. FillInv' /\ GrantSound'
      BY <2>7 DEF FillInv, GrantSound
    <3> QED BY <2>5, <3>3, <3>5, <3>6
  <2> QED BY <2>7, <2>8, <2>9
<1>4. CASE EndRun
  <2>1. LoopsTyped' /\ RunInv'
    BY <1>4 DEF EndRun, args, LoopsTyped, PCs, RunInv
  <2>2. LargestInv' /\ FillInv' /\ GrantSound'
    BY <1>4 DEF EndRun, args, LoopsTyped, LargestInv, InRange, FillInv, GrantSound
  <2> QED BY <2>1, <2>2
<1>5. CASE TakeRun
  <2> DEFINE first == IF high THEN range_start - count + 1 ELSE range_start
  <2>0. /\ range_count = count /\ count < i /\ range_start = Index(i - count, high)
        /\ \A j \in i - count .. i - 1 : Index(j, high) \in free
        /\ count \in Nat /\ count > 0 /\ i \in Nat /\ i <= PageCount
    BY <1>5 DEF TakeRun, RunInv, LoopsTyped
  <2>1. first \in Nat /\ \A p \in first .. first + count - 1 : p \in free
    <3>1. CASE high
      <4>1. range_start = PageCount - (i - count) - 1
        BY <2>0, <3>1 DEF Index
      <4>2. first = range_start - count + 1
        BY <3>1
      <4>3. first = PageCount - i
        BY <2>0, <4>1, <4>2
      <4>4. ASSUME NEW p \in first .. first + count - 1 PROVE p \in free
        <5>1. PageCount - p - 1 \in i - count .. i - 1
          BY <2>0, <4>3
        <5>2. Index(PageCount - p - 1, high) = p
          BY <2>0, <3>1, <4>3 DEF Index
        <5> QED BY <2>0, <5>1, <5>2
      <4> QED BY <2>0, <4>3, <4>4
    <3>2. CASE ~ high
      BY <2>0, <3>2 DEF Index
    <3> QED BY <3>1, <3>2
  <2>2. ~ high => first > 0
    BY <2>0 DEF Index
  <2>9. out_page_list' = PagesFrom(first, count)
    BY <1>5 DEF TakeRun
  <2> HIDE DEF first
  <2>10. /\ out_page_list' \in Seq(Nat) /\ Len(out_page_list') = count
         /\ ListedPages(out_page_list') = first .. first + count - 1 /\ Distinct(out_page_list')
    BY <2>0, <2>1, <2>9, PagesFromFacts
  <2>3. LoopsTyped'
    BY <1>5, <2>10 DEF TakeRun, args, ranges, LoopsTyped, PCs
  <2>4. GrantSound'
    BY <1>5, <2>0, <2>1, <2>2, <2>10 DEF TakeRun, args, GrantSound
  <2>5. RunInv' /\ LargestInv' /\ FillInv'
    BY <1>5 DEF TakeRun, args, ranges, RunInv, LargestInv, InRange, FillInv
  <2> QED BY <2>3, <2>4, <2>5
<1>6. CASE GiveUp
  BY <1>6 DEF GiveUp, args, ranges, LoopsTyped, PCs, RunInv, LargestInv, InRange, FillInv,
     GrantSound
<1>7. CASE TakeLargest
  <2>1. /\ PagesFrom(largest_range_index, largest_range_count) \in Seq(Nat)
        /\ Len(out_page_list') = largest_range_count
        /\ ListedPages(out_page_list') = largest_range_index .. largest_range_index + largest_range_count - 1
        /\ Distinct(out_page_list')
    BY <1>7, PagesFromFacts DEF TakeLargest, LoopsTyped
  <2>2. LoopsTyped' /\ RunInv' /\ LargestInv' /\ GrantSound'
    BY <1>7, <2>1 DEF TakeLargest, args, ranges, LoopsTyped, PCs, RunInv, LargestInv, InRange,
       GrantSound
  <2>3. \A p \in ListedPages(out_page_list') : p \in Nat /\ InRange(p)
    BY <2>1 DEF LoopsTyped, InRange
  <2>4. 0 \in ListedPages(out_page_list') => high
    BY <2>1 DEF LoopsTyped, LargestInv
  <2>5. FillInv'
    BY <1>7, <2>1, <2>3, <2>4 DEF TakeLargest, args, ranges, FillInv, LargestInv, InRange
  <2> QED BY <2>2, <2>5
<1>8. CASE Fill
  <2>1. CASE ~ (~ InRange(i) /\ IsFree)
    BY <1>8, <2>1 DEF Fill, args, ranges, LoopsTyped, PCs, RunInv, LargestInv, InRange, FillInv,
       GrantSound
  <2>2. CASE ~ InRange(i) /\ IsFree
    <3>1. Index(i, high) \in Nat /\ Index(i, high) \in free /\ (~ high => Index(i, high) = i)
      BY <1>8, <2>2, HereIsAPage DEF Fill, IsFree
    <3>2. /\ out_page_list' \in Seq(Nat) /\ Len(out_page_list') = Len(out_page_list) + 1
          /\ ListedPages(out_page_list') = ListedPages(out_page_list) \union {Index(i, high)}
          /\ Distinct(out_page_list) /\ Index(i, high) \notin ListedPages(out_page_list) => Distinct(out_page_list')
      BY <1>8, <2>2, <3>1, AppendFacts DEF Fill, LoopsTyped
    <3>3. ~ high => i \notin ListedPages(out_page_list)
      BY <1>8, <2>2 DEF Fill, FillInv, LoopsTyped
    <3>4. LoopsTyped' /\ RunInv' /\ LargestInv'
      BY <1>8, <2>2, <3>2 DEF Fill, args, ranges, LoopsTyped, PCs, RunInv, LargestInv, InRange
    <3>5. /\ ListedPages(out_page_list') \subseteq free
          /\ ~ high => Distinct(out_page_list') /\ 0 \notin ListedPages(out_page_list')
      BY <1>8, <3>1, <3>2, <3>3 DEF Fill, FillInv, LoopsTyped
    <3>6. FillInv'
      BY <1>8, <2>2, <3>1, <3>2, <3>5 DEF Fill, args, ranges, FillInv, InRange, LoopsTyped
    <3>7. GrantSound'
      BY <1>8, <2>2, <3>2, <3>5 DEF Fill, args, FillInv, GrantSound, LoopsTyped
    <3> QED BY <3>4, <3>6, <3>7
  <2> QED BY <2>1, <2>2
<1>9. CASE Refuse
  BY <1>9 DEF Refuse, args, ranges, LoopsTyped, PCs, RunInv, LargestInv, InRange, FillInv,
     GrantSound
<1>10. CASE UNCHANGED scanVars
  BY <1>10 DEF scanVars, args, ranges, LoopsTyped, RunInv, LargestInv, InRange, FillInv, GrantSound
<1> QED BY <1>1, <1>2, <1>3, <1>4, <1>5, <1>6, <1>7, <1>8, <1>9, <1>10 DEF ScanNext

(* For every memory and request: a granted list is as long as asked for,    *)
(* its pages were free, and without AXK_PAGE_FLAG_PREFER_HIGH they are      *)
(* distinct and not page 0.                                                 *)
THEOREM GrantsAreSound == ScanSpec => []GrantSound
<1>1. ScanInv => GrantSound
  BY DEF ScanInv
<1> QED BY <1>1, ScanBegins, ScanStep, PTL DEF ScanSpec

(* The types, for every memory and request. *)
THEOREM ScanTyped == ScanSpec => []LoopsTyped
<1>1. ScanInv => LoopsTyped
  BY DEF ScanInv
<1> QED BY <1>1, ScanBegins, ScanStep, PTL DEF ScanSpec

-----------------------------------------------------------------------------
(* The loops compute what PageSelect says.                                  *)

(* What the search has passed: a run that begins before the one it is in is *)
(* no longer than the longest, or it is a single page of several wanted.    *)
PassedInv ==
  pc \in {"search", "choose"} =>
    /\ \A k \in Nat \ {0} : \A s \in RunStarts(free, k, high) :
         s < i - range_count => k <= largest_range_count \/ (k = 1 /\ count > 1)
    /\ range_count >= 2 /\ range_count < count => range_count <= largest_range_count
    /\ pc = "choose" /\ range_count < count => i = PageCount

(* The position at which the longest run begins. *)
LargestAt ==
  IF high THEN PageCount - largest_range_index - largest_range_count ELSE largest_range_index

(* It is the first run of its length. *)
FirstInv ==
  largest_range_count > 0 =>
    /\ largest_range_count >= 2
    /\ LargestAt \in RunStarts(free, largest_range_count, high)
    /\ \A s \in RunStarts(free, largest_range_count, high) : LargestAt <= s

Passed == {j \in Remaining(free, high) : j < i}

(* While the list is filled it is the longest run and what else was passed. *)
FilledInv ==
  pc = "fill" =>
    /\ ~ consecutive /\ RunStarts(free, count, high) = {}
    /\ LongestRun(free, high) = largest_range_count
    /\ ListedPages(out_page_list) = LargestRange(free, high) \union IndexesOf(Passed, high)
    /\ Len(out_page_list) = largest_range_count + Cardinality(Passed)

SelectInv == PassedInv /\ FirstInv /\ FilledInv /\ LoopsSelect

LEMMA MinIs ==
  ASSUME NEW S, S \subseteq Int, NEW x \in S, \A y \in S : x <= y
  PROVE  Min(S) = x
<1> DEFINE m == Min(S)
<1>1. m \in S /\ \A y \in S : m <= y
  BY DEF Min
<1> HIDE DEF m
<1>2. m \in Int /\ x \in Int /\ m <= x /\ x <= m
  BY <1>1
<1>3. m = x
  BY <1>2
<1> QED BY <1>3 DEF m

LEMMA MaxIs ==
  ASSUME NEW S, S \subseteq Int, NEW x \in S, \A y \in S : y <= x
  PROVE  Max(S) = x
<1> DEFINE m == Max(S)
<1>1. m \in S /\ \A y \in S : y <= m
  BY DEF Max
<1> HIDE DEF m
<1>2. m \in Int /\ x \in Int /\ m <= x /\ x <= m
  BY <1>1
<1>3. m = x
  BY <1>2
<1> QED BY <1>3 DEF m

(* A run in either direction is an interval of pages. *)
LEMMA RunPages ==
  ASSUME NEW s \in Nat, NEW k \in Nat, NEW dir \in BOOLEAN
  PROVE  IndexesOf(s .. s + k - 1, dir)
           = IF dir THEN PageCount - s - k .. PageCount - s - 1 ELSE s .. s + k - 1
<1> USE PageCountAssumption
<1>1. CASE dir
  <2>1. IndexesOf(s .. s + k - 1, dir) = {PageCount - j - 1 : j \in s .. s + k - 1}
    BY <1>1 DEF IndexesOf, Index
  <2>2. \A p \in PageCount - s - k .. PageCount - s - 1 :
          PageCount - p - 1 \in s .. s + k - 1 /\ p = PageCount - (PageCount - p - 1) - 1
    OBVIOUS
  <2>3. \A j \in s .. s + k - 1 : PageCount - j - 1 \in PageCount - s - k .. PageCount - s - 1
    OBVIOUS
  <2>4. {PageCount - j - 1 : j \in s .. s + k - 1} = PageCount - s - k .. PageCount - s - 1
    BY <2>2, <2>3
  <2> QED BY <1>1, <2>1, <2>4
<1>2. CASE ~ dir
  BY <1>2 DEF IndexesOf, Index
<1> QED BY <1>1, <1>2

(* The members of a set below a bound are as many of its first members. *)
LEMMA FirstOfFacts ==
  ASSUME NEW S, S \subseteq Nat, IsFiniteSet(S), NEW b \in Nat, NEW n \in Nat,
         Cardinality({j \in S : j < b}) = n
  PROVE  FirstOf(S, n) = {j \in S : j < b}
<1> DEFINE Below(x) == {j \in S : j < x}
<1>1. \A x \in Nat : IsFiniteSet(Below(x)) /\ Cardinality(Below(x)) \in Nat
  BY FS_Subset, FS_CardinalityType
<1>2. ASSUME NEW x \in S, x < b PROVE Cardinality(Below(x)) < n
  <2>0. x \in Nat /\ \A j \in S : j < x => j < b
    BY <1>2
  <2>1. Below(x) \subseteq Below(b) /\ Below(x) # Below(b)
    <3>1. x \in Below(b) /\ x \notin Below(x)
      BY <1>2, <2>0
    <3>2. Below(x) \subseteq Below(b)
      BY <2>0
    <3> QED BY <3>1, <3>2
  <2>2. IsFiniteSet(Below(b)) /\ Cardinality(Below(b)) = n /\ x \in Nat
    BY <1>1
  <2> HIDE DEF Below
  <2> QED BY <1>1, <2>1, <2>2, FS_Subset
<1>3. ASSUME NEW x \in S, ~ (x < b) PROVE ~ (Cardinality(Below(x)) < n)
  <2>0. x \in Nat /\ \A j \in S : j < b => j < x
    BY <1>3
  <2>1. Below(b) \subseteq Below(x)
    BY <2>0
  <2>2. Cardinality(Below(b)) <= Cardinality(Below(x))
    BY <1>1, <2>0, <2>1, FS_Subset
  <2> QED BY <1>1, <2>0, <2>2
<1> QED BY <1>2, <1>3 DEF FirstOf

LEMMA RunFacts ==
  ASSUME NEW k \in Nat \ {0}, NEW s \in RunStarts(free, k, high)
  PROVE  /\ s \in Nat /\ s >= 1 /\ s + k <= PageCount
         /\ \A j \in s .. s + k - 1 : Index(j, high) \in free
<1>1. s \in Positions /\ \A j \in s .. s + k - 1 : j \in Positions /\ Index(j, high) \in free
  BY DEF RunStarts
<1>2. s \in Nat /\ s >= 1 /\ s + k - 1 \in s .. s + k - 1
  BY <1>1 DEF Positions
<1>3. s + k - 1 <= PageCount - 1
  BY <1>1, <1>2 DEF Positions
<1> QED BY <1>1, <1>2, <1>3, PageCountAssumption

LEMMA IsRun ==
  ASSUME NEW k \in Nat \ {0}, NEW s \in Nat, s >= 1, s + k <= PageCount,
         \A j \in s .. s + k - 1 : Index(j, high) \in free
  PROVE  s \in RunStarts(free, k, high)
BY PageCountAssumption DEF RunStarts, Positions

(* A search without success has seen every run. *)
LEMMA SearchOver ==
  ASSUME ScanInv, PassedInv, FirstInv, pc = "choose", range_count < count
  PROVE  /\ RunStarts(free, count, high) = {}
         /\ LongestRun(free, high) = largest_range_count
<1> DEFINE L == largest_range_count
           T == {0} \union {k \in 2 .. PageCount - 1 : RunStarts(free, k, high) # {}}
<1>1. /\ L \in Nat /\ count \in Nat \ {0} /\ L < count /\ range_count \in Nat
      /\ i = PageCount /\ PageCount \in Nat \ {0} /\ range_count < i
  BY PageCountAssumption DEF ScanInv, LoopsTyped, LargestInv, RunInv, PassedInv
<1>2. ASSUME NEW k \in Nat \ {0}, NEW s \in RunStarts(free, k, high)
      PROVE  k <= L \/ (k = 1 /\ count > 1)
  <2>1. CASE s < i - range_count
    BY <1>2, <2>1 DEF PassedInv
  <2>2. CASE ~ (s < i - range_count)
    <3>1. s \in Nat /\ s + k <= PageCount
      BY <1>2, RunFacts
    <3>2. k <= range_count
      BY <1>1, <2>2, <3>1
    <3>3. range_count >= 2 => range_count <= L
      BY DEF PassedInv
    <3> HIDE DEF L
    <3>4. CASE k = 1
      BY <1>1, <3>2, <3>4
    <3>5. CASE k # 1
      BY <1>1, <3>2, <3>3, <3>5
    <3> QED BY <3>4, <3>5
  <2> QED BY <2>1, <2>2
<1>3. RunStarts(free, count, high) = {}
  <2> SUFFICES ASSUME NEW s \in RunStarts(free, count, high) PROVE FALSE
    OBVIOUS
  <2>1. count <= L \/ (count = 1 /\ count > 1)
    BY <1>1, <1>2
  <2> HIDE DEF L
  <2> QED BY <2>1, <1>1
<1>4. L \in T
  <2>1. CASE L = 0
    BY <2>1
  <2>2. CASE L # 0
    <3>1. L >= 2 /\ LargestAt \in RunStarts(free, L, high)
      BY <1>1, <2>2 DEF FirstInv
    <3>2. LargestAt \in Nat /\ LargestAt >= 1 /\ LargestAt + L <= PageCount
      BY <1>1, <2>2, <3>1, RunFacts
    <3>3. L \in 2 .. PageCount - 1
      <4> HIDE DEF L
      <4> QED BY <1>1, <3>1, <3>2
    <3> QED BY <3>1, <3>3
  <2> QED BY <2>1, <2>2
<1>5. \A k \in T : k <= L
  <2> SUFFICES ASSUME NEW k \in T PROVE k <= L
    OBVIOUS
  <2>1. CASE k = 0
    BY <1>1, <2>1
  <2>2. CASE k # 0
    <3>1. k \in Nat \ {0} /\ k >= 2 /\ RunStarts(free, k, high) # {}
      BY <1>1, <2>2
    <3>2. k <= L \/ k = 1
      BY <1>2, <3>1
    <3> HIDE DEF T
    <3> QED BY <3>1, <3>2
  <2> QED BY <2>1, <2>2
<1>6. T \subseteq Int
  BY <1>1
<1>7. LongestRun(free, high) = Max(T)
  BY DEF LongestRun
<1> HIDE DEF L, T
<1>8. Max(T) = L
  BY <1>4, <1>5, <1>6, MaxIs
<1> QED BY <1>3, <1>7, <1>8 DEF L

(* The range the second pass leaves out is the longest run's pages. *)
LEMMA LargestIs ==
  ASSUME LoopsTyped, FirstInv, LongestRun(free, high) = largest_range_count
  PROVE  /\ LargestRange(free, high)
              = largest_range_index .. largest_range_index + largest_range_count - 1
         /\ IsFiniteSet(LargestRange(free, high))
         /\ Cardinality(LargestRange(free, high)) = largest_range_count
         /\ \A p \in Nat : p \in LargestRange(free, high) <=> InRange(p)
<1> DEFINE L == largest_range_count
           at == largest_range_index
<1>1. L \in Nat /\ at \in Nat /\ high \in BOOLEAN /\ PageCount \in Nat
  BY PageCountAssumption DEF LoopsTyped
<1>2. LargestRange(free, high) = at .. at + L - 1
  <2>1. CASE L = 0
    <3>1. at .. at + L - 1 = {}
      BY <1>1, <2>1
    <3> QED BY <2>1, <3>1 DEF LargestRange
  <2>2. CASE L # 0
    <3>1. /\ LargestAt \in RunStarts(free, L, high)
          /\ \A s \in RunStarts(free, L, high) : LargestAt <= s
      BY <1>1, <2>2 DEF FirstInv
    <3>2. RunStarts(free, L, high) \subseteq Int /\ LargestAt \in Nat
      BY <1>1, <2>2, <3>1, RunFacts
    <3>3. FirstRun(free, L, high) = LargestAt .. LargestAt + L - 1
      <4>1. Min(RunStarts(free, L, high)) = LargestAt
        BY <3>1, <3>2, MinIs
      <4> QED BY <4>1 DEF FirstRun
    <3>4. LargestRange(free, high) = IndexesOf(LargestAt .. LargestAt + L - 1, high)
      BY <2>2, <3>3 DEF LargestRange
    <3>5. @ = IF high THEN PageCount - LargestAt - L .. PageCount - LargestAt - 1
              ELSE LargestAt .. LargestAt + L - 1
      <4> HIDE DEF L
      <4> QED BY ONLY <1>1, <3>2, RunPages
    <3>6. LargestAt = IF high THEN PageCount - at - L ELSE at
      BY DEF LargestAt
    <3> HIDE DEF L, at
    <3>7. high => PageCount - LargestAt - L = at /\ PageCount - LargestAt - 1 = at + L - 1
      BY <1>1, <3>6
    <3> QED BY <3>4, <3>5, <3>6, <3>7
  <2> QED BY <2>1, <2>2
<1>3. IsFiniteSet(at .. at + L - 1) /\ Cardinality(at .. at + L - 1) = L
  <2> HIDE DEF at, L
  <2>1. at + L - 1 \in Int /\ at \in Int
    BY <1>1
  <2>2. /\ IsFiniteSet(at .. at + L - 1)
        /\ Cardinality(at .. at + L - 1) = IF at > at + L - 1 THEN 0 ELSE (at + L - 1) - at + 1
    BY <2>1, FS_Interval
  <2> QED BY <1>1, <2>2
<1>4. \A p \in Nat : p \in at .. at + L - 1 <=> InRange(p)
  BY <1>1 DEF InRange
<1> QED BY <1>2, <1>3, <1>4

LEMMA RemainingFacts ==
  /\ Remaining(free, high) \subseteq Positions
  /\ IsFiniteSet(Remaining(free, high)) /\ IsFiniteSet(Passed)
  /\ Cardinality(Remaining(free, high)) \in Nat /\ Cardinality(Passed) \in Nat
  /\ Cardinality(Passed) <= Cardinality(Remaining(free, high))
<1>1. Remaining(free, high) \subseteq Positions /\ Passed \subseteq Remaining(free, high)
  BY DEF Remaining, Passed
<1>2. IsFiniteSet(Positions)
  BY PageCountAssumption, FS_Interval DEF Positions
<1>3. IsFiniteSet(Remaining(free, high)) /\ IsFiniteSet(Passed)
  BY <1>1, <1>2, FS_Subset
<1> QED BY <1>1, <1>3, FS_CardinalityType, FS_Subset

LEMMA SelectInit == ScanInit => SelectInv
<1> SUFFICES ASSUME ScanInit PROVE SelectInv
  OBVIOUS
<1>1. \A k \in Nat \ {0} : \A s \in RunStarts(free, k, high) : s >= 1 /\ s \in Nat
  BY RunFacts
<1>2. PassedInv
  BY <1>1, MaxCountAssumption DEF ScanInit, PassedInv
<1> QED BY <1>2 DEF ScanInit, SelectInv, FirstInv, FilledInv, LoopsSelect

(* An iteration of the search. *)
LEMMA SearchStep ==
  ASSUME ScanInv, ScanInv', SelectInv, StartRun \/ ExtendRun \/ EndRun
  PROVE  SelectInv'
<1> DEFINE L == largest_range_count
<1>1. /\ L \in Nat /\ count \in Nat \ {0} /\ i \in Nat /\ range_count \in Nat
      /\ range_count < count /\ range_count < i /\ i < PageCount /\ PageCount \in Nat \ {0}
      /\ pc = "search" /\ UNCHANGED args /\ i' = i + 1 /\ high \in BOOLEAN
      /\ searching \in {0, 1}
  BY PageCountAssumption
  DEF StartRun, ExtendRun, EndRun, ScanInv, LoopsTyped, LargestInv, RunInv
<1>2. /\ \A k \in Nat \ {0} : \A s \in RunStarts(free, k, high) :
           s < i - range_count => k <= L \/ (k = 1 /\ count > 1)
      /\ range_count >= 2 => range_count <= L
  BY <1>1 DEF SelectInv, PassedInv
<1>3. pc' \in {"search", "choose"} /\ FilledInv' /\ LoopsSelect'
  BY <1>1 DEF StartRun, ExtendRun, EndRun, FilledInv, LoopsSelect
<1>4. CASE StartRun
  <2>1. /\ range_count = 0 /\ range_count' = 1 /\ UNCHANGED <<largest_range_index, L>>
        /\ pc' = IF count = 1 THEN "choose" ELSE "search"
    BY <1>1, <1>4 DEF StartRun, ScanInv, RunInv
  <2>2. i' - range_count' = i - range_count
    BY <1>1, <2>1
  <2>3. PassedInv'
    BY <1>1, <1>2, <2>1, <2>2 DEF PassedInv, args
  <2>4. FirstInv'
    BY <1>1, <2>1 DEF SelectInv, FirstInv, LargestAt, args
  <2> QED BY <1>3, <2>3, <2>4 DEF SelectInv
<1>5. CASE EndRun
  <2>1. /\ range_count' = 0 /\ UNCHANGED <<largest_range_index, L, pc>>
        /\ Index(i, high) \notin free
    BY <1>1, <1>5 DEF EndRun, ScanInv, RunInv, IsFree
  <2>2. ASSUME NEW k \in Nat \ {0}, NEW s \in RunStarts(free, k, high), s < i + 1
        PROVE  k <= L \/ (k = 1 /\ count > 1)
    <3>1. CASE s < i - range_count
      BY <1>2, <3>1
    <3>2. CASE ~ (s < i - range_count)
      <4>1. s \in Nat /\ \A j \in s .. s + k - 1 : Index(j, high) \in free
        BY RunFacts
      <4>2. i \notin s .. s + k - 1
        BY <2>1, <4>1
      <4>3. s + k <= i
        BY <1>1, <2>2, <4>1, <4>2
      <4>4. k <= range_count
        BY <1>1, <3>2, <4>1, <4>3
      <4> HIDE DEF L
      <4>5. CASE k = 1
        BY <1>1, <4>4, <4>5
      <4>6. CASE k # 1
        BY <1>1, <1>2, <4>4, <4>6
      <4> QED BY <4>5, <4>6
    <3> QED BY <3>1, <3>2
  <2>3. PassedInv'
    <3>1. i' - range_count' = i + 1
      BY <1>1, <2>1
    <3> QED BY <1>1, <2>1, <2>2, <3>1 DEF PassedInv, args
  <2>4. FirstInv'
    BY <1>1, <2>1 DEF SelectInv, FirstInv, LargestAt, args
  <2> QED BY <1>3, <2>3, <2>4 DEF SelectInv
<1>6. CASE ExtendRun
  <2>1. /\ range_count' = range_count + 1 /\ range_count >= 1
        /\ range_count + 1 >= count => UNCHANGED <<largest_range_index, L>>
        /\ range_count + 1 < count => pc' = "search"
        /\ range_count + 1 < count /\ range_count + 1 <= L => UNCHANGED <<largest_range_index, L>>
        /\ range_count + 1 < count /\ range_count + 1 > L =>
             /\ L' = range_count + 1
             /\ largest_range_index' = IF high THEN Index(i, high)
                                       ELSE Index(i, high) - (range_count + 1) + 1
    BY <1>1, <1>6 DEF ExtendRun, ScanInv, RunInv
  <2>2. i' - range_count' = i - range_count /\ i - range_count \in Nat /\ i - range_count >= 1
    BY <1>1, <2>1
  <2>3. CASE UNCHANGED <<largest_range_index, L>>
    <3>1. PassedInv'
      <4>1. range_count + 1 < count => range_count + 1 <= L
        <5>1. range_count + 1 < count /\ range_count + 1 > L => L' # L
          <6> HIDE DEF L
          <6> QED BY <1>1, <2>1
        <5> QED BY <1>1, <2>3, <5>1
      <4>2. pc' = "choose" => ~ (range_count' < count')
        BY <1>1, <2>1 DEF args
      <4> QED BY <1>1, <1>2, <2>1, <2>2, <2>3, <4>1, <4>2 DEF PassedInv, args
    <3>2. FirstInv'
      BY <1>1, <2>3 DEF SelectInv, FirstInv, LargestAt, args
    <3> QED BY <1>3, <3>1, <3>2 DEF SelectInv
  <2>4. CASE ~ UNCHANGED <<largest_range_index, L>>
    <3>1. /\ range_count + 1 < count /\ range_count + 1 > L /\ L' = range_count + 1
          /\ pc' = "search"
          /\ largest_range_index' = IF high THEN Index(i, high)
                                    ELSE Index(i, high) - (range_count + 1) + 1
      <4> HIDE DEF L
      <4> QED BY <1>1, <2>1, <2>4
    <3>2. LargestAt' = i - range_count
      <4>1. Index(i, high) = IF high THEN PageCount - i - 1 ELSE i
        BY DEF Index
      <4>2. LargestAt' = IF high THEN PageCount - largest_range_index' - (range_count + 1)
                         ELSE largest_range_index'
        BY <1>1, <3>1 DEF LargestAt, args
      <4> QED BY <1>1, <3>1, <4>1, <4>2
    <3>3. i - range_count \in RunStarts(free, range_count + 1, high)
      <4>1. \A j \in i - range_count .. i : Index(j, high) \in free
        <5>1. Index(i, high) \in free
          BY <1>6 DEF ExtendRun, IsFree
        <5>2. \A j \in i - range_count .. i - 1 : Index(j, high) \in free
          BY <1>1 DEF ScanInv, RunInv
        <5>3. \A j \in i - range_count .. i : j = i \/ j \in i - range_count .. i - 1
          BY <1>1
        <5> QED BY <5>1, <5>2, <5>3
      <4>2. (i - range_count) + (range_count + 1) - 1 = i /\ i + 1 <= PageCount
        BY <1>1
      <4>3. (i - range_count) + (range_count + 1) <= PageCount /\ range_count + 1 \in Nat \ {0}
        BY <1>1
      <4> QED BY <2>2, <4>1, <4>2, <4>3, IsRun
    <3>4. ASSUME NEW s \in RunStarts(free, range_count + 1, high) PROVE i - range_count <= s
      <4>1. range_count + 1 \in Nat \ {0} /\ range_count + 1 # 1
        BY <1>1, <2>1
      <4>2. s \in Nat
        BY <4>1, RunFacts
      <4>3. s < i - range_count => range_count + 1 <= L
        BY <1>2, <4>1
      <4> HIDE DEF L
      <4> QED BY <1>1, <3>1, <4>2, <4>3
    <3>5. FirstInv'
      <4>1. L' >= 2
        BY <1>1, <2>1, <3>1
      <4> QED BY <1>1, <3>1, <3>2, <3>3, <3>4, <4>1 DEF FirstInv, args
    <3>6. PassedInv'
      <4>1. ASSUME NEW k \in Nat \ {0}, NEW s \in RunStarts(free, k, high), s < i - range_count
            PROVE  k <= range_count + 1 \/ (k = 1 /\ count > 1)
        <5>1. k <= L \/ (k = 1 /\ count > 1)
          BY <1>2, <4>1
        <5> HIDE DEF L
        <5> QED BY <1>1, <3>1, <5>1
      <4> QED BY <1>1, <2>1, <2>2, <3>1, <4>1 DEF PassedInv, args
    <3> QED BY <1>3, <3>5, <3>6 DEF SelectInv
  <2> QED BY <2>3, <2>4
<1> QED BY <1>4, <1>5, <1>6

(* A run that is long enough is the first of its length. *)
LEMMA TakeRunSelects ==
  ASSUME ScanInv, SelectInv, TakeRun
  PROVE  SelectInv'
<1> DEFINE s == i - count
<1>1. /\ range_count = count /\ count < i /\ range_start = Index(s, high)
      /\ \A j \in s .. i - 1 : Index(j, high) \in free
      /\ count \in Nat \ {0} /\ i \in Nat /\ i <= PageCount /\ PageCount \in Nat
      /\ largest_range_count \in Nat /\ largest_range_count < count
      /\ high \in BOOLEAN /\ pc = "choose" /\ pc' = "granted" /\ UNCHANGED <<args, i, ranges>>
      /\ out_page_list' = PagesFrom(IF high THEN range_start - count + 1 ELSE range_start, count)
  BY PageCountAssumption DEF TakeRun, ScanInv, RunInv, LoopsTyped, LargestInv
<1>2. s \in Nat /\ s >= 1 /\ s + count = i
  BY <1>1
<1>3. s \in RunStarts(free, count, high)
  <2>1. s + count - 1 = i - 1 /\ s + count <= PageCount
    BY <1>1, <1>2
  <2> HIDE DEF s
  <2> QED BY <1>1, <1>2, <2>1, IsRun
<1>4. \A t \in RunStarts(free, count, high) : s <= t
  <2> SUFFICES ASSUME NEW t \in RunStarts(free, count, high) PROVE s <= t
    OBVIOUS
  <2>1. t \in Nat
    BY <1>1, RunFacts
  <2>2. t < i - range_count => count <= largest_range_count \/ (count = 1 /\ count > 1)
    BY <1>1 DEF SelectInv, PassedInv
  <2> QED BY <1>1, <1>2, <2>1, <2>2
<1>5. Min(RunStarts(free, count, high)) = s
  <2>1. RunStarts(free, count, high) \subseteq Int
    BY <1>1, RunFacts
  <2> QED BY <1>3, <1>4, <2>1, MinIs
<1>6. ListedPages(out_page_list') = IndexesOf(s .. s + count - 1, high)
  <2> DEFINE first == IF high THEN PageCount - s - count ELSE s
  <2>1. range_start = IF high THEN PageCount - s - 1 ELSE s
    BY <1>1 DEF Index
  <2>2. (IF high THEN range_start - count + 1 ELSE range_start) = first
    BY <1>1, <1>2, <2>1
  <2>3. first \in Nat
    BY <1>1, <1>2
  <2>4. out_page_list' = PagesFrom(first, count)
    BY <1>1, <2>2
  <2>5. ListedPages(out_page_list') = first .. first + count - 1
    <3> HIDE DEF first
    <3> QED BY <1>1, <2>3, <2>4, PagesFromFacts
  <2>6. high => first + count - 1 = PageCount - s - 1
    BY <1>1, <1>2
  <2>7. IndexesOf(s .. s + count - 1, high)
          = IF high THEN PageCount - s - count .. PageCount - s - 1 ELSE s .. s + count - 1
    <3>1. s \in Nat /\ count \in Nat /\ high \in BOOLEAN
      BY <1>1, <1>2
    <3> HIDE DEF s
    <3> QED BY ONLY <3>1, RunPages
  <2> QED BY <2>5, <2>6, <2>7
<1>7. LoopsSelect'
  <2>1. Succeeds(free, count, high, consecutive)
    BY <1>3 DEF Succeeds, RunFound
  <2>2. Selected(free, count, high) = IndexesOf(s .. s + count - 1, high)
    BY <1>3, <1>5 DEF Selected, RunFound, FirstRun
  <2> QED BY <1>1, <1>6, <2>1, <2>2 DEF LoopsSelect, args
<1>8. PassedInv' /\ FilledInv'
  BY <1>1 DEF PassedInv, FilledInv
<1>9. FirstInv'
  BY <1>1 DEF SelectInv, FirstInv, LargestAt, args, ranges
<1> QED BY <1>7, <1>8, <1>9 DEF SelectInv

(* No run is long enough: give up, or begin with the longest. *)
LEMMA ChooseSelects ==
  ASSUME ScanInv, SelectInv, GiveUp \/ TakeLargest
  PROVE  SelectInv'
<1>1. /\ pc = "choose" /\ range_count < count /\ UNCHANGED <<args, ranges>>
      /\ GiveUp => consecutive /\ pc' = "leaked" /\ UNCHANGED out_page_list
      /\ TakeLargest => /\ ~ consecutive /\ pc' = "fill" /\ i' = 1
                        /\ out_page_list' = PagesFrom(largest_range_index, largest_range_count)
  BY DEF GiveUp, TakeLargest
<1>2. /\ RunStarts(free, count, high) = {}
      /\ LongestRun(free, high) = largest_range_count
  BY <1>1, SearchOver DEF SelectInv
<1>3. PassedInv'
  BY <1>1 DEF PassedInv
<1>4. FirstInv'
  BY <1>1 DEF SelectInv, FirstInv, LargestAt, args, ranges
<1>5. CASE GiveUp
  BY <1>1, <1>2, <1>3, <1>4, <1>5
  DEF SelectInv, FilledInv, LoopsSelect, Succeeds, RunFound, args
<1>6. CASE TakeLargest
  <2>1. /\ LargestRange(free, high)
             = largest_range_index .. largest_range_index + largest_range_count - 1
        /\ largest_range_index \in Nat /\ largest_range_count \in Nat
    BY <1>2, LargestIs DEF SelectInv, ScanInv, LoopsTyped
  <2>2. ListedPages(out_page_list') = LargestRange(free, high) /\ Len(out_page_list') = largest_range_count
    BY <1>1, <1>6, <2>1, PagesFromFacts
  <2>3. Passed' = {}
    <3>1. \A j \in Positions : ~ (j < 1)
      BY DEF Positions
    <3>2. Passed' = {j \in Remaining(free, high) : j < 1}
      BY <1>1, <1>6 DEF Passed, args
    <3> QED BY <3>1, <3>2, RemainingFacts
  <2>4. IndexesOf(Passed', high) = {} /\ Cardinality(Passed') = 0
    BY <2>3, FS_EmptySet DEF IndexesOf
  <2>5. FilledInv'
    BY <1>1, <1>2, <1>6, <2>1, <2>2, <2>4 DEF FilledInv, args, ranges
  <2> QED BY <1>1, <1>3, <1>4, <1>6, <2>5 DEF SelectInv, LoopsSelect
<1> QED BY <1>5, <1>6

(* An iteration of the second loop. *)
LEMMA FillSelects ==
  ASSUME ScanInv, ScanInv', SelectInv, Fill
  PROVE  SelectInv'
<1> DEFINE L == largest_range_count
           R == Remaining(free, high)
<1>1. /\ pc = "fill" /\ i \in Nat /\ i >= 1 /\ i < PageCount /\ i' = i + 1 /\ high \in BOOLEAN
      /\ UNCHANGED <<args, ranges>> /\ out_page_list \in Seq(Nat) /\ Len(out_page_list) < count
      /\ count \in Nat /\ L \in Nat /\ L < count /\ i \in Positions
  BY PageCountAssumption DEF Fill, ScanInv, LoopsTyped, FillInv, LargestInv, Positions
<1>2. /\ ~ consecutive /\ RunStarts(free, count, high) = {}
      /\ LongestRun(free, high) = L
      /\ ListedPages(out_page_list) = LargestRange(free, high) \union IndexesOf(Passed, high)
      /\ Len(out_page_list) = L + Cardinality(Passed)
  BY <1>1 DEF SelectInv, FilledInv
<1>3. /\ Cardinality(LargestRange(free, high)) = L
      /\ i \in LargestRange(free, high) <=> InRange(i)
  BY <1>1, <1>2, LargestIs DEF SelectInv, ScanInv
<1>4. i \in R <=> ~ InRange(i) /\ IsFree
  BY <1>1, <1>3 DEF Remaining, IsFree
<1>5. PassedInv'
  BY <1>1 DEF Fill, PassedInv
<1>6. FirstInv'
  BY <1>1 DEF SelectInv, FirstInv, LargestAt, args, ranges
<1>7. Passed' = {j \in R : j < i + 1} /\ \A j \in R : j \in Nat
  BY <1>1, RemainingFacts DEF Passed, args, Positions
<1>8. CASE i \notin R
  <2>1. UNCHANGED <<out_page_list, pc>>
    BY <1>4, <1>8 DEF Fill
  <2>2. Passed' = Passed
    <3>1. \A j \in R : j < i + 1 <=> j < i
      BY <1>1, <1>7, <1>8
    <3> QED BY <1>7, <3>1 DEF Passed
  <2>3. FilledInv'
    BY <1>1, <1>2, <2>1, <2>2 DEF FilledInv, args, ranges
  <2> QED BY <1>1, <1>5, <1>6, <2>1, <2>3 DEF SelectInv, LoopsSelect
<1>9. CASE i \in R
  <2>1. /\ out_page_list' = Append(out_page_list, Index(i, high))
        /\ pc' = IF Len(out_page_list') >= count THEN "granted" ELSE "fill"
    BY <1>1, <1>4, <1>9 DEF Fill
  <2>2. /\ ListedPages(out_page_list') = ListedPages(out_page_list) \union {Index(i, high)}
        /\ Len(out_page_list') = Len(out_page_list) + 1
    BY <1>1, <2>1, HereIsAPage, AppendFacts DEF ScanInv
  <2>3. Passed' = Passed \union {i} /\ i \notin Passed
    <3>1. \A j \in R : j < i + 1 <=> j < i \/ j = i
      BY <1>1, <1>7
    <3>2. i \notin Passed
      BY <1>1 DEF Passed
    <3>3. \A j : j \in Passed <=> j \in R /\ j < i
      BY DEF Passed
    <3> HIDE DEF R
    <3> QED BY <1>7, <1>9, <3>1, <3>2, <3>3
  <2>4. Cardinality(Passed') = Cardinality(Passed) + 1 /\ Cardinality(Passed) \in Nat
    BY <2>3, FS_AddElement, RemainingFacts
  <2>5. IndexesOf(Passed', high) = IndexesOf(Passed, high) \union {Index(i, high)}
    BY <2>3 DEF IndexesOf
  <2>6. /\ ListedPages(out_page_list') = LargestRange(free, high) \union IndexesOf(Passed', high)
        /\ Len(out_page_list') = L + Cardinality(Passed')
    BY <1>1, <1>2, <2>2, <2>4, <2>5
  <2>7. FilledInv'
    BY <1>1, <1>2, <2>6 DEF FilledInv, args, ranges
  <2>8. LoopsSelect'
    <3>1. CASE ~ (Len(out_page_list') >= count)
      BY <2>1, <3>1 DEF LoopsSelect
    <3>2. CASE Len(out_page_list') >= count
      <4>1. Cardinality(Passed') = count - L /\ count - L \in Nat
        BY <1>1, <1>2, <2>2, <2>4, <3>2
      <4>2. FirstOf(R, count - L) = Passed'
        <5>1. R \subseteq Nat /\ IsFiniteSet(R) /\ i + 1 \in Nat
          BY <1>1, <1>7, RemainingFacts
        <5> HIDE DEF R, L
        <5> QED BY <1>7, <4>1, <5>1, FirstOfFacts
      <4>3. Enough(free, count, high)
        <5>1. Cardinality(Passed') <= Cardinality(R) /\ Cardinality(R) \in Nat
          BY <1>7, RemainingFacts, FS_Subset
        <5>2. L + Cardinality(R) >= count
          <6> HIDE DEF L, R
          <6> QED BY <1>1, <4>1, <5>1
        <5> QED BY <1>3, <5>2 DEF Enough
      <4>4. Succeeds(free, count, high, consecutive)
        BY <1>2, <4>3 DEF Succeeds
      <4>5. Selected(free, count, high)
              = LargestRange(free, high) \union IndexesOf(FirstOf(R, count - L), high)
        BY <1>2, <1>3 DEF Selected, RunFound
      <4> QED BY <1>1, <2>1, <2>6, <3>2, <4>2, <4>4, <4>5 DEF LoopsSelect, args
    <3> QED BY <3>1, <3>2
  <2> QED BY <1>5, <1>6, <2>7, <2>8 DEF SelectInv
<1> QED BY <1>8, <1>9

LEMMA RefuseSelects ==
  ASSUME ScanInv, SelectInv, Refuse
  PROVE  SelectInv'
<1>1. /\ pc = "fill" /\ i = PageCount /\ pc' = "refused" /\ UNCHANGED <<args, i, ranges>>
      /\ Len(out_page_list) < count /\ count \in Nat
  BY DEF Refuse, ScanInv, FillInv, LoopsTyped
<1>2. /\ RunStarts(free, count, high) = {} /\ LongestRun(free, high) = largest_range_count
      /\ Len(out_page_list) = largest_range_count + Cardinality(Passed)
  BY <1>1 DEF SelectInv, FilledInv
<1>3. Passed = Remaining(free, high)
  BY <1>1, RemainingFacts, PageCountAssumption DEF Passed, Positions
<1>4. Cardinality(LargestRange(free, high)) = largest_range_count
  BY <1>2, LargestIs DEF SelectInv, ScanInv
<1>5. ~ Enough(free, count, high)
  <2>1. largest_range_count + Cardinality(Remaining(free, high)) < count
    BY <1>1, <1>2, <1>3
  <2>2. largest_range_count \in Nat /\ Cardinality(Remaining(free, high)) \in Nat
    BY RemainingFacts DEF ScanInv, LoopsTyped
  <2> QED BY <1>1, <1>4, <2>1, <2>2 DEF Enough
<1>6. LoopsSelect'
  BY <1>1, <1>2, <1>5 DEF LoopsSelect, Succeeds, RunFound, args
<1>7. FirstInv'
  BY <1>1 DEF SelectInv, FirstInv, LargestAt, args, ranges
<1> QED BY <1>1, <1>6, <1>7 DEF SelectInv, PassedInv, FilledInv

LEMMA SelectStep == ScanInv /\ ScanInv' /\ SelectInv /\ [ScanNext]_scanVars => SelectInv'
<1> SUFFICES ASSUME ScanInv, ScanInv', SelectInv, [ScanNext]_scanVars PROVE SelectInv'
  OBVIOUS
<1>1. CASE EndSearch
  <2>1. /\ pc = "search" /\ pc' = "choose" /\ i = PageCount
        /\ UNCHANGED <<args, i, ranges, out_page_list>>
    BY <1>1 DEF EndSearch
  <2>2. PassedInv' /\ FirstInv'
    BY <2>1 DEF SelectInv, PassedInv, FirstInv, LargestAt, args, ranges
  <2> QED BY <2>1, <2>2 DEF SelectInv, FilledInv, LoopsSelect
<1>2. CASE StartRun \/ ExtendRun \/ EndRun
  BY <1>2, SearchStep
<1>3. CASE TakeRun
  BY <1>3, TakeRunSelects
<1>4. CASE GiveUp \/ TakeLargest
  BY <1>4, ChooseSelects
<1>5. CASE Fill
  BY <1>5, FillSelects
<1>6. CASE Refuse
  BY <1>6, RefuseSelects
<1>7. CASE UNCHANGED scanVars
  BY <1>7 DEF scanVars, args, ranges, SelectInv, PassedInv, FirstInv, LargestAt, FilledInv, Passed,
     LoopsSelect
<1> QED BY <1>1, <1>2, <1>3, <1>4, <1>5, <1>6, <1>7 DEF ScanNext

(* The two loops with their three flags and early exits compute, for every  *)
(* memory and request, the selection that PageSelect defines without loops, *)
(* and succeed exactly when it says so (page_allocator.c:267-371).          *)
THEOREM LoopsAreTheSelection == ScanSpec => []LoopsSelect
<1>1. SelectInv => LoopsSelect
  BY DEF SelectInv
<1> QED BY <1>1, ScanBegins, ScanStep, SelectInit, SelectStep, PTL DEF ScanSpec

-----------------------------------------------------------------------------
(* Refusals.                                                                *)

(* Scanning upwards, every free page that was passed is in the list.        *)
KeptInv ==
  /\ pc = "fill" /\ ~ high =>
       \A p \in free : InRange(p) \/ (p >= 1 /\ p < i) => p \in ListedPages(out_page_list)
  /\ pc = "fill" => ~ consecutive
  /\ RefusalJustified

(* A list names at most as many pages as it is long. *)
LEMMA ListCounts ==
  ASSUME NEW s \in Seq(Nat)
  PROVE  /\ IsFiniteSet(ListedPages(s)) /\ Cardinality(ListedPages(s)) \in Nat
         /\ Cardinality(ListedPages(s)) <= Len(s)
<1> DEFINE f == [k \in 1 .. Len(s) |-> s[k]]
<1>1. Len(s) \in Nat
  OBVIOUS
<1>2. f \in Surjection(1 .. Len(s), ListedPages(s))
  BY DEF Surjection, ListedPages
<1>3. IsFiniteSet(1 .. Len(s)) /\ Cardinality(1 .. Len(s)) = Len(s)
  <2>1. /\ IsFiniteSet(1 .. Len(s))
        /\ Cardinality(1 .. Len(s)) = IF 1 > Len(s) THEN 0 ELSE Len(s) - 1 + 1
    BY <1>1, 1 \in Int, Len(s) \in Int, FS_Interval
  <2> QED BY <1>1, <2>1
<1> HIDE DEF f
<1>4. IsFiniteSet(ListedPages(s)) /\ Cardinality(ListedPages(s)) <= Cardinality(1 .. Len(s))
  BY <1>2, <1>3, FS_Surjection
<1> QED BY <1>3, <1>4, FS_CardinalityType

LEMMA KeptInit == ScanInit => KeptInv
BY DEF ScanInit, KeptInv, RefusalJustified

LEMMA KeptStep == ScanInv /\ KeptInv /\ [ScanNext]_scanVars => KeptInv'
<1> SUFFICES ASSUME ScanInv, KeptInv, [ScanNext]_scanVars PROVE KeptInv'
  OBVIOUS
<1>1. CASE EndSearch \/ StartRun \/ ExtendRun \/ EndRun \/ GiveUp
  BY <1>1 DEF EndSearch, StartRun, ExtendRun, EndRun, GiveUp, KeptInv, RefusalJustified
<1>2. CASE TakeRun
  <2> DEFINE first == IF high THEN range_start - count + 1 ELSE range_start
  <2>1. out_page_list' = PagesFrom(first, count) /\ pc' = "granted" /\ count \in Nat
    BY <1>2 DEF TakeRun, ScanInv, LoopsTyped
  <2>2. first \in Int
    BY DEF ScanInv, LoopsTyped
  <2> HIDE DEF first
  <2>3. Len(out_page_list') = count /\ \A k \in 1 .. count : out_page_list'[k] = first + k - 1
    BY <2>1, <2>2 DEF PagesFrom
  <2>4. \A k \in 1 .. Len(out_page_list') : out_page_list'[k] = out_page_list'[1] + k - 1
    <3>1. \A k \in 1 .. count : 1 \in 1 .. count
      BY <2>1
    <3>2. \A k \in 1 .. count : out_page_list'[1] = first
      BY <2>2, <2>3, <3>1
    <3> QED BY <2>2, <2>3, <3>2
  <2> QED BY <2>1, <2>4 DEF KeptInv, RefusalJustified
<1>3. CASE TakeLargest
  <2>1. /\ ListedPages(out_page_list') = largest_range_index .. largest_range_index + largest_range_count - 1
        /\ pc' = "fill" /\ i' = 1 /\ ~ consecutive /\ UNCHANGED <<args, ranges>>
    BY <1>3, PagesFromFacts DEF TakeLargest, ScanInv, LoopsTyped
  <2>2. \A p \in free : InRange(p) => p \in ListedPages(out_page_list')
    BY <2>1, PagesAreNumbers DEF InRange, ScanInv, LoopsTyped
  <2>3. \A p \in free : ~ (p >= 1 /\ p < 1)
    BY PagesAreNumbers DEF ScanInv
  <2> QED BY <2>1, <2>2, <2>3 DEF KeptInv, RefusalJustified, InRange, args, ranges
<1>4. CASE Fill
  <2>1. /\ pc = "fill" /\ i \in Nat /\ i' = i + 1 /\ UNCHANGED <<args, ranges>> /\ ~ consecutive
        /\ pc' \in {"fill", "granted"} /\ out_page_list \in Seq(Nat)
    BY <1>4 DEF Fill, ScanInv, LoopsTyped, KeptInv
  <2>2. ListedPages(out_page_list) \subseteq ListedPages(out_page_list') /\ (~ InRange(i) /\ IsFree => Index(i, high) \in ListedPages(out_page_list'))
    <3>1. CASE ~ InRange(i) /\ IsFree
      <4>1. out_page_list' = Append(out_page_list, Index(i, high)) /\ Index(i, high) \in Nat
        BY <1>4, <3>1, HereIsAPage DEF Fill, ScanInv
      <4> QED BY <2>1, <4>1, AppendFacts
    <3>2. CASE ~ (~ InRange(i) /\ IsFree)
      BY <1>4, <3>2 DEF Fill
    <3> QED BY <3>1, <3>2
  <2>3. ASSUME ~ high, NEW p \in free, InRange(p) \/ (p >= 1 /\ p < i + 1)
        PROVE  p \in ListedPages(out_page_list')
    <3>1. CASE InRange(p) \/ (p >= 1 /\ p < i)
      BY <2>1, <2>2, <2>3, <3>1 DEF KeptInv
    <3>2. CASE ~ (InRange(p) \/ (p >= 1 /\ p < i))
      <4>1. p = i
        BY <2>1, <2>3, <3>2, PagesAreNumbers DEF ScanInv
      <4> QED BY <2>2, <2>3, <3>2, <4>1 DEF IsFree, Index
    <3> QED BY <3>1, <3>2
  <2> QED BY <2>1, <2>3 DEF KeptInv, RefusalJustified, InRange, args, ranges
<1>5. CASE Refuse
  <2>1. /\ pc = "fill" /\ i = PageCount /\ pc' = "refused" /\ UNCHANGED <<args, ranges>>
        /\ Len(out_page_list) < count /\ count \in Nat /\ out_page_list \in Seq(Nat)
    BY <1>5 DEF Refuse, ScanInv, LoopsTyped, FillInv
  <2>2. ASSUME ~ high PROVE Cardinality(free \ {0}) < count
    <3>1. \A p \in free : p \in Nat /\ p < PageCount
      BY PageCountAssumption DEF ScanInv, LoopsTyped, Pages
    <3>2. free \ {0} \subseteq ListedPages(out_page_list)
      BY <2>1, <2>2, <3>1 DEF KeptInv
    <3>3. /\ IsFiniteSet(ListedPages(out_page_list)) /\ Cardinality(ListedPages(out_page_list)) \in Nat
          /\ Cardinality(ListedPages(out_page_list)) <= Len(out_page_list)
      BY <2>1, ListCounts
    <3>4. /\ Cardinality(free \ {0}) <= Cardinality(ListedPages(out_page_list))
          /\ Cardinality(free \ {0}) \in Nat
      BY <3>2, <3>3, FS_Subset, FS_CardinalityType
    <3>5. Len(out_page_list) \in Nat
      BY <2>1
    <3> QED BY <2>1, <3>3, <3>4, <3>5
  <2> QED BY <2>1, <2>2 DEF KeptInv, RefusalJustified, args
<1>6. CASE UNCHANGED scanVars
  BY <1>6 DEF scanVars, args, ranges, KeptInv, RefusalJustified, InRange
<1> QED BY <1>1, <1>2, <1>3, <1>4, <1>5, <1>6 DEF ScanNext

(* For every memory and request: an acquire of scattered pages that scans   *)
(* upwards is refused only when too few pages are free, and one of          *)
(* consecutive pages gets consecutive pages (page_allocator.c:316-371).     *)
THEOREM RefusalsAreJustified == ScanSpec => []RefusalJustified
<1>1. KeptInv => RefusalJustified
  BY DEF KeptInv
<1> QED BY <1>1, ScanBegins, ScanStep, KeptInit, KeptStep, PTL DEF ScanSpec
=============================================================================
