--------------------------- MODULE BootMemoryProofs ---------------------------
(***************************************************************************)
(* From the firmware's map to the kernel's records, whatever maps the       *)
(* firmware may have: the list has room for the map that is read            *)
(* (ListHolds), the records say what the map said (RecordsExact), the table *)
(* of records is in free memory (TableApart), and all that can be given out *)
(* is mapped (Reachable).                                                   *)
(***************************************************************************)
EXTENDS BootMemory, NumberLemmas

(* What an attempt knows: the list is allocated for the size given first,   *)
(* and a map that is read is no larger than that.                           *)
AttemptInv ==
  /\ now \in Nat /\ size \in Nat /\ capacity \in Nat
  /\ stage = "read" => buffer = "live" /\ size <= capacity
  /\ stage = "exit" => buffer = "live" /\ size <= capacity
  /\ stage = "exit" /\ current => now = size

LEMMA AttemptBegins == Init => AttemptInv
  BY BootAssumption DEF Init, AttemptInv

(* A step of the loop of attempts: the second call is made with the size of *)
(* the first, so a map that has grown beyond it is refused.                 *)
LEMMA AttemptStep ==
  ASSUME AttemptInv, Firmware \/ Loader
  PROVE  AttemptInv'
<1>1. CASE Firmware
  BY <1>1, BootAssumption DEF AttemptInv, Firmware, FirmwareWorks
<1>2. CASE GetSize
  BY <1>2 DEF AttemptInv, GetSize
<1>3. CASE Allocate
  BY <1>3, BootAssumption DEF AttemptInv, Allocate, FirmwareWorks, Extra
<1>4. CASE OutOfPool
  BY <1>4 DEF AttemptInv, OutOfPool, handoff
<1>5. CASE ReadMap
  BY <1>5 DEF AttemptInv, ReadMap
<1>6. ASSUME TryAgain, size' \in Nat
      PROVE  AttemptInv'
  <2>1. stage' \in {"stray", "size"}
    BY <1>6 DEF TryAgain
  <2>2. now' \in Nat /\ capacity' \in Nat
    BY <1>6, BootAssumption DEF TryAgain, FirmwareWorks
  <2> QED  BY <1>6, <2>1, <2>2 DEF AttemptInv
<1>7. CASE ReadFails
  BY <1>6, <1>7 DEF AttemptInv, ReadFails
<1>8. CASE ExitFails
  BY <1>6, <1>8 DEF AttemptInv, ExitFails
<1>9. CASE ExitBootServices
  BY <1>9 DEF AttemptInv, ExitBootServices
<1>10. CASE Parse
  BY <1>10 DEF AttemptInv, Parse, handoff
<1>11. CASE Sort
  <2>1. stage' \in {"sort", "records"} /\ UNCHANGED handoff
    BY <1>11 DEF Sort
  <2> QED  BY <2>1 DEF AttemptInv, handoff
<1> QED
  BY <1>1, <1>2, <1>3, <1>4, <1>5, <1>7, <1>8, <1>9, <1>10, <1>11 DEF Loader

(* The kernel's part does not come back to the loop. *)
LEMMA KernelStep ==
  ASSUME AttemptInv, Kernel
  PROVE  AttemptInv'
<1>1. stage' \in {"map", "done", "halt"} /\ UNCHANGED handoff
  BY DEF Kernel, MakeRecords, NoRoom, MapMemory, NoTables
<1> QED  BY <1>1 DEF AttemptInv, handoff

(* A map that has been read and is the firmware's last fits the list that   *)
(* was allocated before it was read (main.c 520-525), for any maps and any  *)
(* changes of them between the calls.                                       *)
THEOREM ListAlwaysHolds == Spec => []ListHolds
<1>1. ASSUME AttemptInv, [Next]_vars
      PROVE  AttemptInv'
  <2>1. CASE Next
    BY <1>1, <2>1, AttemptStep, KernelStep DEF Next
  <2>2. CASE UNCHANGED vars
    BY <1>1, <2>2 DEF AttemptInv, vars, handoff
  <2> QED  BY <1>1, <2>1, <2>2
<1>2. AttemptInv => ListHolds
  BY DEF AttemptInv, ListHolds
<1> QED  BY AttemptBegins, <1>1, <1>2, PTL DEF Spec

-----------------------------------------------------------------------------
(* The list. *)

Classes == {"BOOTLOADER", "AVAILABLE", "ACPI", "MAPPED_IO", "RESERVED"}

Descriptors == [type : STRING, first : Nat, count : Nat]

Entries == [type : Classes, first : Nat, count : Nat]

(* What the list says: each entry begins where a section of the map does    *)
(* and has its class, and unless something is wrong with that section, its  *)
(* pages are pages of that class in the map; each descriptor of a section   *)
(* with which nothing is wrong is in an entry of its class.                 *)
Says(l) ==
  /\ \A k \in DOMAIN l : \E b \in DOMAIN efi :
       /\ Begins(b) /\ l[k].first = efi[b].first /\ l[k].type = Convert(efi[b].type)
       /\ ~ Faulty(b) => \A p \in PagesOf(l[k]) : \E i \in DOMAIN efi :
            p \in PagesOf(efi[i]) /\ Convert(efi[i].type) = l[k].type
  /\ \A i \in DOMAIN efi : ~ Faulty(i) => \E k \in DOMAIN l :
       PagesOf(efi[i]) \subseteq PagesOf(l[k]) /\ l[k].type = Convert(efi[i].type)

Sorted(l) == \A j, k \in DOMAIN l : j <= k => l[j].first <= l[k].first

LEMMA ConvertType == \A type : Convert(type) \in Classes
  BY DEF Convert, Classes

LEMMA PagesFacts ==
  ASSUME NEW e, e.first \in Nat, e.count \in Nat
  PROVE  \A p : p \in PagesOf(e) <=> p \in Nat /\ e.first <= p /\ p < e.first + e.count
  BY DEF PagesOf, End

(* The two ways in which a descriptor changes the list. *)
LEMMA ExtendFacts ==
  ASSUME NEW l \in Seq(Entries), NEW d \in Descriptors, pool[Len(l) + 1] \in Nat
  PROVE  /\ Extend(l, d) \in Seq(Entries) /\ Len(Extend(l, d)) <= Len(l) + 1
         /\ l # <<>> /\ l[Len(l)].type = Convert(d.type)
              => /\ Len(Extend(l, d)) = Len(l)
                 /\ \A k \in 1 .. Len(l) - 1 : Extend(l, d)[k] = l[k]
                 /\ Extend(l, d)[Len(l)] = [type  |-> l[Len(l)].type, first |-> l[Len(l)].first,
                                           count |-> l[Len(l)].count + d.count]
         /\ ~ (l # <<>> /\ l[Len(l)].type = Convert(d.type))
              => /\ Len(Extend(l, d)) = Len(l) + 1
                 /\ \A k \in 1 .. Len(l) : Extend(l, d)[k] = l[k]
                 /\ Extend(l, d)[Len(l) + 1]
                      = [type  |-> Convert(d.type), first |-> d.first,
                         count |-> pool[Len(l) + 1] + d.count]
<1>1. CASE l # <<>> /\ l[Len(l)].type = Convert(d.type)
  <2> DEFINE n == Len(l)
             e == [type |-> l[n].type, first |-> l[n].first, count |-> l[n].count + d.count]
  <2>1. n \in Nat /\ n >= 1 /\ l[n] \in Entries /\ d.count \in Nat
    BY <1>1 DEF Descriptors
  <2>2. e \in Entries
    BY <2>1 DEF Entries
  <2>3. Extend(l, d) = [l EXCEPT ![n] = e]
    <3>1. e = [l[n] EXCEPT !.count = l[n].count + d.count]
      BY <2>1 DEF Entries
    <3> HIDE DEF e
    <3> QED BY <1>1, <3>1 DEF Extend
  <2> HIDE DEF e
  <2>4. [l EXCEPT ![n] = e] \in Seq(Entries) /\ Len([l EXCEPT ![n] = e]) = n
    BY <2>1, <2>2
  <2>5. \A k \in 1 .. n - 1 : [l EXCEPT ![n] = e][k] = l[k]
    BY <2>1
  <2>6. [l EXCEPT ![n] = e][n] = e
    BY <2>1
  <2>7. Extend(l, d) \in Seq(Entries) /\ Len(Extend(l, d)) = n /\ n <= n + 1
    BY <2>1, <2>3, <2>4
  <2> QED BY <1>1, <2>3, <2>5, <2>6, <2>7 DEF e
<1>2. CASE ~ (l # <<>> /\ l[Len(l)].type = Convert(d.type))
  <2> DEFINE e == [type |-> Convert(d.type), first |-> d.first, count |-> pool[Len(l) + 1] + d.count]
  <2>1. e \in Entries
    BY ConvertType DEF Entries, Descriptors
  <2>2. Extend(l, d) = Append(l, e)
    BY <1>2 DEF Extend, Section
  <2> HIDE DEF e
  <2> QED BY <1>2, <2>1, <2>2 DEF e
<1> QED BY <1>1, <1>2

(* The fold goes through the descriptors one after the other. *)
LEMMA Folding ==
  ASSUME NEW map \in Seq(Descriptors), \A k \in 1 .. Len(map) : pool[k] \in Nat
  PROVE  \E h : /\ h[0] = <<>>
                /\ \A n \in 1 .. Len(map) : h[n] = Extend(h[n - 1], map[n])
                /\ h[Len(map)] = FoldLeft(Extend, <<>>, map)
<1> DEFINE S == 1 .. Len(map)
           V == Seq(Entries)
           pick == [s \in SUBSET S |-> Max(s)]
           F == [i \in S |-> [v \in V |-> IF Extend(v, map[i]) \in V THEN Extend(v, map[i]) ELSE v]]
           Eq(g) == g = [s \in SUBSET S |->
                           IF s = {} THEN <<>> ELSE Extend(g[s \ {Max(s)}], map[Max(s)])]
<1>1. FoldLeft(Extend, <<>>, map) = (CHOOSE g : Eq(g))[S]
  <2>1. FoldLeft(Extend, <<>>, map) =
          (CHOOSE g : g = [s \in SUBSET DOMAIN map |->
                             IF s = {} THEN <<>> ELSE Extend(g[s \ {Max(s)}], map[Max(s)])])[DOMAIN map]
    BY ONLY DEF FoldLeft, MapThenFoldSet
  <2>2. DOMAIN map = S
    OBVIOUS
  <2> QED BY <2>1, <2>2
<1>2. \A n \in 1 .. Len(map) : Max(1 .. n) = n
  <2> SUFFICES ASSUME NEW n \in 1 .. Len(map) PROVE Max(1 .. n) = n
    OBVIOUS
  <2>1. n \in 1 .. n /\ \A y \in 1 .. n : n >= y
    OBVIOUS
  <2>2. Max(1 .. n) \in 1 .. n /\ \A y \in 1 .. n : Max(1 .. n) >= y
    BY <2>1 DEF Max
  <2> QED BY <2>1, <2>2
<1>3. \A s \in SUBSET S : s # {} => Max(s) \in s /\ \A y \in s : Max(s) >= y
  <2> SUFFICES ASSUME NEW s \in SUBSET S, s # {} PROVE Max(s) \in s /\ \A y \in s : Max(s) >= y
    OBVIOUS
  <2>1. s \subseteq Nat /\ Len(map) \in Nat /\ \A t \in s : t <= Len(map)
    OBVIOUS
  <2>2. PICK x \in s : \A y \in s : y <= x
    BY <2>1, NatGreatest
  <2>3. \A y \in s : x >= y
    BY <2>1, <2>2
  <2> QED BY <2>3 DEF Max
<1>4. \E g : Eq(g)
  <2>1. F \in [S -> [V -> V]]
    <3> HIDE DEF S, V
    <3> QED OBVIOUS
  <2>2. \A s \in SUBSET S : s # {} => pick[s] \in s
    BY <1>3
  <2> DEFINE base == <<>>
  <2>3. IsFiniteSet(S) /\ base \in V
    BY FS_Interval
  <2> HIDE DEF S, V, pick, F, base
  <2>4. PICK g \in [SUBSET S -> V] : Folds(g, S, base, pick, F)
    <3>1. Foldable(S, V, base, pick, F)
      BY <2>1, <2>2, <2>3 DEF Foldable
    <3> QED BY <3>1, FoldExists
  <2>5. ASSUME NEW s \in SUBSET S, s # {}
        PROVE  LET v == g[s \ {Max(s)}] IN
               /\ v \in V /\ Max(s) \in S /\ s \ {Max(s)} \in SUBSET S
               /\ g[s] = IF Extend(v, map[Max(s)]) \in V THEN Extend(v, map[Max(s)]) ELSE v
    <3>1. g[s] = F[pick[s]][g[s \ {pick[s]}]]
      BY <2>4, <2>5 DEF Folds
    <3>2. pick[s] = Max(s) /\ Max(s) \in S /\ g[s \ {Max(s)}] \in V /\ s \ {Max(s)} \in SUBSET S
      BY <2>2, <2>5 DEF pick
    <3> QED BY <3>1, <3>2 DEF F
  <2>6. g[{}] = <<>>
    <3>1. {} \in SUBSET S
      OBVIOUS
    <3> QED BY <3>1, <2>4 DEF Folds, base
  <2>7. ASSUME NEW v \in V, NEW i \in S, Len(v) + 1 <= Len(map)
        PROVE  Extend(v, map[i]) \in V /\ Len(Extend(v, map[i])) <= Len(v) + 1
    <3>1. map[i] \in Descriptors /\ v \in Seq(Entries)
      BY DEF S, V
    <3>2. pool[Len(v) + 1] \in Nat
      <4>1. Len(v) \in Nat /\ Len(map) \in Nat
        BY <3>1
      <4>2. Len(v) + 1 \in 1 .. Len(map)
        BY <4>1, <2>7
      <4> QED BY <4>2
    <3> QED BY <3>1, <3>2, ExtendFacts DEF V
  <2> DEFINE N == {n \in Nat : n <= Len(map) => \A s \in SUBSET (1 .. n) : Len(g[s]) <= n}
  <2>8. 0 \in N
    <3>1. \A s \in SUBSET (1 .. 0) : s = {}
      OBVIOUS
    <3>2. Len(g[{}]) <= 0
      BY <2>6
    <3>3. \A s \in SUBSET (1 .. 0) : Len(g[s]) <= 0
      BY <3>1, <3>2
    <3> QED BY <3>3
  <2>9. ASSUME NEW n \in Nat, n \in N PROVE n + 1 \in N
    <3> SUFFICES ASSUME n + 1 <= Len(map), NEW s \in SUBSET (1 .. n + 1) PROVE Len(g[s]) <= n + 1
      OBVIOUS
    <3>1. CASE s = {}
      BY <3>1, <2>6
    <3>2. CASE s # {}
      <4> DEFINE t == s \ {Max(s)}
      <4>1. s \in SUBSET S /\ Len(map) \in Nat
        BY DEF S
      <4>2. Max(s) \in s /\ \A y \in s : Max(s) >= y
        BY <3>2, <4>1, <1>3
      <4>3. t \in SUBSET (1 .. n)
        <5> SUFFICES ASSUME NEW y \in t PROVE y \in 1 .. n
          OBVIOUS
        <5>1. y \in 1 .. n + 1 /\ Max(s) \in 1 .. n + 1 /\ y # Max(s) /\ Max(s) >= y
          BY <4>2
        <5> QED BY ONLY <5>1, n \in Nat
      <4>4. Len(g[t]) <= n
        BY <4>1, <4>3, <2>9
      <4>5. /\ g[t] \in V /\ Max(s) \in S
            /\ g[s] = IF Extend(g[t], map[Max(s)]) \in V THEN Extend(g[t], map[Max(s)]) ELSE g[t]
        BY <2>5, <3>2, <4>1
      <4> HIDE DEF t
      <4>6. Len(g[t]) \in Nat
        BY <4>5 DEF V
      <4>7. Len(g[t]) + 1 <= Len(map)
        BY <4>1, <4>4, <4>6
      <4>8. Extend(g[t], map[Max(s)]) \in V /\ Len(Extend(g[t], map[Max(s)])) <= Len(g[t]) + 1
        BY <2>7, <4>5, <4>7
      <4>9. Len(Extend(g[t], map[Max(s)])) \in Nat
        BY <4>8 DEF V
      <4> QED BY <4>4, <4>5, <4>6, <4>8, <4>9
    <3> QED BY <3>1, <3>2
  <2>10. \A n \in Nat : n \in N
    <3> HIDE DEF N
    <3> QED BY <2>8, <2>9, NatSteps
  <2>11. ASSUME NEW s \in SUBSET S, s # {}
         PROVE  g[s] = Extend(g[s \ {Max(s)}], map[Max(s)])
    <3> DEFINE t == s \ {Max(s)}
    <3>1. /\ g[t] \in V /\ Max(s) \in S /\ t \in SUBSET S
          /\ g[s] = IF Extend(g[t], map[Max(s)]) \in V THEN Extend(g[t], map[Max(s)]) ELSE g[t]
      BY <2>5, <2>11
    <3>2. Max(s) \in s /\ \A y \in s : Max(s) >= y
      BY <2>11, <1>3
    <3>3. Max(s) \in 1 .. Len(map) /\ Len(map) \in Nat /\ s \subseteq Nat \ {0}
      BY <3>1 DEF S
    <3>4. t \in SUBSET (1 .. Max(s) - 1)
      <4> SUFFICES ASSUME NEW y \in t PROVE y \in 1 .. Max(s) - 1
        OBVIOUS
      <4>1. y \in Nat \ {0} /\ Max(s) \in Nat /\ y # Max(s) /\ Max(s) >= y
        BY <3>2, <3>3
      <4> QED BY ONLY <4>1
    <3>5. Len(g[t]) <= Max(s) - 1
      <4>1. Max(s) - 1 \in Nat /\ Max(s) - 1 <= Len(map)
        BY <3>3
      <4>2. Max(s) - 1 \in N
        BY <4>1, <2>10
      <4> QED BY <4>1, <4>2, <3>4
    <3> HIDE DEF t
    <3>6. Len(g[t]) \in Nat
      BY <3>1 DEF V
    <3>7. Len(g[t]) + 1 <= Len(map)
      BY <3>3, <3>5, <3>6
    <3> QED BY <3>1, <3>7, <2>7 DEF t
  <2>12. g = [s \in SUBSET S |-> g[s]]
    OBVIOUS
  <2>13. \A s \in SUBSET S : g[s] = IF s = {} THEN <<>> ELSE Extend(g[s \ {Max(s)}], map[Max(s)])
    BY <2>6, <2>11
  <2>14. Eq(g)
    BY <2>12, <2>13
  <2> QED BY <2>14
<1> DEFINE g == CHOOSE g : Eq(g)
           h == [n \in 0 .. Len(map) |-> g[1 .. n]]
<1>5. Eq(g)
  BY <1>4
<1> HIDE DEF g
<1>6. \A s \in SUBSET S :
        g[s] = IF s = {} THEN <<>> ELSE Extend(g[s \ {Max(s)}], map[Max(s)])
  BY <1>5
<1>7. g[{}] = <<>> /\ 1 .. 0 = {}
  <2>1. {} \in SUBSET S
    OBVIOUS
  <2> HIDE DEF S
  <2>2. g[{}] = <<>>
    BY <1>6, <2>1
  <2> QED BY <2>2
<1>8. ASSUME NEW n \in 1 .. Len(map)
      PROVE  g[1 .. n] = Extend(g[1 .. n - 1], map[n])
  <2>1. 1 .. n \in SUBSET S /\ 1 .. n # {} /\ (1 .. n) \ {n} = 1 .. n - 1
    <3>1. Len(map) \in Nat /\ n \in Nat /\ n <= Len(map) /\ n >= 1
      OBVIOUS
    <3>2. 1 .. n \subseteq S
      BY <3>1
    <3>3. n \in 1 .. n
      BY <3>1
    <3>4. (1 .. n) \ {n} = 1 .. n - 1
      BY <3>1
    <3> QED BY <3>2, <3>3, <3>4
  <2>2. g[1 .. n] = Extend(g[(1 .. n) \ {Max(1 .. n)}], map[Max(1 .. n)])
    BY <1>6, <2>1
  <2> QED BY <1>2, <2>1, <2>2
<1>9. h[0] = <<>> /\ h[Len(map)] = g[S]
  BY <1>7
<1>10. \A n \in 1 .. Len(map) : h[n] = Extend(h[n - 1], map[n])
  BY <1>8
<1> HIDE DEF h
<1>11. h[Len(map)] = FoldLeft(Extend, <<>>, map)
  BY <1>1, <1>9 DEF g
<1> QED BY <1>9, <1>10, <1>11

(* A descriptor is in the section of the one before it, or begins the next. *)
LEMMA SectionStep ==
  ASSUME NEW n \in Nat \ {0}
  PROVE  /\ SectionOf(n - 1) \in Nat /\ SectionOf(n) \in Nat /\ SectionOf(n) <= n
         /\ SectionOf(n) = SectionOf(n - 1) + IF Begins(n) THEN 1 ELSE 0
         /\ SectionOf(0) = 0
<1> DEFINE B(m) == {j \in 1 .. m : Begins(j)}
<1>1. \A m \in Nat : IsFiniteSet(B(m)) /\ SectionOf(m) = Cardinality(B(m)) /\ SectionOf(m) \in Nat
  <2> SUFFICES ASSUME NEW m \in Nat
               PROVE  IsFiniteSet(B(m)) /\ SectionOf(m) = Cardinality(B(m)) /\ SectionOf(m) \in Nat
    OBVIOUS
  <2>1. IsFiniteSet(1 .. m) /\ B(m) \subseteq 1 .. m
    BY FS_Interval
  <2>2. SectionOf(m) = Cardinality(B(m))
    BY DEF SectionOf
  <2> HIDE DEF B
  <2> QED BY <2>1, <2>2, FS_Subset, FS_CardinalityType
<1>2. SectionOf(n) <= n
  <2>1. IsFiniteSet(1 .. n) /\ B(n) \subseteq 1 .. n /\ Cardinality(1 .. n) = n
    BY FS_Interval
  <2> HIDE DEF B
  <2> QED BY <1>1, <2>1, FS_Subset
<1>5. SectionOf(0) = 0
  <2>1. {j \in 1 .. 0 : Begins(j)} = {}
    OBVIOUS
  <2> QED BY <2>1, FS_EmptySet DEF SectionOf
<1>6. SectionOf(n - 1) \in Nat /\ SectionOf(n) \in Nat
  <2>1. n - 1 \in Nat
    OBVIOUS
  <2> QED BY <1>1, <2>1
<1>3. CASE Begins(n)
  <2>1. B(n) = B(n - 1) \union {n} /\ n \notin B(n - 1) /\ n - 1 \in Nat
    BY <1>3
  <2> HIDE DEF B
  <2>2. Cardinality(B(n - 1) \union {n}) = Cardinality(B(n - 1)) + 1
    BY <1>1, <2>1, FS_AddElement
  <2>3. SectionOf(n) = SectionOf(n - 1) + 1
    BY <1>1, <2>1, <2>2
  <2> QED BY <1>2, <1>3, <1>5, <1>6, <2>3
<1>4. CASE ~ Begins(n)
  <2>1. B(n) = B(n - 1) /\ n - 1 \in Nat
    BY <1>4
  <2> HIDE DEF B
  <2>2. SectionOf(n) = SectionOf(n - 1)
    BY <1>1, <2>1
  <2> QED BY <1>2, <1>4, <1>5, <1>6, <2>2
<1> QED BY <1>3, <1>4

(* The descriptors up to one are in its section or in sections before. *)
LEMMA SectionOrder ==
  ASSUME NEW n \in Nat, NEW i \in 1 .. n
  PROVE  SectionOf(i) \in 1 .. SectionOf(n)
<1> DEFINE B(m) == {j \in 1 .. m : Begins(j)}
<1>1. IsFiniteSet(B(n)) /\ B(i) \subseteq B(n)
  <2>1. IsFiniteSet(1 .. n) /\ B(n) \subseteq 1 .. n
    BY FS_Interval
  <2>2. IsFiniteSet(B(n))
    BY <2>1, FS_Subset
  <2> QED BY <2>2
<1>2. 1 \in B(i)
  BY DEF Begins
<1> HIDE DEF B
<1>3. IsFiniteSet(B(i)) /\ Cardinality(B(i)) <= Cardinality(B(n))
  BY <1>1, FS_Subset
<1>4. Cardinality(B(i)) \in Nat /\ Cardinality(B(i)) # 0 /\ Cardinality(B(n)) \in Nat
  BY <1>1, <1>2, <1>3, FS_CardinalityType, FS_EmptySet
<1>5. SectionOf(i) = Cardinality(B(i)) /\ SectionOf(n) = Cardinality(B(n))
  BY DEF SectionOf, B
<1> QED BY <1>3, <1>4, <1>5

(* Nothing is wrong with a section as far as the first n descriptors go. *)
Sound(k, n) ==
  /\ pool[k] = 0
  /\ \A j \in 2 .. n : ~ Begins(j) /\ SectionOf(j) = k => efi[j].first = End(efi[j - 1])

(* The list made from the first n descriptors. *)
SaysUpto(l, n) ==
  /\ l \in Seq(Entries) /\ Len(l) = SectionOf(n)
  /\ \A i \in 1 .. n : l[SectionOf(i)].type = Convert(efi[i].type)
  /\ \A k \in 1 .. Len(l) : \E b \in 1 .. n :
       Begins(b) /\ SectionOf(b) = k /\ l[k].first = efi[b].first
  /\ \A k \in 1 .. Len(l) : Sound(k, n) =>
       /\ \A p \in PagesOf(l[k]) : \E i \in 1 .. n : SectionOf(i) = k /\ p \in PagesOf(efi[i])
       /\ \A i \in 1 .. n : SectionOf(i) = k => PagesOf(efi[i]) \subseteq PagesOf(l[k])
  /\ n # 0 /\ Sound(Len(l), n) => End(l[Len(l)]) = End(efi[n])

LEMMA OneMore ==
  ASSUME efi \in Seq(Descriptors), \A k \in 1 .. Len(efi) : pool[k] \in Nat,
         NEW n \in 1 .. Len(efi), NEW l, SaysUpto(l, n - 1)
  PROVE  SaysUpto(Extend(l, efi[n]), n)
<1> DEFINE d == efi[n]
           e == Extend(l, d)
           m == Len(l)
           s == SectionOf(n)
<1>1. /\ d \in Descriptors /\ d.first \in Nat /\ d.count \in Nat
      /\ l \in Seq(Entries) /\ m \in Nat /\ n \in Nat /\ n >= 1 /\ n - 1 \in Nat
      /\ m = SectionOf(n - 1)
  <2>1. d \in Descriptors /\ n \in Nat /\ n >= 1 /\ n - 1 \in Nat
    OBVIOUS
  <2>2. l \in Seq(Entries) /\ m = SectionOf(n - 1)
    BY DEF SaysUpto
  <2>3. m \in Nat
    BY <2>2
  <2> HIDE DEF d, m
  <2>4. d.first \in Nat /\ d.count \in Nat
    BY <2>1 DEF Descriptors
  <2> QED BY <2>1, <2>2, <2>3, <2>4
<1>2. /\ s \in Nat /\ s <= n /\ s = m + IF Begins(n) THEN 1 ELSE 0
      /\ \A i \in 1 .. n - 1 : SectionOf(i) \in 1 .. m
      /\ s \in 1 .. s
  <2>1. n \in Nat \ {0} /\ n \in 1 .. n
    BY <1>1
  <2>2. s \in Nat /\ s <= n /\ s = m + IF Begins(n) THEN 1 ELSE 0
    BY <1>1, <2>1, SectionStep
  <2>3. \A i \in 1 .. n - 1 : SectionOf(i) \in 1 .. m
    BY <1>1, SectionOrder
  <2>4. s \in 1 .. s
    BY <2>1, SectionOrder
  <2> QED BY <2>2, <2>3, <2>4
<1>3. \A k \in 1 .. m : l[k] \in Entries /\ l[k].first \in Nat /\ l[k].count \in Nat
  <2> SUFFICES ASSUME NEW k \in 1 .. m
               PROVE  l[k] \in Entries /\ l[k].first \in Nat /\ l[k].count \in Nat
    OBVIOUS
  <2>1. l[k] \in Entries
    BY <1>1
  <2> QED BY <2>1 DEF Entries
<1>4. l # <<>> /\ l[m].type = Convert(d.type) <=> ~ Begins(n)
  <2>1. CASE n = 1
    <3>1. Begins(n)
      BY <2>1 DEF Begins
    <3>2. n - 1 = 0 /\ SectionOf(0) = 0
      BY <2>1, SectionStep
    <3>3. m = 0 /\ l = <<>>
      BY <3>2, <1>1
    <3> QED BY <3>1, <3>3
  <2>2. CASE n # 1
    <3>1. n - 1 \in 1 .. n - 1
      BY <2>2, <1>1
    <3>2. l[m].type = Convert(efi[n - 1].type) /\ m \in 1 .. m
      BY <3>1, <1>1, <1>2 DEF SaysUpto
    <3>3. l # <<>>
      BY <3>2
    <3> QED BY <3>2, <3>3, <2>2 DEF Begins
  <2> QED BY <2>1, <2>2
<1>5. m <= n - 1 /\ pool[m + 1] \in Nat
  <2>1. m <= n - 1
    <3>1. CASE n = 1
      <4>1. n - 1 = 0 /\ SectionOf(0) = 0
        BY <3>1, SectionStep
      <4> QED BY <4>1, <1>1
    <3>2. CASE n # 1
      <4>1. n - 1 \in Nat \ {0}
        BY <3>2, <1>1
      <4> QED BY <4>1, <1>1, SectionStep
    <3> QED BY <3>1, <3>2
  <2>2. m + 1 \in 1 .. Len(efi)
    <3>1. n <= Len(efi) /\ Len(efi) \in Nat
      OBVIOUS
    <3> HIDE DEF m
    <3> QED BY <3>1, <2>1, <1>1
  <2> QED BY <2>1, <2>2
<1>6. e \in Seq(Entries)
  BY <1>1, <1>5, ExtendFacts
<1>7. \A k : Sound(k, n) => Sound(k, n - 1)
  <2>1. \A j \in 2 .. n - 1 : j \in 2 .. n
    BY <1>1
  <2> QED BY <2>1 DEF Sound
<1>8. CASE ~ Begins(n)
  <2>1. s = m /\ m >= 1 /\ n # 1 /\ n - 1 >= 1 /\ n \in 2 .. n /\ n - 1 # 0
    <3>1. n # 1
      BY <1>8 DEF Begins
    <3>2. s = m /\ s \in 1 .. s
      BY <1>2, <1>8, <1>1
    <3> HIDE DEF s, m
    <3> QED BY <3>1, <3>2, <1>1
  <2>2. /\ Len(e) = m /\ \A k \in 1 .. m - 1 : e[k] = l[k]
        /\ e[m] = [type |-> l[m].type, first |-> l[m].first, count |-> l[m].count + d.count]
    BY <1>1, <1>4, <1>5, <1>8, ExtendFacts
  <2>3. e[m].type = l[m].type /\ e[m].first = l[m].first /\ e[m].count = l[m].count + d.count
    BY <2>2
  <2> HIDE DEF e
  <2>4. \A k \in 1 .. m : e[k].type = l[k].type /\ e[k].first = l[k].first /\ (k # m => e[k] = l[k])
    <3> HIDE DEF m
    <3>1. \A k \in 1 .. m : k = m \/ k \in 1 .. m - 1
      BY <1>1
    <3> QED BY <3>1, <2>2, <2>3
  <2>5. ASSUME Sound(m, n)
        PROVE  /\ End(e[m]) = End(d)
               /\ \A p : p \in PagesOf(e[m]) <=> p \in PagesOf(l[m]) \/ p \in PagesOf(d)
    <3>1. Sound(m, n - 1)
      BY <2>5, <1>7
    <3>2. End(l[m]) = End(efi[n - 1])
      BY <3>1, <2>1 DEF SaysUpto
    <3>3. d.first = End(l[m])
      BY <2>5, <2>1, <1>8, <3>2 DEF Sound
    <3>4. l[m].first \in Nat /\ l[m].count \in Nat
      <4> HIDE DEF m
      <4> QED BY <1>1, <1>3, <2>1
    <3>5. /\ End(l[m]) = l[m].first + l[m].count /\ End(d) = d.first + d.count
          /\ End(e[m]) = e[m].first + e[m].count
      BY DEF End
    <3>6. e[m].first \in Nat /\ e[m].count \in Nat
      <4>1. d.count \in Nat
        BY <1>1
      <4> HIDE DEF d
      <4> QED BY ONLY <2>3, <3>4, <4>1
    <3>7. d.first \in Nat /\ d.count \in Nat
      BY <1>1
    <3> HIDE DEF d
    <3>8. End(e[m]) = End(d)
      BY ONLY <2>3, <3>3, <3>4, <3>5, <3>7
    <3>9. \A p : /\ p \in PagesOf(e[m]) <=> p \in Nat /\ e[m].first <= p /\ p < e[m].first + e[m].count
                 /\ p \in PagesOf(l[m]) <=> p \in Nat /\ l[m].first <= p /\ p < l[m].first + l[m].count
                 /\ p \in PagesOf(d) <=> p \in Nat /\ d.first <= p /\ p < d.first + d.count
      BY <3>4, <3>6, <3>7, PagesFacts
    <3>10. /\ d.first = l[m].first + l[m].count /\ e[m].first = l[m].first
           /\ e[m].first + e[m].count = d.first + d.count
      BY <2>3, <3>3, <3>5, <3>8
    <3>11. ASSUME NEW p \in Nat
           PROVE  p \in PagesOf(e[m]) <=> p \in PagesOf(l[m]) \/ p \in PagesOf(d)
      <4>1. /\ p \in PagesOf(e[m]) <=> l[m].first <= p /\ p < d.first + d.count
            /\ p \in PagesOf(l[m]) <=> l[m].first <= p /\ p < d.first
            /\ p \in PagesOf(d) <=> d.first <= p /\ p < d.first + d.count
        BY ONLY <3>9, <3>10, p \in Nat
      <4>2. l[m].first <= d.first /\ d.first <= d.first + d.count
        BY ONLY <3>4, <3>7, <3>10
      <4> QED BY ONLY <4>1, <4>2, <3>4, <3>7, p \in Nat
    <3> QED BY <3>8, <3>9, <3>11
  <2>6. \A i \in 1 .. n : i = n \/ i \in 1 .. n - 1
    BY <1>1
  <2>7. \A i \in 1 .. n : e[SectionOf(i)].type = Convert(efi[i].type)
    <3> SUFFICES ASSUME NEW i \in 1 .. n PROVE e[SectionOf(i)].type = Convert(efi[i].type)
      OBVIOUS
    <3>1. CASE i = n
      BY <3>1, <2>1, <2>3, <1>4, <1>8
    <3>2. CASE i \in 1 .. n - 1
      BY <3>2, <1>2, <2>4 DEF SaysUpto
    <3> QED BY <3>1, <3>2, <2>6
  <2>8. \A k \in 1 .. m : \E b \in 1 .. n : Begins(b) /\ SectionOf(b) = k /\ e[k].first = efi[b].first
    <3> SUFFICES ASSUME NEW k \in 1 .. m
                 PROVE  \E b \in 1 .. n : Begins(b) /\ SectionOf(b) = k /\ e[k].first = efi[b].first
      OBVIOUS
    <3>1. PICK b \in 1 .. n - 1 : Begins(b) /\ SectionOf(b) = k /\ l[k].first = efi[b].first
      BY DEF SaysUpto
    <3>2. b \in 1 .. n
      BY <1>1
    <3> QED BY <3>1, <3>2, <2>4
  <2>9. ASSUME NEW k \in 1 .. m, Sound(k, n)
        PROVE  /\ \A p \in PagesOf(e[k]) : \E i \in 1 .. n : SectionOf(i) = k /\ p \in PagesOf(efi[i])
               /\ \A i \in 1 .. n : SectionOf(i) = k => PagesOf(efi[i]) \subseteq PagesOf(e[k])
    <3>0. Sound(k, n - 1)
      BY <2>9, <1>7
    <3>1. /\ \A p \in PagesOf(l[k]) : \E i \in 1 .. n - 1 : SectionOf(i) = k /\ p \in PagesOf(efi[i])
          /\ \A i \in 1 .. n - 1 : SectionOf(i) = k => PagesOf(efi[i]) \subseteq PagesOf(l[k])
      BY <3>0 DEF SaysUpto
    <3>2. \A i \in 1 .. n - 1 : i \in 1 .. n
      BY <1>1
    <3>3. n \in 1 .. n /\ SectionOf(n) = m
      BY <1>1, <2>1
    <3>4. CASE k = m
      <4>1. \A p : p \in PagesOf(e[m]) <=> p \in PagesOf(l[m]) \/ p \in PagesOf(efi[n])
        BY <2>5, <2>9, <3>4
      <4> HIDE DEF m
      <4> QED BY <3>1, <3>2, <3>3, <3>4, <4>1, <2>6
    <3>5. CASE k # m
      <4>1. e[k] = l[k]
        BY <3>5, <2>4
      <4> HIDE DEF m
      <4> QED BY <3>1, <3>2, <3>3, <3>5, <4>1, <2>6
    <3> QED BY <3>4, <3>5
  <2>10. Sound(Len(e), n) => End(e[Len(e)]) = End(efi[n])
    BY <2>2, <2>5
  <2>11. Len(e) = SectionOf(n)
    BY <2>1, <2>2
  <2> HIDE DEF m
  <2> QED BY <1>6, <2>2, <2>7, <2>8, <2>9, <2>10, <2>11 DEF SaysUpto, e
<1>9. CASE Begins(n)
  <2>1. s = m + 1 /\ n \in 1 .. n
    BY <1>1, <1>2, <1>9
  <2>2. /\ Len(e) = m + 1 /\ \A k \in 1 .. m : e[k] = l[k]
        /\ e[m + 1] = [type |-> Convert(d.type), first |-> d.first, count |-> pool[m + 1] + d.count]
    BY <1>1, <1>4, <1>5, <1>9, ExtendFacts
  <2>3. /\ e[m + 1].type = Convert(d.type) /\ e[m + 1].first = d.first
        /\ e[m + 1].count = pool[m + 1] + d.count
    BY <2>2
  <2> HIDE DEF e
  <2>4. ASSUME Sound(m + 1, n) PROVE End(e[m + 1]) = End(d) /\ PagesOf(e[m + 1]) = PagesOf(d)
    <3>1. pool[m + 1] = 0
      BY <2>4 DEF Sound
    <3>2. e[m + 1].count = d.count
      <4>1. d.count \in Nat
        BY <1>1
      <4> HIDE DEF d, m
      <4> QED BY ONLY <3>1, <2>3, <4>1
    <3> QED BY <3>2, <2>3 DEF End, PagesOf
  <2>5. \A i \in 1 .. n : i = n \/ i \in 1 .. n - 1
    BY <1>1
  <2>6. \A i \in 1 .. n - 1 : i \in 1 .. n
    BY <1>1
  <2>7. \A k \in 1 .. m + 1 : k \in 1 .. m \/ k = m + 1
    <3> HIDE DEF m
    <3> QED BY <1>1
  <2>8. m + 1 \notin 1 .. m
    <3> HIDE DEF m
    <3> QED BY <1>1
  <2>9. \A i \in 1 .. n : e[SectionOf(i)].type = Convert(efi[i].type)
    <3> SUFFICES ASSUME NEW i \in 1 .. n PROVE e[SectionOf(i)].type = Convert(efi[i].type)
      OBVIOUS
    <3>1. CASE i = n
      BY <3>1, <2>1, <2>3
    <3>2. CASE i \in 1 .. n - 1
      BY <3>2, <1>2, <2>2 DEF SaysUpto
    <3> QED BY <3>1, <3>2, <2>5
  <2>10. \A k \in 1 .. m + 1 : \E b \in 1 .. n :
           Begins(b) /\ SectionOf(b) = k /\ e[k].first = efi[b].first
    <3> SUFFICES ASSUME NEW k \in 1 .. m + 1
                 PROVE  \E b \in 1 .. n : Begins(b) /\ SectionOf(b) = k /\ e[k].first = efi[b].first
      OBVIOUS
    <3>1. CASE k \in 1 .. m
      <4>1. PICK b \in 1 .. n - 1 : Begins(b) /\ SectionOf(b) = k /\ l[k].first = efi[b].first
        BY <3>1 DEF SaysUpto
      <4> QED BY <4>1, <3>1, <2>2, <2>6
    <3>2. CASE k = m + 1
      BY <3>2, <2>1, <2>3, <1>9
    <3> QED BY <3>1, <3>2, <2>7
  <2>11. ASSUME NEW k \in 1 .. m + 1, Sound(k, n)
         PROVE  /\ \A p \in PagesOf(e[k]) : \E i \in 1 .. n : SectionOf(i) = k /\ p \in PagesOf(efi[i])
                /\ \A i \in 1 .. n : SectionOf(i) = k => PagesOf(efi[i]) \subseteq PagesOf(e[k])
    <3>1. CASE k \in 1 .. m
      <4>0. Sound(k, n - 1)
        BY <2>11, <1>7
      <4>1. /\ \A p \in PagesOf(l[k]) : \E i \in 1 .. n - 1 : SectionOf(i) = k /\ p \in PagesOf(efi[i])
            /\ \A i \in 1 .. n - 1 : SectionOf(i) = k => PagesOf(efi[i]) \subseteq PagesOf(l[k])
        BY <3>1, <4>0 DEF SaysUpto
      <4>2. e[k] = l[k] /\ k # m + 1
        BY <3>1, <2>2, <2>8
      <4> HIDE DEF m
      <4> QED BY <4>1, <4>2, <2>1, <2>5, <2>6 DEF s
    <3>2. CASE k = m + 1
      <4>1. PagesOf(e[k]) = PagesOf(efi[n]) /\ SectionOf(n) = k
        BY <3>2, <2>1, <2>4, <2>11
      <4>2. \A i \in 1 .. n - 1 : SectionOf(i) # k
        BY <3>2, <1>2, <2>8
      <4> QED BY <4>1, <4>2, <2>1, <2>5
    <3> QED BY <3>1, <3>2, <2>7
  <2>12. Sound(Len(e), n) => End(e[Len(e)]) = End(efi[n])
    BY <2>2, <2>4
  <2>13. Len(e) = SectionOf(n)
    BY <2>1, <2>2
  <2> HIDE DEF m
  <2> QED BY <1>6, <2>2, <2>9, <2>10, <2>11, <2>12, <2>13 DEF SaysUpto, e
<1> QED BY <1>8, <1>9

LEMMA FaultySound ==
  ASSUME NEW i
  PROVE  Faulty(i) <=> ~ Sound(SectionOf(i), Len(efi))
  BY DEF Faulty, Sound

(* What the loader makes of the firmware's map. *)
LEMMA Sections ==
  ASSUME efi \in Seq(Descriptors), \A k \in 1 .. Len(efi) : pool[k] \in Nat
  PROVE  FoldLeft(Extend, <<>>, efi) \in Seq(Entries) /\ Says(FoldLeft(Extend, <<>>, efi))
<1>1. PICK h : /\ h[0] = <<>>
               /\ \A n \in 1 .. Len(efi) : h[n] = Extend(h[n - 1], efi[n])
               /\ h[Len(efi)] = FoldLeft(Extend, <<>>, efi)
  BY Folding
<1> DEFINE S == {n \in Nat : n <= Len(efi) => SaysUpto(h[n], n)}
<1>2. 0 \in S
  <2>1. SectionOf(0) = 0
    BY SectionStep
  <2>2. SaysUpto(<<>>, 0)
    BY <2>1 DEF SaysUpto
  <2> QED BY <1>1, <2>2
<1>3. ASSUME NEW n \in Nat, n \in S PROVE n + 1 \in S
  <2> SUFFICES ASSUME n + 1 <= Len(efi) PROVE SaysUpto(h[n + 1], n + 1)
    OBVIOUS
  <2>1. n + 1 \in 1 .. Len(efi) /\ (n + 1) - 1 = n
    OBVIOUS
  <2>2. SaysUpto(h[n], n) /\ h[n + 1] = Extend(h[n], efi[n + 1])
    BY <1>1, <1>3, <2>1
  <2> QED BY <2>1, <2>2, OneMore
<1> HIDE DEF S
<1>4. Len(efi) \in S
  BY <1>2, <1>3, NatSteps
<1>5. SaysUpto(FoldLeft(Extend, <<>>, efi), Len(efi))
  BY <1>1, <1>4 DEF S
<1> DEFINE l == FoldLeft(Extend, <<>>, efi)
<1> HIDE DEF l
<1>6. /\ l \in Seq(Entries) /\ DOMAIN l = 1 .. Len(l) /\ DOMAIN efi = 1 .. Len(efi)
      /\ Len(l) = SectionOf(Len(efi)) /\ Len(efi) \in Nat
  BY <1>5 DEF l, SaysUpto
<1>7. /\ \A i \in 1 .. Len(efi) : l[SectionOf(i)].type = Convert(efi[i].type)
      /\ \A k \in 1 .. Len(l) : \E b \in 1 .. Len(efi) :
           Begins(b) /\ SectionOf(b) = k /\ l[k].first = efi[b].first
      /\ \A k \in 1 .. Len(l) : Sound(k, Len(efi)) =>
           /\ \A p \in PagesOf(l[k]) : \E i \in 1 .. Len(efi) :
                SectionOf(i) = k /\ p \in PagesOf(efi[i])
           /\ \A i \in 1 .. Len(efi) : SectionOf(i) = k => PagesOf(efi[i]) \subseteq PagesOf(l[k])
  BY <1>5 DEF l, SaysUpto
<1>8. ASSUME NEW k \in 1 .. Len(l)
      PROVE  \E b \in 1 .. Len(efi) :
               /\ Begins(b) /\ l[k].first = efi[b].first /\ l[k].type = Convert(efi[b].type)
               /\ ~ Faulty(b) => \A p \in PagesOf(l[k]) : \E i \in 1 .. Len(efi) :
                    p \in PagesOf(efi[i]) /\ Convert(efi[i].type) = l[k].type
  <2>1. PICK b \in 1 .. Len(efi) : Begins(b) /\ SectionOf(b) = k /\ l[k].first = efi[b].first
    BY <1>7
  <2>2. l[k].type = Convert(efi[b].type)
    BY <1>7, <2>1
  <2>3. ASSUME ~ Faulty(b), NEW p \in PagesOf(l[k])
        PROVE  \E i \in 1 .. Len(efi) : p \in PagesOf(efi[i]) /\ Convert(efi[i].type) = l[k].type
    <3>1. Sound(k, Len(efi))
      BY <2>1, <2>3, FaultySound
    <3>2. PICK i \in 1 .. Len(efi) : SectionOf(i) = k /\ p \in PagesOf(efi[i])
      BY <3>1, <1>7, <2>3
    <3> QED BY <3>2, <1>7
  <2> QED BY <2>1, <2>2, <2>3
<1>9. ASSUME NEW i \in 1 .. Len(efi), ~ Faulty(i)
      PROVE  \E k \in 1 .. Len(l) :
               PagesOf(efi[i]) \subseteq PagesOf(l[k]) /\ l[k].type = Convert(efi[i].type)
  <2>1. SectionOf(i) \in 1 .. Len(l) /\ Sound(SectionOf(i), Len(efi))
    BY <1>6, <1>9, SectionOrder, FaultySound
  <2>2. PagesOf(efi[i]) \subseteq PagesOf(l[SectionOf(i)])
    BY <1>7, <2>1
  <2> QED BY <1>7, <2>1, <2>2
<1>10. Says(l)
  BY <1>6, <1>8, <1>9 DEF Says
<1> QED BY <1>6, <1>10 DEF l

-----------------------------------------------------------------------------
(* Least and greatest, quotients. *)

LEMMA MinFacts ==
  ASSUME NEW T, T \subseteq Nat, T # {}
  PROVE  Min(T) \in T /\ \A y \in T : Min(T) <= y
<1>1. PICK x \in T : \A y \in T : x <= y
  BY NatLeast
<1> QED BY <1>1 DEF Min

LEMMA MaxFacts ==
  ASSUME NEW T, T \subseteq Nat, T # {}, NEW b \in Nat, \A t \in T : t <= b
  PROVE  Max(T) \in T /\ \A y \in T : y <= Max(T)
<1>1. PICK x \in T : \A y \in T : y <= x
  BY NatGreatest
<1>2. \A y \in T : x >= y
  BY <1>1
<1>3. Max(T) \in T /\ \A y \in T : Max(T) >= y
  BY <1>2 DEF Max
<1> QED BY <1>3

LEMMA Quotient ==
  ASSUME NEW p \in Nat, NEW n \in Nat \ {0}
  PROVE  p \div n \in Nat /\ (p \div n) * n <= p /\ p < (p \div n + 1) * n
OBVIOUS

LEMMA QuotientBelow ==
  ASSUME NEW p \in Nat, NEW top \in Nat, p < top, NEW n \in Nat \ {0}
  PROVE  p \div n \in 0 .. (top + n - 1) \div n - 1
<1> DEFINE q == p \div n
           r == (top + n - 1) \div n
<1>1. q \in Nat /\ q * n <= p
  BY Quotient
<1>2. r \in Nat /\ top + n - 1 < (r + 1) * n
  <2>1. top + n - 1 \in Nat
    OBVIOUS
  <2> QED BY <2>1, Quotient
<1> HIDE DEF q, r
<1>3. (q + 1) * n < (r + 1) * n
  <2>1. (q + 1) * n = q * n + n /\ q * n \in Nat
    BY <1>1
  <2>2. (r + 1) * n \in Nat
    BY <1>2
  <2> QED BY <1>1, <1>2, <2>1, <2>2
<1>4. q < r
  <2> SUFFICES ASSUME r <= q PROVE FALSE
    BY <1>1, <1>2
  <2>1. (r + 1) * n <= (q + 1) * n
    BY <1>1, <1>2
  <2> QED BY <2>1, <1>1, <1>2, <1>3
<1> QED BY <1>1, <1>2, <1>4 DEF q, r

-----------------------------------------------------------------------------
(* The sort. *)

LEMMA LowestFacts ==
  ASSUME list \in Seq(Entries), NEW i \in 1 .. Len(list)
  PROVE  /\ Lowest(i) \in i .. Len(list)
         /\ \A k \in i .. Len(list) : list[Lowest(i)].first <= list[k].first
<1> DEFINE n == Len(list)
           f == [k \in 1 .. n |-> list[k].first]
<1>1. n \in Nat /\ i \in Nat /\ i >= 1 /\ i <= n
  OBVIOUS
<1>2. \A k \in 1 .. n : f[k] \in Nat
  <2> SUFFICES ASSUME NEW k \in 1 .. n PROVE list[k].first \in Nat
    OBVIOUS
  <2>1. list[k] \in Entries
    OBVIOUS
  <2> QED BY <2>1 DEF Entries
<1> DEFINE P(j) == /\ \A k \in i .. n : f[j] <= f[k]
                   /\ \A k \in i .. j - 1 : f[j] < f[k]
<1>3. Lowest(i) = CHOOSE j \in i .. n : P(j)
  <2>1. \A j \in i .. n : P(j) <=> /\ \A k \in i .. n : list[j].first <= list[k].first
                                   /\ \A k \in i .. j - 1 : list[j].first < list[k].first
    <3> SUFFICES ASSUME NEW j \in i .. n
                 PROVE  P(j) <=> /\ \A k \in i .. n : list[j].first <= list[k].first
                                 /\ \A k \in i .. j - 1 : list[j].first < list[k].first
      OBVIOUS
    <3>1. \A k \in i .. n : f[k] = list[k].first
      BY <1>1
    <3>2. \A k \in i .. j - 1 : k \in i .. n
      BY <1>1
    <3> HIDE DEF f
    <3> QED BY <3>1, <3>2
  <2> HIDE DEF P
  <2> QED BY <2>1 DEF Lowest
<1> HIDE DEF f, n
<1>4. \E j \in i .. n : P(j)
  <2> DEFINE T == {f[k] : k \in i .. n}
             U(v) == {k \in i .. n : f[k] = v}
  <2>1. T \subseteq Nat /\ T # {}
    BY <1>1, <1>2
  <2>2. PICK v \in T : \A y \in T : v <= y
    BY <2>1, NatLeast
  <2>3. U(v) \subseteq Nat /\ U(v) # {}
    BY <1>1
  <2>4. PICK j \in U(v) : \A y \in U(v) : j <= y
    BY <2>3, NatLeast
  <2>5. \A k \in i .. n : v <= f[k] /\ f[k] \in Nat /\ v \in Nat
    BY <1>1, <1>2, <2>2
  <2>6. j \in i .. n /\ f[j] = v
    OBVIOUS
  <2>7. ASSUME NEW k \in i .. j - 1 PROVE f[j] < f[k]
    <3>1. k \in i .. n /\ ~ (j <= k)
      BY <2>6, <1>1
    <3>2. f[k] # v
      BY <3>1, <2>4
    <3> QED BY <3>1, <3>2, <2>5, <2>6
  <2> QED BY <2>5, <2>6, <2>7
<1>5. Lowest(i) \in i .. n /\ P(Lowest(i))
  BY <1>3, <1>4
<1>6. \A k \in i .. n : f[k] = list[k].first
  BY <1>1 DEF f, n
<1> QED BY <1>5, <1>6 DEF n

(* A list with the same entries says the same. *)
LEMMA SaysSame ==
  ASSUME NEW l, NEW g, Says(l),
         \A k \in DOMAIN g : \E j \in DOMAIN l : g[k] = l[j],
         \A j \in DOMAIN l : \E k \in DOMAIN g : g[k] = l[j]
  PROVE  Says(g)
<1> DEFINE Entry(e) == \E b \in DOMAIN efi :
             /\ Begins(b) /\ e.first = efi[b].first /\ e.type = Convert(efi[b].type)
             /\ ~ Faulty(b) => \A p \in PagesOf(e) : \E i \in DOMAIN efi :
                  p \in PagesOf(efi[i]) /\ Convert(efi[i].type) = e.type
           Holds(i, e) == PagesOf(efi[i]) \subseteq PagesOf(e) /\ e.type = Convert(efi[i].type)
<1>1. /\ \A k \in DOMAIN l : Entry(l[k])
      /\ \A i \in DOMAIN efi : ~ Faulty(i) => \E k \in DOMAIN l : Holds(i, l[k])
  BY DEF Says
<1>2. Says(g) <=> /\ \A k \in DOMAIN g : Entry(g[k])
                  /\ \A i \in DOMAIN efi : ~ Faulty(i) => \E k \in DOMAIN g : Holds(i, g[k])
  BY DEF Says
<1> HIDE DEF Entry, Holds
<1>3. \A k \in DOMAIN g : Entry(g[k])
  <2> SUFFICES ASSUME NEW k \in DOMAIN g PROVE Entry(g[k])
    OBVIOUS
  <2>1. PICK j \in DOMAIN l : g[k] = l[j]
    OBVIOUS
  <2> QED BY <1>1, <2>1
<1>4. \A i \in DOMAIN efi : ~ Faulty(i) => \E k \in DOMAIN g : Holds(i, g[k])
  <2> SUFFICES ASSUME NEW i \in DOMAIN efi, ~ Faulty(i) PROVE \E k \in DOMAIN g : Holds(i, g[k])
    OBVIOUS
  <2>1. PICK j \in DOMAIN l : Holds(i, l[j])
    BY <1>1
  <2>2. PICK k \in DOMAIN g : g[k] = l[j]
    OBVIOUS
  <2> QED BY <2>1, <2>2
<1> QED BY <1>2, <1>3, <1>4

(* While map and memory stay, so do the sections and their faults. *)
LEMMA FaultsStay ==
  ASSUME UNCHANGED <<efi, pool>>
  PROVE  /\ \A p : ClassOf(p)' = ClassOf(p)
         /\ \A i : Begins(i)' = Begins(i) /\ Faulty(i)' = Faulty(i)
         /\ \A l : Says(l)' = Says(l)
         /\ list' = list => \A p : Spoilt(p)' = Spoilt(p)
<1>0. efi' = efi /\ pool' = pool
  OBVIOUS
<1>1. \A p : ClassOf(p)' = ClassOf(p)
  BY <1>0 DEF ClassOf
<1>2. \A i : Begins(i)' = Begins(i)
  BY <1>0 DEF Begins
<1>3. \A i : SectionOf(i)' = SectionOf(i)
  BY <1>2 DEF SectionOf
<1>4. \A i : Faulty(i)' = Faulty(i)
  BY <1>0, <1>2, <1>3 DEF Faulty
<1>5. \A l : Says(l)' = Says(l)
  BY <1>0, <1>2, <1>4 DEF Says
<1>6. list' = list => \A p : Spoilt(p)' = Spoilt(p)
  BY <1>0, <1>4 DEF Spoilt
<1> QED BY <1>1, <1>2, <1>4, <1>5, <1>6

LEMMA SortFacts ==
  ASSUME list \in Seq(Entries), Says(list), Sort
  PROVE  /\ list' \in Seq(Entries) /\ Says(list)' /\ UNCHANGED <<efi, pool>>
         /\ stage' \in {"sort", "records"} /\ (stage' = "records" => Sorted(list'))
<1> DEFINE n == Len(list)
           unplaced == {i \in 1 .. n - 1 : Lowest(i) # i}
<1>0. n \in Nat /\ DOMAIN list = 1 .. n
  OBVIOUS
<1>1. UNCHANGED <<efi, pool>>
  BY DEF Sort
<1>4. Says(list)' <=> Says(list')
  BY <1>1, FaultsStay DEF Says
<1>2. CASE unplaced = {}
  <2>1. stage' = "records" /\ list' = list
    BY <1>2 DEF Sort
  <2>2. ASSUME NEW j \in 1 .. n, NEW k \in 1 .. n, j <= k
        PROVE  list[j].first <= list[k].first
    <3>1. CASE j = n
      <4>1. j = k
        BY <3>1, <2>2, <1>0
      <4>2. list[j] \in Entries
        OBVIOUS
      <4>3. list[j].first \in Nat
        BY <4>2 DEF Entries
      <4> QED BY <4>1, <4>3
    <3>2. CASE j # n
      <4>1. j \in 1 .. n - 1 /\ k \in j .. n
        <5> HIDE DEF n
        <5> QED BY <3>2, <2>2, <1>0
      <4>2. Lowest(j) = j
        BY <4>1, <1>2
      <4>3. \A m \in j .. n : list[Lowest(j)].first <= list[m].first
        BY LowestFacts
      <4> QED BY <4>1, <4>2, <4>3
    <3> QED BY <3>1, <3>2
  <2>3. Sorted(list)
    BY <2>2, <1>0 DEF Sorted
  <2> QED BY <1>1, <1>4, <2>1, <2>3
<1>3. CASE unplaced # {}
  <2> DEFINE i == Min(unplaced)
             j == Lowest(i)
             g == [list EXCEPT ![i] = list[j], ![j] = list[i]]
  <2>1. stage' = stage /\ stage = "sort" /\ list' = g
    BY <1>3 DEF Sort
  <2>2. i \in unplaced
    <3>1. unplaced \subseteq Nat
      OBVIOUS
    <3> QED BY <3>1, <1>3, MinFacts
  <2>3. i \in 1 .. n /\ j # i
    BY <2>2, <1>0
  <2> HIDE DEF i
  <2>4. j \in 1 .. n
    <3>1. Lowest(i) \in i .. Len(list)
      BY <2>3, LowestFacts
    <3> QED BY <3>1, <2>3, <1>0
  <2> HIDE DEF j, n
  <2>5. /\ g \in [1 .. n -> Entries] /\ g[i] = list[j] /\ g[j] = list[i]
        /\ \A k \in 1 .. n : k # i /\ k # j => g[k] = list[k]
    <3>1. list \in [1 .. n -> Entries]
      BY DEF n
    <3> QED BY <3>1, <2>3, <2>4
  <2> HIDE DEF g
  <2>6. g \in Seq(Entries) /\ DOMAIN g = 1 .. n
    BY <2>5, <1>0
  <2>7. \A k \in DOMAIN g : \E m \in DOMAIN list : g[k] = list[m]
    BY <2>3, <2>4, <2>5, <2>6, <1>0
  <2>8. \A m \in DOMAIN list : \E k \in DOMAIN g : g[k] = list[m]
    BY <2>3, <2>4, <2>5, <2>6, <1>0
  <2>9. Says(g)
    BY <2>7, <2>8, SaysSame
  <2> QED BY <1>1, <1>4, <2>1, <2>6, <2>9
<1> QED BY <1>2, <1>3

-----------------------------------------------------------------------------
(* The invariant of the way from the loop of attempts to the huge pages. *)

Looping == {"size", "alloc", "read", "exit"}
Listed == {"sort", "records", "map", "done"}
Recorded == {"map", "done"}

(* What is not reserved, and the table, is in an entry of the list, wrong or *)
(* not.                                                                      *)
IsListed(p) == \E k \in DOMAIN list : p \in PagesOf(list[k])

AllListed ==
  /\ \A p \in DOMAIN page : page[p].state # "RESERVED" => IsListed(p)
  /\ \A p \in TablePages(table, Cardinality(DOMAIN page)) : IsListed(p)

(* The list says what the map says from its making on, and is sorted when   *)
(* the kernel gets it.                                                      *)
BootInv ==
  /\ TypeOK
  /\ stage \in Looping => attempt < Attempts
  /\ stage = "alloc" => size \in Sizes
  /\ stage \in {"parse"} \union Listed => efi \in Layouts /\ pool \in Leftovers
  /\ stage \in Listed => list \in Seq(Entries) /\ Says(list)
  /\ stage \in {"records"} \union Recorded => Sorted(list)
  /\ stage \in Recorded => (\E n \in Nat : DOMAIN page = 0 .. n - 1) /\ AllListed
  /\ RecordsExact /\ TableApart /\ Reachable

LEMMA LayoutFacts ==
  ASSUME NEW map \in Layouts
  PROVE  map \in Seq(Descriptors) /\ WellFormed(map) /\ DOMAIN map = 1 .. Len(map)
<1>1. map \in Seq(Descriptors)
  BY BootAssumption DEF Descriptors
<1> QED BY <1>1, FirmwareAssumption

(* The class that the map gives a page is that of the descriptor it is in.  *)
LEMMA ClassFacts ==
  ASSUME efi \in Layouts, NEW p
  PROVE  /\ \A i \in DOMAIN efi : p \in PagesOf(efi[i]) => ClassOf(p) = Convert(efi[i].type)
         /\ (\A i \in DOMAIN efi : p \notin PagesOf(efi[i])) => ClassOf(p) = "RESERVED"
<1>1. ASSUME NEW i \in DOMAIN efi, p \in PagesOf(efi[i])
      PROVE  ClassOf(p) = Convert(efi[i].type)
  <2> DEFINE c == CHOOSE j \in DOMAIN efi : p \in PagesOf(efi[j])
  <2>1. c \in DOMAIN efi /\ p \in PagesOf(efi[c])
    BY <1>1
  <2>2. ClassOf(p) = Convert(efi[c].type)
    BY <1>1 DEF ClassOf
  <2> HIDE DEF c
  <2>3. c = i
    BY <1>1, <2>1, LayoutFacts DEF WellFormed
  <2> QED BY <2>2, <2>3
<1>2. (\A i \in DOMAIN efi : p \notin PagesOf(efi[i])) => ClassOf(p) = "RESERVED"
  BY DEF ClassOf
<1> QED BY <1>1, <1>2

(* The class of a page that no fault reaches and what the list says of it. *)
LEMMA ListedClass ==
  ASSUME efi \in Layouts, Says(list), NEW p, ~ Spoilt(p)
  PROVE  /\ \A k \in DOMAIN list : p \in PagesOf(list[k]) => ClassOf(p) = list[k].type
         /\ ClassOf(p) # "RESERVED" => IsListed(p)
<1>1. ASSUME NEW k \in DOMAIN list, p \in PagesOf(list[k])
      PROVE  ClassOf(p) = list[k].type
  <2>1. PICK b \in DOMAIN efi :
          /\ list[k].first = efi[b].first
          /\ ~ Faulty(b) => \A q \in PagesOf(list[k]) : \E i \in DOMAIN efi :
               q \in PagesOf(efi[i]) /\ Convert(efi[i].type) = list[k].type
    BY DEF Says
  <2>2. ~ Faulty(b)
    BY <1>1, <2>1 DEF Spoilt
  <2>3. PICK i \in DOMAIN efi : p \in PagesOf(efi[i]) /\ Convert(efi[i].type) = list[k].type
    BY <1>1, <2>1, <2>2
  <2> QED BY <2>3, ClassFacts
<1>2. ASSUME ClassOf(p) # "RESERVED" PROVE IsListed(p)
  <2>1. PICK i \in DOMAIN efi : p \in PagesOf(efi[i])
    BY <1>2, ClassFacts
  <2>2. ~ Faulty(i)
    BY <2>1 DEF Spoilt
  <2>3. PICK k \in DOMAIN list : PagesOf(efi[i]) \subseteq PagesOf(list[k])
    BY <2>2 DEF Says
  <2> QED BY <2>1, <2>3 DEF IsListed
<1> QED BY <1>1, <1>2

LEMMA EntryFacts ==
  ASSUME list \in Seq(Entries), NEW k \in DOMAIN list
  PROVE  /\ k \in Nat /\ list[k] \in Entries /\ list[k].first \in Nat /\ list[k].count \in Nat
         /\ End(list[k]) = list[k].first + list[k].count /\ End(list[k]) \in Nat
         /\ \A p : p \in PagesOf(list[k]) <=> p \in Nat /\ list[k].first <= p /\ p < End(list[k])
<1>1. k \in Nat /\ list[k] \in Entries
  OBVIOUS
<1>2. list[k].first \in Nat /\ list[k].count \in Nat
  BY <1>1 DEF Entries
<1>3. End(list[k]) = list[k].first + list[k].count
  BY DEF End
<1>4. End(list[k]) \in Nat
  BY <1>2, <1>3
<1>5. \A p : p \in PagesOf(list[k]) <=> p \in Nat /\ list[k].first <= p /\ p < End(list[k])
  BY <1>2, <1>3, PagesFacts
<1> QED BY <1>1, <1>2, <1>3, <1>4, <1>5

(* The ends of the entries have a bound. *)
LEMMA EndsBounded ==
  ASSUME list \in Seq(Entries)
  PROVE  \E b \in Nat : \A k \in DOMAIN list : End(list[k]) <= b
<1> DEFINE h == [k \in 1 .. Len(list) |-> End(list[k])]
<1>1. \A k \in 1 .. Len(list) : h[k] \in Nat
  BY EntryFacts
<1>2. Len(list) \in Nat /\ DOMAIN list = 1 .. Len(list)
  OBVIOUS
<1>3. \A k \in 1 .. Len(list) : h[k] = End(list[k])
  OBVIOUS
<1> HIDE DEF h
<1>4. PICK b \in Nat : \A k \in 1 .. Len(list) : h[k] <= b
  BY <1>1, <1>2, Bounded
<1> QED BY <1>2, <1>3, <1>4

LEMMA RecordCountFacts ==
  ASSUME list \in Seq(Entries)
  PROVE  /\ RecordCount \in Nat
         /\ \A k \in DOMAIN list : list[k].type \in Tracked => End(list[k]) <= RecordCount
<1> DEFINE T == {End(e) : e \in {d \in ToSet(list) : d.type \in Tracked}} \union {0}
<1>1. \A t \in T : t = 0 \/ \E k \in DOMAIN list : t = End(list[k])
  BY DEF ToSet
<1>2. \A k \in DOMAIN list : list[k].type \in Tracked => End(list[k]) \in T
  BY DEF ToSet
<1>3. 0 \in T
  OBVIOUS
<1> HIDE DEF T
<1>4. T \subseteq Nat
  BY <1>1, EntryFacts
<1>5. PICK b \in Nat : \A k \in DOMAIN list : End(list[k]) <= b
  BY EndsBounded
<1>6. \A t \in T : t <= b
  BY <1>1, <1>5
<1>7. Max(T) \in T /\ \A y \in T : y <= Max(T)
  BY <1>3, <1>4, <1>6, MaxFacts
<1>8. RecordCount = Max(T)
  BY DEF RecordCount, T
<1> QED BY <1>2, <1>4, <1>7, <1>8

-----------------------------------------------------------------------------
(* The records. *)

LEMMA RecordOfFacts ==
  ASSUME efi \in Layouts, list \in Seq(Entries), Says(list), NEW p, NEW own
  PROVE  /\ ~ Spoilt(p) =>
              RecordOf(p, own).state =
                IF p \in KernelImage \union own \union Framebuffer \/ ClassOf(p) \notin Tracked
                THEN "RESERVED" ELSE ClassOf(p)
         /\ RecordOf(p, own).state # "RESERVED" => IsListed(p)
<1> DEFINE found == {i \in DOMAIN list : p \in PagesOf(list[i])}
<1>1. found # {} => Min(found) \in DOMAIN list /\ p \in PagesOf(list[Min(found)])
  <2>1. found \subseteq Nat
    OBVIOUS
  <2>2. found # {} => Min(found) \in found
    BY <2>1, MinFacts
  <2> QED BY <2>2
<1>2. ~ Spoilt(p) /\ found # {} => ClassOf(p) = list[Min(found)].type
  BY <1>1, ListedClass
<1>3. ~ Spoilt(p) /\ found = {} => ClassOf(p) = "RESERVED"
  BY ListedClass DEF IsListed
<1>7. found # {} => IsListed(p)
  BY DEF IsListed
<1>4. RecordOf(p, own) =
        IF p \in KernelImage THEN Record("RESERVED", "KERNEL")
        ELSE IF p \notin own \union Framebuffer /\ found # {} /\ list[Min(found)].type \in Tracked
             THEN Record(list[Min(found)].type, "INVALID")
             ELSE Record("RESERVED", "INVALID")
  BY DEF RecordOf
<1>5. \A a, b : Record(a, b).state = a
  BY DEF Record
<1>6. "RESERVED" \notin Tracked
  BY DEF Tracked
<1> HIDE DEF found
<1> QED BY <1>2, <1>3, <1>4, <1>5, <1>6, <1>7

LEMMA RecordOfType ==
  ASSUME NEW p, NEW own
  PROVE  RecordOf(p, own) \in [state : Tracked \union {"RESERVED"}, pid : {"INVALID", "KERNEL"}]
<1> DEFINE found == {i \in DOMAIN list : p \in PagesOf(list[i])}
           type == list[Min(found)].type
<1>1. \A a \in Tracked \union {"RESERVED"}, b \in {"INVALID", "KERNEL"} :
        Record(a, b) \in [state : Tracked \union {"RESERVED"}, pid : {"INVALID", "KERNEL"}]
  BY DEF Record
<1>2. \/ RecordOf(p, own) = Record("RESERVED", "KERNEL")
      \/ RecordOf(p, own) = Record("RESERVED", "INVALID")
      \/ type \in Tracked /\ RecordOf(p, own) = Record(type, "INVALID")
  BY DEF RecordOf
<1> HIDE DEF type
<1> QED BY <1>1, <1>2

(* The table is in the first free section that has room for it. *)
LEMMA TableFacts ==
  ASSUME efi \in Layouts, list \in Seq(Entries), Says(list),
         NEW n \in Nat, Roomy(n) # {}, NEW at, at = PlaceIn(list[Min(Roomy(n))]),
         NEW p \in TablePages(at, n)
  PROVE  /\ IsListed(p)
         /\ ~ Spoilt(p) => ClassOf(p) = "AVAILABLE" /\ p \notin KernelImage
         /\ p = StartupPage => \E i \in DOMAIN efi :
              Begins(i) /\ efi[i].first = StartupPage /\ Convert(efi[i].type) = "AVAILABLE"
<1> DEFINE r == Min(Roomy(n))
<1>1. r \in Roomy(n)
  <2>1. Roomy(n) \subseteq Nat
    BY DEF Roomy
  <2> QED BY <2>1, MinFacts
<1> HIDE DEF r
<1>2. /\ r \in DOMAIN list /\ list[r].type = "AVAILABLE"
      /\ at * PageSize + InfoSize(n) <= End(list[r]) * PageSize
  BY <1>1 DEF Roomy, r
<1>3. list[r].first \in Nat /\ End(list[r]) \in Nat /\ PageSize \in Nat \ {0} /\ StartupPage \in Nat
  BY <1>2, EntryFacts, BootAssumption
<1>4. at = IF list[r].first < StartupPage THEN StartupPage + 1 ELSE list[r].first
  BY DEF PlaceIn, r
<1>5. /\ p \in Nat /\ at <= p /\ p * PageSize < at * PageSize + InfoSize(n)
      /\ at \in Nat /\ list[r].first <= at /\ InfoSize(n) \in Nat
  BY <1>3, <1>4 DEF TablePages, InfoSize
<1>6. p < End(list[r])
  <2> SUFFICES ASSUME End(list[r]) <= p PROVE FALSE
    BY <1>3, <1>5
  <2>1. End(list[r]) * PageSize <= p * PageSize
    BY ONLY <1>3, <1>5, End(list[r]) <= p, TimesMonotone
  <2>2. End(list[r]) * PageSize \in Nat /\ p * PageSize \in Nat /\ at * PageSize \in Nat
    BY ONLY <1>3, <1>5, End(list[r]) <= p, TimesMonotone
  <2> QED BY <2>1, <2>2, <1>2, <1>5
<1>7. p \in PagesOf(list[r])
  <2>1. list[r].first <= p
    BY <1>3, <1>5
  <2>2. \A q : q \in PagesOf(list[r]) <=> q \in Nat /\ list[r].first <= q /\ q < End(list[r])
    BY <1>2, EntryFacts
  <2> QED BY <1>5, <1>6, <2>1, <2>2
<1>8. ~ Spoilt(p) => ClassOf(p) = "AVAILABLE"
  BY <1>2, <1>7, ListedClass
<1>9. ~ Spoilt(p) => p \notin KernelImage
  <2> SUFFICES ASSUME ~ Spoilt(p), p \in KernelImage PROVE FALSE
    OBVIOUS
  <2>1. PICK i \in DOMAIN efi : p \in PagesOf(efi[i]) /\ Convert(efi[i].type) # "AVAILABLE"
    BY LayoutFacts DEF WellFormed
  <2> QED BY <2>1, <1>8, ClassFacts
<1>10. ASSUME p = StartupPage
       PROVE  \E i \in DOMAIN efi :
                Begins(i) /\ efi[i].first = StartupPage /\ Convert(efi[i].type) = "AVAILABLE"
  <2>1. list[r].first = StartupPage
    BY <1>10, <1>3, <1>4, <1>5
  <2> QED BY <2>1, <1>2 DEF Says
<1> QED BY <1>2, <1>7, <1>8, <1>9, <1>10 DEF IsListed

(* All that is tracked has a record, unless a fault takes it off the list. *)
LEMMA CountFacts ==
  ASSUME efi \in Layouts, list \in Seq(Entries), Says(list),
         NEW i \in DOMAIN efi, ~ Faulty(i), Convert(efi[i].type) \in Tracked
  PROVE  PagesOf(efi[i]) \subseteq 0 .. RecordCount - 1
<1> SUFFICES ASSUME NEW p \in PagesOf(efi[i]) PROVE p \in 0 .. RecordCount - 1
  OBVIOUS
<1>1. PICK k \in DOMAIN list : p \in PagesOf(list[k]) /\ list[k].type = Convert(efi[i].type)
  BY DEF Says
<1>2. p \in Nat /\ p < End(list[k]) /\ End(list[k]) \in Nat
  BY <1>1, EntryFacts
<1>3. End(list[k]) <= RecordCount /\ RecordCount \in Nat
  BY <1>1, RecordCountFacts
<1> QED BY <1>2, <1>3

LEMMA RecordsStep ==
  ASSUME BootInv, MakeRecords
  PROVE  BootInv'
<1> DEFINE n == RecordCount
           at == PlaceIn(list[Min(Roomy(n))])
           own == TablePages(at, n)
           R == Record("RESERVED", "INVALID")
<1>1. /\ efi \in Layouts /\ list \in Seq(Entries) /\ Says(list) /\ Sorted(list) /\ n \in Nat
      /\ stage = "records" /\ pool \in Leftovers
  <2>1. stage = "records"
    BY DEF MakeRecords
  <2> QED BY <2>1, RecordCountFacts DEF BootInv, Listed
<1>2. /\ Roomy(n) # {} /\ table' = at /\ stage' = "map"
      /\ page' = [p \in 0 .. n - 1 |-> IF p = StartupPage THEN R ELSE RecordOf(p, own)]
      /\ UNCHANGED <<handoff, efi, pool, list, active>>
  BY DEF MakeRecords
<1>3. DOMAIN page' = 0 .. n - 1 /\ Cardinality(DOMAIN page') = n
  <2>1. Cardinality(0 .. n - 1) = n
    <3> HIDE DEF n
    <3>1. 0 \in Int /\ n - 1 \in Int
      BY <1>1
    <3>2. Cardinality(0 .. n - 1) = IF 0 > n - 1 THEN 0 ELSE n - 1 - 0 + 1
      BY <3>1, FS_Interval
    <3> QED BY <1>1, <3>2
  <2> QED BY <1>2, <2>1
<1>4. TablePages(table', Cardinality(DOMAIN page')) = own
  BY <1>2, <1>3
<1>5. /\ \A p : ClassOf(p)' = ClassOf(p) /\ Spoilt(p)' = Spoilt(p)
      /\ \A i : Begins(i)' = Begins(i) /\ Faulty(i)' = Faulty(i)
      /\ Says(list)'
  <2>1. Says(list)' <=> Says(list')
    BY <1>2, FaultsStay DEF Says
  <2> QED BY <1>1, <1>2, <2>1, FaultsStay
<1> HIDE DEF n, at, own, R
<1>6. \A p \in 0 .. n - 1 : page'[p] \in [state : Tracked \union {"RESERVED"}, pid : {"INVALID", "KERNEL"}]
  <2>1. R \in [state : Tracked \union {"RESERVED"}, pid : {"INVALID", "KERNEL"}]
    BY DEF R, Record
  <2> QED BY <1>2, <2>1, RecordOfType
<1>7. ASSUME NEW p \in 0 .. n - 1
      PROVE  /\ ~ Spoilt(p) =>
                  page'[p].state =
                    IF p \in KernelImage \union Framebuffer \union {StartupPage} \union own
                         \/ ClassOf(p) \notin Tracked
                    THEN "RESERVED" ELSE ClassOf(p)
             /\ page'[p].state # "RESERVED" => IsListed(p)
  <2>1. R.state = "RESERVED"
    BY DEF R, Record
  <2>2. /\ ~ Spoilt(p) =>
             RecordOf(p, own).state =
               IF p \in KernelImage \union own \union Framebuffer \/ ClassOf(p) \notin Tracked
               THEN "RESERVED" ELSE ClassOf(p)
        /\ RecordOf(p, own).state # "RESERVED" => IsListed(p)
    BY <1>1, RecordOfFacts
  <2>3. page'[p] = IF p = StartupPage THEN R ELSE RecordOf(p, own)
    BY <1>2
  <2> QED BY <2>1, <2>2, <2>3
<1>8. \A p \in 0 .. n - 1 : page'[p].state # "LOCKED"
  BY <1>6 DEF Tracked
<1>9. RecordsExact'
  <2>1. \A i \in DOMAIN efi :
          ~ Faulty(i) /\ Convert(efi[i].type) \in Tracked => PagesOf(efi[i]) \subseteq 0 .. n - 1
    BY <1>1, CountFacts DEF n
  <2> QED BY <1>2, <1>3, <1>4, <1>5, <1>7, <1>8, <2>1 DEF RecordsExact
<1>10. TableApart'
  <2>1. \A p \in own :
          /\ ~ Spoilt(p) => ClassOf(p) = "AVAILABLE" /\ p \notin KernelImage
          /\ p = StartupPage => \E i \in DOMAIN efi :
               Begins(i) /\ efi[i].first = StartupPage /\ Convert(efi[i].type) = "AVAILABLE"
    BY <1>1, <1>2, TableFacts DEF own, at
  <2> QED BY <1>2, <1>4, <1>5, <2>1 DEF TableApart
<1>13. AllListed'
  <2>1. \A p \in own : IsListed(p)
    BY <1>1, <1>2, TableFacts DEF own, at
  <2>2. \A p : IsListed(p)' = IsListed(p)
    BY <1>2 DEF IsListed
  <2>3. \A p \in DOMAIN page' : page'[p].state # "RESERVED" => IsListed(p)
    BY <1>3, <1>7
  <2> QED BY <1>4, <2>1, <2>2, <2>3 DEF AllListed
<1>11. Reachable'
  BY <1>2 DEF Reachable
<1>12. TypeOK'
  <2>1. \A p \in DOMAIN page' : page'[p] \in [state : States, pid : {"INVALID", "KERNEL"}]
    BY <1>3, <1>6 DEF States
  <2> QED BY <1>2, <2>1 DEF TypeOK, BootInv, handoff
<1> QED
  <2>1. stage' \notin Looping /\ \E m \in Nat : DOMAIN page' = 0 .. m - 1
    BY <1>1, <1>2, <1>3 DEF Looping
  <2>2. list' \in Seq(Entries) /\ Sorted(list)' /\ efi' \in Layouts /\ pool' \in Leftovers
    BY <1>1, <1>2 DEF Sorted
  <2> QED BY <1>2, <1>5, <1>9, <1>10, <1>11, <1>12, <1>13, <2>1, <2>2 DEF BootInv

-----------------------------------------------------------------------------
(* The huge pages. *)

(* A page in an entry of the sorted list, or of the framebuffer, is in a    *)
(* huge page that is mapped.                                                *)
LEMMA HugeFacts ==
  ASSUME list \in Seq(Entries), Sorted(list), NEW p,
         p \in Framebuffer \/ \E k \in DOMAIN list : p \in PagesOf(list[k])
  PROVE  HugeOf(p) \in HugePages
<1> DEFINE T == {End(e) : e \in ToSet(list)} \union {q + 1 : q \in Framebuffer}
           top == Max(T)
           h == HugeOf(p)
<1>0. HugePage \in Nat \ {0} /\ Framebuffer \subseteq Nat /\ IsFiniteSet(Framebuffer)
  BY BootAssumption
<1>1. \A t \in T : (\E k \in DOMAIN list : t = End(list[k])) \/ (\E q \in Framebuffer : t = q + 1)
  BY DEF ToSet
<1>2. (\A k \in DOMAIN list : End(list[k]) \in T) /\ (\A q \in Framebuffer : q + 1 \in T)
  BY DEF ToSet
<1> HIDE DEF T
<1>3. T \subseteq Nat
  BY <1>0, <1>1, EntryFacts
<1>4. \E b \in Nat : \A t \in T : t <= b
  <2>1. PICK b \in Nat : \A k \in DOMAIN list : End(list[k]) <= b
    BY EndsBounded
  <2>2. PICK c \in Nat : \A q \in Framebuffer : q <= c
    BY <1>0, FiniteBounded
  <2>3. ASSUME NEW t \in T PROVE t <= b + c + 1
    <3>1. CASE \E k \in DOMAIN list : t = End(list[k])
      <4>1. t <= b
        BY <3>1, <2>1
      <4> QED BY <4>1, <1>3
    <3>2. CASE \E q \in Framebuffer : t = q + 1
      BY <3>2, <2>2, <1>0
    <3> QED BY <1>1, <3>1, <3>2
  <2>4. b + c + 1 \in Nat
    OBVIOUS
  <2> QED BY <2>3, <2>4
<1>5. \E t \in T : p \in Nat /\ p < t
  <2>1. CASE p \in Framebuffer
    <3>1. p \in Nat /\ p + 1 \in T
      BY <2>1, <1>0, <1>2
    <3> QED BY <3>1
  <2>2. CASE \E k \in DOMAIN list : p \in PagesOf(list[k])
    <3>1. PICK k \in DOMAIN list : p \in PagesOf(list[k])
      BY <2>2
    <3> QED BY <3>1, <1>2, EntryFacts
  <2> QED BY <2>1, <2>2
<1>6. top \in Nat /\ p \in Nat /\ p < top
  <2>1. T # {}
    BY <1>5
  <2>2. Max(T) \in T /\ \A y \in T : y <= Max(T)
    BY <2>1, <1>3, <1>4, MaxFacts
  <2>3. PICK t \in T : p \in Nat /\ p < t
    BY <1>5
  <2>4. t <= top /\ t \in Nat /\ top \in Nat
    BY <2>2, <1>3
  <2> QED BY <2>3, <2>4
<1>7. h \in 0 .. HugeOf(top + HugePage - 1) - 1
  <2> HIDE DEF top
  <2> QED BY <1>0, <1>6, QuotientBelow DEF HugeOf
<1>8. CASE p \in Framebuffer
  <2>1. Overlaps(Framebuffer, h)
    BY <1>8 DEF Overlaps
  <2> QED BY <1>7, <2>1 DEF HugePages, T
<1>9. CASE \E k \in DOMAIN list : p \in PagesOf(list[k])
  <2>1. PICK k \in DOMAIN list : p \in PagesOf(list[k])
    BY <1>9
  <2>2. Overlaps(PagesOf(list[k]), h)
    BY <2>1 DEF Overlaps
  <2>3. ASSUME NEW j \in 1 .. k - 1 PROVE list[j].first <= (h + 1) * HugePage
    <3>1. j \in DOMAIN list /\ j <= k
      OBVIOUS
    <3>2. list[j].first <= list[k].first /\ list[k].first <= p
      BY <2>1, <3>1, EntryFacts DEF Sorted
    <3>3. list[j].first \in Nat /\ list[k].first \in Nat
      BY <3>1, EntryFacts
    <3>4. p < (h + 1) * HugePage /\ h \in Nat
      BY <1>0, <1>6, Quotient DEF HugeOf
    <3>5. (h + 1) * HugePage \in Nat
      BY <3>4, <1>0
    <3> HIDE DEF h
    <3> QED BY <3>2, <3>3, <3>4, <3>5, <1>6
  <2>4. Described(h)
    BY <2>2, <2>3 DEF Described
  <2> QED BY <1>7, <2>4 DEF HugePages, T
<1> QED BY <1>8, <1>9

LEMMA MapStep ==
  ASSUME BootInv, MapMemory
  PROVE  BootInv'
<1> DEFINE taken == LowestPages(TablesNeeded)
           own == TablePages(table, Cardinality(DOMAIN page))
           kept == KernelImage \union Framebuffer \union {StartupPage} \union own
           Meant(p) == IF p \in kept \/ ClassOf(p) \notin Tracked THEN "RESERVED" ELSE ClassOf(p)
<1>1. /\ efi \in Layouts /\ list \in Seq(Entries) /\ Says(list) /\ Sorted(list)
      /\ \E n \in Nat : DOMAIN page = 0 .. n - 1
      /\ AllListed /\ pool \in Leftovers
      /\ stage = "map" /\ RecordsExact /\ TableApart /\ TypeOK
  <2>1. stage = "map"
    BY DEF MapMemory
  <2> QED BY <2>1 DEF BootInv, Listed, Recorded
<1>2. /\ page' = [p \in DOMAIN page |-> IF p \in taken THEN Record("LOCKED", "KERNEL") ELSE page[p]]
      /\ active' = HugePages /\ stage' = "done"
      /\ UNCHANGED <<handoff, efi, pool, list, table>>
  BY DEF MapMemory
<1>3. \A p \in taken : p \in DOMAIN page /\ page[p].state = "AVAILABLE"
  BY DEF LowestPages, AvailablePages
<1>4. DOMAIN page' = DOMAIN page /\ TablePages(table', Cardinality(DOMAIN page')) = own
  BY <1>2
<1>5. /\ \A p : ClassOf(p)' = ClassOf(p) /\ Spoilt(p)' = Spoilt(p)
      /\ \A i : Begins(i)' = Begins(i) /\ Faulty(i)' = Faulty(i)
      /\ Says(list)'
  <2>1. Says(list)' <=> Says(list')
    BY <1>2, FaultsStay DEF Says
  <2> QED BY <1>1, <1>2, <2>1, FaultsStay
<1> HIDE DEF taken
<1>6. \A p \in DOMAIN page : page'[p].state = IF p \in taken THEN "LOCKED" ELSE page[p].state
  BY <1>2 DEF Record
<1>7. \A p \in DOMAIN page : ~ Spoilt(p) =>
        IF page[p].state = "LOCKED" THEN Meant(p) = "AVAILABLE" ELSE page[p].state = Meant(p)
  BY <1>1 DEF RecordsExact
<1>8. \A p \in own :
        /\ ~ Spoilt(p) => ClassOf(p) = "AVAILABLE" /\ p \notin KernelImage
        /\ p = StartupPage => \E i \in DOMAIN efi :
             Begins(i) /\ efi[i].first = StartupPage /\ Convert(efi[i].type) = "AVAILABLE"
  BY <1>1 DEF TableApart
<1>9. \A i \in DOMAIN efi :
        ~ Faulty(i) /\ Convert(efi[i].type) \in Tracked => PagesOf(efi[i]) \subseteq DOMAIN page
  BY <1>1 DEF RecordsExact
<1>15. /\ \A p \in DOMAIN page : page[p].state # "RESERVED" => IsListed(p)
       /\ \A p \in own : IsListed(p)
  BY <1>1 DEF AllListed
<1> HIDE DEF own
<1>10. \A p \in DOMAIN page : ~ Spoilt(p) =>
         IF page'[p].state = "LOCKED" THEN Meant(p) = "AVAILABLE" ELSE page'[p].state = Meant(p)
  BY <1>3, <1>6, <1>7
<1>11. RecordsExact'
  BY <1>2, <1>4, <1>5, <1>9, <1>10 DEF RecordsExact
<1>12. TableApart'
  BY <1>2, <1>4, <1>5, <1>8 DEF TableApart
<1>16. \A p \in DOMAIN page : page'[p].state # "RESERVED" => IsListed(p)
  BY <1>3, <1>6, <1>15
<1>17. AllListed'
  <2>1. \A p : IsListed(p)' = IsListed(p)
    BY <1>2 DEF IsListed
  <2> QED BY <1>4, <1>15, <1>16, <2>1 DEF AllListed
<1>13. Reachable'
  <2> SUFFICES ASSUME NEW p, (p \in DOMAIN page /\ page'[p].state # "RESERVED") \/ p \in own \/ p \in Framebuffer
               PROVE  HugeOf(p) \in HugePages
    BY <1>2, <1>4 DEF Reachable
  <2>1. CASE p \in DOMAIN page /\ page'[p].state # "RESERVED"
    BY <2>1, <1>1, <1>16, HugeFacts DEF IsListed
  <2>2. CASE p \in own
    BY <2>2, <1>1, <1>15, HugeFacts DEF IsListed
  <2>3. CASE p \in Framebuffer
    BY <2>3, <1>1, HugeFacts
  <2> QED BY <2>1, <2>2, <2>3
<1>14. TypeOK'
  <2>1. \A p \in DOMAIN page' : page'[p] \in [state : States, pid : {"INVALID", "KERNEL"}]
    <3>1. Record("LOCKED", "KERNEL") \in [state : States, pid : {"INVALID", "KERNEL"}]
      BY DEF Record, States
    <3>2. \A p \in DOMAIN page : page[p] \in [state : States, pid : {"INVALID", "KERNEL"}]
      BY <1>1 DEF TypeOK
    <3> QED BY <1>2, <3>1, <3>2
  <2> QED BY <1>1, <1>2, <2>1 DEF TypeOK, handoff
<1> QED
  <2>1. stage' \notin Looping /\ stage' \in Recorded \intersect Listed
    BY <1>2 DEF Looping, Recorded, Listed
  <2>2. list' \in Seq(Entries) /\ Sorted(list)' /\ efi' \in Layouts /\ pool' \in Leftovers
    BY <1>1, <1>2 DEF Sorted
  <2> QED BY <1>1, <1>2, <1>4, <1>5, <1>11, <1>12, <1>13, <1>14, <1>17, <2>1, <2>2 DEF BootInv

-----------------------------------------------------------------------------
LEMMA BootBegins == Init => BootInv
<1> SUFFICES ASSUME Init PROVE BootInv
  OBVIOUS
<1>1. stage = "size" /\ attempt = 0 /\ now \in Sizes /\ size = 0 /\ page = <<>>
  BY DEF Init
<1>2. TypeOK
  <2>1. DOMAIN page = {}
    BY <1>1
  <2>2. capacity = 0 /\ buffer = "null" /\ current = FALSE
    BY DEF Init
  <2>3. 0 \in 0 .. Attempts
    BY DEF Attempts
  <2> QED BY <1>1, <2>1, <2>2, <2>3 DEF TypeOK
<1>3. RecordsExact /\ TableApart /\ Reachable
  BY <1>1 DEF RecordsExact, TableApart, Reachable
<1> QED BY <1>1, <1>2, <1>3 DEF BootInv, Looping, Listed, Recorded, Attempts

(* Steps before there are records keep what is said of them. *)
LEMMA Early ==
  ASSUME stage' \notin Recorded
  PROVE  RecordsExact' /\ TableApart' /\ Reachable'
  BY DEF Recorded, RecordsExact, TableApart, Reachable

LEMMA LoopStep ==
  ASSUME BootInv, Firmware \/ GetSize \/ Allocate \/ OutOfPool \/ ReadMap \/ ReadFails \/ ExitFails
  PROVE  BootInv'
<1>1. /\ stage \in Looping /\ stage' \in Looping \union {"halt", "stray"}
      /\ stage' \in Looping => attempt' < Attempts
      /\ attempt' \in 0 .. Attempts
  <2>1. stage \in Looping
    BY DEF Firmware, GetSize, Allocate, OutOfPool, ReadMap, ReadFails, ExitFails, Looping
  <2>2. attempt \in 0 .. Attempts /\ attempt < Attempts /\ Attempts = 5
    BY <2>1 DEF BootInv, TypeOK, Attempts
  <2>3. CASE Firmware \/ GetSize \/ Allocate \/ OutOfPool \/ ReadMap
    <3>1. attempt' = attempt /\ stage' \in Looping \union {"halt"}
      BY <2>3 DEF Firmware, GetSize, Allocate, OutOfPool, ReadMap, Looping, handoff
    <3> QED BY <2>1, <2>2, <3>1
  <2>4. CASE ReadFails \/ ExitFails
    <3>1. attempt' = attempt + 1 /\ stage' = IF attempt' = Attempts THEN "stray" ELSE "size"
      BY <2>4 DEF ReadFails, ExitFails, TryAgain
    <3> QED BY <2>1, <2>2, <3>1 DEF Looping
  <2> QED BY <2>3, <2>4
<1>2. /\ now' \in Sizes /\ size' \in Sizes \union {0} /\ buffer' \in {"null", "live", "freed"}
      /\ current' \in BOOLEAN /\ UNCHANGED memory
  BY DEF BootInv, TypeOK, Firmware, FirmwareWorks, GetSize, Allocate, OutOfPool, ReadMap, ReadFails,
         ExitFails, TryAgain, handoff
<1>3. stage' = "alloc" => size' \in Sizes
  <2>1. stage' = "alloc" => GetSize \/ (Firmware /\ stage = "alloc")
    <3>1. Allocate \/ OutOfPool \/ ReadMap => stage' \in {"read", "halt", "exit"}
      BY DEF Allocate, OutOfPool, ReadMap
    <3>2. ReadFails \/ ExitFails => stage' \in {"stray", "size"}
      BY DEF ReadFails, ExitFails, TryAgain
    <3>3. Firmware => stage' = stage
      BY DEF Firmware
    <3> QED BY <3>1, <3>2, <3>3
  <2>2. GetSize => size' \in Sizes
    BY DEF GetSize, BootInv, TypeOK
  <2>3. Firmware /\ stage = "alloc" => size' \in Sizes
    BY DEF Firmware, BootInv
  <2> QED BY <2>1, <2>2, <2>3
<1>4. capacity' \in {n + Extra : n \in Sizes} \union {0}
  <2>1. capacity \in {n + Extra : n \in Sizes} \union {0}
    BY DEF BootInv, TypeOK
  <2>2. CASE Allocate
    <3>1. capacity' = size + Extra /\ size \in Sizes
      BY <2>2 DEF Allocate, BootInv
    <3> QED BY <3>1
  <2>3. CASE ~ Allocate
    <3>1. capacity' \in {capacity, 0}
      BY <2>3 DEF Firmware, GetSize, OutOfPool, ReadMap, ReadFails, ExitFails, TryAgain, handoff
    <3> QED BY <2>1, <3>1
  <2> QED BY <2>2, <2>3
<1>5. TypeOK'
  <2>1. \A p \in DOMAIN page' : page'[p] \in [state : States, pid : {"INVALID", "KERNEL"}]
    BY <1>2 DEF memory, BootInv, TypeOK
  <2>2. stage' \in {"size", "alloc", "read", "exit", "stray", "halt",
                    "parse", "sort", "records", "map", "done"}
    BY <1>1 DEF Looping
  <2> QED BY <1>1, <1>2, <1>4, <2>1, <2>2 DEF TypeOK
<1>6. stage' \notin Listed \union {"parse"}
  BY <1>1 DEF Looping, Listed
<1> QED BY <1>1, <1>3, <1>5, <1>6, Early DEF BootInv, Listed, Recorded

(* The steps from the map to the sorted list, and the ends in between. *)
LEMMA ListStep ==
  ASSUME BootInv, ExitBootServices \/ Parse \/ Sort \/ NoRoom \/ NoTables
  PROVE  BootInv'
<1>1. TypeOK'
  <2>1. UNCHANGED <<now, size, buffer, current, page>>
    BY DEF ExitBootServices, Parse, Sort, NoRoom, NoTables, handoff, memory
  <2>2. /\ stage' \in {"parse", "sort", "records", "halt"}
        /\ attempt' \in {attempt, 0} /\ capacity' \in {capacity, 0}
    BY DEF ExitBootServices, Parse, Sort, NoRoom, NoTables, handoff, memory
  <2>3. 0 \in 0 .. Attempts
    BY DEF Attempts
  <2> QED BY <2>1, <2>2, <2>3 DEF BootInv, TypeOK
<1>2. ASSUME stage' \in {"parse", "sort", "records", "halt"},
             stage' \in {"parse", "sort", "records"} => efi' \in Layouts /\ pool' \in Leftovers,
             stage' \in {"sort", "records"} => list' \in Seq(Entries) /\ Says(list)',
             stage' = "records" => Sorted(list')
      PROVE  BootInv'
  <2>1. Sorted(list)' <=> Sorted(list')
    BY DEF Sorted
  <2> QED BY <1>1, <1>2, <2>1, Early DEF BootInv, Looping, Listed, Recorded
<1>3. CASE ExitBootServices
  <2>1. stage' = "parse" /\ efi' \in Layouts /\ pool' \in Leftovers
    BY <1>3 DEF ExitBootServices
  <2> QED BY <1>2, <2>1
<1>4. CASE Parse
  <2>1. /\ stage' = "sort" /\ UNCHANGED <<efi, pool>> /\ list' = FoldLeft(Extend, <<>>, efi)
        /\ efi \in Layouts /\ pool \in Leftovers
    BY <1>4 DEF Parse, BootInv
  <2>2. efi \in Seq(Descriptors) /\ \A k \in 1 .. Len(efi) : pool[k] \in Nat
    <3>1. Len(efi) \in Sizes
      BY <2>1, BootAssumption
    <3> QED BY <2>1, <3>1, LayoutFacts, BootAssumption
  <2>3. list' \in Seq(Entries) /\ Says(list')
    BY <2>1, <2>2, Sections
  <2>4. Says(list)' <=> Says(list')
    BY <2>1, FaultsStay DEF Says
  <2> QED BY <1>2, <2>1, <2>3, <2>4
<1>5. CASE Sort
  <2>1. efi \in Layouts /\ pool \in Leftovers /\ list \in Seq(Entries) /\ Says(list)
    BY <1>5 DEF Sort, BootInv, Listed
  <2>2. /\ list' \in Seq(Entries) /\ Says(list)' /\ UNCHANGED <<efi, pool>>
        /\ stage' \in {"sort", "records"} /\ (stage' = "records" => Sorted(list'))
    BY <1>5, <2>1, SortFacts
  <2> QED BY <1>2, <2>1, <2>2
<1>6. CASE NoRoom \/ NoTables
  BY <1>2, <1>6 DEF NoRoom, NoTables
<1> QED BY <1>3, <1>4, <1>5, <1>6

LEMMA BootStutters ==
  ASSUME BootInv, UNCHANGED vars
  PROVE  BootInv'
<1>1. UNCHANGED <<stage, attempt, now, size, buffer, capacity, current,
                 efi, pool, list, page, table, active>>
  BY DEF vars, handoff, memory
<1>2. TypeOK' /\ RecordsExact' /\ TableApart' /\ Reachable'
  <2>1. TypeOK'
    BY <1>1 DEF BootInv, TypeOK
  <2>2. /\ \A p : ClassOf(p)' = ClassOf(p) /\ Spoilt(p)' = Spoilt(p)
        /\ \A i : Begins(i)' = Begins(i) /\ Faulty(i)' = Faulty(i)
    BY <1>1, FaultsStay
  <2>3. RecordsExact' /\ TableApart'
    BY <1>1, <2>2 DEF BootInv, RecordsExact, TableApart
  <2>4. Reachable'
    BY <1>1 DEF BootInv, Reachable
  <2> QED BY <2>1, <2>3, <2>4
<1>3. (Says(list)' <=> Says(list)) /\ (Sorted(list)' <=> Sorted(list)) /\ (AllListed' <=> AllListed)
  <2>1. Says(list)' <=> Says(list')
    BY <1>1, FaultsStay DEF Says
  <2>2. \A p : IsListed(p)' = IsListed(p)
    BY <1>1 DEF IsListed
  <2>3. AllListed' <=> AllListed
    BY <1>1, <2>2 DEF AllListed
  <2>4. Says(list') <=> Says(list)
    BY <1>1
  <2>5. Sorted(list)' <=> Sorted(list)
    BY <1>1 DEF Sorted
  <2> QED BY <2>1, <2>3, <2>4, <2>5
<1> QED BY <1>1, <1>2, <1>3 DEF BootInv

THEOREM BootInvariant == Spec => []BootInv
<1>1. BootInv /\ [Next]_vars => BootInv'
  BY LoopStep, ListStep, RecordsStep, MapStep, BootStutters DEF Next, Loader, Kernel
<1> QED BY BootBegins, <1>1, PTL DEF Spec

(* The types, and the bound of the attempts. *)
THEOREM BootTyped == Spec => []TypeOK
<1>1. BootInv => TypeOK
  BY DEF BootInv
<1> QED BY BootInvariant, <1>1, PTL

(* Converted, merged, sorted and made into records, the map still says of   *)
(* every page what the firmware said (main.c:555-639,                       *)
(* page_allocator.c:51-225), for any map whose descriptors are apart, but   *)
(* for the pages that a section with a hole or with a count that was not    *)
(* clear has or runs over.                                                  *)
THEOREM RecordsAreExact == Spec => []RecordsExact
<1>1. BootInv => RecordsExact
  BY DEF BootInv
<1> QED BY BootInvariant, <1>1, PTL

(* The table of records is in memory that was free and off the kernel's     *)
(* image unless such a section is there, and on the startup page only where *)
(* free memory begins at that page (page_allocator.c:76-105).               *)
THEOREM TableIsApart == Spec => []TableApart
<1>1. BootInv => TableApart
  BY DEF BootInv
<1> QED BY BootInvariant, <1>1, PTL

(* All pages that are or may be given out, the table and the framebuffer    *)
(* are mapped with huge pages (memory_map.c:66-118): the search that ends   *)
(* at the first entry behind a huge page needs the sorted list.             *)
THEOREM AllReachable == Spec => []Reachable
<1>1. BootInv => Reachable
  BY DEF BootInv
<1> QED BY BootInvariant, <1>1, PTL
============================================================================
