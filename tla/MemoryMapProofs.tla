--------------------------- MODULE MemoryMapProofs ---------------------------
(***************************************************************************)
(* The memory maps for any memory, any number of processes, any addresses   *)
(* and tables of any size.                                                  *)
(***************************************************************************)
EXTENDS MemoryMap, TLAPS

(* Tables as such: what a tree of them is, and what the writes of the       *)
(* operations do to it.                                                     *)
Words == Pages \union Frames \union {None}
Heaps == [Pages -> [Slots -> Words]]

Ent(h, T) == {h[t][s] : t \in T \intersect Pages, s \in Slots} \ {None}

D1(h, r) == Ent(h, {r})
D2(h, r) == Ent(h, D1(h, r))
D3(h, r) == Ent(h, D2(h, r))

Inner(h, r) == {r} \union D1(h, r) \union D2(h, r)
Nodes(h, r) == Inner(h, r) \union D3(h, r)

Unique(h, T) ==
  \A t, u \in T : \A s, v \in Slots :
    h[t][s] = h[u][v] /\ h[t][s] # None => t = u /\ s = v

Shape(h, r) ==
  /\ r \in Pages /\ r \notin D1(h, r) \union D2(h, r) \union D3(h, r)
  /\ D1(h, r) \union D2(h, r) \union D3(h, r) \subseteq Pages
  /\ Unique(h, Inner(h, r))
  /\ Ent(h, D3(h, r)) \subseteq Frames

LEMMA EntIn ==
  ASSUME NEW h, NEW T, NEW x
  PROVE  x \in Ent(h, T) <=> x # None /\ \E t \in T \intersect Pages : \E s \in Slots : x = h[t][s]
BY DEF Ent

(* No table is on two levels. *)
LEMMA LevelsApart ==
  ASSUME NEW h, NEW r, Shape(h, r)
  PROVE  /\ D1(h, r) \intersect D2(h, r) = {}
         /\ D1(h, r) \intersect D3(h, r) = {}
         /\ D2(h, r) \intersect D3(h, r) = {}
<1> DEFINE A == D1(h, r)
           B == D2(h, r)
           C == D3(h, r)
<1>0. /\ \A x \in A : x # None /\ \E s \in Slots : x = h[r][s]
      /\ \A x \in B : x # None /\ \E t \in A : \E s \in Slots : x = h[t][s]
      /\ \A x \in C : x # None /\ \E t \in B : \E s \in Slots : x = h[t][s]
  BY DEF Ent, D1, D2, D3
<1>1. r \notin A \union B \union C /\ Unique(h, {r} \union A \union B)
  BY DEF Shape, Inner
<1> HIDE DEF A, B, C
<1>2. A \intersect B = {}
  <2> SUFFICES ASSUME NEW x \in A, x \in B PROVE FALSE
    OBVIOUS
  <2>1. PICK s \in Slots : x = h[r][s]
    BY <1>0
  <2>2. PICK t \in A : \E v \in Slots : x = h[t][v]
    BY <1>0
  <2> QED BY <2>1, <2>2, <1>0, <1>1 DEF Unique
<1>3. A \intersect C = {}
  <2> SUFFICES ASSUME NEW x \in A, x \in C PROVE FALSE
    OBVIOUS
  <2>1. PICK s \in Slots : x = h[r][s]
    BY <1>0
  <2>2. PICK t \in B : \E v \in Slots : x = h[t][v]
    BY <1>0
  <2> QED BY <2>1, <2>2, <1>0, <1>1 DEF Unique
<1>4. B \intersect C = {}
  <2> SUFFICES ASSUME NEW x \in B, x \in C PROVE FALSE
    OBVIOUS
  <2>1. PICK t \in A : \E s \in Slots : x = h[t][s]
    BY <1>0
  <2>2. PICK u \in B : \E v \in Slots : x = h[u][v]
    BY <1>0
  <2> QED BY <2>1, <2>2, <1>0, <1>1, <1>2 DEF Unique
<1> QED BY <1>2, <1>3, <1>4 DEF A, B, C

(* What a set of tables leads to, after the same, one more or one less      *)
(* entry, or one more table without entries.                                *)
LEMMA EntSame ==
  ASSUME NEW h, NEW g, NEW T, \A t \in T \intersect Pages : \A s \in Slots : g[t][s] = h[t][s]
  PROVE  Ent(g, T) = Ent(h, T)
BY DEF Ent

LEMMA EntPlus ==
  ASSUME NEW h, NEW g, NEW T, NEW t \in T \intersect Pages, NEW s \in Slots,
         NEW v, v # None, h[t][s] = None, g[t][s] = v,
         \A u \in T \intersect Pages : \A x \in Slots : u # t \/ x # s => g[u][x] = h[u][x]
  PROVE  Ent(g, T) = Ent(h, T) \union {v}
BY DEF Ent

LEMMA EntMinus ==
  ASSUME NEW h, NEW g, NEW T, NEW t \in T \intersect Pages, NEW s \in Slots,
         Unique(h, T), h[t][s] # None, g[t][s] = None,
         \A u \in T \intersect Pages : \A x \in Slots : u # t \/ x # s => g[u][x] = h[u][x]
  PROVE  Ent(g, T) = Ent(h, T) \ {h[t][s]}
<1>1. ASSUME NEW x PROVE x \in Ent(g, T) => x \in Ent(h, T) /\ x # h[t][s]
  <2> SUFFICES ASSUME x \in Ent(g, T) PROVE x \in Ent(h, T) /\ x # h[t][s]
    OBVIOUS
  <2>1. PICK u \in T \intersect Pages, v \in Slots : x = g[u][v] /\ x # None
    BY EntIn
  <2>2. u # t \/ v # s
    BY <2>1
  <2>3. x = h[u][v]
    BY <2>1, <2>2
  <2> QED BY <2>1, <2>2, <2>3, EntIn DEF Unique
<1>2. ASSUME NEW x PROVE x \in Ent(h, T) /\ x # h[t][s] => x \in Ent(g, T)
  BY EntIn
<1> QED BY <1>1, <1>2

LEMMA EntWithBlank ==
  ASSUME NEW g, NEW T, NEW p, \A s \in Slots : g[p][s] = None
  PROVE  Ent(g, T \union {p}) = Ent(g, T)
BY DEF Ent

(* Writes elsewhere leave a tree alone. *)
LEMMA Keep ==
  ASSUME NEW h, NEW g, NEW r,
         \A t \in Nodes(h, r) \intersect Pages : \A s \in Slots : g[t][s] = h[t][s]
  PROVE  /\ D1(g, r) = D1(h, r) /\ D2(g, r) = D2(h, r) /\ D3(g, r) = D3(h, r)
         /\ Nodes(g, r) = Nodes(h, r)
         /\ Shape(h, r) => Shape(g, r)
<1>1. D1(g, r) = D1(h, r)
  BY EntSame DEF Nodes, Inner, D1
<1>2. D2(g, r) = D2(h, r)
  BY <1>1, EntSame DEF Nodes, Inner, D2
<1>3. D3(g, r) = D3(h, r)
  BY <1>2, EntSame DEF Nodes, Inner, D3
<1>4. Inner(g, r) = Inner(h, r) /\ Nodes(g, r) = Nodes(h, r)
  BY <1>1, <1>2, <1>3 DEF Inner, Nodes
<1>5. ASSUME Shape(h, r) PROVE Shape(g, r)
  <2>1. Inner(h, r) \subseteq Nodes(h, r) \intersect Pages
    BY <1>5 DEF Shape, Inner, Nodes
  <2>2. Unique(g, Inner(h, r))
    <3>1. \A t \in Inner(h, r) : \A s \in Slots : g[t][s] = h[t][s]
      BY <2>1
    <3> QED BY <3>1, <1>5 DEF Shape, Unique
  <2>3. Ent(g, D3(h, r)) = Ent(h, D3(h, r))
    BY EntSame DEF Nodes
  <2> QED BY <1>1, <1>2, <1>3, <1>4, <1>5, <2>2, <2>3 DEF Shape
<1> QED BY <1>1, <1>2, <1>3, <1>4, <1>5

(* A write to a bottom table. *)
LEMMA KeepLeaf ==
  ASSUME NEW h, NEW g, NEW r, Shape(h, r),
         NEW t \in D3(h, r), NEW s \in Slots, g[t][s] \in Frames \union {None},
         \A u \in Pages : \A x \in Slots : u # t \/ x # s => g[u][x] = h[u][x]
  PROVE  /\ D1(g, r) = D1(h, r) /\ D2(g, r) = D2(h, r) /\ D3(g, r) = D3(h, r)
         /\ Nodes(g, r) = Nodes(h, r)
         /\ Shape(g, r)
<1>0. t \notin Inner(h, r)
  BY LevelsApart DEF Shape, Inner
<1>1. D1(g, r) = D1(h, r)
  BY <1>0, EntSame DEF Inner, D1
<1>2. D2(g, r) = D2(h, r)
  BY <1>0, <1>1, EntSame DEF Inner, D2
<1>3. D3(g, r) = D3(h, r)
  BY <1>0, <1>2, EntSame DEF Inner, D3
<1>4. Inner(g, r) = Inner(h, r) /\ Nodes(g, r) = Nodes(h, r)
  BY <1>1, <1>2, <1>3 DEF Inner, Nodes
<1>5. Unique(g, Inner(h, r))
  <2>1. Inner(h, r) \subseteq Pages
    BY DEF Shape, Inner
  <2>2. \A u \in Inner(h, r) : \A x \in Slots : g[u][x] = h[u][x]
    BY <2>1, <1>0
  <2> QED BY <2>2 DEF Shape, Unique
<1>6. Ent(g, D3(h, r)) \subseteq Frames
  <2> SUFFICES ASSUME NEW x \in Ent(g, D3(h, r)) PROVE x \in Frames
    OBVIOUS
  <2>1. PICK u \in D3(h, r) \intersect Pages, v \in Slots : x = g[u][v] /\ x # None
    BY EntIn
  <2>2. CASE u = t /\ v = s
    BY <2>1, <2>2
  <2>3. CASE u # t \/ v # s
    <3>1. x = h[u][v]
      BY <2>1, <2>3
    <3>2. x \in Ent(h, D3(h, r))
      BY <2>1, <3>1, EntIn
    <3> QED BY <3>2 DEF Shape
  <2> QED BY <2>2, <2>3
<1> QED BY <1>1, <1>2, <1>3, <1>4, <1>5, <1>6 DEF Shape

(* An absent entry of an inner table comes to lead to a new blank table. *)
LEMMA Grow ==
  ASSUME NEW h, NEW g, NEW r, Shape(h, r),
         NEW t \in Inner(h, r), NEW s \in Slots, h[t][s] = None,
         NEW p \in Pages, p \notin Nodes(h, r),
         \A x \in Slots : g[p][x] = None,
         g[t][s] = p,
         \A u \in Pages \ {p} : \A x \in Slots : u # t \/ x # s => g[u][x] = h[u][x]
  PROVE  /\ Shape(g, r)
         /\ Nodes(g, r) = Nodes(h, r) \union {p} /\ Inner(h, r) \subseteq Inner(g, r)
<1>0. /\ t \in Pages /\ p # None /\ p \in Pages /\ Inner(h, r) \subseteq Pages
      /\ p \notin Frames
  BY ValuesAssumption DEF Shape, Inner
<1> DEFINE A == D1(h, r)
           B == D2(h, r)
           C == D3(h, r)
<1>a. /\ A = Ent(h, {r}) /\ B = Ent(h, A) /\ C = Ent(h, B)
      /\ D1(g, r) = Ent(g, {r}) /\ D2(g, r) = Ent(g, D1(g, r)) /\ D3(g, r) = Ent(g, D2(g, r))
  BY DEF D1, D2, D3
<1>b. r \notin A \union B \union C /\ A \intersect B = {} /\ A \intersect C = {} /\ B \intersect C = {}
  BY LevelsApart DEF Shape
<1>c. p # r /\ p \notin A \union B \union C
  BY DEF Nodes, Inner
<1>d. t \in {r} \union A \union B
  BY DEF Inner
<1> HIDE DEF A, B, C
<1>e. ASSUME NEW T, t \notin T, p \notin T PROVE Ent(g, T) = Ent(h, T)
  BY <1>e, EntSame
<1>f. ASSUME NEW T, t \in T, p \notin T PROVE Ent(g, T) = Ent(h, T) \union {p}
  BY <1>f, <1>0, EntPlus
<1>g. ASSUME NEW T PROVE Ent(g, T \union {p}) = Ent(g, T)
  BY EntWithBlank
<1>1. \/ D1(g, r) = A \union {p} /\ D2(g, r) = B /\ D3(g, r) = C
      \/ D1(g, r) = A /\ D2(g, r) = B \union {p} /\ D3(g, r) = C
      \/ D1(g, r) = A /\ D2(g, r) = B /\ D3(g, r) = C \union {p}
  <2>1. CASE t = r
    <3>1. D1(g, r) = A \union {p}
      BY <2>1, <1>a, <1>c, <1>f
    <3>2. D2(g, r) = B
      <4>1. D2(g, r) = Ent(g, A)
        BY ONLY <3>1, <1>a, <1>g
      <4> QED BY ONLY <4>1, <2>1, <1>a, <1>b, <1>c, <1>e
    <3>3. D3(g, r) = C
      BY <3>2, <2>1, <1>a, <1>b, <1>c, <1>e
    <3> QED BY <3>1, <3>2, <3>3
  <2>2. CASE t \in A
    <3>1. D1(g, r) = A
      BY <2>2, <1>a, <1>b, <1>c, <1>e
    <3>2. D2(g, r) = B \union {p}
      BY <3>1, <2>2, <1>a, <1>c, <1>f
    <3>3. D3(g, r) = C
      BY <3>2, <2>2, <1>a, <1>b, <1>c, <1>e, <1>g
    <3> QED BY <3>1, <3>2, <3>3
  <2>3. CASE t \in B
    <3>1. D1(g, r) = A
      BY <2>3, <1>a, <1>b, <1>c, <1>e
    <3>2. D2(g, r) = B
      BY <3>1, <2>3, <1>a, <1>b, <1>c, <1>e
    <3>3. D3(g, r) = C \union {p}
      BY <3>2, <2>3, <1>a, <1>c, <1>f
    <3> QED BY <3>1, <3>2, <3>3
  <2> QED BY <1>d, <2>1, <2>2, <2>3
<1>2. /\ Inner(g, r) \subseteq Inner(h, r) \union {p} /\ Nodes(g, r) = Nodes(h, r) \union {p}
      /\ Inner(h, r) \subseteq Inner(g, r)
  BY <1>1 DEF Inner, Nodes, A, B, C
<1>3. Unique(g, Inner(g, r))
  <2> SUFFICES ASSUME NEW u \in Inner(h, r) \union {p}, NEW v \in Inner(h, r) \union {p},
                      NEW x \in Slots, NEW y \in Slots, g[u][x] = g[v][y], g[u][x] # None
               PROVE  u = v /\ x = y
    BY <1>2 DEF Unique
  <2>1. u \in Inner(h, r) /\ v \in Inner(h, r) /\ u # p /\ v # p
    BY DEF Nodes
  <2>2. ASSUME NEW w \in Inner(h, r), NEW z \in Slots, w # t \/ z # s, w # p, h[w][z] # None
        PROVE  h[w][z] \in Nodes(h, r) \/ h[w][z] \in Frames
    <3>1. \A T : w \in T => h[w][z] \in Ent(h, T)
      BY <2>2, <1>0, EntIn
    <3> QED BY <3>1, <1>a DEF Inner, Nodes, A, B, C
  <2>3. ASSUME NEW w \in Inner(h, r), NEW z \in Slots, w # t \/ z # s, w # p
        PROVE  g[w][z] = h[w][z] /\ g[w][z] # p
    <3>1. g[w][z] = h[w][z]
      BY <2>3, <1>0
    <3> QED BY <3>1, <2>2, <2>3, <1>0
  <2> QED BY <2>1, <2>3 DEF Shape, Unique
<1>4. Ent(g, D3(g, r)) \subseteq Frames
  <2>1. Ent(g, C) = Ent(h, C)
    BY <1>b, <1>c, <1>d, <1>e
  <2>2. Ent(g, C \union {p}) = Ent(h, C)
    BY <2>1, <1>g
  <2>3. Ent(h, C) \subseteq Frames
    BY DEF C, Shape
  <2> QED BY <1>1, <2>1, <2>2, <2>3
<1>5. /\ r \notin D1(g, r) \union D2(g, r) \union D3(g, r)
      /\ D1(g, r) \union D2(g, r) \union D3(g, r) \subseteq Pages
  <2>1. A \union B \union C \subseteq Pages
    BY DEF Shape, A, B, C
  <2> QED BY <2>1, <1>1, <1>b, <1>c
<1> QED BY <1>2, <1>3, <1>4, <1>5 DEF Shape

(* The entry that leads to an empty table is cleared. *)
LEMMA Shrink ==
  ASSUME NEW h, NEW g, NEW r, Shape(h, r),
         NEW t \in Inner(h, r), NEW s \in Slots,
         NEW c, c = h[t][s], c # None, \A x \in Slots : h[c][x] = None,
         g[t][s] = None,
         \A u \in Pages : \A x \in Slots : u # t \/ x # s => g[u][x] = h[u][x]
  PROVE  /\ Shape(g, r)
         /\ Nodes(g, r) = Nodes(h, r) \ {c}
<1> DEFINE A == D1(h, r)
           B == D2(h, r)
           C == D3(h, r)
<1>0. t \in Pages /\ Inner(h, r) \subseteq Pages /\ c # t
  BY DEF Shape, Inner
<1>a. /\ A = Ent(h, {r}) /\ B = Ent(h, A) /\ C = Ent(h, B)
      /\ D1(g, r) = Ent(g, {r}) /\ D2(g, r) = Ent(g, D1(g, r)) /\ D3(g, r) = Ent(g, D2(g, r))
  BY DEF D1, D2, D3
<1>b. r \notin A \union B \union C /\ A \intersect B = {} /\ A \intersect C = {} /\ B \intersect C = {}
  BY LevelsApart DEF Shape
<1>c. t \in {r} \union A \union B
  BY DEF Inner
<1>d. Unique(h, {r}) /\ Unique(h, A) /\ Unique(h, B)
  BY DEF Shape, Unique, Inner
<1>e. /\ t = r => c \in A
      /\ t \in A => c \in B
      /\ t \in B => c \in C
  <2>1. \A T : t \in T => c \in Ent(h, T)
    BY <1>0, EntIn
  <2> QED BY <2>1, <1>a
<1>i. c \in Pages /\ \A x \in Slots : g[c][x] = None
  <2>1. c \in A \union B \union C
    BY <1>c, <1>e
  <2>2. c \in Pages
    BY <2>1 DEF A, B, C, Shape
  <2> QED BY <2>2, <1>0
<1> HIDE DEF A, B, C
<1>f. ASSUME NEW T, t \notin T PROVE Ent(g, T) = Ent(h, T)
  BY <1>f, EntSame
<1>g. ASSUME NEW T, t \in T, Unique(h, T) PROVE Ent(g, T) = Ent(h, T) \ {c}
  BY <1>g, <1>0, EntMinus
<1>h. ASSUME NEW T PROVE Ent(g, T \ {c}) = Ent(g, T)
  BY <1>i DEF Ent
<1>1. \/ D1(g, r) = A \ {c} /\ D2(g, r) = B /\ D3(g, r) = C /\ c \in A
      \/ D1(g, r) = A /\ D2(g, r) = B \ {c} /\ D3(g, r) = C /\ c \in B
      \/ D1(g, r) = A /\ D2(g, r) = B /\ D3(g, r) = C \ {c} /\ c \in C
  <2>1. CASE t = r
    <3>1. D1(g, r) = A \ {c}
      BY <2>1, <1>a, <1>d, <1>g
    <3>2. D2(g, r) = B
      BY <3>1, <2>1, <1>a, <1>b, <1>f, <1>h
    <3>3. D3(g, r) = C
      BY <3>2, <2>1, <1>a, <1>b, <1>f
    <3> QED BY <3>1, <3>2, <3>3, <2>1, <1>e
  <2>2. CASE t \in A
    <3>1. D1(g, r) = A
      BY <2>2, <1>a, <1>b, <1>f
    <3>2. D2(g, r) = B \ {c}
      BY <3>1, <2>2, <1>a, <1>d, <1>g
    <3>3. D3(g, r) = C
      BY <3>2, <2>2, <1>a, <1>b, <1>f, <1>h
    <3> QED BY <3>1, <3>2, <3>3, <2>2, <1>e
  <2>3. CASE t \in B
    <3>1. D1(g, r) = A
      BY <2>3, <1>a, <1>b, <1>f
    <3>2. D2(g, r) = B
      BY <3>1, <2>3, <1>a, <1>b, <1>f
    <3>3. D3(g, r) = C \ {c}
      BY <3>2, <2>3, <1>a, <1>d, <1>g
    <3> QED BY <3>1, <3>2, <3>3, <2>3, <1>e
  <2> QED BY <1>c, <2>1, <2>2, <2>3
<1>2. Inner(g, r) \subseteq Inner(h, r) /\ Nodes(g, r) = Nodes(h, r) \ {c}
  BY <1>1, <1>b DEF Inner, Nodes, A, B, C
<1>3. Unique(g, Inner(g, r))
  <2> SUFFICES ASSUME NEW u \in Inner(h, r), NEW v \in Inner(h, r),
                      NEW x \in Slots, NEW y \in Slots, g[u][x] = g[v][y], g[u][x] # None
               PROVE  u = v /\ x = y
    BY <1>2 DEF Unique
  <2>1. g[u][x] = h[u][x] /\ g[v][y] = h[v][y]
    BY <1>0
  <2>2. Unique(h, Inner(h, r)) /\ h[u][x] = h[v][y] /\ h[u][x] # None
    BY <2>1 DEF Shape
  <2> QED BY <2>2 DEF Unique
<1>4. Ent(g, D3(g, r)) \subseteq Frames
  <2>1. Ent(g, C) = Ent(h, C)
    BY <1>b, <1>c, <1>f
  <2>2. Ent(h, C) \subseteq Frames
    BY DEF C, Shape
  <2> QED BY <1>1, <1>h, <2>1, <2>2
<1>5. /\ r \notin D1(g, r) \union D2(g, r) \union D3(g, r)
      /\ D1(g, r) \union D2(g, r) \union D3(g, r) \subseteq Pages
  <2>1. A \union B \union C \subseteq Pages
    BY DEF Shape, A, B, C
  <2> QED BY <2>1, <1>1, <1>b
<1> QED BY <1>2, <1>3, <1>4, <1>5 DEF Shape

-----------------------------------------------------------------------------
(* The invariant of one map. *)
Owned(m) == {p \in Pages : owner[p] = m}

Tree(m) ==
  /\ Shape(tbl, root[m])
  /\ Owned(m) = Nodes(tbl, root[m])

(* The path of an operation leads down from the root along its address. *)
Walked(m) ==
  /\ Len(op[m].path) \in 1 .. 4
  /\ op[m].path[1] = root[m]
  /\ \A i \in 1 .. Len(op[m].path) - 1 : op[m].path[i + 1] = tbl[op[m].path[i]][op[m].addr[i]]

(* No table of a map is empty but the root and those in T. *)
TidyBut(m, T) ==
  \A t \in Nodes(tbl, root[m]) \ {root[m]} : (\A s \in Slots : tbl[t][s] = None) => t \in T

HereEmpty(m) == \A s \in Slots : tbl[Here(m)][s] = None

IdleOK(m) == Doing(m, "idle") => TidyBut(m, {})

AddOK(m) ==
  Doing(m, "add") =>
    /\ Walked(m)
    /\ Len(op[m].path) < 4 => Entry(m) = None
    /\ op[m].fresh # {} => HereEmpty(m)
    /\ op[m].fresh \subseteq Owned(m)
    /\ TidyBut(m, IF op[m].fresh = {} THEN {} ELSE {Here(m)})

RollbackOK(m) ==
  Doing(m, "rollback") => op[m].fresh # {} /\ op[m].fresh \subseteq Owned(m)

RemoveOK(m) ==
  Doing(m, "remove") =>
    /\ Walked(m) /\ Len(op[m].path) >= 2
    /\ HereEmpty(m)
    /\ TidyBut(m, {Here(m)})

StandingOK(m) == Tree(m) /\ IdleOK(m) /\ AddOK(m) /\ RollbackOK(m) /\ RemoveOK(m)

MapOK(m) ==
  /\ status[m] # "live" => op[m] = Idle
  /\ status[m] = "none" => Owned(m) = {}
  /\ m \in Standing => StandingOK(m)
  /\ Doing(m, "destroy") => op[m].doomed \subseteq {0} \union Owned(m)

MapsInv ==
  /\ TypeOK
  /\ owner[0] \notin Maps
  /\ ~ broken => \A m \in Maps : MapOK(m)

-----------------------------------------------------------------------------
(* Where the tables on the path of an operation are in the tree. *)
LEMMA PathLevels ==
  ASSUME NEW h, NEW r, Shape(h, r), NEW path, NEW a,
         a[1] \in Slots, a[2] \in Slots, a[3] \in Slots,
         NEW n \in 1 .. 4, path[1] = r,
         \A i \in 1 .. n : path[i] \in Pages,
         \A i \in 1 .. n - 1 : path[i + 1] = h[path[i]][a[i]]
  PROVE  /\ path[1] = r
         /\ n >= 2 => path[2] \in D1(h, r)
         /\ n >= 3 => path[3] \in D2(h, r)
         /\ n = 4 => path[4] \in D3(h, r)
         /\ n < 4 => path[n] \in Inner(h, r)
         /\ n >= 2 => path[n - 1] \in Inner(h, r) /\ path[n] \in Nodes(h, r) \ {r}
         /\ path[n] \in Nodes(h, r) /\ path[n] # None
<1>0. None \notin Pages
  BY ValuesAssumption
<1>1. n >= 2 => path[2] \in D1(h, r)
  <2> SUFFICES ASSUME n >= 2 PROVE path[2] \in D1(h, r)
    OBVIOUS
  <2>1. 1 \in 1 .. n - 1 /\ 1 \in 1 .. n /\ 2 \in 1 .. n
    OBVIOUS
  <2>2. path[1 + 1] = h[path[1]][a[1]] /\ path[1] \in Pages /\ path[2] \in Pages
    BY <2>1
  <2> QED BY <2>2, <1>0, EntIn DEF D1
<1>2. n >= 3 => path[3] \in D2(h, r)
  <2> SUFFICES ASSUME n >= 3 PROVE path[3] \in D2(h, r)
    OBVIOUS
  <2>1. 2 \in 1 .. n - 1 /\ 2 \in 1 .. n /\ 3 \in 1 .. n
    OBVIOUS
  <2>2. path[2 + 1] = h[path[2]][a[2]] /\ path[2] \in Pages /\ path[3] \in Pages
    BY <2>1
  <2> QED BY <2>2, <1>0, <1>1, EntIn DEF D2
<1>3. n = 4 => path[4] \in D3(h, r)
  <2> SUFFICES ASSUME n = 4 PROVE path[4] \in D3(h, r)
    OBVIOUS
  <2>1. 3 \in 1 .. n - 1 /\ 3 \in 1 .. n /\ 4 \in 1 .. n
    OBVIOUS
  <2>2. path[3 + 1] = h[path[3]][a[3]] /\ path[3] \in Pages /\ path[4] \in Pages
    BY <2>1
  <2> QED BY <2>2, <1>0, <1>2, EntIn DEF D3
<1>4. r \notin D1(h, r) \union D2(h, r) \union D3(h, r)
  BY DEF Shape
<1>5. n \in {1, 2, 3, 4} /\ path[n] # None
  BY <1>0
<1> QED BY <1>1, <1>2, <1>3, <1>4, <1>5 DEF Inner, Nodes

LEMMA PathNodes ==
  ASSUME NEW h, NEW r, Shape(h, r), NEW path, NEW a,
         a[1] \in Slots, a[2] \in Slots, a[3] \in Slots,
         NEW n \in 1 .. 4, path[1] = r,
         \A i \in 1 .. n : path[i] \in Pages,
         \A i \in 1 .. n - 1 : path[i + 1] = h[path[i]][a[i]]
  PROVE  \A i \in 1 .. n : path[i] \in Nodes(h, r) \intersect Pages
<1> SUFFICES ASSUME NEW i \in 1 .. n PROVE path[i] \in Nodes(h, r)
  OBVIOUS
<1>1. /\ i \in 1 .. 4
      /\ \A j \in 1 .. i : path[j] \in Pages
      /\ \A j \in 1 .. i - 1 : path[j + 1] = h[path[j]][a[j]]
  OBVIOUS
<1> QED BY ONLY <1>1, PathLevels, Shape(h, r), path[1] = r,
               a[1] \in Slots, a[2] \in Slots, a[3] \in Slots

LEMMA AddressFacts ==
  ASSUME NEW a \in Addresses
  PROVE  /\ a[1] \in Slots /\ a[2] \in Slots /\ a[3] \in Slots /\ a[4] \in Slots
         /\ a = <<a[1], a[2], a[3], a[4]>>
         /\ \A i \in 1 .. 4 : a[i] \in Slots
<1>1. a \in Slots \X Slots \X Slots \X Slots
  BY MapsAssumption
<1>2. /\ a[1] \in Slots /\ a[2] \in Slots /\ a[3] \in Slots /\ a[4] \in Slots
      /\ a = <<a[1], a[2], a[3], a[4]>>
  BY <1>1
<1> QED BY <1>2

(* The operations under way, by kind. *)
LEMMA OpFacts ==
  ASSUME TypeOK, NEW m \in Maps
  PROVE  /\ op[m] \in Operations
         /\ op[m].kind \in {"idle", "add", "rollback", "remove", "destroy"}
         /\ Doing(m, "idle") => op[m] = Idle
         /\ Doing(m, "add") =>
              /\ op[m].addr \in Addresses /\ op[m].frame \in Frames /\ op[m].overwrite \in BOOLEAN
              /\ op[m].path \in Seq(Pages) /\ op[m].fresh \in SUBSET Pages
              /\ op[m] = [kind |-> "add", addr |-> op[m].addr, frame |-> op[m].frame,
                          overwrite |-> op[m].overwrite, path |-> op[m].path, fresh |-> op[m].fresh]
         /\ Doing(m, "rollback") => op[m].fresh \in SUBSET Pages
         /\ Doing(m, "remove") => op[m].addr \in Addresses /\ op[m].path \in Seq(Pages)
         /\ Doing(m, "destroy") =>
              op[m].doomed \in SUBSET Pages /\ op[m] = [kind |-> "destroy", doomed |-> op[m].doomed]
<1>1. op[m] \in Operations
  BY DEF TypeOK
<1>2. CASE op[m] = Idle
  BY <1>1, <1>2 DEF Idle, Doing
<1>3. CASE op[m] \in [kind : {"add"}, addr : Addresses, frame : Frames, overwrite : BOOLEAN,
                      path : Seq(Pages), fresh : SUBSET Pages]
  BY <1>1, <1>3 DEF Doing
<1>4. CASE op[m] \in [kind : {"rollback"}, fresh : SUBSET Pages]
  BY <1>1, <1>4 DEF Doing
<1>5. CASE op[m] \in [kind : {"remove"}, addr : Addresses, path : Seq(Pages)]
  BY <1>1, <1>5 DEF Doing
<1>6. CASE op[m] \in [kind : {"destroy"}, doomed : SUBSET Pages]
  BY <1>1, <1>6 DEF Doing
<1> QED BY <1>1, <1>2, <1>3, <1>4, <1>5, <1>6 DEF Operations

(* Where an operation has come to. *)
LEMMA WalkFacts ==
  ASSUME TypeOK, NEW m \in Maps, Shape(tbl, root[m]), Walked(m),
         Doing(m, "add") \/ Doing(m, "remove")
  PROVE  /\ Len(op[m].path) \in 1 .. 4 /\ op[m].path \in Seq(Pages)
         /\ Here(m) = op[m].path[Len(op[m].path)]
         /\ Here(m) \in Nodes(tbl, root[m]) \intersect Pages
         /\ Slot(m) \in Slots
         /\ Len(op[m].path) < 4 => Here(m) \in Inner(tbl, root[m])
         /\ Len(op[m].path) = 4 => Here(m) \in D3(tbl, root[m])
         /\ Len(op[m].path) >= 2 =>
              /\ op[m].path[Len(op[m].path) - 1] \in Inner(tbl, root[m]) \intersect Pages
              /\ Here(m) # root[m]
<1>1. op[m].path \in Seq(Pages) /\ op[m].addr \in Addresses
  BY OpFacts
<1>2. \A i \in 1 .. Len(op[m].path) : op[m].path[i] \in Pages
  BY <1>1
<1>3. Len(op[m].path) \in 1 .. 4 /\ op[m].path[1] = root[m]
  BY DEF Walked
<1>4. Here(m) = op[m].path[Len(op[m].path)]
  BY DEF Here, Last
<1>5. Slot(m) \in Slots
  BY <1>1, <1>3, AddressFacts DEF Slot
<1> DEFINE path == op[m].path
           a == op[m].addr
           n == Len(op[m].path)
<1>6. /\ a[1] \in Slots /\ a[2] \in Slots /\ a[3] \in Slots
      /\ n \in 1 .. 4 /\ path[1] = root[m]
      /\ \A i \in 1 .. n : path[i] \in Pages
      /\ \A i \in 1 .. n - 1 : path[i + 1] = tbl[path[i]][a[i]]
  BY <1>1, <1>2, <1>3, AddressFacts DEF Walked
<1>7. /\ Here(m) = path[n] /\ path \in Seq(Pages) /\ path[n] \in Pages
      /\ n >= 2 => path[n - 1] \in Pages
  <2>1. n \in 1 .. n /\ (n >= 2 => n - 1 \in 1 .. n)
    BY <1>3
  <2> QED BY <2>1, <1>1, <1>2, <1>4
<1> HIDE DEF path, a, n
<1>8. /\ n < 4 => path[n] \in Inner(tbl, root[m])
      /\ n = 4 => path[4] \in D3(tbl, root[m])
      /\ n >= 2 => path[n - 1] \in Inner(tbl, root[m]) /\ path[n] \in Nodes(tbl, root[m]) \ {root[m]}
      /\ path[n] \in Nodes(tbl, root[m])
  BY <1>6, PathLevels
<1>9. /\ Here(m) \in Nodes(tbl, root[m]) \intersect Pages
      /\ n < 4 => Here(m) \in Inner(tbl, root[m])
      /\ n = 4 => Here(m) \in D3(tbl, root[m])
      /\ n >= 2 => path[n - 1] \in Inner(tbl, root[m]) \intersect Pages /\ Here(m) # root[m]
  BY <1>7, <1>8
<1> QED BY <1>3, <1>4, <1>5, <1>7, <1>9 DEF path, n

(* Trees of different maps have no table in common. *)
LEMMA TreesApart ==
  ASSUME TypeOK, NEW m \in Maps, NEW n \in Maps, m # n, Tree(m), Tree(n)
  PROVE  Nodes(tbl, root[m]) \intersect Nodes(tbl, root[n]) = {}
<1> SUFFICES ASSUME NEW t \in Nodes(tbl, root[m]), t \in Nodes(tbl, root[n]) PROVE FALSE
  OBVIOUS
<1>1. t \in Pages /\ owner[t] = m /\ owner[t] = n
  BY DEF Tree, Owned
<1> QED BY <1>1

-----------------------------------------------------------------------------
(* Where the tables of a tree lead an address.                              *)
Down(h, t, s) == IF t \in Pages THEN h[t][s] ELSE None

At2(h, r, a) == Down(h, r, a[1])
At3(h, r, a) == Down(h, At2(h, r, a), a[2])
At4(h, r, a) == Down(h, At3(h, r, a), a[3])

Leads(h, r, a) == Down(h, At4(h, r, a), a[4])

LEMMA TranslateLeads ==
  ASSUME NEW m, NEW a
  PROVE  /\ Translate(m, a) = Leads(tbl, root[m], a)
         /\ Translate(m, a)' = Leads(tbl', root'[m], a)
         /\ Path(m, a) = <<root[m], At2(tbl, root[m], a), At3(tbl, root[m], a), At4(tbl, root[m], a)>>
<1>1. Path(m, a) = <<root[m], At2(tbl, root[m], a), At3(tbl, root[m], a), At4(tbl, root[m], a)>>
  BY DEF Path, Follow, At2, At3, At4, Down
<1>2. Path(m, a)' = <<root'[m], At2(tbl', root'[m], a), At3(tbl', root'[m], a), At4(tbl', root'[m], a)>>
  BY DEF Path, Follow, At2, At3, At4, Down
<1>3. ASSUME NEW w, NEW x, NEW y, NEW z PROVE Last(<<w, x, y, z>>) = z
  BY DEF Last
<1>4. Last(Path(m, a)) = At4(tbl, root[m], a) /\ Last(Path(m, a)') = At4(tbl', root'[m], a)
  BY <1>1, <1>2, <1>3
<1>5. /\ Translate(m, a) = Follow(Last(Path(m, a)), a[4])
      /\ Translate(m, a)' = Down(tbl', Last(Path(m, a)'), a[4])
  BY DEF Translate, Follow, Down
<1> QED BY <1>1, <1>4, <1>5 DEF Follow, Leads, Down

LEMMA LeadsLevels ==
  ASSUME NEW h, NEW r, Shape(h, r), NEW a \in Addresses
  PROVE  /\ At2(h, r, a) \in D1(h, r) \union {None}
         /\ At3(h, r, a) \in D2(h, r) \union {None}
         /\ At4(h, r, a) \in D3(h, r) \union {None}
<1>1. r \in Pages /\ a[1] \in Slots /\ a[2] \in Slots /\ a[3] \in Slots /\ None \notin Pages
  BY AddressFacts, ValuesAssumption DEF Shape
<1>2. At2(h, r, a) \in D1(h, r) \union {None}
  BY <1>1, EntIn DEF At2, Down, D1
<1>3. At3(h, r, a) \in D2(h, r) \union {None}
  BY <1>1, <1>2, EntIn DEF At3, Down, D2
<1>4. At4(h, r, a) \in D3(h, r) \union {None}
  BY <1>1, <1>3, EntIn DEF At4, Down, D3
<1> QED BY <1>2, <1>3, <1>4

LEMMA LeadsKept ==
  ASSUME NEW h, NEW g, NEW r, Shape(h, r), NEW a \in Addresses,
         \A t \in Nodes(h, r) \intersect Pages : \A s \in Slots : g[t][s] = h[t][s]
  PROVE  Leads(g, r, a) = Leads(h, r, a)
<1>1. ASSUME NEW t \in Nodes(h, r) \union {None}, NEW s \in Slots PROVE Down(g, t, s) = Down(h, t, s)
  BY ValuesAssumption DEF Down
<1>2. /\ r \in Nodes(h, r) \union {None} /\ At2(h, r, a) \in Nodes(h, r) \union {None}
      /\ At3(h, r, a) \in Nodes(h, r) \union {None} /\ At4(h, r, a) \in Nodes(h, r) \union {None}
  BY LeadsLevels DEF Nodes, Inner
<1>3. a[1] \in Slots /\ a[2] \in Slots /\ a[3] \in Slots /\ a[4] \in Slots
  BY AddressFacts
<1>4. At2(g, r, a) = At2(h, r, a)
  BY <1>1, <1>2, <1>3 DEF At2
<1>5. At3(g, r, a) = At3(h, r, a)
  BY <1>1, <1>2, <1>3, <1>4 DEF At3
<1>6. At4(g, r, a) = At4(h, r, a)
  BY <1>1, <1>2, <1>3, <1>5 DEF At4
<1> QED BY <1>1, <1>2, <1>3, <1>6 DEF Leads

LEMMA LeadsNowhere ==
  ASSUME NEW g, NEW r \in Pages, \A s \in Slots : g[r][s] = None, NEW a \in Addresses
  PROVE  Leads(g, r, a) = None
<1>1. a[1] \in Slots /\ None \notin Pages
  BY AddressFacts, ValuesAssumption
<1> QED BY <1>1 DEF Leads, At4, At3, At2, Down

(* A table without entries leads nowhere, whether it is entered or not. *)
LEMMA LeadsAround ==
  ASSUME NEW h, NEW g, NEW r, Shape(h, r), NEW a \in Addresses,
         NEW t \in Inner(h, r), NEW s \in Slots, NEW c, c = h[t][s], c # None, g[t][s] = None,
         \A x \in Slots : h[c][x] = None,
         \A u \in Pages \ {c} : \A x \in Slots : u # t \/ x # s => g[u][x] = h[u][x]
  PROVE  Leads(g, r, a) = Leads(h, r, a)
<1> DEFINE Same(x, y) == (x = y /\ x # c) \/ (x = c /\ y = None)
<1>1. None \notin Pages /\ a[1] \in Slots /\ a[2] \in Slots /\ a[3] \in Slots /\ a[4] \in Slots
  BY AddressFacts, ValuesAssumption
<1>2. ASSUME NEW x \in Inner(h, r) \union {None}, NEW y, Same(x, y), NEW v \in Slots
      PROVE  Same(Down(h, x, v), Down(g, y, v))
  <2>1. CASE x = c
    BY <1>1, <1>2, <2>1 DEF Down
  <2>2. CASE x # c /\ x \notin Pages
    BY <1>1, <1>2, <2>2 DEF Down
  <2>3. CASE x # c /\ x \in Pages /\ x = t /\ v = s
    BY <1>2, <2>3 DEF Down
  <2>4. CASE x # c /\ x \in Pages /\ (x # t \/ v # s)
    <3>1. y = x /\ g[x][v] = h[x][v]
      BY <1>2, <2>4
    <3>2. h[x][v] # c
      BY <1>1, <2>4 DEF Shape, Unique
    <3> QED BY <2>4, <3>1, <3>2 DEF Down
  <2> QED BY <2>1, <2>2, <2>3, <2>4
<1>3. /\ r \in Inner(h, r) \union {None} /\ At2(h, r, a) \in Inner(h, r) \union {None}
      /\ At3(h, r, a) \in Inner(h, r) \union {None} /\ At4(h, r, a) \in D3(h, r) \union {None}
  BY LeadsLevels DEF Inner
<1>4. Same(r, r)
  <2>1. \A T : t \in T => c \in Ent(h, T)
    BY EntIn DEF Shape, Inner
  <2>2. c \in D1(h, r) \union D2(h, r) \union D3(h, r)
    BY <2>1 DEF Inner, D1, D2, D3
  <2> QED BY <2>2 DEF Shape
<1>5. D3(h, r) \intersect Inner(h, r) = {}
  BY LevelsApart DEF Shape, Inner
<1> HIDE DEF Same
<1>6. Same(At2(h, r, a), At2(g, r, a))
  BY <1>1, <1>2, <1>3, <1>4 DEF At2
<1>7. Same(At3(h, r, a), At3(g, r, a))
  BY <1>1, <1>2, <1>3, <1>6 DEF At3
<1>8. Same(At4(h, r, a), At4(g, r, a))
  BY <1>1, <1>2, <1>3, <1>7 DEF At4
<1>9. At4(h, r, a) # t
  BY <1>3, <1>5, <1>1 DEF Shape, Inner
<1> QED BY <1>1, <1>8, <1>9 DEF Leads, Down, Same

(* An entry of a bottom table is the mapping of one address. *)
LEMMA LeadsEntry ==
  ASSUME NEW h, NEW g, NEW r, Shape(h, r), NEW b \in Addresses, NEW v,
         At4(h, r, b) # None, g[At4(h, r, b)][b[4]] = v,
         \A u \in Pages : \A x \in Slots : u # At4(h, r, b) \/ x # b[4] => g[u][x] = h[u][x]
  PROVE  \A a \in Addresses : Leads(g, r, a) = IF a = b THEN v ELSE Leads(h, r, a)
<1> SUFFICES ASSUME NEW a \in Addresses
             PROVE  Leads(g, r, a) = IF a = b THEN v ELSE Leads(h, r, a)
  OBVIOUS
<1> DEFINE t == At4(h, r, b)
<1>1. /\ None \notin Pages
      /\ a[1] \in Slots /\ a[2] \in Slots /\ a[3] \in Slots /\ a[4] \in Slots
      /\ b[1] \in Slots /\ b[2] \in Slots /\ b[3] \in Slots /\ b[4] \in Slots
      /\ a = <<a[1], a[2], a[3], a[4]>> /\ b = <<b[1], b[2], b[3], b[4]>>
  BY AddressFacts, ValuesAssumption
<1>2. /\ At2(h, r, a) \in Inner(h, r) \union {None} /\ At3(h, r, a) \in Inner(h, r) \union {None}
      /\ At4(h, r, a) \in D3(h, r) \union {None}
      /\ At2(h, r, b) \in Inner(h, r) \union {None} /\ At3(h, r, b) \in Inner(h, r) \union {None}
      /\ t \in D3(h, r) /\ r \in Inner(h, r) /\ Inner(h, r) \subseteq Pages /\ D3(h, r) \subseteq Pages
  BY LeadsLevels DEF Inner, Shape
<1>3. t \notin Inner(h, r)
  BY <1>2, LevelsApart DEF Shape, Inner
<1>4. \A x \in Inner(h, r) \union {None} : \A s \in Slots : Down(g, x, s) = Down(h, x, s)
  BY <1>1, <1>2, <1>3 DEF Down
<1>5. At4(g, r, a) = At4(h, r, a)
  <2>1. At2(g, r, a) = At2(h, r, a)
    BY <1>1, <1>2, <1>4 DEF At2
  <2>2. At3(g, r, a) = At3(h, r, a)
    BY <1>1, <1>2, <1>4, <2>1 DEF At3
  <2> QED BY <1>1, <1>2, <1>4, <2>2 DEF At4
<1>6. At4(h, r, a) = t /\ a[4] = b[4] => a = b
  <2> SUFFICES ASSUME At4(h, r, a) = t, a[4] = b[4] PROVE a = b
    OBVIOUS
  <2>1. \A x, y \in Inner(h, r) \union {None} : \A s, w \in Slots :
          Down(h, x, s) = Down(h, y, w) /\ Down(h, x, s) # None => x = y /\ s = w /\ x # None
    BY <1>1, <1>2 DEF Down, Shape, Unique
  <2>2. At3(h, r, a) = At3(h, r, b) /\ a[3] = b[3] /\ At3(h, r, a) # None
    BY <1>1, <1>2, <2>1 DEF At4
  <2>3. At2(h, r, a) = At2(h, r, b) /\ a[2] = b[2] /\ At2(h, r, a) # None
    BY <1>1, <1>2, <2>1, <2>2 DEF At3
  <2>4. a[1] = b[1]
    BY <1>1, <1>2, <2>1, <2>3 DEF At2
  <2> QED BY <1>1, <2>2, <2>3, <2>4
<1>7. CASE At4(h, r, a) = t /\ a[4] = b[4]
  BY <1>1, <1>2, <1>5, <1>6, <1>7 DEF Leads, Down
<1>8. CASE At4(h, r, a) # t \/ a[4] # b[4]
  BY <1>1, <1>2, <1>5, <1>8 DEF Leads, Down
<1> QED BY <1>7, <1>8

-----------------------------------------------------------------------------
(* What a caller sees of the maps: what each address maps to, and the       *)
(* operations that are not decided yet.                                     *)
ShownSpace ==
  [m \in Maps |-> [a \in Addresses |-> IF m \in Standing THEN Translate(m, a) ELSE None]]

Tidying == [kind |-> "tidying"]
Asked(m) == [kind |-> "add", addr |-> op[m].addr, frame |-> op[m].frame, overwrite |-> op[m].overwrite]

ShownDoing ==
  [m \in Maps |-> CASE Doing(m, "idle") -> Idle
                    [] Doing(m, "add")  -> Asked(m)
                    [] OTHER            -> Tidying]

Shows == [Spaces!Next]_(Spaces!vars)

Unmoved(m) == ShownSpace'[m] = ShownSpace[m] /\ ShownDoing'[m] = ShownDoing[m]

LEMMA ShownFacts ==
  ASSUME NEW m \in Maps
  PROVE  /\ op[m].kind = "idle" => ShownDoing[m] = Idle
         /\ op[m].kind = "add" => ShownDoing[m] = Asked(m)
         /\ op[m].kind \notin {"idle", "add"} => ShownDoing[m] = Tidying
         /\ op'[m].kind = "idle" => ShownDoing'[m] = Idle
         /\ op'[m].kind = "add" => ShownDoing'[m] = Asked(m)'
         /\ op'[m].kind \notin {"idle", "add"} => ShownDoing'[m] = Tidying
         /\ ShownSpace[m] = [a \in Addresses |-> IF m \in Standing THEN Translate(m, a) ELSE None]
         /\ ShownSpace'[m] =
              [a \in Addresses |-> IF (m \in Standing)' THEN Translate(m, a)' ELSE None]
BY DEF ShownDoing, ShownSpace, Idle, Tidying, Asked, Doing

LEMMA ShownMaps ==
  ASSUME NEW m \in Maps
  PROVE  /\ m \in Standing => ShownSpace[m] = [a \in Addresses |-> Leads(tbl, root[m], a)]
         /\ m \notin Standing => ShownSpace[m] = [a \in Addresses |-> None]
         /\ (m \in Standing)' => ShownSpace'[m] = [a \in Addresses |-> Leads(tbl', root'[m], a)]
         /\ ~ (m \in Standing)' => ShownSpace'[m] = [a \in Addresses |-> None]
BY ShownFacts, TranslateLeads

LEMMA ShownSame ==
  ASSUME NEW m \in Maps, (m \in Standing)' = (m \in Standing),
         m \in Standing =>
           \A a \in Addresses : Leads(tbl', root'[m], a) = Leads(tbl, root[m], a)
  PROVE  ShownSpace'[m] = ShownSpace[m]
<1>1. CASE m \in Standing
  <2>1. ShownSpace[m] = [a \in Addresses |-> Leads(tbl, root[m], a)]
    BY <1>1, ShownMaps
  <2>2. ShownSpace'[m] = [a \in Addresses |-> Leads(tbl', root'[m], a)]
    BY <1>1, ShownMaps
  <2> QED BY <1>1, <2>1, <2>2
<1>2. CASE m \notin Standing
  <2>1. ShownSpace[m] = [a \in Addresses |-> None]
    BY <1>2, ShownMaps
  <2>2. ShownSpace'[m] = [a \in Addresses |-> None]
    BY <1>2, ShownMaps
  <2> QED BY <2>1, <2>2
<1> QED BY <1>1, <1>2

(* A step that shows in no map is a stutter of the abstract maps. *)
LEMMA NothingShown ==
  ASSUME \A n \in Maps : Unmoved(n)
  PROVE  Shows
<1>1. /\ ShownSpace = [n \in Maps |-> ShownSpace[n]] /\ ShownDoing = [n \in Maps |-> ShownDoing[n]]
      /\ ShownSpace' = [n \in Maps |-> ShownSpace'[n]] /\ ShownDoing' = [n \in Maps |-> ShownDoing'[n]]
  BY DEF ShownSpace, ShownDoing
<1>2. ShownSpace' = ShownSpace /\ ShownDoing' = ShownDoing
  BY <1>1 DEF Unmoved
<1> QED BY <1>2 DEF Shows, Spaces!vars, ShownSpace, ShownDoing, Asked, Tidying

(* The steps of the abstract maps, told by what they do to one map. *)
LEMMA ShownSteps ==
  ASSUME NEW m \in Maps,
         \A n \in Maps \ {m} : Unmoved(n)
  PROVE  /\ Unmoved(m) => Shows
         /\ ShownSpace'[m] = ShownSpace[m] =>
              /\ ShownDoing[m] = Tidying /\ ShownDoing'[m] = Idle => Shows
              /\ ShownDoing[m].kind = "add" /\ ShownDoing'[m] \in {Idle, Tidying} => Shows
              /\ \A a \in Addresses, f \in Frames, overwrite \in BOOLEAN :
                   /\ ShownDoing[m] = Idle
                   /\ ShownDoing'[m] = [kind |-> "add", addr |-> a, frame |-> f, overwrite |-> overwrite]
                   => Shows
         /\ \A a \in Addresses, f \in Frames, overwrite \in BOOLEAN :
              /\ ShownDoing[m] = [kind |-> "add", addr |-> a, frame |-> f, overwrite |-> overwrite]
              /\ ShownDoing'[m] = Idle
              /\ ShownSpace[m][a] = None \/ overwrite
              /\ ShownSpace'[m] = [ShownSpace[m] EXCEPT ![a] = f]
              => Shows
         /\ \A a \in Addresses :
              /\ ShownDoing[m] = Idle /\ ShownDoing'[m] \in {Idle, Tidying}
              /\ ShownSpace[m][a] # None
              /\ ShownSpace'[m] = [ShownSpace[m] EXCEPT ![a] = None]
              => Shows
         /\ /\ ShownDoing[m] = Idle /\ ShownDoing'[m] = Tidying
            /\ ShownSpace'[m] = [a \in Addresses |-> None]
            => Shows
<1>1. ShownSpace = [n \in Maps |-> ShownSpace[n]] /\ ShownDoing = [n \in Maps |-> ShownDoing[n]]
  BY DEF ShownSpace, ShownDoing
<1>2. ShownSpace' = [n \in Maps |-> ShownSpace'[n]] /\ ShownDoing' = [n \in Maps |-> ShownDoing'[n]]
  BY DEF ShownSpace, ShownDoing
<1>3. /\ Shows <=> Spaces!Next \/ (ShownSpace' = ShownSpace /\ ShownDoing' = ShownDoing)
  BY DEF Shows, Spaces!vars, ShownSpace, ShownDoing, Asked, Tidying
<1>4. ShownSpace' = [ShownSpace EXCEPT ![m] = ShownSpace'[m]]
  BY <1>1, <1>2 DEF Unmoved
<1>5. ShownDoing' = [ShownDoing EXCEPT ![m] = ShownDoing'[m]]
  BY <1>1, <1>2 DEF Unmoved
<1>6. Unmoved(m) => Shows
  BY <1>1, <1>2, <1>3 DEF Unmoved
<1>7. ShownSpace'[m] = ShownSpace[m] => ShownSpace' = ShownSpace
  BY <1>1, <1>2 DEF Unmoved
<1> DEFINE Decided == \/ ShownDoing' = [ShownDoing EXCEPT ![m] = Idle]
                      \/ ShownDoing' = [ShownDoing EXCEPT ![m] = Tidying]
<1>8. ShownDoing'[m] \in {Idle, Tidying} => Decided
  BY <1>5
<1>9. Spaces!Next <=> \E x \in Maps :
        \/ \E a \in Addresses, f \in Frames, overwrite \in BOOLEAN :
             \/ Spaces!AskToMap(x, a, f, overwrite) \/ Spaces!Map(x, a, f, overwrite)
        \/ \E a \in Addresses : Spaces!Unmap(x, a)
        \/ Spaces!Refuse(x) \/ Spaces!Destroy(x) \/ Spaces!Tidied(x)
  BY DEF Spaces!Next
<1>10. /\ Spaces!Tidied(m) <=> /\ ShownDoing[m] = Tidying
                               /\ ShownDoing' = [ShownDoing EXCEPT ![m] = Idle]
                               /\ ShownSpace' = ShownSpace
       /\ Spaces!Refuse(m) <=> ShownDoing[m].kind = "add" /\ Decided /\ ShownSpace' = ShownSpace
       /\ Spaces!Destroy(m) <=> /\ ShownDoing[m] = Idle
                                /\ ShownSpace' = [ShownSpace EXCEPT ![m] = [a \in Addresses |-> None]]
                                /\ ShownDoing' = [ShownDoing EXCEPT ![m] = Tidying]
  BY DEF Spaces!Tidied, Spaces!Refuse, Spaces!Destroy, Spaces!Decided, Spaces!Becomes, Spaces!Idle,
         Spaces!Tidying, Spaces!Nowhere, ShownDoing, ShownSpace, Asked, Tidying, Idle
<1>11. \A a \in Addresses :
         Spaces!Unmap(m, a) <=> /\ ShownDoing[m] = Idle /\ ShownSpace[m][a] # None
                                /\ ShownSpace' = [ShownSpace EXCEPT ![m][a] = None]
                                /\ Decided
  BY DEF Spaces!Unmap, Spaces!Decided, Spaces!Becomes, Spaces!Idle, Spaces!Tidying,
         ShownDoing, ShownSpace, Asked, Tidying, Idle
<1>12. \A a \in Addresses, f \in Frames, overwrite \in BOOLEAN :
         /\ Spaces!AskToMap(m, a, f, overwrite) <=>
              /\ ShownDoing[m] = Idle
              /\ ShownDoing' = [ShownDoing EXCEPT ![m] =
                   [kind |-> "add", addr |-> a, frame |-> f, overwrite |-> overwrite]]
              /\ ShownSpace' = ShownSpace
         /\ Spaces!Map(m, a, f, overwrite) <=>
              /\ ShownDoing[m] = [kind |-> "add", addr |-> a, frame |-> f, overwrite |-> overwrite]
              /\ ShownSpace[m][a] = None \/ overwrite
              /\ ShownSpace' = [ShownSpace EXCEPT ![m][a] = f]
              /\ ShownDoing' = [ShownDoing EXCEPT ![m] = Idle]
  BY DEF Spaces!AskToMap, Spaces!Map, Spaces!Adding, Spaces!Becomes, Spaces!Idle,
         ShownDoing, ShownSpace, Asked, Tidying, Idle
<1>13. ASSUME NEW a, NEW v, ShownSpace'[m] = [ShownSpace[m] EXCEPT ![a] = v]
       PROVE  ShownSpace' = [ShownSpace EXCEPT ![m][a] = v]
  BY <1>1, <1>4, <1>13
<1> HIDE DEF Decided
<1>14. ShownSpace'[m] = ShownSpace[m] =>
         /\ ShownDoing[m] = Tidying /\ ShownDoing'[m] = Idle => Shows
         /\ ShownDoing[m].kind = "add" /\ ShownDoing'[m] \in {Idle, Tidying} => Shows
  BY <1>3, <1>5, <1>7, <1>8, <1>9, <1>10
<1>15. ASSUME NEW a \in Addresses, NEW f \in Frames, NEW overwrite \in BOOLEAN
       PROVE  /\ /\ ShownSpace'[m] = ShownSpace[m] /\ ShownDoing[m] = Idle
                 /\ ShownDoing'[m] = [kind |-> "add", addr |-> a, frame |-> f, overwrite |-> overwrite]
                 => Shows
              /\ /\ ShownDoing[m] = [kind |-> "add", addr |-> a, frame |-> f, overwrite |-> overwrite]
                 /\ ShownDoing'[m] = Idle
                 /\ ShownSpace[m][a] = None \/ overwrite
                 /\ ShownSpace'[m] = [ShownSpace[m] EXCEPT ![a] = f]
                 => Shows
  BY <1>3, <1>5, <1>7, <1>9, <1>12, <1>13
<1>16. ASSUME NEW a \in Addresses, ShownDoing[m] = Idle, ShownDoing'[m] \in {Idle, Tidying},
              ShownSpace[m][a] # None, ShownSpace'[m] = [ShownSpace[m] EXCEPT ![a] = None]
       PROVE  Shows
  <2>1. Spaces!Unmap(m, a)
    BY <1>8, <1>11, <1>13, <1>16
  <2> QED BY <1>3, <1>9, <2>1
<1>17. ASSUME ShownDoing[m] = Idle, ShownDoing'[m] = Tidying,
              ShownSpace'[m] = [a \in Addresses |-> None]
       PROVE  Shows
  BY <1>3, <1>4, <1>5, <1>9, <1>10, <1>17
<1> QED BY <1>6, <1>14, <1>15, <1>16, <1>17

-----------------------------------------------------------------------------
LEMMA Unseen ==
  ASSUME NEW n \in Maps, n \in Standing => Shape(tbl, root[n]),
         op'[n] = op[n], status'[n] = status[n], root'[n] = root[n],
         n \in Standing =>
           \A t \in Nodes(tbl, root[n]) \intersect Pages : \A s \in Slots : tbl'[t][s] = tbl[t][s]
  PROVE  Unmoved(n)
<1>2. (n \in Standing)' = (n \in Standing)
  BY DEF Standing
<1>3. ShownDoing'[n] = ShownDoing[n]
  <2>1. CASE op[n].kind = "idle"
    BY <2>1, ShownFacts
  <2>2. CASE op[n].kind = "add"
    <3>1. ShownDoing[n] = Asked(n) /\ ShownDoing'[n] = Asked(n)'
      BY <2>2, ShownFacts
    <3>2. Asked(n)' = Asked(n)
      BY DEF Asked
    <3> QED BY <3>1, <3>2
  <2>3. CASE op[n].kind \notin {"idle", "add"}
    BY <2>3, ShownFacts
  <2> QED BY <2>1, <2>2, <2>3
<1>4. ShownSpace'[n] = ShownSpace[n]
  <2>1. n \in Standing => \A a \in Addresses : Leads(tbl', root'[n], a) = Leads(tbl, root[n], a)
    BY LeadsKept
  <2> QED BY <1>2, <2>1, ShownSame
<1> QED BY <1>3, <1>4 DEF Unmoved

(* A step of another map or of others leaves a map alone. *)
LEMMA Elsewhere ==
  ASSUME TypeOK, NEW n \in Maps, MapOK(n),
         op'[n] = op[n], status'[n] = status[n], root'[n] = root[n],
         Owned(n)' = Owned(n),
         n \in Standing =>
           \A t \in Nodes(tbl, root[n]) \intersect Pages : \A s \in Slots : tbl'[t][s] = tbl[t][s]
  PROVE  MapOK(n)' /\ Unmoved(n)
<1>1. Doing(n, "idle")' = Doing(n, "idle") /\ Doing(n, "add")' = Doing(n, "add")
  BY DEF Doing
<1>2. Doing(n, "rollback")' = Doing(n, "rollback") /\ Doing(n, "remove")' = Doing(n, "remove")
      /\ Doing(n, "destroy")' = Doing(n, "destroy")
  BY DEF Doing
<1>3. (n \in Standing)' = (n \in Standing)
  BY DEF Standing
<1>4. ASSUME n \in Standing PROVE StandingOK(n)'
  <2>1. StandingOK(n)
    BY <1>4 DEF MapOK
  <2>2. /\ Nodes(tbl', root[n]) = Nodes(tbl, root[n]) /\ Shape(tbl', root[n])
        /\ Shape(tbl, root[n])
    BY <1>4, <2>1, Keep DEF StandingOK, Tree
  <2>3. Tree(n)'
    BY <2>1, <2>2 DEF StandingOK, Tree
  <2>a. Nodes(tbl, root[n]) \subseteq Pages
    BY <2>2 DEF Nodes, Inner, Shape
  <2>4. \A T : TidyBut(n, T) => TidyBut(n, T)'
    BY <1>4, <2>2, <2>a DEF TidyBut
  <2>5. ASSUME Doing(n, "add") \/ Doing(n, "remove"), Walked(n)
        PROVE  /\ Walked(n)' /\ Entry(n)' = Entry(n) /\ HereEmpty(n)' = HereEmpty(n)
               /\ Here(n)' = Here(n)
    <3>1. /\ Here(n) \in Nodes(tbl, root[n]) \intersect Pages /\ Slot(n) \in Slots
          /\ Len(op[n].path) \in 1 .. 4
      BY <2>2, <2>5, WalkFacts
    <3>2. Here(n)' = Here(n) /\ Slot(n)' = Slot(n)
      BY DEF Here, Slot
    <3>3. Entry(n)' = Entry(n) /\ HereEmpty(n)' = HereEmpty(n)
      BY <3>1, <3>2, <1>4 DEF Entry, HereEmpty
    <3>4. \A i \in 1 .. Len(op[n].path) - 1 : op[n].path[i] \in Nodes(tbl, root[n]) \intersect Pages
                                               /\ op[n].addr[i] \in Slots
      <4>1. op[n].path \in Seq(Pages) /\ op[n].addr \in Addresses
        BY <2>5, OpFacts
      <4>2. \A i \in 1 .. 4 : op[n].addr[i] \in Slots
        BY <4>1, AddressFacts
      <4> DEFINE path == op[n].path
                 a == op[n].addr
                 k == Len(op[n].path)
      <4>3. /\ k \in 1 .. 4 /\ path[1] = root[n]
            /\ a[1] \in Slots /\ a[2] \in Slots /\ a[3] \in Slots
            /\ \A i \in 1 .. k : path[i] \in Pages
            /\ \A i \in 1 .. k - 1 : path[i + 1] = tbl[path[i]][a[i]]
            /\ Shape(tbl, root[n])
        BY <2>2, <2>5, <4>1, <4>2, <3>1 DEF Walked
      <4> HIDE DEF path, a, k
      <4>4. \A i \in 1 .. k : path[i] \in Nodes(tbl, root[n]) \intersect Pages
        BY <4>3, PathNodes
      <4>5. \A i \in 1 .. k - 1 : i \in 1 .. 4 /\ i \in 1 .. k
        BY <4>3
      <4> QED BY <4>2, <4>4, <4>5 DEF path, a, k
    <3>5. Walked(n)'
      BY <3>4, <1>4, <2>5 DEF Walked
    <3> QED BY <3>2, <3>3, <3>5
  <2>6. IdleOK(n)'
    BY <1>1, <2>1, <2>4 DEF StandingOK, IdleOK
  <2>7. AddOK(n)'
    BY <1>1, <2>1, <2>4, <2>5 DEF StandingOK, AddOK
  <2>8. RollbackOK(n)'
    BY <1>2, <2>1 DEF StandingOK, RollbackOK
  <2>9. RemoveOK(n)'
    BY <1>2, <2>1, <2>4, <2>5 DEF StandingOK, RemoveOK
  <2> QED BY <2>3, <2>6, <2>7, <2>8, <2>9 DEF StandingOK
<1>5. Unmoved(n)
  <2>1. n \in Standing => Shape(tbl, root[n])
    BY DEF MapOK, StandingOK, Tree
  <2> QED BY <2>1, Unseen
<1> QED BY <1>2, <1>3, <1>4, <1>5 DEF MapOK

(* A step of one map writes to its own tables and to free pages only. *)
LEMMA OtherMaps ==
  ASSUME TypeOK, \A n \in Maps : MapOK(n), NEW m \in Maps,
         \A n \in Maps \ {m} :
           /\ op'[n] = op[n] /\ status'[n] = status[n] /\ root'[n] = root[n]
           /\ Owned(n)' = Owned(n),
         \A t \in Pages :
           \/ owner[t] = "FREE"
           \/ m \in Standing /\ t \in Nodes(tbl, root[m])
           \/ \A s \in Slots : tbl'[t][s] = tbl[t][s]
  PROVE  \A n \in Maps \ {m} : MapOK(n)' /\ Unmoved(n)
<1> SUFFICES ASSUME NEW n \in Maps \ {m} PROVE MapOK(n)' /\ Unmoved(n)
  OBVIOUS
<1>1. ASSUME n \in Standing, NEW t \in Nodes(tbl, root[n]) \intersect Pages, NEW s \in Slots
      PROVE  tbl'[t][s] = tbl[t][s]
  <2>1. Tree(n)
    BY <1>1 DEF MapOK, StandingOK
  <2>2. CASE owner[t] = "FREE"
    <3>1. "FREE" # n
      BY <2>2, ValuesAssumption
    <3> QED BY <1>1, <2>1, <2>2, <3>1 DEF Tree, Owned
  <2>3. CASE m \in Standing /\ t \in Nodes(tbl, root[m])
    <3>1. Tree(m)
      BY <2>3 DEF MapOK, StandingOK
    <3> QED BY <1>1, <2>1, <2>3, <3>1, TreesApart
  <2> QED BY <2>2, <2>3
<1> QED BY <1>1, Elsewhere

-----------------------------------------------------------------------------
(* The steps of the allocator. *)
LEMMA AcquireFacts ==
  ASSUME TypeOK, NEW p \in Pages, Acquirable(p), NEW o \in Owners, o # "FREE",
         owner' = [owner EXCEPT ![p] = o]
  PROVE  /\ p # 0 /\ owner[p] = "FREE"
         /\ owner' \in [Pages -> Owners] /\ owner'[0] = owner[0]
         /\ \A n \in Maps : /\ p \notin Owned(n)
                            /\ n # o => Owned(n)' = Owned(n)
                            /\ n = o => Owned(n)' = Owned(n) \union {p}
<1>1. p # 0 /\ owner[p] = "FREE" /\ 0 \in Pages
  BY MapsAssumption DEF Acquirable, Available, Pages
<1>2. owner \in [Pages -> Owners]
  BY DEF TypeOK
<1>3. "FREE" \notin Maps
  BY ValuesAssumption
<1> QED BY <1>1, <1>2, <1>3 DEF Owned

(* A page taken from whoever may lose it. *)
LEMMA FreeFacts ==
  ASSUME TypeOK, NEW p, NEW o \in Owners, p \in Pages => owner[p] = o,
         owner' = owner \/ (p \in Pages /\ owner' = [owner EXCEPT ![p] = "FREE"])
  PROVE  /\ owner' \in [Pages -> Owners] /\ owner'[0] \in {owner[0], "FREE"}
         /\ \A n \in Maps : /\ n # o => Owned(n)' = Owned(n)
                            /\ owner' # owner => Owned(n)' = Owned(n) \ {p}
<1>1. 0 \in Pages
  BY MapsAssumption DEF Pages
<1>2. owner \in [Pages -> Owners] /\ "FREE" \in Owners
  BY DEF TypeOK, Owners
<1>3. "FREE" \notin Maps
  BY ValuesAssumption
<1>4. CASE owner' = owner
  BY <1>1, <1>2, <1>4 DEF Owned
<1>5. CASE p \in Pages /\ owner' = [owner EXCEPT ![p] = "FREE"]
  BY <1>1, <1>2, <1>3, <1>5 DEF Owned
<1> QED BY <1>4, <1>5

LEMMA OthersStep ==
  ASSUME MapsInv, ~ broken, OtherAcquire \/ OtherRelease
  PROVE  MapsInv' /\ Shows
<1>0. /\ TypeOK /\ owner[0] \notin Maps /\ \A n \in Maps : MapOK(n)
      /\ "OTHER" \in Owners /\ "OTHER" \notin Maps /\ "OTHER" # "FREE" /\ "FREE" \notin Maps
  BY ValuesAssumption DEF MapsInv, Owners
<1>1. UNCHANGED <<tbl, status, root, op, broken>>
  BY DEF OtherAcquire, OtherRelease
<1>2. owner' \in [Pages -> Owners] /\ owner'[0] \notin Maps /\ \A n \in Maps : Owned(n)' = Owned(n)
  <2>1. CASE OtherAcquire
    <3>1. PICK p \in Pages : Acquirable(p) /\ owner' = [owner EXCEPT ![p] = "OTHER"]
      BY <2>1 DEF OtherAcquire
    <3> QED BY <1>0, <3>1, AcquireFacts
  <2>2. CASE OtherRelease
    <3>1. PICK p \in Pages : owner[p] = "OTHER" /\ owner' = Released(p)
      BY <2>2 DEF OtherRelease
    <3>2. owner' = [owner EXCEPT ![p] = "FREE"]
      BY <3>1 DEF Released
    <3>3. (p \in Pages => owner[p] = "OTHER") /\ p \in Pages /\ owner'[0] \in {owner[0], "FREE"} =>
            owner'[0] \notin Maps
      BY <1>0
    <3>4. /\ owner' \in [Pages -> Owners] /\ owner'[0] \in {owner[0], "FREE"}
          /\ \A n \in Maps : n # "OTHER" => Owned(n)' = Owned(n)
      BY <1>0, <3>1, <3>2, FreeFacts
    <3> QED BY <1>0, <3>1, <3>3, <3>4
  <2> QED BY <2>1, <2>2
<1>3. TypeOK'
  BY <1>0, <1>1, <1>2 DEF TypeOK
<1>4. \A n \in Maps : MapOK(n)' /\ Unmoved(n)
  BY <1>0, <1>1, <1>2, Elsewhere
<1>5. Shows
  BY <1>4, NothingShown
<1> QED BY <1>2, <1>3, <1>4, <1>5 DEF MapsInv

-----------------------------------------------------------------------------
LEMMA BareRoot ==
  ASSUME NEW g, NEW r \in Pages, \A s \in Slots : g[r][s] = None
  PROVE  Shape(g, r) /\ Nodes(g, r) = {r}
<1>1. D1(g, r) = {}
  BY DEF D1, Ent
<1>2. D2(g, r) = {} /\ D3(g, r) = {} /\ Ent(g, D3(g, r)) = {}
  BY <1>1 DEF D2, D3, Ent
<1> QED BY <1>1, <1>2 DEF Shape, Unique, Inner, Nodes

LEMMA BlankFacts ==
  /\ Blank \in [Slots -> Words] /\ \A s \in Slots : Blank[s] = None
  /\ \A f \in [Slots -> Words] : f = Blank <=> \A s \in Slots : f[s] = None
<1>1. ASSUME NEW f \in [Slots -> Words], \A s \in Slots : f[s] = None PROVE f = Blank
  BY <1>1 DEF Blank
<1> QED BY <1>1 DEF Blank, Words

LEMMA CreateStep ==
  ASSUME MapsInv, ~ broken, NEW m \in Maps, Create(m)
  PROVE  MapsInv' /\ Shows
<1>0. TypeOK /\ owner[0] \notin Maps /\ (\A n \in Maps : MapOK(n)) /\ m \in Owners /\ m # "FREE"
  BY ValuesAssumption DEF MapsInv, Owners
<1>1. PICK p \in Pages : /\ Acquirable(p)
                         /\ owner' = [owner EXCEPT ![p] = m]
                         /\ tbl' = [tbl EXCEPT ![p] = Blank]
                         /\ root' = [root EXCEPT ![m] = p]
  BY DEF Create
<1>2. /\ status[m] = "none" /\ status' = [status EXCEPT ![m] = "live"]
      /\ op' = op /\ broken' = broken
  BY DEF Create
<1>3. /\ p # 0 /\ owner[p] = "FREE" /\ owner' \in [Pages -> Owners] /\ owner'[0] = owner[0]
      /\ \A n \in Maps : /\ n # m => Owned(n)' = Owned(n)
                         /\ n = m => Owned(n)' = Owned(n) \union {p}
  BY <1>0, <1>1, AcquireFacts
<1>4. p \in Pages /\ tbl \in Heaps
  BY <1>0, ValuesAssumption DEF TypeOK, Heaps, Words
<1>5. tbl' \in Heaps /\ \A s \in Slots : tbl'[p][s] = None
  BY <1>1, <1>4, BlankFacts DEF Heaps
<1>6. TypeOK'
  BY <1>0, <1>1, <1>2, <1>3, <1>4, <1>5 DEF TypeOK, Heaps, Words
<1>7. \A n \in Maps \ {m} : MapOK(n)' /\ Unmoved(n)
  <2>1. \A n \in Maps \ {m} : /\ op'[n] = op[n] /\ status'[n] = status[n] /\ root'[n] = root[n]
                              /\ Owned(n)' = Owned(n)
    BY <1>0, <1>1, <1>2, <1>3 DEF TypeOK
  <2>2. \A t \in Pages : t # p => tbl'[t] = tbl[t]
    BY <1>1, <1>4 DEF Heaps
  <2> QED BY <1>0, <1>3, <2>1, <2>2, OtherMaps
<1>8. MapOK(m)'
  <2>1. op[m] = Idle /\ Owned(m) = {}
    BY <1>0, <1>2 DEF MapOK
  <2>2. status'[m] = "live" /\ op'[m] = Idle /\ root'[m] = p
    BY <1>0, <1>1, <1>2, <2>1 DEF TypeOK
  <2>3. Shape(tbl', p) /\ Nodes(tbl', p) = {p}
    BY <1>4, <1>5, BareRoot
  <2>4. Tree(m)'
    BY <1>3, <1>4, <2>1, <2>2, <2>3 DEF Tree
  <2>5. TidyBut(m, {})'
    BY <2>2, <2>3 DEF TidyBut
  <2> QED BY <2>1, <2>2, <2>4, <2>5
          DEF MapOK, StandingOK, IdleOK, AddOK, RollbackOK, RemoveOK, Doing, Idle
<1>9. Unmoved(m)
  <2>1. m \notin Standing /\ (m \in Standing)' /\ root'[m] = p
    <3>1. op[m] = Idle /\ status'[m] = "live" /\ root'[m] = p
      BY <1>0, <1>1, <1>2 DEF MapOK, TypeOK
    <3> QED BY <1>2, <3>1 DEF Standing, Idle
  <2>2. \A a \in Addresses : Leads(tbl', p, a) = None
    BY <1>4, <1>5, LeadsNowhere
  <2>3. ShownSpace'[m] = ShownSpace[m]
    <3>1. ShownSpace[m] = [a \in Addresses |-> None]
      BY <2>1, ShownMaps
    <3>2. ShownSpace'[m] = [a \in Addresses |-> Leads(tbl', root'[m], a)]
      BY <2>1, ShownMaps
    <3> QED BY <2>1, <2>2, <3>1, <3>2
  <2>4. ShownDoing'[m] = ShownDoing[m]
    <3>1. op[m].kind = "idle" /\ op'[m].kind = "idle"
      BY <1>0, <1>2 DEF MapOK, Idle
    <3> QED BY <3>1, ShownFacts
  <2> QED BY <2>3, <2>4 DEF Unmoved
<1>10. Shows
  BY <1>7, <1>9, ShownSteps
<1> QED BY <1>0, <1>2, <1>3, <1>6, <1>7, <1>8, <1>10 DEF MapsInv

-----------------------------------------------------------------------------
(* The walk of the processor to an address. *)
LEMMA PathFacts ==
  ASSUME NEW m \in Maps, Shape(tbl, root[m]), NEW a \in Addresses
  PROVE  /\ Path(m, a)[1] = root[m] /\ root[m] \in Pages
         /\ \A i \in 1 .. 3 : Path(m, a)[i + 1] = Follow(Path(m, a)[i], a[i])
         /\ Path(m, a)[2] \in D1(tbl, root[m]) \union {None}
         /\ Path(m, a)[3] \in D2(tbl, root[m]) \union {None}
         /\ Path(m, a)[4] \in D3(tbl, root[m]) \union {None}
         /\ Len(Path(m, a)) = 4
         /\ \A i \in 1 .. 4 : Path(m, a)[i] \in Pages \union {None}
<1> DEFINE r == root[m]
           p2 == Follow(r, a[1])
           p3 == Follow(p2, a[2])
           p4 == Follow(p3, a[3])
<1>1. Path(m, a) = <<r, p2, p3, p4>>
  BY DEF Path
<1>2. a[1] \in Slots /\ a[2] \in Slots /\ a[3] \in Slots /\ None \notin Pages /\ r \in Pages
  BY AddressFacts, ValuesAssumption DEF Shape
<1>3. p2 \in D1(tbl, r) \union {None}
  BY <1>2, EntIn DEF Follow, D1
<1>4. p3 \in D2(tbl, r) \union {None}
  BY <1>2, <1>3, EntIn DEF Follow, D2
<1>5. p4 \in D3(tbl, r) \union {None}
  BY <1>2, <1>4, EntIn DEF Follow, D3
<1>6. {p2, p3, p4} \subseteq Pages \union {None}
  BY <1>3, <1>4, <1>5 DEF Shape
<1> HIDE DEF p2, p3, p4
<1>7. /\ Path(m, a)[1] = r /\ Path(m, a)[2] = p2 /\ Path(m, a)[3] = p3 /\ Path(m, a)[4] = p4
      /\ Len(Path(m, a)) = 4
  BY <1>1
<1>8. \A i \in 1 .. 3 : Path(m, a)[i + 1] = Follow(Path(m, a)[i], a[i])
  <2>1. Path(m, a)[1 + 1] = Follow(Path(m, a)[1], a[1])
    BY <1>7 DEF p2
  <2>2. Path(m, a)[2 + 1] = Follow(Path(m, a)[2], a[2])
    BY <1>7 DEF p3
  <2>3. Path(m, a)[3 + 1] = Follow(Path(m, a)[3], a[3])
    BY <1>7 DEF p4
  <2>4. \A i \in 1 .. 3 : i = 1 \/ i = 2 \/ i = 3
    OBVIOUS
  <2> QED BY <2>1, <2>2, <2>3, <2>4
<1>9. \A i \in 1 .. 4 : Path(m, a)[i] \in Pages \union {None}
  <2>1. \A i \in 1 .. 4 : i = 1 \/ i = 2 \/ i = 3 \/ i = 4
    OBVIOUS
  <2> QED BY <1>2, <1>6, <1>7, <2>1
<1> QED BY <1>2, <1>3, <1>4, <1>5, <1>7, <1>8, <1>9

LEMMA PrefixFacts ==
  ASSUME NEW m \in Maps, Shape(tbl, root[m]), NEW a \in Addresses,
         NEW n \in 1 .. 4, Path(m, a)[n] # None
  PROVE  /\ SubSeq(Path(m, a), 1, n) \in Seq(Pages) /\ Len(SubSeq(Path(m, a), 1, n)) = n
         /\ \A i \in 1 .. n : Path(m, a)[i] \in Pages /\ SubSeq(Path(m, a), 1, n)[i] = Path(m, a)[i]
         /\ \A i \in 1 .. n - 1 : Path(m, a)[i + 1] = tbl[Path(m, a)[i]][a[i]]
<1> DEFINE p == Path(m, a)
<1>0. None \notin Pages
  BY ValuesAssumption
<1>1. /\ Len(p) = 4 /\ p \in Seq(Pages \union {None})
      /\ \A i \in 1 .. 4 : p[i] \in Pages \union {None}
      /\ \A i \in 1 .. 3 : p[i + 1] = Follow(p[i], a[i])
  BY PathFacts DEF Path
<1> HIDE DEF p
<1>2. \A i \in 1 .. 3 : p[i + 1] # None => p[i] \in Pages
  BY <1>0, <1>1 DEF Follow
<1>3. \A i \in 1 .. n : p[i] \in Pages
  <2>1. p[n] \in Pages
    BY <1>1 DEF p
  <2>2. n >= 2 => p[n - 1] \in Pages
    <3>1. n >= 2 => n - 1 \in 1 .. 3 /\ (n - 1) + 1 = n
      OBVIOUS
    <3> QED BY <1>0, <1>2, <2>1, <3>1
  <2>3. n >= 3 => p[n - 2] \in Pages
    <3>1. n >= 3 => n - 2 \in 1 .. 3 /\ (n - 2) + 1 = n - 1
      OBVIOUS
    <3> QED BY <1>0, <1>2, <2>2, <3>1
  <2>4. n = 4 => p[n - 3] \in Pages
    <3>1. n = 4 => n - 3 \in 1 .. 3 /\ (n - 3) + 1 = n - 2
      OBVIOUS
    <3> QED BY <1>0, <1>2, <2>3, <3>1
  <2>5. \A i \in 1 .. n : i = n \/ (i = n - 1 /\ n >= 2) \/ (i = n - 2 /\ n >= 3) \/ (i = n - 3 /\ n = 4)
    OBVIOUS
  <2> QED BY <2>1, <2>2, <2>3, <2>4, <2>5
<1>4. /\ SubSeq(p, 1, n) \in Seq(Pages) /\ Len(SubSeq(p, 1, n)) = n
      /\ \A i \in 1 .. n : SubSeq(p, 1, n)[i] = p[i]
  BY <1>1, <1>3
<1>5. \A i \in 1 .. n - 1 : p[i + 1] = tbl[p[i]][a[i]]
  <2>1. \A i \in 1 .. n - 1 : i \in 1 .. 3 /\ i \in 1 .. n
    OBVIOUS
  <2> QED BY <1>1, <1>3, <2>1 DEF Follow
<1> QED BY <1>3, <1>4, <1>5 DEF p

(* A step of the operation alone. *)
LEMMA OwnStep ==
  ASSUME MapsInv, ~ broken, NEW m \in Maps, UNCHANGED <<owner, tbl, status, root, broken>>,
         NEW o \in Operations, op' = [op EXCEPT ![m] = o]
  PROVE  /\ TypeOK' /\ owner'[0] \notin Maps /\ op'[m] = o
         /\ \A n \in Maps \ {m} : MapOK(n)' /\ Unmoved(n)
         /\ MapOK(m)' => MapsInv'
         /\ ~ Doing(m, "destroy") /\ o.kind # "destroy" => ShownSpace'[m] = ShownSpace[m]
<1>1. TypeOK /\ (\A n \in Maps : MapOK(n)) /\ op'[m] = o /\ \A n \in Maps \ {m} : op'[n] = op[n]
  BY DEF MapsInv, TypeOK
<1>2. TypeOK' /\ owner'[0] \notin Maps
  BY DEF MapsInv, TypeOK
<1>3. \A n \in Maps \ {m} : MapOK(n)' /\ Unmoved(n)
  BY <1>1, OtherMaps DEF Owned
<1>4. ASSUME ~ Doing(m, "destroy"), o.kind # "destroy" PROVE ShownSpace'[m] = ShownSpace[m]
  <2>1. (m \in Standing)' = (m \in Standing)
    BY <1>1, <1>4 DEF Standing, Doing
  <2>2. \A a \in Addresses : Leads(tbl', root'[m], a) = Leads(tbl, root[m], a)
    OBVIOUS
  <2> QED BY <2>1, <2>2, ShownSame
<1> QED BY <1>1, <1>2, <1>3, <1>4 DEF MapsInv

LEMMA AddStep ==
  ASSUME MapsInv, ~ broken, NEW m \in Maps, NEW a \in Addresses, NEW f \in Frames,
         NEW overwrite \in BOOLEAN, Add(m, a, f, overwrite)
  PROVE  MapsInv' /\ Shows
<1>0. /\ TypeOK /\ MapOK(m) /\ status[m] = "live" /\ op[m] = Idle
      /\ UNCHANGED <<owner, tbl, status, root, broken>>
  BY DEF MapsInv, Add, Ready
<1>1. StandingOK(m) /\ TidyBut(m, {}) /\ m \in Standing
  BY <1>0 DEF MapOK, Standing, StandingOK, IdleOK, Doing, Idle
<1>2. PICK n \in 1 .. 4 :
        /\ Reaches(m, a, n)
        /\ op' = [op EXCEPT ![m] = [kind |-> "add", addr |-> a, frame |-> f, overwrite |-> overwrite,
                                    path |-> SubSeq(Path(m, a), 1, n), fresh |-> {}]]
  BY DEF Add, Begin, Adding
<1> DEFINE path == SubSeq(Path(m, a), 1, n)
           o == [kind |-> "add", addr |-> a, frame |-> f, overwrite |-> overwrite,
                 path |-> path, fresh |-> {}]
<1>3. /\ path \in Seq(Pages) /\ Len(path) = n
      /\ \A i \in 1 .. n : Path(m, a)[i] \in Pages /\ path[i] = Path(m, a)[i]
      /\ \A i \in 1 .. n - 1 : Path(m, a)[i + 1] = tbl[Path(m, a)[i]][a[i]]
  BY <1>1, <1>2, PrefixFacts DEF Reaches, StandingOK, Tree
<1>4. /\ Path(m, a)[1] = root[m]
      /\ n < 4 => Path(m, a)[n + 1] = tbl[Path(m, a)[n]][a[n]]
  <2>1. n < 4 => n \in 1 .. 3
    OBVIOUS
  <2>2. \A i \in 1 .. 3 : Path(m, a)[i + 1] = Follow(Path(m, a)[i], a[i])
    BY <1>1, PathFacts DEF StandingOK, Tree
  <2>3. Path(m, a)[1] = root[m]
    BY <1>1, PathFacts DEF StandingOK, Tree
  <2>4. n \in 1 .. n
    OBVIOUS
  <2> QED BY <1>3, <2>1, <2>2, <2>3, <2>4 DEF Follow
<1>p. /\ path[1] = root[m]
      /\ \A i \in 1 .. n - 1 : path[i + 1] = tbl[path[i]][a[i]]
      /\ n < 4 => tbl[path[n]][a[n]] = None
  <2>1. \A i \in 1 .. n - 1 : i \in 1 .. n /\ i + 1 \in 1 .. n
    OBVIOUS
  <2>2. 1 \in 1 .. n /\ n \in 1 .. n
    OBVIOUS
  <2> QED BY <1>2, <1>3, <1>4, <2>1, <2>2 DEF Reaches
<1> HIDE DEF path
<1>5. o \in Operations
  BY <1>3 DEF Operations
<1>6. /\ op'[m] = o /\ (MapOK(m)' => MapsInv')
      /\ ShownSpace'[m] = ShownSpace[m] /\ \A x \in Maps \ {m} : Unmoved(x)
  <2>1. op' = [op EXCEPT ![m] = o]
    BY <1>2 DEF path
  <2>2. ~ Doing(m, "destroy") /\ o.kind # "destroy"
    BY <1>0 DEF Doing, Idle
  <2> QED BY <1>0, <1>5, <2>1, <2>2, OwnStep
<1>7. /\ op'[m].kind = "add" /\ op'[m].path = path /\ op'[m].addr = a /\ op'[m].fresh = {}
  BY <1>6
<1>8. Walked(m)'
  BY <1>0, <1>3, <1>p, <1>7 DEF Walked
<1>9. Len(op'[m].path) < 4 => Entry(m)' = None
  BY <1>0, <1>3, <1>p, <1>7 DEF Entry, Here, Slot, Last
<1>10. Tree(m)' /\ TidyBut(m, {})'
  BY <1>0, <1>1 DEF StandingOK, Tree, TidyBut, Owned
<1>11. AddOK(m)'
  BY <1>7, <1>8, <1>9, <1>10 DEF AddOK
<1>12. StandingOK(m)'
  BY <1>7, <1>10, <1>11 DEF StandingOK, IdleOK, RollbackOK, RemoveOK, Doing
<1>13. Shows
  <2>1. ShownDoing[m] = Idle
    <3>1. op[m].kind = "idle"
      BY <1>0 DEF Idle
    <3> QED BY <3>1, ShownFacts
  <2>2. ShownDoing'[m] = [kind |-> "add", addr |-> a, frame |-> f, overwrite |-> overwrite]
    <3>1. ShownDoing'[m] = Asked(m)'
      BY <1>7, ShownFacts
    <3> QED BY <1>6, <3>1 DEF Asked
  <2> QED BY <1>6, <2>1, <2>2, ShownSteps
<1> QED BY <1>0, <1>6, <1>7, <1>12, <1>13 DEF MapOK, Doing

LEMMA MakeTableStep ==
  ASSUME MapsInv, ~ broken, NEW m \in Maps, MakeTable(m)
  PROVE  MapsInv' /\ Shows
<1>0. /\ TypeOK /\ owner[0] \notin Maps /\ (\A n \in Maps : MapOK(n)) /\ m \in Owners /\ m # "FREE"
      /\ Doing(m, "add") /\ Len(op[m].path) < 4 /\ UNCHANGED <<status, root, broken>>
  BY ValuesAssumption DEF MapsInv, Owners, MakeTable
<1>1. PICK p \in Pages : /\ Acquirable(p)
                         /\ owner' = [owner EXCEPT ![p] = m]
                         /\ tbl' = [tbl EXCEPT ![p] = Blank, ![Here(m)][Slot(m)] = p]
                         /\ Deeper(m, p)
  BY DEF MakeTable
<1>2. /\ p # 0 /\ owner[p] = "FREE" /\ owner' \in [Pages -> Owners] /\ owner'[0] = owner[0]
      /\ \A n \in Maps : /\ p \notin Owned(n)
                         /\ n # m => Owned(n)' = Owned(n)
                         /\ n = m => Owned(n)' = Owned(n) \union {p}
  BY <1>0, <1>1, AcquireFacts
<1> DEFINE k == Len(op[m].path)
           a == op[m].addr
           path == op[m].path
           q == Append(path, p)
           fresh == op[m].fresh \union {p}
           o == [kind |-> "add", addr |-> a, frame |-> op[m].frame,
                 overwrite |-> op[m].overwrite, path |-> q, fresh |-> fresh]
<1>3. /\ m \in Standing /\ StandingOK(m) /\ status[m] = "live"
  <2>1. status[m] = "live"
    BY <1>0 DEF MapOK, Doing, Idle
  <2> QED BY <2>1, <1>0 DEF MapOK, Standing, Doing
<1>4. /\ Tree(m) /\ Walked(m) /\ Entry(m) = None /\ op[m].fresh \subseteq Owned(m)
      /\ TidyBut(m, IF op[m].fresh = {} THEN {} ELSE {Here(m)})
  BY <1>0, <1>3 DEF StandingOK, AddOK
<1>5. /\ k \in 1 .. 3 /\ path \in Seq(Pages) /\ Here(m) = path[k] /\ Slot(m) = a[k]
      /\ Here(m) \in Inner(tbl, root[m]) \intersect Pages /\ Slot(m) \in Slots
  <2>1. Shape(tbl, root[m])
    BY <1>4 DEF Tree
  <2>2. Slot(m) = a[k]
    BY DEF Slot
  <2>3. k \in 1 .. 4 /\ k < 4
    BY <1>0, <1>4 DEF Walked
  <2>4. /\ path \in Seq(Pages) /\ Here(m) = path[Len(path)]
        /\ Slot(m) \in Slots /\ Here(m) \in Nodes(tbl, root[m]) \intersect Pages
        /\ Len(path) < 4 => Here(m) \in Inner(tbl, root[m])
    BY <1>0, <1>4, <2>1, WalkFacts
  <2>5. k \in 1 .. 3
    <3>1. \A i \in 1 .. 4 : i < 4 => i \in 1 .. 3
      OBVIOUS
    <3> HIDE DEF k
    <3> QED BY <2>3, <3>1
  <2> QED BY <2>2, <2>4, <2>5
<1>6. a \in Addresses /\ \A i \in 1 .. 4 : a[i] \in Slots
  BY <1>0, OpFacts, AddressFacts
<1>7. /\ p \in Pages /\ p # None /\ tbl \in Heaps
      /\ p \notin Nodes(tbl, root[m])
  <2>1. p \in Pages /\ p # None /\ tbl \in Heaps
    BY <1>0, ValuesAssumption DEF TypeOK, Heaps, Words
  <2> QED BY <1>2, <1>4, <2>1 DEF Tree
<1>8. p # Here(m)
  BY <1>5, <1>7 DEF Nodes
<1>9. /\ tbl' \in Heaps
      /\ \A s \in Slots : tbl'[p][s] = None
      /\ tbl'[Here(m)][Slot(m)] = p
      /\ \A u \in Pages \ {p} : \A x \in Slots : u # Here(m) \/ x # Slot(m) => tbl'[u][x] = tbl[u][x]
  <2> DEFINE g == [tbl EXCEPT ![p] = Blank]
             e == Here(m)
             s == Slot(m)
  <2>1. g \in Heaps /\ (\A x \in Slots : g[p][x] = None) /\ \A u \in Pages \ {p} : g[u] = tbl[u]
    BY <1>7, BlankFacts DEF Heaps
  <2>2. tbl' = [g EXCEPT ![e][s] = p]
    BY <1>1
  <2>3. p \in Words
    BY DEF Words
  <2>4. e \in Pages /\ s \in Slots /\ e # p
    BY <1>5, <1>8
  <2> HIDE DEF g, e, s
  <2>5. tbl' \in Heaps
    BY <2>1, <2>2, <2>3, <2>4 DEF Heaps
  <2>6. tbl'[e][s] = p /\ \A u \in Pages : \A x \in Slots : u # e \/ x # s => tbl'[u][x] = g[u][x]
    BY <2>1, <2>2, <2>3, <2>4 DEF Heaps
  <2>7. \A x \in Slots : tbl'[p][x] = None
    BY <1>7, <2>1, <2>4, <2>6
  <2>8. \A u \in Pages \ {p} : \A x \in Slots : u # e \/ x # s => tbl'[u][x] = tbl[u][x]
    BY <2>1, <2>6
  <2> QED BY <2>5, <2>6, <2>7, <2>8 DEF e, s
<1>10. /\ Shape(tbl', root[m]) /\ Nodes(tbl', root[m]) = Nodes(tbl, root[m]) \union {p}
       /\ Here(m) \in Inner(tbl', root[m])
  <2>1. Shape(tbl, root[m]) /\ tbl[Here(m)][Slot(m)] = None
    BY <1>4 DEF Tree, Entry
  <2> DEFINE h == tbl
             g == tbl'
             r == root[m]
             t == Here(m)
             s == Slot(m)
  <2>2. /\ Shape(h, r) /\ t \in Inner(h, r) /\ s \in Slots /\ h[t][s] = None
        /\ p \in Pages /\ p \notin Nodes(h, r) /\ (\A x \in Slots : g[p][x] = None) /\ g[t][s] = p
        /\ \A u \in Pages \ {p} : \A x \in Slots : u # t \/ x # s => g[u][x] = h[u][x]
    BY <2>1, <1>5, <1>7, <1>9
  <2> HIDE DEF h, g, r, t, s
  <2>3. Shape(g, r) /\ Nodes(g, r) = Nodes(h, r) \union {p} /\ Inner(h, r) \subseteq Inner(g, r)
    BY ONLY <2>2, Grow, SMTT(60)
  <2> QED BY <2>2, <2>3 DEF h, g, r, t, s
<1>11. /\ op' = [op EXCEPT ![m] = o] /\ op'[m] = o /\ o \in Operations
       /\ op'[m].kind = "add" /\ op'[m].path = q /\ op'[m].addr = a /\ op'[m].fresh = fresh
  <2>3. op' = [op EXCEPT ![m] = o]
    BY <1>1 DEF Deeper, Begin, Adding
  <2>4. q \in Seq(Pages) /\ fresh \in SUBSET Pages
    <3>1. op[m].fresh \in SUBSET Pages
      BY <1>0, OpFacts
    <3> QED BY <1>5, <1>7, <3>1
  <2>5. o \in Operations
    BY <1>0, <1>6, <2>4, OpFacts DEF Operations
  <2> QED BY <1>0, <2>3, <2>5 DEF TypeOK
<1>12. TypeOK'
  BY <1>0, <1>2, <1>9, <1>11 DEF TypeOK, Heaps, Words
<1>13. \A n \in Maps \ {m} : MapOK(n)' /\ Unmoved(n)
  <2>1. \A n \in Maps \ {m} : /\ op'[n] = op[n] /\ status'[n] = status[n] /\ root'[n] = root[n]
                              /\ Owned(n)' = Owned(n)
    BY <1>0, <1>2, <1>11 DEF TypeOK
  <2>2. \A t \in Pages : \/ owner[t] = "FREE"
                         \/ m \in Standing /\ t \in Nodes(tbl, root[m])
                         \/ \A s \in Slots : tbl'[t][s] = tbl[t][s]
    BY <1>2, <1>3, <1>5, <1>9 DEF Nodes
  <2> QED BY <1>0, <2>1, <2>2, OtherMaps
<1>14. MapOK(m)'
  <2>1. Len(q) = k + 1 /\ q[k + 1] = p /\ (\A i \in 1 .. k : q[i] = path[i]) /\ Len(q) \in 1 .. 4
    BY <1>5, SMTT(30)
  <2>2. Here(m)' = p /\ Slot(m)' = a[k + 1] /\ a[k + 1] \in Slots
    BY <1>5, <1>6, <1>11, <2>1 DEF Here, Last, Slot
  <2>3. Tree(m)'
    BY <1>0, <1>2, <1>4, <1>7, <1>10 DEF Tree
  <2>4. Walked(m)'
    <3>1. \A i \in 1 .. k - 1 : tbl'[path[i]][a[i]] = tbl[path[i]][a[i]]
      <4> SUFFICES ASSUME NEW i \in 1 .. k - 1 PROVE tbl'[path[i]][a[i]] = tbl[path[i]][a[i]]
        OBVIOUS
      <4>1. i \in 1 .. k /\ i + 1 \in 1 .. k /\ i \in 1 .. 4
        BY <1>5
      <4>2. path[i] \in Pages /\ path[i + 1] \in Pages /\ a[i] \in Slots
        BY <1>5, <1>6, <4>1
      <4>3. path[i + 1] = tbl[path[i]][a[i]]
        BY <1>4 DEF Walked
      <4>4. None \notin Pages
        BY ValuesAssumption
      <4>5. path[i] # Here(m) \/ a[i] # Slot(m)
        BY <1>4, <4>2, <4>3, <4>4 DEF Entry
      <4>6. path[i] # p
        <5>1. \A j \in 1 .. k : path[j] \in Nodes(tbl, root[m])
          <6>1. /\ k \in 1 .. 4 /\ path[1] = root[m]
                /\ \A j \in 1 .. k - 1 : path[j + 1] = tbl[path[j]][a[j]]
            BY <1>4 DEF Walked
          <6>2. Shape(tbl, root[m])
            BY <1>4 DEF Tree
          <6>3. a[1] \in Slots /\ a[2] \in Slots /\ a[3] \in Slots
            BY <1>6
          <6>4. \A j \in 1 .. k : path[j] \in Pages
            BY <1>5
          <6> HIDE DEF path, a, k
          <6> QED BY ONLY <6>1, <6>2, <6>3, <6>4, PathNodes
        <5> QED BY <1>7, <4>1, <5>1
      <4> QED BY <1>9, <4>2, <4>5, <4>6
    <3>2. tbl'[path[k]][a[k]] = p
      BY <1>5, <1>9
    <3>3. \A i \in 1 .. k : q[i + 1] = tbl'[q[i]][a[i]]
      <4>1. \A i \in 1 .. k : i = k \/ (i \in 1 .. k - 1 /\ i + 1 \in 1 .. k)
        <5>1. \A n \in 1 .. 3 : \A i \in 1 .. n : i = n \/ (i \in 1 .. n - 1 /\ i + 1 \in 1 .. n)
          OBVIOUS
        <5> QED BY <1>5, <5>1
      <4>2. \A i \in 1 .. k - 1 : path[i + 1] = tbl[path[i]][a[i]]
        BY <1>4 DEF Walked
      <4> QED BY <2>1, <3>1, <3>2, <4>1, <4>2
    <3>4. q[1] = root[m]
      BY <1>4, <1>5, <2>1 DEF Walked
    <3>5. Len(q) - 1 = k
      <4> HIDE DEF k, q
      <4> QED BY <1>5, <2>1
    <3>6. root'[m] = root[m]
      BY <1>0
    <3>7. Len(q) \in 1 .. 4 /\ \A i \in 1 .. Len(q) - 1 : q[i + 1] = tbl'[q[i]][a[i]]
      BY <2>1, <3>3, <3>5
    <3> HIDE DEF path, a, k, q
    <3> QED BY <1>11, <3>4, <3>6, <3>7 DEF Walked
  <2>5. Entry(m)' = None /\ HereEmpty(m)'
    BY <1>9, <2>2 DEF Entry, HereEmpty
  <2>6. TidyBut(m, {p})'
    <3> SUFFICES ASSUME NEW t \in Nodes(tbl, root[m]) \ {root[m]}, t # p,
                        \A s \in Slots : tbl'[t][s] = None
                 PROVE  FALSE
      BY <1>0, <1>10 DEF TidyBut
    <3>1. t # Here(m)
      BY <1>5, <1>7, <1>9
    <3>2. t \in Pages
      BY <1>4 DEF Nodes, Inner, Tree, Shape
    <3>3. \A s \in Slots : tbl[t][s] = None
      BY <1>9, <3>1, <3>2
    <3> QED BY <1>4, <3>1, <3>3 DEF TidyBut
  <2>7. fresh \subseteq Owned(m)' /\ fresh # {}
    BY <1>2, <1>4
  <2>8. AddOK(m)'
    BY <1>11, <2>2, <2>4, <2>5, <2>6, <2>7 DEF AddOK
  <2>9. StandingOK(m)'
    BY <1>11, <2>3, <2>8 DEF StandingOK, IdleOK, RollbackOK, RemoveOK, Doing
  <2> QED BY <1>0, <1>3, <1>11, <2>9 DEF MapOK, Doing
<1>15. Unmoved(m)
  <2>1. \A b \in Addresses : Leads(tbl', root[m], b) = Leads(tbl, root[m], b)
    <3>1. Here(m) \in Inner(tbl', root[m]) /\ p = tbl'[Here(m)][Slot(m)] /\ tbl[Here(m)][Slot(m)] = None
      BY <1>4, <1>9, <1>10 DEF Entry
    <3>2. \A u \in Pages \ {p} : \A x \in Slots : u # Here(m) \/ x # Slot(m) => tbl[u][x] = tbl'[u][x]
      BY <1>9
    <3> DEFINE h == tbl'
               g == tbl
               r == root[m]
               t == Here(m)
               s == Slot(m)
    <3>3. /\ Shape(h, r) /\ t \in Inner(h, r) /\ s \in Slots
          /\ p = h[t][s] /\ p # None /\ g[t][s] = None /\ (\A x \in Slots : h[p][x] = None)
          /\ \A u \in Pages \ {p} : \A x \in Slots : u # t \/ x # s => g[u][x] = h[u][x]
      BY <1>5, <1>7, <1>9, <1>10, <3>1, <3>2
    <3> HIDE DEF h, g, r, t, s
    <3>4. \A b \in Addresses : Leads(g, r, b) = Leads(h, r, b)
      BY ONLY <3>3, LeadsAround
    <3> QED BY <3>4 DEF h, g, r
  <2>2. (m \in Standing)' /\ root'[m] = root[m]
    BY <1>0, <1>3, <1>11 DEF Standing
  <2>3. ShownSpace'[m] = ShownSpace[m]
    BY <1>3, <2>1, <2>2, ShownSame
  <2>4. ShownDoing[m] = Asked(m)
    BY <1>0, ShownFacts DEF Doing
  <2>5. ShownDoing'[m] = Asked(m)'
    BY <1>11, ShownFacts DEF Doing
  <2>6. Asked(m)' = Asked(m)
    BY <1>11 DEF Asked
  <2> QED BY <2>3, <2>4, <2>5, <2>6 DEF Unmoved
<1>16. Shows
  BY <1>13, <1>15, ShownSteps
<1> QED BY <1>0, <1>2, <1>12, <1>13, <1>14, <1>16 DEF MapsInv

LEMMA UndoFacts ==
  ASSUME TypeOK, NEW m \in Maps, NEW tables \in SUBSET Pages, Undo(m, tables)
  PROVE  \E o \in Operations :
           /\ op' = [op EXCEPT ![m] = o]
           /\ tables = {} => o = Idle
           /\ tables # {} => o = [kind |-> "rollback", fresh |-> tables]
<1>1. Idle \in Operations /\ [kind |-> "rollback", fresh |-> tables] \in Operations
  BY DEF Operations
<1> QED BY <1>1 DEF Undo, Finish, Begin

LEMMA GiveUpStep ==
  ASSUME MapsInv, ~ broken, NEW m \in Maps, GiveUp(m)
  PROVE  MapsInv' /\ Shows
<1>0. /\ TypeOK /\ MapOK(m) /\ Doing(m, "add") /\ Undo(m, op[m].fresh)
      /\ UNCHANGED <<owner, tbl, status, root, broken>> /\ op[m].fresh \in SUBSET Pages
  BY OpFacts DEF MapsInv, GiveUp
<1>1. /\ m \in Standing /\ StandingOK(m) /\ status[m] = "live"
  <2>1. status[m] = "live"
    BY <1>0 DEF MapOK, Doing, Idle
  <2> QED BY <2>1, <1>0 DEF MapOK, Standing, Doing
<1>2. PICK o \in Operations :
           /\ op' = [op EXCEPT ![m] = o]
           /\ op[m].fresh = {} => o = Idle
           /\ op[m].fresh # {} => o = [kind |-> "rollback", fresh |-> op[m].fresh]
  BY <1>0, UndoFacts
<1>3. /\ op'[m] = o /\ (MapOK(m)' => MapsInv')
      /\ ShownSpace'[m] = ShownSpace[m] /\ \A n \in Maps \ {m} : Unmoved(n)
  <2>1. o.kind # "destroy" /\ ~ Doing(m, "destroy")
    BY <1>0, <1>2 DEF Idle, Doing
  <2> QED BY <1>0, <1>2, <2>1, OwnStep
<1>s. Shows
  <2>1. ShownDoing[m] = Asked(m) /\ Asked(m).kind = "add"
    BY <1>0, ShownFacts DEF Doing, Asked
  <2>2. CASE op'[m] = Idle
    <3>1. ShownDoing'[m] = Idle
      <4>1. op'[m].kind = "idle"
        BY <2>2 DEF Idle
      <4> QED BY <4>1, ShownFacts
    <3> QED BY <1>3, <2>1, <3>1, ShownSteps
  <2>3. CASE op'[m] = [kind |-> "rollback", fresh |-> op[m].fresh]
    <3>1. ShownDoing'[m] = Tidying
      <4>1. op'[m].kind = "rollback"
        BY <2>3
      <4> QED BY <4>1, ShownFacts
    <3> QED BY <1>3, <2>1, <3>1, ShownSteps
  <2> QED BY <1>2, <1>3, <2>2, <2>3
<1>4. Tree(m)' /\ Owned(m)' = Owned(m)
  BY <1>0, <1>1 DEF StandingOK, Tree, Owned
<1>5. CASE op[m].fresh = {}
  <2>1. op'[m] = Idle
    BY <1>2, <1>3, <1>5
  <2>2. TidyBut(m, {})
    BY <1>0, <1>1, <1>5 DEF StandingOK, AddOK
  <2>3. TidyBut(m, {})'
    BY <1>0, <2>2 DEF TidyBut
  <2>4. MapOK(m)'
    BY <1>0, <1>1, <1>4, <2>1, <2>3
       DEF MapOK, StandingOK, IdleOK, AddOK, RollbackOK, RemoveOK, Doing, Idle
  <2> QED BY <1>3, <1>s, <2>4
<1>6. CASE op[m].fresh # {}
  <2>1. op'[m] = [kind |-> "rollback", fresh |-> op[m].fresh]
    BY <1>2, <1>3, <1>6
  <2>2. op[m].fresh \subseteq Owned(m)'
    BY <1>0, <1>1, <1>4 DEF StandingOK, AddOK
  <2>3. op'[m].kind = "rollback" /\ op'[m].fresh = op[m].fresh
    BY <2>1
  <2>4. MapOK(m)'
    BY <1>0, <1>1, <1>4, <1>6, <2>2, <2>3
       DEF MapOK, StandingOK, IdleOK, AddOK, RollbackOK, RemoveOK, Doing
  <2> QED BY <1>3, <1>s, <2>4
<1> QED BY <1>5, <1>6

(* The first page given back is one that the tree still points at.          *)
LEMMA RollbackStep ==
  ASSUME MapsInv, ~ broken, NEW m \in Maps, Rollback(m)
  PROVE  MapsInv' /\ Shows /\ broken'
<1>0. /\ TypeOK /\ MapOK(m) /\ Doing(m, "rollback") /\ op[m].fresh \in SUBSET Pages
      /\ UNCHANGED <<tbl, status, root>> /\ broken' = (owner' # owner) /\ broken \in BOOLEAN
  BY OpFacts DEF MapsInv, Rollback, TypeOK
<1>1. /\ m \in Standing /\ StandingOK(m) /\ status[m] = "live"
  <2>1. status[m] = "live"
    BY <1>0 DEF MapOK, Doing, Idle
  <2> QED BY <2>1, <1>0 DEF MapOK, Standing, Doing
<1>2. PICK p \in op[m].fresh : owner' = Released(p) /\ Undo(m, op[m].fresh \ {p})
  BY DEF Rollback
<1>3. p \in Pages /\ owner[p] = m /\ owner \in [Pages -> Owners] /\ m # "FREE" /\ m # "OTHER"
  BY <1>0, <1>1, ValuesAssumption DEF StandingOK, RollbackOK, Owned, TypeOK
<1>4. PICK o \in Operations :
           /\ op' = [op EXCEPT ![m] = o]
           /\ op[m].fresh \ {p} = {} => o = Idle
           /\ op[m].fresh \ {p} # {} => o = [kind |-> "rollback", fresh |-> op[m].fresh \ {p}]
  BY <1>0, <1>2, UndoFacts
<1>s. Shows
  <2>1. /\ op'[m] = o /\ (o.kind = "idle" \/ o.kind = "rollback")
        /\ \A n \in Maps \ {m} : op'[n] = op[n]
    BY <1>0, <1>4 DEF TypeOK, Idle
  <2>2. \A n \in Maps \ {m} : Unmoved(n)
    <3>1. \A n \in Maps : n \in Standing => Shape(tbl, root[n])
      BY DEF MapsInv, MapOK, StandingOK, Tree
    <3> QED BY <1>0, <2>1, <3>1, Unseen
  <2>3. ShownSpace'[m] = ShownSpace[m]
    <3>1. (m \in Standing)'
      BY <1>0, <1>1, <2>1 DEF Standing
    <3>2. \A a \in Addresses : Leads(tbl', root'[m], a) = Leads(tbl, root[m], a)
      BY <1>0
    <3> QED BY <1>1, <3>1, <3>2, ShownSame
  <2>4. ShownDoing[m] = Tidying
    <3>1. op[m].kind = "rollback"
      BY <1>0 DEF Doing
    <3> QED BY <3>1, ShownFacts
  <2>5. CASE o.kind = "idle"
    <3>1. ShownDoing'[m] = Idle
      BY <2>1, <2>5, ShownFacts
    <3> QED BY <2>2, <2>3, <2>4, <3>1, ShownSteps
  <2>6. CASE o.kind = "rollback"
    <3>1. op'[m].kind = "rollback"
      BY <2>1, <2>6
    <3>2. ShownDoing'[m] = Tidying
      BY <3>1, ShownFacts
    <3>3. Unmoved(m)
      BY <2>3, <2>4, <3>2 DEF Unmoved
    <3> QED BY <2>2, <3>3, ShownSteps
  <2> QED BY <2>1, <2>5, <2>6
<1>5. owner' = [owner EXCEPT ![p] = "FREE"]
  BY <1>2, <1>3 DEF Released
<1>6. owner' # owner
  BY <1>3, <1>5
<1>7. owner' \in [Pages -> Owners] /\ owner'[0] \notin Maps
  <2>1. m \in Owners /\ owner'[0] \in {owner[0], "FREE"} /\ owner' \in [Pages -> Owners]
    BY <1>0, <1>3, <1>5, FreeFacts DEF Owners
  <2> QED BY <2>1, ValuesAssumption DEF MapsInv
<1>8. op' \in [Maps -> Operations] /\ broken' = TRUE
  BY <1>0, <1>4, <1>6 DEF TypeOK
<1> QED BY <1>0, <1>s, <1>7, <1>8 DEF MapsInv, TypeOK

-----------------------------------------------------------------------------
LEMMA PathDistinct ==
  ASSUME NEW h, NEW r, Shape(h, r), NEW path, NEW a,
         a[1] \in Slots, a[2] \in Slots, a[3] \in Slots,
         NEW n \in 1 .. 4, path[1] = r,
         \A i \in 1 .. n : path[i] \in Pages,
         \A i \in 1 .. n - 1 : path[i + 1] = h[path[i]][a[i]]
  PROVE  \A i \in 1 .. n - 1 : path[i] \in Inner(h, r) /\ path[i] # path[n]
<1>1. /\ n >= 2 => path[2] \in D1(h, r)
      /\ n >= 3 => path[3] \in D2(h, r)
      /\ n = 4 => path[4] \in D3(h, r)
  BY PathLevels
<1>2. /\ r \notin D1(h, r) \union D2(h, r) \union D3(h, r)
      /\ D1(h, r) \intersect D2(h, r) = {}
      /\ D1(h, r) \intersect D3(h, r) = {}
      /\ D2(h, r) \intersect D3(h, r) = {}
  BY LevelsApart DEF Shape
<1>3. n \in {1, 2, 3, 4} /\ \A i \in 1 .. n - 1 : i \in {1, 2, 3} /\ i < n
  OBVIOUS
<1> QED BY <1>1, <1>2, <1>3 DEF Inner

LEMMA EnterStep ==
  ASSUME MapsInv, ~ broken, NEW m \in Maps, Enter(m)
  PROVE  MapsInv' /\ Shows
<1>0. /\ TypeOK /\ owner[0] \notin Maps /\ (\A n \in Maps : MapOK(n)) /\ tbl \in Heaps
      /\ Doing(m, "add") /\ Len(op[m].path) = 4
      /\ UNCHANGED <<owner, status, root, broken>>
      /\ tbl' = [tbl EXCEPT ![Here(m)][Slot(m)] = op[m].frame]
      /\ op' = [op EXCEPT ![m] = Idle]
  BY DEF MapsInv, Enter, Finish, TypeOK, Heaps, Words
<1>1. /\ m \in Standing /\ StandingOK(m) /\ status[m] = "live"
  <2>1. status[m] = "live"
    BY <1>0 DEF MapOK, Doing, Idle
  <2> QED BY <2>1, <1>0 DEF MapOK, Standing, Doing
<1>2. /\ Tree(m) /\ Walked(m)
      /\ TidyBut(m, IF op[m].fresh = {} THEN {} ELSE {Here(m)})
  BY <1>0, <1>1 DEF StandingOK, AddOK
<1>3. Here(m) \in D3(tbl, root[m]) /\ Here(m) \in Pages /\ Slot(m) \in Slots
  BY <1>0, <1>2, WalkFacts DEF Tree
<1>4. op[m].frame \in Frames /\ op[m].frame \in Words /\ op[m].frame # None
  BY <1>0, OpFacts, ValuesAssumption DEF Words
<1>5. /\ tbl' \in Heaps /\ tbl'[Here(m)][Slot(m)] = op[m].frame
      /\ \A u \in Pages : \A x \in Slots : u # Here(m) \/ x # Slot(m) => tbl'[u][x] = tbl[u][x]
  <2> DEFINE t == Here(m)
             s == Slot(m)
             v == op[m].frame
  <2>1. t \in Pages /\ s \in Slots /\ v \in Words /\ tbl' = [tbl EXCEPT ![t][s] = v]
    BY <1>0, <1>3, <1>4
  <2> HIDE DEF t, s, v
  <2>2. /\ tbl' \in Heaps /\ tbl'[t][s] = v
        /\ \A u \in Pages : \A x \in Slots : u # t \/ x # s => tbl'[u][x] = tbl[u][x]
    <3>1. tbl \in Heaps
      BY <1>0
    <3> QED BY ONLY <2>1, <3>1 DEF Heaps
  <2> QED BY <2>2 DEF t, s, v
<1>6. Shape(tbl', root[m]) /\ Nodes(tbl', root[m]) = Nodes(tbl, root[m])
  BY <1>2, <1>3, <1>4, <1>5, KeepLeaf DEF Tree
<1>7. /\ Idle \in Operations /\ op'[m] = Idle /\ \A n \in Maps \ {m} : op'[n] = op[n]
  BY <1>0 DEF TypeOK, Operations
<1>8. TypeOK'
  BY <1>0, <1>5, <1>7 DEF TypeOK, Heaps, Words
<1>9. \A n \in Maps \ {m} : MapOK(n)' /\ Unmoved(n)
  <2>1. \A t \in Pages : \/ m \in Standing /\ t \in Nodes(tbl, root[m])
                         \/ \A s \in Slots : tbl'[t][s] = tbl[t][s]
    BY <1>1, <1>3, <1>5 DEF Nodes
  <2>2. \A n \in Maps \ {m} : Owned(n)' = Owned(n)
    BY <1>0 DEF Owned
  <2> QED BY <1>0, <1>7, <2>1, <2>2, OtherMaps
<1>10. Tree(m)'
  BY <1>0, <1>2, <1>6 DEF Tree, Owned
<1>11. TidyBut(m, {})'
  <2> SUFFICES ASSUME NEW t \in Nodes(tbl, root[m]) \ {root[m]},
                      \A s \in Slots : tbl'[t][s] = None
               PROVE  FALSE
    BY <1>0, <1>6 DEF TidyBut
  <2>1. t # Here(m)
    BY <1>3, <1>4, <1>5
  <2>2. t \in Pages
    BY <1>2 DEF Nodes, Inner, Tree, Shape
  <2>3. \A s \in Slots : tbl[t][s] = None
    BY <1>5, <2>1, <2>2
  <2> QED BY <1>2, <2>1, <2>3 DEF TidyBut
<1>12. MapOK(m)'
  BY <1>0, <1>1, <1>7, <1>10, <1>11
     DEF MapOK, StandingOK, IdleOK, AddOK, RollbackOK, RemoveOK, Doing, Idle
<1> DEFINE b == op[m].addr
           f == op[m].frame
<1>13. /\ b \in Addresses /\ f \in Frames /\ op[m].overwrite \in BOOLEAN
       /\ Here(m) = At4(tbl, root[m], b) /\ Slot(m) = b[4]
       /\ Leads(tbl, root[m], b) = Entry(m)
  <2>1. b \in Addresses /\ f \in Frames /\ op[m].overwrite \in BOOLEAN /\ op[m].path \in Seq(Pages)
    BY <1>0, OpFacts
  <2> DEFINE q == op[m].path
  <2>2. /\ Here(m) = q[4] /\ Slot(m) = b[4]
    BY <1>0, <2>1 DEF Here, Last, Slot
  <2>3. q[1] \in Pages /\ q[2] \in Pages /\ q[3] \in Pages /\ q[4] \in Pages
    BY <1>0, <2>1
  <2>4. q[1] = root[m] /\ q[2] = tbl[q[1]][b[1]] /\ q[3] = tbl[q[2]][b[2]] /\ q[4] = tbl[q[3]][b[3]]
    <3>1. 1 \in 1 .. 4 - 1 /\ 2 \in 1 .. 4 - 1 /\ 3 \in 1 .. 4 - 1
      OBVIOUS
    <3>2. \A i \in 1 .. 4 - 1 : q[i + 1] = tbl[q[i]][b[i]]
      BY <1>0, <1>2 DEF Walked
    <3>3. q[1] = root[m]
      BY <1>2 DEF Walked
    <3> HIDE DEF q, b
    <3>4. q[1 + 1] = tbl[q[1]][b[1]] /\ q[2 + 1] = tbl[q[2]][b[2]] /\ q[3 + 1] = tbl[q[3]][b[3]]
      BY ONLY <3>1, <3>2
    <3> QED BY ONLY <3>3, <3>4
  <2> HIDE DEF q
  <2>5. q[4] = At4(tbl, root[m], b)
    BY <2>3, <2>4 DEF At4, At3, At2, Down
  <2> QED BY <2>1, <2>2, <2>3, <2>5 DEF Leads, Down, Entry
<1> HIDE DEF b, f
<1>14. Shows
  <2>1. \A a \in Addresses : Leads(tbl', root[m], a) = IF a = b THEN f ELSE Leads(tbl, root[m], a)
    <3>1. Shape(tbl, root[m]) /\ At4(tbl, root[m], b) # None
      BY <1>2, <1>3, <1>13, ValuesAssumption DEF Tree
    <3>2. tbl'[At4(tbl, root[m], b)][b[4]] = f
      BY <1>5, <1>13 DEF f
    <3>3. \A u \in Pages : \A x \in Slots :
            u # At4(tbl, root[m], b) \/ x # b[4] => tbl'[u][x] = tbl[u][x]
      BY <1>5, <1>13
    <3> QED BY ONLY <1>13, <3>1, <3>2, <3>3, LeadsEntry
  <2>2. ShownSpace[m] = [a \in Addresses |-> Leads(tbl, root[m], a)]
    BY <1>1, ShownMaps
  <2>3. ShownSpace'[m] = [ShownSpace[m] EXCEPT ![b] = f]
    <3>1. (m \in Standing)'
      BY <1>0, <1>1, <1>7 DEF Standing, Idle
    <3>2. ShownSpace'[m] = [a \in Addresses |-> Leads(tbl', root'[m], a)]
      BY <3>1, ShownMaps
    <3>3. ShownSpace'[m] = [a \in Addresses |-> IF a = b THEN f ELSE Leads(tbl, root[m], a)]
      BY <1>0, <2>1, <3>2
    <3>4. b \in Addresses
      BY <1>13
    <3> QED BY ONLY <2>2, <3>3, <3>4
  <2>4. ShownDoing[m] = [kind |-> "add", addr |-> b, frame |-> f, overwrite |-> op[m].overwrite]
    <3>1. ShownDoing[m] = Asked(m)
      BY <1>0, ShownFacts DEF Doing
    <3> QED BY <3>1 DEF Asked, b, f
  <2>5. ShownDoing'[m] = Idle
    <3>1. op'[m].kind = "idle"
      BY <1>7 DEF Idle
    <3> QED BY <3>1, ShownFacts
  <2>6. ShownSpace[m][b] = None \/ op[m].overwrite
    BY <1>0, <1>13, <2>2 DEF Enter
  <2> QED BY <1>9, <1>13, <2>3, <2>4, <2>5, <2>6, ShownSteps
<1> QED BY <1>0, <1>8, <1>9, <1>12, <1>14 DEF MapsInv

-----------------------------------------------------------------------------
(* A remove goes on with a table that has become empty, and ends at one     *)
(* that has not.                                                            *)
LEMMA GoOnFacts ==
  ASSUME TypeOK, tbl' \in Heaps, NEW m \in Maps, NEW a \in Addresses, NEW path \in Seq(Pages),
         Len(path) \in 1 .. 4, GoOn(m, a, path)
  PROVE  \E o \in Operations :
           /\ op' = [op EXCEPT ![m] = o] /\ op'[m] = o
           /\ \A n \in Maps \ {m} : op'[n] = op[n]
           /\ \/ /\ o = Idle
                 /\ Len(path) = 1 \/ \E s \in Slots : tbl'[path[Len(path)]][s] # None
              \/ /\ o = [kind |-> "remove", addr |-> a, path |-> path]
                 /\ Len(path) >= 2 /\ \A s \in Slots : tbl'[path[Len(path)]][s] = None
<1>1. Idle \in Operations /\ [kind |-> "remove", addr |-> a, path |-> path] \in Operations
  BY DEF Operations
<1>2. Last(path) = path[Len(path)] /\ path[Len(path)] \in Pages
  BY DEF Last
<1>3. tbl'[path[Len(path)]] = Blank <=> \A s \in Slots : tbl'[path[Len(path)]][s] = None
  BY <1>2, BlankFacts DEF Heaps
<1>4. CASE Len(path) = 1 \/ tbl'[Last(path)] # Blank
  <2>1. op' = [op EXCEPT ![m] = Idle]
    BY <1>4 DEF GoOn, Finish
  <2> QED BY <1>1, <1>2, <1>3, <1>4, <2>1 DEF TypeOK
<1>5. CASE ~ (Len(path) = 1 \/ tbl'[Last(path)] # Blank)
  <2>1. op' = [op EXCEPT ![m] = [kind |-> "remove", addr |-> a, path |-> path]]
    BY <1>5 DEF GoOn, Begin
  <2>2. Len(path) >= 2
    <3>1. \A i \in 1 .. 4 : i = 1 \/ i >= 2
      OBVIOUS
    <3> QED BY <1>5, <3>1
  <2> QED BY <1>1, <1>2, <1>3, <1>5, <2>1, <2>2 DEF TypeOK
<1> QED BY <1>4, <1>5

LEMMA UnmapStep ==
  ASSUME MapsInv, ~ broken, NEW m \in Maps, NEW a \in Addresses, Unmap(m, a)
  PROVE  MapsInv' /\ Shows
<1> DEFINE path == Path(m, a)
           t == path[4]
<1>0. /\ TypeOK /\ owner[0] \notin Maps /\ (\A n \in Maps : MapOK(n)) /\ tbl \in Heaps
      /\ status[m] = "live" /\ op[m] = Idle /\ Translate(m, a) # None
      /\ UNCHANGED <<owner, status, root, broken>>
      /\ tbl' = [tbl EXCEPT ![Last(path)][a[4]] = None] /\ GoOn(m, a, path)
  BY DEF MapsInv, Unmap, Ready, TypeOK, Heaps, Words
<1>1. /\ m \in Standing /\ StandingOK(m) /\ Tree(m) /\ TidyBut(m, {}) /\ Shape(tbl, root[m])
  BY <1>0 DEF MapOK, Standing, StandingOK, IdleOK, Tree, Doing, Idle
<1>2. /\ Len(path) = 4 /\ Last(path) = t /\ t = At4(tbl, root[m], a)
      /\ path[1] = root[m] /\ path[4] \in D3(tbl, root[m]) \union {None}
  BY <1>1, PathFacts, TranslateLeads DEF Last
<1>3. path[4] # None
  BY <1>0, <1>2, ValuesAssumption DEF Translate, Follow
<1>4. /\ path = SubSeq(path, 1, 4) /\ path \in Seq(Pages)
      /\ \A i \in 1 .. 4 : path[i] \in Pages
      /\ \A i \in 1 .. 3 : path[i + 1] = tbl[path[i]][a[i]]
  <2>1. /\ SubSeq(path, 1, 4) \in Seq(Pages) /\ Len(SubSeq(path, 1, 4)) = 4
        /\ \A i \in 1 .. 4 : path[i] \in Pages /\ SubSeq(path, 1, 4)[i] = path[i]
        /\ \A i \in 1 .. 4 - 1 : path[i + 1] = tbl[path[i]][a[i]]
    BY <1>1, <1>3, PrefixFacts
  <2>2. path \in Seq(Pages \union {None})
    BY <1>1, <2>1 DEF Path
  <2>3. SubSeq(path, 1, 4) = path
    BY <1>2, <2>2
  <2>4. \A i \in 1 .. 3 : i \in 1 .. 4 - 1
    OBVIOUS
  <2>5. path \in Seq(Pages)
    BY <2>1, <2>3
  <2> HIDE DEF path
  <2> QED BY <2>1, <2>3, <2>4, <2>5
<1>5. t \in D3(tbl, root[m]) /\ t \in Pages /\ \A i \in 1 .. 4 : a[i] \in Slots
  BY <1>2, <1>3, <1>4, AddressFacts
<1>6. \A i \in 1 .. 3 : path[i] \in Pages /\ path[i] # t
  <2>1. a[1] \in Slots /\ a[2] \in Slots /\ a[3] \in Slots /\ 4 \in 1 .. 4 /\ 4 - 1 = 3
    BY <1>5
  <2> HIDE DEF path, t
  <2>2. \A i \in 1 .. 4 - 1 : path[i] \in Inner(tbl, root[m]) /\ path[i] # path[4]
    BY <1>1, <1>2, <1>4, <2>1, PathDistinct
  <2>3. \A i \in 1 .. 3 : i \in 1 .. 4 - 1 /\ i \in 1 .. 4
    OBVIOUS
  <2> QED BY <1>4, <2>2, <2>3 DEF t
<1> HIDE DEF path, t
<1>7. /\ tbl' \in Heaps /\ tbl'[t][a[4]] = None
      /\ \A u \in Pages : \A x \in Slots : u # t \/ x # a[4] => tbl'[u][x] = tbl[u][x]
  <2>1. tbl \in Heaps /\ t \in Pages /\ a[4] \in Slots /\ None \in Words
    BY <1>0, <1>5 DEF Words
  <2>2. tbl' = [tbl EXCEPT ![t][a[4]] = None]
    BY <1>0, <1>2
  <2> QED BY ONLY <2>1, <2>2 DEF Heaps
<1>8. Shape(tbl', root[m]) /\ Nodes(tbl', root[m]) = Nodes(tbl, root[m])
  <2> DEFINE s == a[4]
  <2>1. s \in Slots /\ tbl'[t][s] \in Frames \union {None}
    BY <1>5, <1>7
  <2>2. \A u \in Pages : \A x \in Slots : u # t \/ x # s => tbl'[u][x] = tbl[u][x]
    BY <1>7
  <2>3. t \in D3(tbl, root[m]) /\ Shape(tbl, root[m])
    BY <1>1, <1>5
  <2> HIDE DEF s
  <2>4. ASSUME NEW g, NEW r, Shape(tbl, r), t \in D3(tbl, r), g[t][s] \in Frames \union {None},
               \A u \in Pages : \A x \in Slots : u # t \/ x # s => g[u][x] = tbl[u][x]
        PROVE  Shape(g, r) /\ Nodes(g, r) = Nodes(tbl, r)
    BY ONLY <2>1, <2>4, KeepLeaf
  <2> QED BY ONLY <2>1, <2>2, <2>3, <2>4
<1>9. PICK o \in Operations :
           /\ op' = [op EXCEPT ![m] = o] /\ op'[m] = o
           /\ \A n \in Maps \ {m} : op'[n] = op[n]
           /\ \/ o = Idle /\ \E s \in Slots : tbl'[t][s] # None
              \/ /\ o = [kind |-> "remove", addr |-> a, path |-> path]
                 /\ \A s \in Slots : tbl'[t][s] = None
  <2>1. Len(path) \in 1 .. 4 /\ Len(path) # 1 /\ path[Len(path)] = t
    BY <1>2 DEF t
  <2>2. TypeOK /\ tbl' \in Heaps /\ path \in Seq(Pages) /\ GoOn(m, a, path)
    BY <1>0, <1>4, <1>7
  <2>3. \E o \in Operations :
           /\ op' = [op EXCEPT ![m] = o] /\ op'[m] = o
           /\ \A n \in Maps \ {m} : op'[n] = op[n]
           /\ \/ /\ o = Idle
                 /\ Len(path) = 1 \/ \E s \in Slots : tbl'[path[Len(path)]][s] # None
              \/ /\ o = [kind |-> "remove", addr |-> a, path |-> path]
                 /\ Len(path) >= 2 /\ \A s \in Slots : tbl'[path[Len(path)]][s] = None
    BY <2>1, <2>2, GoOnFacts
  <2> QED BY <2>1, <2>3
<1>10. TypeOK'
  BY <1>0, <1>7, <1>9 DEF TypeOK, Heaps, Words
<1>11. \A n \in Maps \ {m} : MapOK(n)' /\ Unmoved(n)
  <2>1. \A u \in Pages : \/ m \in Standing /\ u \in Nodes(tbl, root[m])
                         \/ \A s \in Slots : tbl'[u][s] = tbl[u][s]
    BY <1>1, <1>5, <1>7 DEF Nodes
  <2>2. \A n \in Maps \ {m} : Owned(n)' = Owned(n)
    BY <1>0 DEF Owned
  <2> QED BY <1>0, <1>9, <2>1, <2>2, OtherMaps
<1>12. Tree(m)'
  BY <1>0, <1>1, <1>8 DEF Tree, Owned
<1>13. \A u \in Nodes(tbl, root[m]) \ {root[m]} :
         (\A s \in Slots : tbl'[u][s] = None) => u = t
  <2> SUFFICES ASSUME NEW u \in Nodes(tbl, root[m]) \ {root[m]}, u # t,
                      \A s \in Slots : tbl'[u][s] = None
               PROVE  FALSE
    OBVIOUS
  <2>1. u \in Pages
    BY <1>1 DEF Nodes, Inner, Shape
  <2>2. \A s \in Slots : tbl[u][s] = None
    BY <1>7, <2>1
  <2> QED BY <1>1, <2>2 DEF TidyBut
<1>s. Shows
  <2>1. \A x \in Addresses : Leads(tbl', root[m], x) = IF x = a THEN None ELSE Leads(tbl, root[m], x)
    <3>1. Shape(tbl, root[m]) /\ At4(tbl, root[m], a) # None /\ tbl'[At4(tbl, root[m], a)][a[4]] = None
      BY <1>1, <1>2, <1>3, <1>7 DEF t
    <3>2. \A u \in Pages : \A x \in Slots :
            u # At4(tbl, root[m], a) \/ x # a[4] => tbl'[u][x] = tbl[u][x]
      BY <1>2, <1>7
    <3> QED BY ONLY a \in Addresses, <3>1, <3>2, LeadsEntry
  <2>2. ShownSpace[m] = [x \in Addresses |-> Leads(tbl, root[m], x)]
    BY <1>1, ShownMaps
  <2>3. ShownSpace'[m] = [ShownSpace[m] EXCEPT ![a] = None]
    <3>1. (m \in Standing)'
      BY <1>0, <1>1, <1>9 DEF Standing, Idle
    <3>2. ShownSpace'[m] = [x \in Addresses |-> Leads(tbl', root'[m], x)]
      BY <3>1, ShownMaps
    <3>3. ShownSpace'[m] = [x \in Addresses |-> IF x = a THEN None ELSE Leads(tbl, root[m], x)]
      BY <1>0, <2>1, <3>2
    <3> QED BY ONLY a \in Addresses, <2>2, <3>3
  <2>4. ShownDoing[m] = Idle
    <3>1. op[m].kind = "idle"
      BY <1>0 DEF Idle
    <3> QED BY <3>1, ShownFacts
  <2>5. ShownDoing'[m] \in {Idle, Tidying}
    <3>1. op'[m].kind \in {"idle", "remove"}
      BY <1>9 DEF Idle
    <3> QED BY <3>1, ShownFacts
  <2>6. ShownSpace[m][a] # None
    BY <1>0, <2>2, TranslateLeads
  <2> QED BY <1>11, <2>3, <2>4, <2>5, <2>6, ShownSteps
<1>14. CASE o = Idle /\ \E s \in Slots : tbl'[t][s] # None
  <2>1. TidyBut(m, {})'
    BY <1>0, <1>8, <1>13, <1>14 DEF TidyBut
  <2>2. MapOK(m)'
    BY <1>0, <1>1, <1>9, <1>12, <1>14, <2>1
       DEF MapOK, StandingOK, IdleOK, AddOK, RollbackOK, RemoveOK, Doing, Idle
  <2> QED BY <1>0, <1>10, <1>11, <1>s, <2>2 DEF MapsInv
<1>15. CASE o = [kind |-> "remove", addr |-> a, path |-> path] /\ \A s \in Slots : tbl'[t][s] = None
  <2>1. op'[m].kind = "remove" /\ op'[m].addr = a /\ op'[m].path = path
    BY <1>9, <1>15
  <2>2. Here(m)' = t
    BY <1>2, <2>1 DEF Here, Last, t
  <2>3. TidyBut(m, {Here(m)})' /\ HereEmpty(m)'
    <3>1. HereEmpty(m)'
      BY <1>15, <2>2 DEF HereEmpty
    <3>2. TidyBut(m, {Here(m)})'
      BY <1>0, <1>8, <1>13, <2>2 DEF TidyBut
    <3> QED BY <3>1, <3>2
  <2>4. \A i \in 1 .. 3 : path[i + 1] = tbl'[path[i]][a[i]]
    <3>1. \A i \in 1 .. 3 : i \in 1 .. 4
      OBVIOUS
    <3>2. \A i \in 1 .. 3 : tbl'[path[i]][a[i]] = tbl[path[i]][a[i]]
      BY <1>5, <1>6, <1>7, <3>1
    <3> QED BY <1>4, <3>2
  <2>5. Walked(m)'
    <3>1. Len(path) \in 1 .. 4 /\ Len(path) - 1 = 3 /\ path[1] = root'[m]
      BY <1>0, <1>2
    <3> QED BY <2>1, <2>4, <3>1 DEF Walked
  <2>6. RemoveOK(m)'
    <3>1. Len(path) >= 2
      BY <1>2
    <3> QED BY <2>1, <2>3, <2>5, <3>1 DEF RemoveOK
  <2>7. MapOK(m)'
    BY <1>0, <1>1, <1>12, <2>1, <2>6
       DEF MapOK, StandingOK, IdleOK, AddOK, RollbackOK, Doing
  <2> QED BY <1>0, <1>10, <1>11, <1>s, <2>7 DEF MapsInv
<1> QED BY <1>9, <1>14, <1>15

LEMMA FrontFacts ==
  ASSUME NEW s \in Seq(Pages), Len(s) >= 1
  PROVE  /\ Front(s) \in Seq(Pages) /\ Len(Front(s)) = Len(s) - 1
         /\ \A i \in 1 .. Len(s) - 1 : Front(s)[i] = s[i]
<1>1. \A n \in 0 .. Len(s) :
        /\ SubSeq(s, 1, n) \in Seq(Pages) /\ Len(SubSeq(s, 1, n)) = n
        /\ \A i \in 1 .. n : SubSeq(s, 1, n)[i] = s[i]
  OBVIOUS
<1>2. Len(s) - 1 \in 0 .. Len(s)
  <2>1. Len(s) \in Nat
    OBVIOUS
  <2> QED BY <2>1
<1> QED BY <1>1, <1>2 DEF Front

LEMMA PruneStep ==
  ASSUME MapsInv, ~ broken, NEW m \in Maps, Prune(m)
  PROVE  MapsInv' /\ Shows
<1> DEFINE path == op[m].path
           a == op[m].addr
           k == Len(op[m].path)
           up == Front(op[m].path)
           c == Here(m)
<1>0. /\ TypeOK /\ owner[0] \notin Maps /\ (\A n \in Maps : MapOK(n)) /\ tbl \in Heaps
      /\ Doing(m, "remove") /\ UNCHANGED <<status, root, broken>>
      /\ tbl' = [tbl EXCEPT ![Last(up)][a[Len(up)]] = None] /\ GoOn(m, a, up)
      /\ owner' = ReleasedBy(c, m)
  BY DEF MapsInv, Prune, TypeOK, Heaps, Words
<1>1. /\ m \in Standing /\ StandingOK(m) /\ status[m] = "live"
  <2>1. status[m] = "live"
    BY <1>0 DEF MapOK, Doing, Idle
  <2> QED BY <2>1, <1>0 DEF MapOK, Standing, Doing
<1>2. /\ Tree(m) /\ Walked(m) /\ HereEmpty(m) /\ TidyBut(m, {c}) /\ k >= 2
      /\ Shape(tbl, root[m])
  BY <1>0, <1>1 DEF StandingOK, RemoveOK, Tree
<1>3. /\ k \in 2 .. 4 /\ path \in Seq(Pages) /\ c = path[k] /\ c \in Pages
      /\ path[k - 1] \in Inner(tbl, root[m]) /\ path[k - 1] \in Pages
      /\ c # root[m] /\ c \in Nodes(tbl, root[m])
  <2>1. /\ k \in 1 .. 4 /\ path \in Seq(Pages) /\ c = path[k] /\ c \in Pages
        /\ k >= 2 => path[k - 1] \in Inner(tbl, root[m]) \intersect Pages /\ c # root[m]
        /\ c \in Nodes(tbl, root[m])
    BY <1>0, <1>2, WalkFacts
  <2>2. \A i \in 1 .. 4 : i >= 2 => i \in 2 .. 4
    OBVIOUS
  <2> QED BY <1>2, <2>1, <2>2
<1>4. a \in Addresses /\ \A i \in 1 .. 4 : a[i] \in Slots
  BY <1>0, OpFacts, AddressFacts
<1>5. /\ path[1] = root[m] /\ (\A i \in 1 .. k : path[i] \in Pages)
      /\ \A i \in 1 .. k - 1 : path[i + 1] = tbl[path[i]][a[i]]
  <2>1. path \in Seq(Pages)
    BY <1>3
  <2>2. \A i \in 1 .. Len(path) : path[i] \in Pages
    <3> HIDE DEF path
    <3> QED BY <2>1
  <2> QED BY <1>2, <2>2 DEF Walked
<1>6. /\ up \in Seq(Pages) /\ Len(up) = k - 1 /\ \A i \in 1 .. k - 1 : up[i] = path[i]
  <2> HIDE DEF path, k
  <2>1. k \in Nat /\ k >= 1
    BY <1>3
  <2> QED BY <1>3, <2>1, FrontFacts DEF path, k
<1>7. Last(up) = path[k - 1] /\ k - 1 \in 1 .. 4 /\ k - 1 \in 1 .. k - 1 /\ k - 1 \in 1 .. 3
  <2>1. k - 1 \in 1 .. 4 /\ k - 1 \in 1 .. k - 1 /\ k - 1 \in 1 .. 3
    <3> HIDE DEF k
    <3> QED BY <1>3
  <2> QED BY <1>6, <2>1 DEF Last
<1>8. \A i \in 1 .. k - 2 : path[i] \in Pages /\ a[i] \in Slots /\ path[i] # path[k - 1]
  <2>1. /\ \A i \in 1 .. k - 1 : path[i] \in Pages
        /\ \A i \in 1 .. (k - 1) - 1 : path[i + 1] = tbl[path[i]][a[i]]
        /\ a[1] \in Slots /\ a[2] \in Slots /\ a[3] \in Slots
    BY <1>3, <1>4, <1>5
  <2>2. \A i \in 1 .. k - 2 : i \in 1 .. (k - 1) - 1 /\ i \in 1 .. k - 1 /\ i \in 1 .. 4
    <3> HIDE DEF k
    <3> QED BY <1>3
  <2> HIDE DEF path, a, k
  <2>3. \A i \in 1 .. (k - 1) - 1 : path[i] \in Inner(tbl, root[m]) /\ path[i] # path[k - 1]
    BY <1>2, <1>5, <1>7, <2>1, PathDistinct
  <2> QED BY <1>4, <2>1, <2>2, <2>3
<1> DEFINE t == path[k - 1]
           s == a[k - 1]
<1>9. t \in Inner(tbl, root[m]) /\ t \in Pages /\ s \in Slots /\ c = tbl[t][s] /\ c # None
  <2>1. k - 1 \in 1 .. k - 1 /\ (k - 1) + 1 = k
    <3> HIDE DEF k
    <3> QED BY <1>3
  <2>2. None \notin Pages
    BY ValuesAssumption
  <2> QED BY <1>3, <1>4, <1>5, <1>7, <2>1, <2>2
<1>10. tbl' = [tbl EXCEPT ![t][s] = None]
  BY <1>0, <1>6, <1>7
<1> HIDE DEF path, a, k, up, c, t, s
<1>11. /\ tbl' \in Heaps /\ tbl'[t][s] = None
       /\ \A u \in Pages : \A x \in Slots : u # t \/ x # s => tbl'[u][x] = tbl[u][x]
  <2>1. tbl \in Heaps /\ None \in Words
    BY <1>0 DEF Words
  <2> QED BY ONLY <1>9, <1>10, <2>1 DEF Heaps
<1>12. Shape(tbl', root[m]) /\ Nodes(tbl', root[m]) = Nodes(tbl, root[m]) \ {c}
  <2>1. \A x \in Slots : tbl[c][x] = None
    BY <1>2 DEF HereEmpty, c
  <2> QED BY ONLY <1>2, <1>9, <1>11, <2>1, Shrink
<1>13. /\ c \in Pages /\ owner[c] = m /\ owner' = [owner EXCEPT ![c] = "FREE"]
  <2>1. c \in Pages
    BY <1>2, <1>3, ValuesAssumption DEF Shape, Nodes, Inner
  <2>2. owner[c] = m
    BY <1>2, <1>3, <2>1 DEF Tree, Owned
  <2> QED BY <1>0, <2>1, <2>2 DEF ReleasedBy
<1>14. /\ owner' \in [Pages -> Owners] /\ owner'[0] \notin Maps
       /\ \A n \in Maps \ {m} : Owned(n)' = Owned(n)
       /\ Owned(m)' = Owned(m) \ {c}
  <2>1. m \in Owners /\ m # "FREE" /\ "FREE" \notin Maps
    BY ValuesAssumption DEF Owners
  <2>2. owner' # owner
    BY <1>0, <1>13, <2>1 DEF TypeOK
  <2>3. /\ owner' \in [Pages -> Owners] /\ owner'[0] \in {owner[0], "FREE"}
        /\ \A n \in Maps : /\ n # m => Owned(n)' = Owned(n)
                           /\ owner' # owner => Owned(n)' = Owned(n) \ {c}
    BY <1>0, <1>13, <2>1, FreeFacts
  <2> QED BY <1>0, <2>1, <2>2, <2>3
<1>15. up[Len(up)] = t /\ Len(up) \in 1 .. 3
  BY <1>6, <1>7 DEF t
<1>16. PICK o \in Operations :
           /\ op' = [op EXCEPT ![m] = o] /\ op'[m] = o
           /\ \A n \in Maps \ {m} : op'[n] = op[n]
           /\ \/ /\ o = Idle
                 /\ Len(up) = 1 \/ \E x \in Slots : tbl'[t][x] # None
              \/ /\ o = [kind |-> "remove", addr |-> a, path |-> up]
                 /\ Len(up) >= 2 /\ \A x \in Slots : tbl'[t][x] = None
  <2>1. Len(up) \in 1 .. 4 /\ TypeOK /\ GoOn(m, a, up)
    BY <1>0, <1>6, <1>7
  <2>2. \E o \in Operations :
           /\ op' = [op EXCEPT ![m] = o] /\ op'[m] = o
           /\ \A n \in Maps \ {m} : op'[n] = op[n]
           /\ \/ /\ o = Idle
                 /\ Len(up) = 1 \/ \E x \in Slots : tbl'[up[Len(up)]][x] # None
              \/ /\ o = [kind |-> "remove", addr |-> a, path |-> up]
                 /\ Len(up) >= 2 /\ \A x \in Slots : tbl'[up[Len(up)]][x] = None
    BY <1>4, <1>6, <1>11, <2>1, GoOnFacts
  <2> QED BY <1>15, <2>2
<1>17. TypeOK'
  BY <1>0, <1>11, <1>14, <1>16 DEF TypeOK, Heaps, Words
<1>18. \A n \in Maps \ {m} : MapOK(n)' /\ Unmoved(n)
  <2>1. \A u \in Pages : \/ m \in Standing /\ u \in Nodes(tbl, root[m])
                         \/ \A x \in Slots : tbl'[u][x] = tbl[u][x]
    BY <1>1, <1>9, <1>11 DEF Nodes
  <2>2. \A n \in Maps \ {m} : op'[n] = op[n] /\ status'[n] = status[n] /\ root'[n] = root[n]
    BY <1>0, <1>16
  <2> QED BY ONLY <1>0, <1>14, <2>1, <2>2, OtherMaps
<1>19. Tree(m)'
  BY <1>0, <1>2, <1>12, <1>14 DEF Tree
<1>20. \A u \in Nodes(tbl', root[m]) \ {root[m]} :
         (\A x \in Slots : tbl'[u][x] = None) => u = t
  <2> SUFFICES ASSUME NEW u \in Nodes(tbl, root[m]) \ {root[m]}, u # c, u # t,
                      \A x \in Slots : tbl'[u][x] = None
               PROVE  FALSE
    BY <1>12
  <2>1. u \in Pages
    BY <1>2 DEF Nodes, Inner, Shape
  <2>2. \A x \in Slots : tbl[u][x] = None
    BY <1>11, <2>1
  <2> QED BY <1>2, <2>2 DEF TidyBut
<1>s. Shows
  <2>1. \A b \in Addresses : Leads(tbl', root[m], b) = Leads(tbl, root[m], b)
    <3>1. \A x \in Slots : tbl[c][x] = None
      BY <1>2 DEF HereEmpty, c
    <3>2. \A u \in Pages \ {c} : \A x \in Slots : u # t \/ x # s => tbl'[u][x] = tbl[u][x]
      BY <1>11
    <3> QED BY ONLY <1>2, <1>9, <1>11, <3>1, <3>2, LeadsAround
  <2>2. ShownSpace'[m] = ShownSpace[m]
    <3>1. (m \in Standing)' /\ root'[m] = root[m]
      BY <1>0, <1>1, <1>16 DEF Standing, Idle
    <3> QED BY <1>1, <2>1, <3>1, ShownSame
  <2>3. ShownDoing[m] = Tidying
    <3>1. op[m].kind = "remove"
      BY <1>0 DEF Doing
    <3> QED BY <3>1, ShownFacts
  <2>4. CASE op'[m].kind = "idle"
    <3>1. ShownDoing'[m] = Idle
      BY <2>4, ShownFacts
    <3> QED BY <1>18, <2>2, <2>3, <3>1, ShownSteps
  <2>5. CASE op'[m].kind = "remove"
    <3>1. Unmoved(m)
      BY <2>2, <2>3, <2>5, ShownFacts DEF Unmoved
    <3> QED BY <1>18, <3>1, ShownSteps
  <2>6. op'[m].kind = "idle" \/ op'[m].kind = "remove"
    BY <1>16 DEF Idle
  <2> QED BY <2>4, <2>5, <2>6
<1>21. CASE o = Idle /\ (Len(up) = 1 \/ \E x \in Slots : tbl'[t][x] # None)
  <2>1. Len(up) = 1 => t = root[m]
    BY <1>5, <1>6, <1>7 DEF t
  <2>2. TidyBut(m, {})'
    BY <1>0, <1>20, <1>21, <2>1 DEF TidyBut
  <2>3. MapOK(m)'
    BY <1>0, <1>1, <1>16, <1>19, <1>21, <2>2
       DEF MapOK, StandingOK, IdleOK, AddOK, RollbackOK, RemoveOK, Doing, Idle
  <2> QED BY <1>0, <1>14, <1>17, <1>18, <1>s, <2>3 DEF MapsInv
<1>22. CASE /\ o = [kind |-> "remove", addr |-> a, path |-> up]
            /\ Len(up) >= 2 /\ \A x \in Slots : tbl'[t][x] = None
  <2>1. op'[m].kind = "remove" /\ op'[m].addr = a /\ op'[m].path = up
    BY <1>16, <1>22
  <2>2. Here(m)' = t
    BY <1>15, <2>1 DEF Here, Last
  <2>3. HereEmpty(m)'
    BY <1>22, <2>2 DEF HereEmpty
  <2>4. TidyBut(m, {Here(m)})'
    BY <1>0, <1>20, <2>2 DEF TidyBut
  <2>5. \A i \in 1 .. k - 2 : up[i + 1] = tbl'[up[i]][a[i]]
    <3>1. \A i \in 1 .. k - 2 : i \in 1 .. k - 1 /\ i + 1 \in 1 .. k - 1
      BY <1>7
    <3>2. \A i \in 1 .. k - 2 : tbl'[path[i]][a[i]] = tbl[path[i]][a[i]]
      BY <1>8, <1>11 DEF t
    <3> QED BY <1>5, <1>6, <3>1, <3>2
  <2>6. Walked(m)'
    <3>1. Len(up) \in 1 .. 4 /\ Len(up) - 1 = k - 2 /\ up[1] = root'[m]
      <4>1. 1 \in 1 .. k - 1 /\ (k - 1) - 1 = k - 2
        BY <1>7
      <4> QED BY <1>0, <1>5, <1>6, <1>7, <4>1
    <3> QED BY <2>1, <2>5, <3>1 DEF Walked
  <2>7. RemoveOK(m)'
    BY <1>22, <2>1, <2>3, <2>4, <2>6 DEF RemoveOK
  <2>8. MapOK(m)'
    BY <1>0, <1>1, <1>19, <2>1, <2>7
       DEF MapOK, StandingOK, IdleOK, AddOK, RollbackOK, Doing
  <2> QED BY <1>0, <1>14, <1>17, <1>18, <1>s, <2>8 DEF MapsInv
<1> QED BY <1>16, <1>21, <1>22

-----------------------------------------------------------------------------
LEMMA TreeDefs ==
  ASSUME NEW m
  PROVE  /\ PDPTs(m) = D1(tbl, root[m]) /\ PDTs(m) = D2(tbl, root[m])
         /\ PTs(m) = D3(tbl, root[m]) /\ TablesOf(m) = Nodes(tbl, root[m])
         /\ EntriesOf(PTs(m)) = Ent(tbl, D3(tbl, root[m]))
<1>1. \A T : EntriesOf(T) = Ent(tbl, T)
  BY DEF EntriesOf, Ent
<1>2. PDPTs(m) = D1(tbl, root[m])
  BY <1>1 DEF PDPTs, D1
<1>3. PDTs(m) = D2(tbl, root[m])
  BY <1>1, <1>2 DEF PDTs, D2
<1>4. PTs(m) = D3(tbl, root[m])
  BY <1>1, <1>3 DEF PTs, D3
<1> QED BY <1>1, <1>2, <1>3, <1>4 DEF TablesOf, Nodes, Inner

LEMMA DestroyStep ==
  ASSUME MapsInv, ~ broken, NEW m \in Maps, Destroy(m)
  PROVE  MapsInv' /\ Shows
<1> DEFINE o == [kind |-> "destroy", doomed |-> PTs(m) \union PDTs(m) \union {0}]
<1>0. /\ TypeOK /\ owner[0] \notin Maps /\ (\A n \in Maps : MapOK(n)) /\ tbl \in Heaps
      /\ status[m] = "live" /\ op[m] = Idle
      /\ UNCHANGED <<owner, status, root, broken>>
      /\ tbl' = [t \in Pages |-> IF t \in TablesOf(m) THEN Blank ELSE tbl[t]]
      /\ op' = [op EXCEPT ![m] = o]
  BY DEF MapsInv, Destroy, Ready, Begin, TypeOK, Heaps, Words
<1>1. m \in Standing /\ Tree(m) /\ Shape(tbl, root[m])
  BY <1>0 DEF MapOK, StandingOK, Standing, Tree, Doing, Idle
<1>2. PTs(m) \union PDTs(m) \subseteq Owned(m) /\ PTs(m) \union PDTs(m) \subseteq Pages /\ 0 \in Pages
  <2>1. PTs(m) \union PDTs(m) \subseteq Pages /\ 0 \in Pages
    BY <1>1, TreeDefs, MapsAssumption DEF Shape, Pages
  <2> QED BY <1>1, <2>1, TreeDefs DEF Tree, Nodes, Inner
<1>3. o \in Operations
  BY <1>2 DEF Operations
<1>4. op'[m] = o /\ \A n \in Maps \ {m} : op'[n] = op[n]
  BY <1>0 DEF TypeOK
<1>5. tbl' \in Heaps /\ \A t \in Pages : t \notin Nodes(tbl, root[m]) => tbl'[t] = tbl[t]
  BY <1>0, BlankFacts, TreeDefs DEF Heaps
<1>6. TypeOK'
  BY <1>0, <1>3, <1>5 DEF TypeOK, Heaps, Words
<1>7. \A n \in Maps \ {m} : MapOK(n)' /\ Unmoved(n)
  <2>1. \A t \in Pages : \/ m \in Standing /\ t \in Nodes(tbl, root[m])
                         \/ \A s \in Slots : tbl'[t][s] = tbl[t][s]
    BY <1>1, <1>5
  <2>2. \A n \in Maps \ {m} : /\ op'[n] = op[n] /\ status'[n] = status[n] /\ root'[n] = root[n]
                              /\ Owned(n)' = Owned(n)
    BY <1>0, <1>4 DEF Owned
  <2> QED BY ONLY <1>0, <2>1, <2>2, OtherMaps
<1>8. MapOK(m)'
  <2>1. op'[m].kind = "destroy" /\ op'[m].doomed \subseteq {0} \union Owned(m)'
    BY <1>0, <1>2, <1>4 DEF Owned
  <2> QED BY <1>0, <2>1 DEF MapOK, Standing, Doing
<1>9. Shows
  <2>1. op[m].kind = "idle" /\ op'[m].kind = "destroy"
    BY <1>0, <1>4 DEF Idle
  <2>2. ~ (m \in Standing)'
    BY <2>1 DEF Standing
  <2>3. ShownSpace'[m] = [a \in Addresses |-> None]
    BY <2>2, ShownMaps
  <2>4. ShownDoing[m] = Idle /\ ShownDoing'[m] = Tidying
    BY <2>1, ShownFacts
  <2> QED BY <1>7, <2>3, <2>4, ShownSteps
<1> QED BY <1>0, <1>6, <1>7, <1>8, <1>9 DEF MapsInv

LEMMA ReleasedFacts ==
  ASSUME TypeOK, owner[0] \notin Maps, NEW p, owner' = Released(p)
  PROVE  /\ owner' \in [Pages -> Owners] /\ owner'[0] \notin Maps
         /\ \A n \in Maps : /\ Owned(n) \ {p} \subseteq Owned(n)'
                            /\ p \notin Owned(n) => Owned(n)' = Owned(n)
<1>1. 0 \in Pages /\ owner \in [Pages -> Owners] /\ "FREE" \in Owners /\ "FREE" \notin Maps
  BY MapsAssumption, ValuesAssumption DEF Pages, TypeOK, Owners
<1>2. CASE p \in Pages /\ owner[p] \in Maps \union {"OTHER"}
  <2>1. owner' = [owner EXCEPT ![p] = "FREE"]
    BY <1>2 DEF Released
  <2> QED BY <1>1, <1>2, <2>1 DEF Owned
<1>3. CASE ~ (p \in Pages /\ owner[p] \in Maps \union {"OTHER"})
  <2>1. owner' = owner
    BY <1>3 DEF Released
  <2> QED BY <1>1, <2>1 DEF Owned
<1> QED BY <1>2, <1>3

LEMMA DestroyOneStep ==
  ASSUME MapsInv, ~ broken, NEW m \in Maps, DestroyOne(m)
  PROVE  MapsInv' /\ Shows
<1>0. /\ TypeOK /\ owner[0] \notin Maps /\ (\A n \in Maps : MapOK(n))
      /\ Doing(m, "destroy") /\ UNCHANGED <<tbl, status, root, broken>>
      /\ op[m].doomed \in SUBSET Pages /\ op[m] = [kind |-> "destroy", doomed |-> op[m].doomed]
  BY OpFacts DEF MapsInv, DestroyOne
<1>1. PICK p \in op[m].doomed : /\ owner' = Released(p)
                                /\ Begin(m, [op[m] EXCEPT !.doomed = @ \ {p}])
  BY DEF DestroyOne
<1>2. status[m] = "live" /\ op[m].doomed \subseteq {0} \union Owned(m)
  <2>1. op[m] # Idle
    BY <1>0 DEF Doing, Idle
  <2> QED BY <1>0, <2>1 DEF MapOK
<1> DEFINE o == [kind |-> "destroy", doomed |-> op[m].doomed \ {p}]
<1>3. op' = [op EXCEPT ![m] = o]
  <2>1. [op[m] EXCEPT !.doomed = op[m].doomed \ {p}] = o
    BY <1>0
  <2> QED BY <1>1, <2>1 DEF Begin
<1>4. o \in Operations /\ op'[m] = o /\ \A n \in Maps \ {m} : op'[n] = op[n]
  BY <1>0, <1>3 DEF Operations, TypeOK
<1>5. /\ owner' \in [Pages -> Owners] /\ owner'[0] \notin Maps
      /\ \A n \in Maps : /\ Owned(n) \ {p} \subseteq Owned(n)'
                         /\ p \notin Owned(n) => Owned(n)' = Owned(n)
  BY <1>0, <1>1, ReleasedFacts
<1>6. \A n \in Maps \ {m} : Owned(n)' = Owned(n)
  BY <1>0, <1>1, <1>2, <1>5 DEF Owned
<1>7. TypeOK'
  BY <1>0, <1>3, <1>4, <1>5 DEF TypeOK
<1>8. \A n \in Maps \ {m} : MapOK(n)' /\ Unmoved(n)
  BY <1>0, <1>4, <1>6, OtherMaps
<1>9. MapOK(m)'
  <2>1. op'[m].kind = "destroy" /\ op'[m].doomed = op[m].doomed \ {p}
    BY <1>4
  <2>2. op[m].doomed \ {p} \subseteq {0} \union Owned(m)'
    BY <1>2, <1>5
  <2> QED BY <1>0, <1>2, <2>1, <2>2 DEF MapOK, Standing, Doing
<1>10. Unmoved(m)
  <2>1. op[m].kind = "destroy" /\ op'[m].kind = "destroy"
    BY <1>0, <1>4 DEF Doing
  <2>2. m \notin Standing /\ ~ (m \in Standing)'
    BY <2>1 DEF Standing
  <2>3. ShownSpace'[m] = ShownSpace[m]
    BY <2>2, ShownMaps
  <2> QED BY <2>1, <2>3, ShownFacts DEF Unmoved
<1>11. Shows
  BY <1>8, <1>10, ShownSteps
<1> QED BY <1>0, <1>5, <1>7, <1>8, <1>9, <1>11 DEF MapsInv

LEMMA DestroyedStep ==
  ASSUME MapsInv, NEW m \in Maps, Destroyed(m)
  PROVE  MapsInv' /\ Shows
<1>0. broken' = TRUE /\ UNCHANGED <<owner, tbl, status, root, op>> /\ TypeOK /\ owner[0] \notin Maps
  BY DEF MapsInv, Destroyed
<1>1. TypeOK'
  BY <1>0 DEF TypeOK
<1>2. Shows
  <2>1. ShownSpace' = ShownSpace /\ ShownDoing' = ShownDoing
    BY <1>0 DEF ShownSpace, ShownDoing, Standing, Translate, Path, Follow, Doing, Asked
  <2> QED BY <2>1, NothingShown DEF Unmoved
<1> QED BY <1>0, <1>1, <1>2 DEF MapsInv

-----------------------------------------------------------------------------
LEMMA InitInv == Init => MapsInv
<1> SUFFICES ASSUME Init PROVE MapsInv
  OBVIOUS
<1>0. /\ 0 \in Pages /\ {"FREE", "RESERVED", "OTHER"} \intersect Maps = {}
  BY MapsAssumption, ValuesAssumption DEF Pages
<1>1. PICK o \in {"FREE", "RESERVED", "OTHER"} :
        owner = [p \in Pages |-> IF p = 0 THEN o
                                 ELSE IF p \in Reserved THEN "RESERVED" ELSE "FREE"]
  BY DEF Init
<1>2. /\ tbl = [t \in Pages |-> Blank]
      /\ status = [m \in Maps |-> "none"]
      /\ root = [m \in Maps |-> None]
      /\ op = [m \in Maps |-> Idle]
      /\ broken = FALSE
  BY DEF Init
<1>3. owner \in [Pages -> Owners] /\ owner[0] \notin Maps /\ \A m \in Maps : Owned(m) = {}
  BY <1>0, <1>1 DEF Owners, Owned
<1>4. Idle \in Operations /\ tbl \in Heaps /\ \A t \in Pages, s \in Slots : tbl[t][s] = None
  BY <1>2, BlankFacts DEF Operations, Heaps
<1>5. TypeOK
  <2>1. op \in [Maps -> Operations]
    BY <1>2, <1>4
  <2>2. root \in [Maps -> Pages \union {None}] /\ status \in [Maps -> {"none", "live"}]
    BY <1>0, <1>2
  <2> QED BY <1>2, <1>3, <1>4, <2>1, <2>2 DEF TypeOK, Heaps, Words
<1>6. ASSUME NEW m \in Maps PROVE MapOK(m)
  BY <1>2, <1>3 DEF MapOK, Standing, Doing, Idle
<1> QED BY <1>3, <1>5, <1>6 DEF MapsInv

LEMMA NextInv == MapsInv /\ [Next]_vars => MapsInv' /\ Shows
<1> SUFFICES ASSUME MapsInv, [Next]_vars PROVE MapsInv' /\ Shows
  OBVIOUS
<1>1. CASE UNCHANGED vars
  <2>1. /\ TypeOK' = TypeOK /\ owner' = owner /\ broken' = broken
        /\ op' = op /\ status' = status /\ root' = root /\ tbl' = tbl
    BY <1>1 DEF vars, TypeOK
  <2>2. TypeOK /\ owner[0] \notin Maps
    BY DEF MapsInv
  <2>3. ASSUME ~ broken, NEW m \in Maps PROVE MapOK(m)'
    <3>1. MapOK(m)
      BY <2>3 DEF MapsInv
    <3> QED BY <2>1, <2>2, <3>1, Elsewhere DEF Owned
  <2>4. Shows
    <3>1. ShownSpace' = ShownSpace /\ ShownDoing' = ShownDoing
      BY <2>1 DEF ShownSpace, ShownDoing, Standing, Translate, Path, Follow, Doing, Asked
    <3> QED BY <3>1, NothingShown DEF Unmoved
  <2> QED BY <2>1, <2>2, <2>3, <2>4 DEF MapsInv
<1>2. CASE Next
  <2>1. ~ broken
    BY <1>2 DEF Next
  <2>2. CASE OtherAcquire \/ OtherRelease
    BY <2>1, <2>2, OthersStep
  <2>3. ASSUME NEW m \in Maps, Step(m) PROVE MapsInv' /\ Shows
    <3>0. Uses[m] \subseteq Addresses
      BY MapsAssumption
    <3>1. CASE Create(m)
      BY <2>1, <3>1, CreateStep
    <3>2. ASSUME NEW a \in Uses[m], Unmap(m, a) PROVE MapsInv' /\ Shows
      BY <2>1, <3>0, <3>2, UnmapStep
    <3>3. ASSUME NEW a \in Uses[m], NEW f \in Frames, NEW overwrite \in BOOLEAN,
                 Add(m, a, f, overwrite)
          PROVE  MapsInv' /\ Shows
      BY <2>1, <3>0, <3>3, AddStep
    <3>4. CASE MakeTable(m)
      BY <2>1, <3>4, MakeTableStep
    <3>5. CASE GiveUp(m)
      BY <2>1, <3>5, GiveUpStep
    <3>6. CASE Rollback(m)
      BY <2>1, <3>6, RollbackStep
    <3>7. CASE Enter(m)
      BY <2>1, <3>7, EnterStep
    <3>8. CASE Prune(m)
      BY <2>1, <3>8, PruneStep
    <3>9. CASE Destroy(m)
      BY <2>1, <3>9, DestroyStep
    <3>10. CASE DestroyOne(m)
      BY <2>1, <3>10, DestroyOneStep
    <3>11. CASE Destroyed(m)
      BY <2>1, <3>11, DestroyedStep
    <3> QED BY <2>3, <3>1, <3>2, <3>3, <3>4, <3>5, <3>6, <3>7, <3>8, <3>9, <3>10, <3>11 DEF Step
  <2> QED BY <1>2, <2>2, <2>3 DEF Next
<1> QED BY <1>1, <1>2

(* What holds of the maps in every reachable state: each standing map is a  *)
(* tree that owns exactly its tables, each operation under way stands on    *)
(* the path of its address, and only the table it stands on may be empty.   *)
THEOREM MapsInvariant == Spec => []MapsInv
<1>1. Init => MapsInv
  BY InitInv
<1>2. MapsInv /\ [Next]_vars => MapsInv'
  BY NextInv
<1> QED BY <1>1, <1>2, PTL DEF Spec

-----------------------------------------------------------------------------
(* A standing map owns exactly the pages its tree is made of, and the tree  *)
(* is one: operations of other maps, refused adds and pages that pass from  *)
(* map to map notwithstanding (axk_memory_map_add, _remove, _destroy).      *)
THEOREM TreesHold == Spec => []TreeInv
<1>1. MapsInv => TreeInv
  <2> SUFFICES ASSUME MapsInv, ~ broken, NEW m \in Standing
               PROVE  /\ {p \in Pages : owner[p] = m} = TablesOf(m)
                      /\ root[m] \notin PDPTs(m) \union PDTs(m) \union PTs(m)
                      /\ \A t, u \in {root[m]} \union PDPTs(m) \union PDTs(m) : \A s, v \in Slots :
                           tbl[t][s] = tbl[u][v] /\ tbl[t][s] # None => t = u /\ s = v
                      /\ PDPTs(m) \union PDTs(m) \union PTs(m) \subseteq Pages
                      /\ EntriesOf(PTs(m)) \subseteq Frames
    BY DEF MapsInv, TreeInv, OwnsItsTables, IsTree
  <2>1. Tree(m)
    BY DEF MapsInv, MapOK, StandingOK, Standing
  <2> QED BY <2>1, TreeDefs DEF Tree, Owned, Shape, Unique, Inner
<1> QED BY <1>1, MapsInvariant, PTL

(* A map without an operation under way has no empty table but its PML4:    *)
(* what a remove leaves empty it gives back (memory_map.c:407).             *)
THEOREM NoneEmpty == Spec => []NoEmptyTables
<1>1. MapsInv => NoEmptyTables
  <2> SUFFICES ASSUME MapsInv, NEW m \in Standing, ~ broken, op[m] = Idle,
                      NEW t \in TablesOf(m) \ {root[m]}, tbl[t] = Blank
               PROVE  FALSE
    BY DEF NoEmptyTables
  <2>1. StandingOK(m)
    BY DEF MapsInv, MapOK, Standing
  <2>2. TidyBut(m, {})
    BY <2>1 DEF StandingOK, IdleOK, Doing, Idle
  <2>3. \A s \in Slots : tbl[t][s] = None
    BY BlankFacts
  <2> QED BY <2>2, <2>3, TreeDefs DEF TidyBut
<1> QED BY <1>1, MapsInvariant, PTL

(* An add that finds its address mapped has made no table on the way: a     *)
(* table it has made is blank where it stands.  So the refusal of lines     *)
(* 346-348 never gives back a table in use.                                 *)
THEOREM RefusedBare == Spec => []OverwriteRefusedBare
<1>1. MapsInv => OverwriteRefusedBare
  <2> SUFFICES ASSUME MapsInv, NEW m \in Maps, ~ broken, Doing(m, "add"), Len(op[m].path) = 4,
                      Entry(m) # None, op[m].fresh # {}
               PROVE  FALSE
    BY DEF OverwriteRefusedBare
  <2>1. TypeOK /\ MapOK(m)
    BY DEF MapsInv
  <2>2. StandingOK(m)
    BY <2>1 DEF MapOK, Standing, Doing, Idle
  <2>3. Walked(m) /\ HereEmpty(m) /\ Tree(m)
    BY <2>2 DEF StandingOK, AddOK
  <2>4. Slot(m) \in Slots
    BY <2>1, <2>3, WalkFacts DEF Tree
  <2> QED BY <2>3, <2>4 DEF HereEmpty, Entry
<1> QED BY <1>1, MapsInvariant, PTL

-----------------------------------------------------------------------------
LEMMA InitShows == Init => Spaces!Init
<1> SUFFICES ASSUME Init PROVE Spaces!Init
  OBVIOUS
<1>1. \A m \in Maps : op[m].kind = "idle" /\ m \notin Standing
  BY DEF Init, Idle, Standing
<1>2. \A m \in Maps : ShownDoing[m] = Idle
  BY <1>1, ShownFacts
<1>3. \A m \in Maps : ShownSpace[m] = [a \in Addresses |-> None]
  BY <1>1, ShownMaps
<1>4. ShownSpace = [m \in Maps |-> [a \in Addresses |-> None]] /\ ShownDoing = [m \in Maps |-> Idle]
  <2>1. ShownSpace = [n \in Maps |-> ShownSpace[n]] /\ ShownDoing = [n \in Maps |-> ShownDoing[n]]
    BY DEF ShownSpace, ShownDoing
  <2> QED BY <1>2, <1>3, <2>1
<1> QED BY <1>4 DEF Spaces!Init, Spaces!Nowhere, Spaces!Idle, ShownSpace, ShownDoing, Asked, Tidying, Idle

(* The trees implement independent partial functions: each step of an       *)
(* operation maps, unmaps or refuses the one address it was called for,     *)
(* ends a map, or shows nowhere - the tables acquired and given back, and   *)
(* what other maps do at the same time, least of all.                       *)
THEOREM MapsImplementSpaces == Spec => KeepsSpaces
<1>1. MapsInv /\ [Next]_vars => [Spaces!Next]_(Spaces!vars)
  BY NextInv DEF Shows
<1>2. Init => Spaces!Init
  BY InitShows
<1> QED BY <1>1, <1>2, MapsInvariant, PTL DEF Spec, KeepsSpaces, Spaces!Spec
============================================================================
