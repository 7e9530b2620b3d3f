----------------------------- MODULE TreeProofs -----------------------------
(***************************************************************************)
(* The red-black tree for any finite set of keys: a search finds what is in   *)
(* the tree and nothing else, the tree is balanced between the calls, and an  *)
(* iterator goes through the nodes in order.  TreeKept is the invariant: a     *)
(* function sub from the nodes to what hangs from each, and a function black   *)
(* to the black nodes on every way down, exist in every state.                 *)
(***************************************************************************)
EXTENDS RBTree, NumberLemmas, FiniteSetTheorems, SequenceTheorems

-----------------------------------------------------------------------------
(* The tree of rbtree.c. *)

Places == Keys \union {Nil}

Shapes == [root : Places, up : [Keys -> Places], kid : [Keys -> [Sides -> Places]]]

(* sub says which nodes hang from each: its nodes are those of the tree.      *)
Grown(t, sub) ==
  /\ sub \in [Places -> SUBSET Keys] /\ sub[Nil] = {}
  /\ \A n \in Keys : n \in sub[t.root] <=> n = t.root \/ t.up[n] # Nil
  /\ t.root # Nil => t.up[t.root] = Nil
  /\ \A n \in Keys : n \notin sub[t.root] => \A d \in Sides : t.kid[n][d] = Nil

(* What hangs from a node is the node and what hangs from its children, each  *)
(* on its side; parents and children agree.                                   *)
NodeOK(t, sub, n) ==
  /\ \A x \in Keys : x \in sub[n] <=> x = n \/ \E d \in Sides : x \in sub[t.kid[n][d]]
  /\ \A d \in Sides : \A x \in sub[t.kid[n][d]] : x # n /\ SideFor(x, n) = d
  /\ \A d \in Sides : t.kid[n][d] # Nil => t.up[t.kid[n][d]] = n
  /\ t.up[n] # Nil => \E d \in Sides : t.kid[t.up[n]][d] = n

(* What hangs from two nodes is apart unless one hangs from the other.        *)
Nested(t, sub) ==
  \A n, m \in sub[t.root] :
    /\ m \in sub[n] => sub[m] \subseteq sub[n]
    /\ sub[n] \cap sub[m] # {} => n \in sub[m] \/ m \in sub[n]

(* What is between two nodes that hang from a node hangs from it too.         *)
Convex(t, sub) ==
  \A n, x \in sub[t.root] : \A a, b \in sub[n] : a < x /\ x < b => x \in sub[n]

Tree(t, sub) ==
  /\ t \in Shapes /\ Grown(t, sub)
  /\ \A n \in sub[t.root] : NodeOK(t, sub, n)
  /\ Nested(t, sub) /\ Convex(t, sub)

(* black says how many black nodes are on each way down from a node, but for a  *)
(* node and a side where one is missing.                                      *)
Weight(reds, n) == IF n \in reds THEN 0 ELSE 1

Balanced(t, nodes, reds, black, node, side) ==
  /\ black \in [Places -> Nat] /\ black[Nil] = 0
  /\ \A n \in nodes, d \in Sides :
       black[n] = black[t.kid[n][d]] + Weight(reds, n) + (IF n = node /\ d = side THEN 1 ELSE 0)

(* No red node has a red child but for one child. *)
Calm(t, nodes, reds, spot) ==
  \A n \in nodes, d \in Sides :
    n \in reds /\ t.kid[n][d] \in reds => t.kid[n][d] = spot

(* Where the key of an insert belongs is below pos. *)
Belongs(sub) ==
  \A x \in Nodes : x \notin sub[pos] => treeCall.key # x /\ (treeCall.key < x <=> pos < x)

Calls ==
  [fn : {"none", "broken", "insert", "search", "erase_key", "mend"}, key : Places]

(* How far the function under way has got. *)
CallOK(sub) ==
  /\ IF treeCall.fn = "balance" THEN treeCall \in [fn : {"balance"}, key : Sides]
     ELSE treeCall \in Calls
  /\ pos \in Places
  /\ treeCall.fn = "insert" =>
       /\ treeCall.key \in Keys
       /\ pos = Nil => root = Nil
       /\ pos # Nil => pos \in Nodes /\ Belongs(sub)
  /\ treeCall.fn \in {"search", "erase_key", "mend", "balance"} => pos \in Nodes
  /\ treeCall.fn = "mend" => pos \in red
  /\ treeCall.fn = "none" => treeCall = Idle

(* The stack holds the nodes above the iterator's that are yet to come. *)
Pending(t, sub, it) ==
  /\ it.stack \in Seq(Keys)
  /\ \A i, j \in 1 .. Len(it.stack) : i < j => it.stack[j] < it.stack[i]
  /\ \A a \in Keys : (\E i \in 1 .. Len(it.stack) : it.stack[i] = a) <=>
       a \in sub[t.root] /\ it.node < a /\ it.node \in sub[a]

IterOK(sub) ==
  origin = "begin" =>
    /\ treeCall.fn \in {"none", "broken"}
    /\ iter.node # Nil => iter.node \in Nodes /\ Pending(Shape, sub, iter)

(* In a balance the side call.key of pos is a black node short, in a mend pos *)
(* may be the red child of a red node.                                        *)
TreeOK(sub, black) ==
  /\ Tree(Shape, sub) /\ red \subseteq Keys
  /\ treeCall.fn # "broken" =>
       /\ Balanced(Shape, Nodes, red, black,
                   IF treeCall.fn = "balance" THEN pos ELSE Nil, treeCall.key)
       /\ Calm(Shape, Nodes, red, IF treeCall.fn = "mend" THEN pos ELSE Nil)
  /\ leftmost = (IF Nodes = {} THEN Nil ELSE Min(Nodes))
  /\ treeCount \in Nat /\ treeCount >= Cardinality(Nodes)
  /\ CallOK(sub) /\ IterOK(sub)

TreeKept == \E sub, black : TreeOK(sub, black)

-----------------------------------------------------------------------------
(* What the constants and the sides are.                                    *)
LEMMA KeyFacts ==
  /\ Nil \notin Keys /\ Nil = 0 /\ Keys \subseteq Nat /\ Keys \subseteq Places /\ Nil \in Places
  /\ IsFiniteSet(Keys) /\ Sides = {"left", "right"} /\ "left" # "right"
  /\ Other("left") = "right" /\ Other("right") = "left"
BY KeysAssumption DEF Nil, Places, Sides, Other

(* The nodes of a tree and their children.                                  *)
LEMMA TreeFacts ==
  ASSUME NEW t, NEW sub, Tree(t, sub)
  PROVE  /\ t.root \in Places /\ sub[t.root] \subseteq Keys
         /\ t.root # Nil => t.root \in sub[t.root]
         /\ \A n \in Places : sub[n] \subseteq Keys
         /\ \A n \in Keys : t.up[n] \in Places /\ \A d \in Sides : t.kid[n][d] \in Places
         /\ \A n \in sub[t.root] :
              /\ n \in Keys /\ n \in sub[n] /\ sub[n] \subseteq sub[t.root]
              /\ t.up[n] # Nil => t.up[n] \in sub[t.root]
              /\ \A d \in Sides : t.kid[n][d] # Nil =>
                   /\ t.kid[n][d] \in sub[t.root] /\ t.kid[n][d] \in sub[n] /\ t.kid[n][d] # n
                   /\ sub[t.kid[n][d]] \subseteq sub[n] /\ n \notin sub[t.kid[n][d]]
<1> USE KeyFacts
<1>1. /\ t \in Shapes /\ Grown(t, sub) /\ Nested(t, sub)
      /\ \A n \in sub[t.root] : NodeOK(t, sub, n)
  BY DEF Tree
<1>2. /\ t.root \in Places /\ sub[t.root] \subseteq Keys
      /\ \A n \in Places : sub[n] \subseteq Keys
      /\ \A n \in Keys : t.up[n] \in Places /\ \A d \in Sides : t.kid[n][d] \in Places
  <2>1. /\ t.root \in Places /\ t.up \in [Keys -> Places]
        /\ t.kid \in [Keys -> [Sides -> Places]]
    BY <1>1 DEF Shapes
  <2>2. sub \in [Places -> SUBSET Keys]
    BY <1>1 DEF Grown
  <2>3. t.root \in Places /\ sub[t.root] \subseteq Keys
    BY <2>1, <2>2
  <2>4. \A n \in Places : sub[n] \subseteq Keys
    BY <2>2
  <2>5. ASSUME NEW n \in Keys
        PROVE  t.up[n] \in Places /\ \A d \in Sides : t.kid[n][d] \in Places
    <3>1. t.kid[n] \in [Sides -> Places]
      BY <2>1
    <3> QED BY <2>1, <3>1
  <2> QED BY <2>3, <2>4, <2>5
<1>3. t.root # Nil => t.root \in sub[t.root]
  BY <1>1, <1>2 DEF Grown, Places
<1>4. ASSUME NEW n \in sub[t.root]
      PROVE  n \in Keys /\ n \in sub[n] /\ sub[n] \subseteq sub[t.root]
  <2>1. n \in Keys /\ n \in sub[n] /\ t.root # Nil
    BY <1>1, <1>2 DEF NodeOK, Grown
  <2> QED BY <2>1, <1>1, <1>3 DEF Nested
<1>5. ASSUME NEW n \in sub[t.root], NEW d \in Sides, t.kid[n][d] # Nil
      PROVE  /\ t.kid[n][d] \in sub[t.root] /\ t.kid[n][d] \in sub[n] /\ t.kid[n][d] # n
             /\ sub[t.kid[n][d]] \subseteq sub[n] /\ n \notin sub[t.kid[n][d]]
  <2> DEFINE c == t.kid[n][d]
  <2>0. n \in Keys /\ n # Nil /\ NodeOK(t, sub, n)
    BY <1>1, <1>4
  <2>1. c \in Keys /\ t.up[c] = n
    BY <1>2, <1>5, <2>0 DEF NodeOK, Places
  <2>2. c \in sub[t.root]
    BY <1>1, <2>0, <2>1 DEF Grown
  <2>3. c \in sub[c] /\ c \in sub[n] /\ n \notin sub[c]
    <3>1. c \in sub[c]
      BY <1>4, <2>2
    <3>2. \A x \in sub[c] : x # n /\ x \in Keys
      BY <1>2, <2>0 DEF NodeOK
    <3>3. c \in sub[n]
      BY <2>0, <2>1, <3>1 DEF NodeOK
    <3> QED BY <3>1, <3>2, <3>3
  <2> QED BY <1>1, <2>2, <2>3 DEF Nested
<1>6. ASSUME NEW n \in sub[t.root], t.up[n] # Nil PROVE t.up[n] \in sub[t.root]
  <2>1. n \in Keys /\ n # Nil /\ NodeOK(t, sub, n)
    BY <1>1, <1>4
  <2>2. PICK d \in Sides : t.kid[t.up[n]][d] = n
    BY <1>6, <2>1 DEF NodeOK
  <2>3. t.up[n] \in Keys
    BY <1>2, <1>6, <2>1 DEF Places
  <2> QED BY <1>1, <2>1, <2>2, <2>3 DEF Grown
<1> QED BY <1>2, <1>3, <1>4, <1>5, <1>6

-----------------------------------------------------------------------------
(* Shapes. *)
SideAt(t, g, p) == IF p = t.kid[g]["right"] THEN "right" ELSE "left"

(* The nodes around a rotation: p goes down to the side dir, s goes up, c changes *)
(* from s to p.                                                               *)
Axis(t, p, dir, s, c, g, far, near) ==
  /\ s # Nil /\ s = t.kid[p][Other(dir)] /\ c = t.kid[s][dir] /\ g = t.up[p]
  /\ far = t.kid[s][Other(dir)] /\ near = t.kid[p][dir]

(* The fields after a rotation.                                             *)
LEMMA RotateShape ==
  ASSUME NEW t \in Shapes, NEW p \in Keys, NEW dir \in Sides,
         NEW s \in Keys, NEW c, NEW g, NEW far, NEW near, Axis(t, p, dir, s, c, g, far, near),
         s # p, g # p, g # s, NEW r, r = Rotate(t, p, dir)
  PROVE  /\ r \in Shapes
         /\ r.root = IF g = Nil THEN s ELSE t.root
         /\ \A k \in Keys : r.up[k] =
              IF k = c THEN p ELSE IF k = p THEN s ELSE IF k = s THEN g ELSE t.up[k]
         /\ r.kid[p][Other(dir)] = c /\ r.kid[p][dir] = near
         /\ r.kid[s][dir] = p /\ r.kid[s][Other(dir)] = far
         /\ \A k \in Keys \ {p, s} : \A d \in Sides :
              r.kid[k][d] = IF k = g /\ d = SideAt(t, g, p) THEN s ELSE t.kid[k][d]
<1> USE KeyFacts DEF Axis
<1> DEFINE ups == [k \in Keys |-> IF k = c THEN p ELSE IF k = p THEN s ELSE IF k = s THEN g ELSE t.up[k]]
           mid == Turned(t, p, dir, s, c)
           turned == [root |-> t.root, up |-> ups, kid |-> mid]
           side == IF p = mid[g]["right"] THEN "right" ELSE "left"
           kids == [k \in Keys |-> [d \in Sides |-> IF k = g /\ d = side THEN s ELSE mid[k][d]]]
<1>1. r = [root |-> IF g = Nil THEN s ELSE t.root, up |-> ups, kid |-> kids]
  BY DEF Rotate, Link
<1>2. /\ s \in Keys /\ c \in Places /\ g \in Places /\ Other(dir) \in Sides /\ Other(dir) # dir
      /\ t.kid \in [Keys -> [Sides -> Places]] /\ t.up \in [Keys -> Places] /\ t.root \in Places
  BY DEF Shapes, Sides
<1>3. \A k \in Keys : \A d \in Sides :
        mid[k][d] = IF k = p /\ d = Other(dir) THEN c
                    ELSE IF k = s /\ d = dir THEN p ELSE t.kid[k][d]
  BY DEF Turned
<1>4. g \in Keys => side = SideAt(t, g, p)
  BY <1>2, <1>3 DEF SideAt
<1>5. mid \in [Keys -> [Sides -> Places]]
  BY <1>2 DEF Turned, Places
<1> HIDE DEF mid
<1>6. kids \in [Keys -> [Sides -> Places]]
  BY <1>2, <1>5 DEF Places
<1>7. ups \in [Keys -> Places]
  BY <1>2 DEF Places
<1>8. r \in Shapes
  <2> HIDE DEF kids, ups
  <2> QED BY <1>1, <1>2, <1>6, <1>7 DEF Shapes, Places
<1>9. \A k \in Keys : \A d \in Sides : r.kid[k][d] = IF k = g /\ d = side THEN s ELSE mid[k][d]
  BY <1>1
<1>10. /\ r.root = IF g = Nil THEN s ELSE t.root
       /\ \A k \in Keys : r.up[k] =
              IF k = c THEN p ELSE IF k = p THEN s ELSE IF k = s THEN g ELSE t.up[k]
  BY <1>1
<1> HIDE DEF kids, ups, side
<1> QED BY <1>2, <1>3, <1>4, <1>8, <1>9, <1>10

(* On which side of each other two keys are, and keys between two.          *)
LEMMA SideFacts ==
  ASSUME NEW a \in Keys, NEW b \in Keys, a # b
  PROVE  SideFor(a, b) \in Sides /\ SideFor(b, a) = Other(SideFor(a, b))
BY KeyFacts, Z3 DEF SideFor

LEMMA SideChain ==
  ASSUME NEW a \in Keys, NEW b \in Keys, NEW c \in Keys, a # b, b # c,
         SideFor(a, b) = SideFor(b, c)
  PROVE  a # c /\ SideFor(a, c) = SideFor(a, b)
BY KeyFacts, Z3 DEF SideFor

LEMMA SideBetween ==
  ASSUME NEW a \in Keys, NEW b \in Keys, NEW c \in Keys, NEW x \in Keys, a # c, b # c,
         SideFor(a, c) = SideFor(b, c), a < x, x < b
  PROVE  x # c /\ SideFor(x, c) = SideFor(a, c)
BY KeyFacts, Z3 DEF SideFor

(* There are two sides.                                                     *)
LEMMA SideTwo ==
  ASSUME NEW d \in Sides
  PROVE  /\ Other(d) \in Sides /\ Other(d) # d /\ Other(Other(d)) = d
         /\ \A e \in Sides : e = d \/ e = Other(d)
BY KeyFacts

(* A node divides what hangs from it between its sides.                     *)
LEMMA NodeSides ==
  ASSUME NEW t, NEW sub, NEW n, NodeOK(t, sub, n), NEW dir \in Sides
  PROVE  /\ \A x \in Keys : x \in sub[n] <=>
              x = n \/ x \in sub[t.kid[n][dir]] \/ x \in sub[t.kid[n][Other(dir)]]
         /\ \A x \in sub[t.kid[n][dir]] : x # n /\ SideFor(x, n) = dir
         /\ \A x \in sub[t.kid[n][Other(dir)]] : x # n /\ SideFor(x, n) = Other(dir)
<1>1. Other(dir) \in Sides /\ \A e \in Sides : e = dir \/ e = Other(dir)
  BY SideTwo
<1>2. \A x \in Keys : x \in sub[n] <=>
        x = n \/ x \in sub[t.kid[n][dir]] \/ x \in sub[t.kid[n][Other(dir)]]
  BY <1>1 DEF NodeOK
<1> QED BY <1>1, <1>2 DEF NodeOK

(* What a rotation knows of the nodes around it. *)
LEMMA Around ==
  ASSUME NEW t, NEW sub, Tree(t, sub), NEW p \in sub[t.root], NEW dir \in Sides,
         NEW s, NEW c, NEW g, NEW far, NEW near, Axis(t, p, dir, s, c, g, far, near)
  PROVE  /\ p \in Keys /\ s \in sub[t.root] /\ s \in Keys /\ s # p /\ t.up[s] = p
         /\ g # p /\ g # s
         /\ g # Nil => g \in sub[t.root] /\ t.kid[g][SideAt(t, g, p)] = p
         /\ g = Nil <=> t.root = p
         /\ \A n \in {c, far, near} : n # Nil => n \in sub[t.root] /\ n \in Keys /\ n # p /\ n # s
         /\ c # Nil => c # far /\ c # near /\ t.up[c] = s
         /\ far # Nil => far # near /\ t.up[far] = s
         /\ near # Nil => t.up[near] = p
         /\ \A x \in Keys : x \in sub[p] <=>
              x = p \/ x = s \/ x \in sub[c] \/ x \in sub[far] \/ x \in sub[near]
         /\ \A x \in Keys : x \in sub[s] <=> x = s \/ x \in sub[c] \/ x \in sub[far]
         /\ SideFor(p, s) = dir /\ SideFor(s, p) = Other(dir)
         /\ \A x \in sub[near] : x \in Keys /\ x # p /\ x # s /\ SideFor(x, p) = dir /\ SideFor(x, s) = dir
         /\ \A x \in sub[c] : x \in Keys /\ x # p /\ x # s /\ SideFor(x, p) = Other(dir) /\ SideFor(x, s) = dir
         /\ \A x \in sub[far] : x \in Keys /\ x # p /\ x # s
              /\ SideFor(x, p) = Other(dir) /\ SideFor(x, s) = Other(dir)
<1> USE KeyFacts
<1>0. /\ s # Nil /\ s = t.kid[p][Other(dir)] /\ c = t.kid[s][dir] /\ g = t.up[p]
      /\ far = t.kid[s][Other(dir)] /\ near = t.kid[p][dir]
  BY DEF Axis
<1>1. Other(dir) \in Sides /\ Other(dir) # dir /\ \A e \in Sides : e = dir \/ e = Other(dir)
  BY SideTwo
<1>2. /\ \A n \in sub[t.root] : NodeOK(t, sub, n)
      /\ Grown(t, sub)
  BY DEF Tree
<1>3. /\ p \in Keys /\ s \in sub[t.root] /\ s \in sub[p] /\ s # p
      /\ p \notin sub[s] /\ sub[s] \subseteq sub[p]
  BY <1>0, <1>1, TreeFacts, SMTT(30)
<1>4. s \in Keys /\ s \in sub[s]
  BY <1>0, <1>3, TreeFacts, SMTT(30)
<1>5. NodeOK(t, sub, p) /\ NodeOK(t, sub, s)
  BY <1>2, <1>3
<1>6. t.up[s] = p /\ SideFor(s, p) = Other(dir)
  BY <1>0, <1>1, <1>4, <1>5 DEF NodeOK
<1>7. SideFor(p, s) = dir
  <2>1. SideFor(p, s) = Other(SideFor(s, p))
    BY <1>3, <1>4, SideFacts
  <2> QED BY <1>6, <2>1, SideTwo
<1>8. c \in Places /\ far \in Places /\ near \in Places /\ g \in Places
  BY <1>0, <1>1, <1>3, <1>4, TreeFacts, SMTT(30)
<1>9. /\ \A x \in sub[c] : x \in Keys /\ x # s /\ SideFor(x, s) = dir
      /\ \A x \in sub[far] : x \in Keys /\ x # s /\ SideFor(x, s) = Other(dir)
      /\ \A x \in sub[near] : x \in Keys /\ x # p /\ SideFor(x, p) = dir
      /\ \A x \in sub[s] : x \in Keys /\ x # p /\ SideFor(x, p) = Other(dir)
  <2>1. \A n \in {c, far, near, s} : sub[n] \subseteq Keys
    BY <1>4, <1>8, TreeFacts
  <2>2. /\ \A x \in sub[c] : x # s /\ SideFor(x, s) = dir
        /\ \A x \in sub[far] : x # s /\ SideFor(x, s) = Other(dir)
    <3>1. /\ \A x \in sub[t.kid[s][dir]] : x # s /\ SideFor(x, s) = dir
          /\ \A x \in sub[t.kid[s][Other(dir)]] : x # s /\ SideFor(x, s) = Other(dir)
      BY ONLY <1>5, NodeSides, dir \in Sides
    <3> QED BY ONLY <1>0, <3>1
  <2>3. /\ \A x \in sub[near] : x # p /\ SideFor(x, p) = dir
        /\ \A x \in sub[s] : x # p /\ SideFor(x, p) = Other(dir)
    <3>1. /\ \A x \in sub[t.kid[p][dir]] : x # p /\ SideFor(x, p) = dir
          /\ \A x \in sub[t.kid[p][Other(dir)]] : x # p /\ SideFor(x, p) = Other(dir)
      BY ONLY <1>5, NodeSides, dir \in Sides
    <3> QED BY ONLY <1>0, <3>1
  <2> QED BY <2>1, <2>2, <2>3
<1>10. /\ \A x \in Keys : x \in sub[s] <=> x = s \/ x \in sub[c] \/ x \in sub[far]
       /\ \A x \in Keys : x \in sub[p] <=> x = p \/ x \in sub[s] \/ x \in sub[near]
  <2>1. \A x \in Keys : x \in sub[s] <=> x = s \/ x \in sub[c] \/ x \in sub[far]
    <3>1. \A x \in Keys : x \in sub[s] <=>
            x = s \/ x \in sub[t.kid[s][dir]] \/ x \in sub[t.kid[s][Other(dir)]]
      BY ONLY <1>5, NodeSides, dir \in Sides
    <3> QED BY ONLY <1>0, <3>1
  <2>2. \A x \in Keys : x \in sub[p] <=> x = p \/ x \in sub[s] \/ x \in sub[near]
    <3>1. \A x \in Keys : x \in sub[p] <=>
            x = p \/ x \in sub[t.kid[p][dir]] \/ x \in sub[t.kid[p][Other(dir)]]
      BY ONLY <1>5, NodeSides, dir \in Sides
    <3> QED BY ONLY <1>0, <3>1
  <2> QED BY <2>1, <2>2
<1>11. \A x \in sub[near] : x # s /\ SideFor(x, s) = dir
  <2> SUFFICES ASSUME NEW x \in sub[near] PROVE x # s /\ SideFor(x, s) = dir
    OBVIOUS
  <2>1. x \in Keys /\ x # p /\ SideFor(x, p) = dir
    BY <1>9
  <2> QED BY <1>3, <1>4, <1>7, <2>1, SideChain
<1>12. \A n \in {c, far, near} : n # Nil => n \in sub[t.root] /\ n \in Keys /\ n \in sub[n]
  BY <1>0, <1>1, <1>3, TreeFacts, SMTT(30)
<1>13. \A n \in {c, far, near} : n # Nil => n # p /\ n # s
  BY <1>9, <1>10, <1>11, <1>12
<1>14. /\ c # Nil => c # far /\ c # near /\ t.up[c] = s
       /\ far # Nil => far # near /\ t.up[far] = s
       /\ near # Nil => t.up[near] = p
  <2>1. /\ c # Nil => t.up[c] = s
        /\ far # Nil => t.up[far] = s
        /\ near # Nil => t.up[near] = p
    BY <1>0, <1>1, <1>5 DEF NodeOK
  <2>2. c # Nil => c # far
    BY <1>1, <1>9, <1>12
  <2> QED BY <1>3, <2>1, <2>2
<1>15. /\ g = Nil <=> t.root = p
       /\ g # Nil => g \in sub[t.root] /\ g \in Keys /\ t.kid[g][SideAt(t, g, p)] = p
  <2>1. ASSUME g # Nil PROVE g \in sub[t.root] /\ g \in Keys
    BY <1>0, <1>3, <2>1, TreeFacts, SMTT(30)
  <2>2. ASSUME g # Nil PROVE t.kid[g][SideAt(t, g, p)] = p
    <3>1. PICK d \in Sides : t.kid[g][d] = p
      BY <1>0, <1>5, <2>2 DEF NodeOK
    <3>2. d = "left" \/ d = "right"
      OBVIOUS
    <3> QED BY <3>1, <3>2 DEF SideAt
  <2>3. t.root = p => g = Nil
    BY <1>0, <1>2, <1>3 DEF Grown
  <2>4. g = Nil => t.root = p
    BY <1>0, <1>2, <1>3 DEF Grown
  <2> QED BY <2>1, <2>2, <2>3, <2>4
<1>16. g # p /\ g # s
  <2>0. Nil # p /\ Nil # s
    BY <1>3, <1>4
  <2> SUFFICES ASSUME g # Nil PROVE g # p /\ g # s
    BY <2>0
  <2>1. SideAt(t, g, p) \in Sides
    BY <1>0 DEF SideAt
  <2>2. p # Nil /\ t.kid[g][SideAt(t, g, p)] = p
    BY <1>3, <1>15
  <2>3. p # g /\ g \notin sub[p]
    BY <1>0, <1>15, <2>1, <2>2, TreeFacts, SMTT(30)
  <2> QED BY <1>3, <2>3
<1>17. Nil # p /\ Nil # s
  BY <1>3, <1>4
<1>18. \A x \in Keys : x \in sub[p] <=>
              x = p \/ x = s \/ x \in sub[c] \/ x \in sub[far] \/ x \in sub[near]
  BY <1>10
<1>19. /\ \A x \in sub[c] : x # p /\ SideFor(x, p) = Other(dir)
       /\ \A x \in sub[far] : x # p /\ SideFor(x, p) = Other(dir)
  BY <1>9, <1>10
<1> QED BY <1>3, <1>4, <1>6, <1>7, <1>9, <1>10, <1>11, <1>12, <1>13, <1>14, <1>15, <1>16, <1>17, <1>18, <1>19

(* Elsewhere every child is what it was or s, which has taken the place of p. *)
LEMMA RotateKids ==
  ASSUME NEW t, NEW sub, Tree(t, sub), NEW p \in sub[t.root], NEW dir \in Sides,
         NEW s, NEW c, NEW g, NEW far, NEW near, Axis(t, p, dir, s, c, g, far, near),
         NEW r, r = Rotate(t, p, dir)
  PROVE  /\ r.kid[p][Other(dir)] = c /\ r.kid[p][dir] = near
         /\ r.kid[s][dir] = p /\ r.kid[s][Other(dir)] = far
         /\ \A k \in sub[t.root] \ {p, s}, d \in Sides :
              /\ r.kid[k][d] = (IF t.kid[k][d] = p THEN s ELSE t.kid[k][d])
              /\ t.kid[k][d] # s
              /\ t.kid[k][d] # Nil => t.kid[k][d] \notin {c, far, near}
<1> USE KeyFacts
<1> DEFINE N == sub[t.root]
<1>2. /\ p \in Keys /\ s \in N /\ s \in Keys /\ s # p /\ t.up[s] = p
      /\ g # p /\ g # s
      /\ g # Nil => g \in N /\ t.kid[g][SideAt(t, g, p)] = p
      /\ c # Nil => t.up[c] = s
      /\ far # Nil => t.up[far] = s
      /\ near # Nil => t.up[near] = p
  BY Around
<1>4. /\ t \in Shapes
      /\ \A n \in N : NodeOK(t, sub, n)
  BY DEF Tree
<1>5. \A n \in N : n \in Keys /\ n \in sub[n]
  BY TreeFacts
<1>6. /\ r.kid[p][Other(dir)] = c /\ r.kid[p][dir] = near
      /\ r.kid[s][dir] = p /\ r.kid[s][Other(dir)] = far
      /\ \A k \in Keys \ {p, s} : \A d \in Sides :
           r.kid[k][d] = IF k = g /\ d = SideAt(t, g, p) THEN s ELSE t.kid[k][d]
  BY <1>2, <1>4, RotateShape
<1>9. ASSUME NEW k \in N \ {p, s}, NEW d \in Sides
      PROVE  /\ r.kid[k][d] = (IF t.kid[k][d] = p THEN s ELSE t.kid[k][d])
             /\ t.kid[k][d] # s
             /\ t.kid[k][d] # Nil => t.kid[k][d] \notin {c, far, near}
  <2>1. k \in Keys /\ NodeOK(t, sub, k) /\ k # p /\ k # s
    BY <1>4, <1>5, <1>9
  <2>2. t.kid[k][d] # s /\ (t.kid[k][d] # Nil => t.kid[k][d] \notin {c, far, near})
    BY <1>2, <1>9, <2>1 DEF NodeOK
  <2>3. t.kid[k][d] = p => k = g /\ d = SideAt(t, g, p)
    <3>1. ASSUME t.kid[k][d] = p PROVE k = g
      BY <1>2, <2>1, <3>1 DEF NodeOK, Axis
    <3>2. ASSUME t.kid[k][d] = p PROVE d = SideAt(t, g, p)
      <4>1. NodeOK(t, sub, g) /\ t.kid[g][d] = p /\ t.kid[g][SideAt(t, g, p)] = p /\ g \in N
        BY <1>2, <2>1, <3>1, <3>2
      <4>2. p \in sub[p] /\ SideAt(t, g, p) \in Sides
        BY <1>5 DEF SideAt
      <4> QED BY <4>1, <4>2 DEF NodeOK
    <3> QED BY <3>1, <3>2
  <2>4. k = g /\ d = SideAt(t, g, p) => t.kid[k][d] = p
    BY <1>2, <1>5, <2>1, KeyFacts
  <2>5. r.kid[k][d] = IF t.kid[k][d] = p THEN s ELSE t.kid[k][d]
    BY <1>6, <1>9, <2>1, <2>3, <2>4
  <2> QED BY <2>2, <2>5
<1> QED BY <1>6, <1>9

(* A rotation keeps a tree and the order of its nodes. *)
LEMMA RotateKeeps ==
  ASSUME NEW t, NEW sub, Tree(t, sub), NEW p \in sub[t.root], NEW dir \in Sides,
         NEW s, NEW c, NEW g, NEW far, NEW near, Axis(t, p, dir, s, c, g, far, near),
         NEW r, r = Rotate(t, p, dir)
  PROVE  \E new : /\ Tree(r, new) /\ new[r.root] = sub[t.root]
                  /\ new = [x \in Places |-> IF x = s THEN sub[p]
                                             ELSE IF x = p THEN (sub[p] \ {s}) \ sub[far]
                                             ELSE sub[x]]
<1> USE KeyFacts
<1> DEFINE new == [x \in Places |-> IF x = s THEN sub[p]
                                    ELSE IF x = p THEN (sub[p] \ {s}) \ sub[far] ELSE sub[x]]
           N == sub[t.root]
<1>1. Other(dir) \in Sides /\ Other(dir) # dir /\ \A e \in Sides : e = dir \/ e = Other(dir)
  BY SideTwo
<1>2. /\ p \in Keys /\ s \in N /\ s \in Keys /\ s # p /\ t.up[s] = p
      /\ g # p /\ g # s
      /\ g # Nil => g \in N /\ t.kid[g][SideAt(t, g, p)] = p
      /\ g = Nil <=> t.root = p
      /\ \A n \in {c, far, near} : n # Nil => n \in N /\ n \in Keys /\ n # p /\ n # s
      /\ c # Nil => c # far /\ c # near /\ t.up[c] = s
      /\ far # Nil => far # near /\ t.up[far] = s
      /\ near # Nil => t.up[near] = p
  BY Around
<1>3. /\ \A x \in Keys : x \in sub[p] <=>
              x = p \/ x = s \/ x \in sub[c] \/ x \in sub[far] \/ x \in sub[near]
      /\ \A x \in Keys : x \in sub[s] <=> x = s \/ x \in sub[c] \/ x \in sub[far]
      /\ SideFor(p, s) = dir /\ SideFor(s, p) = Other(dir)
      /\ \A x \in sub[near] : x \in Keys /\ x # p /\ x # s /\ SideFor(x, p) = dir /\ SideFor(x, s) = dir
      /\ \A x \in sub[c] : x \in Keys /\ x # p /\ x # s /\ SideFor(x, p) = Other(dir) /\ SideFor(x, s) = dir
      /\ \A x \in sub[far] : x \in Keys /\ x # p /\ x # s
           /\ SideFor(x, p) = Other(dir) /\ SideFor(x, s) = Other(dir)
  BY Around
<1>4. /\ t \in Shapes /\ Grown(t, sub) /\ Nested(t, sub) /\ Convex(t, sub)
      /\ \A n \in N : NodeOK(t, sub, n)
  BY DEF Tree
<1>5. /\ t.root \in Places /\ N \subseteq Keys
      /\ \A n \in Places : sub[n] \subseteq Keys
      /\ \A n \in Keys : t.up[n] \in Places /\ \A d \in Sides : t.kid[n][d] \in Places
      /\ \A n \in N : n \in Keys /\ n \in sub[n] /\ sub[n] \subseteq N
      /\ p \in N
  BY TreeFacts
<1>6. /\ r \in Shapes
      /\ r.root = IF g = Nil THEN s ELSE t.root
      /\ \A k \in Keys : r.up[k] =
           IF k = c THEN p ELSE IF k = p THEN s ELSE IF k = s THEN g ELSE t.up[k]
      /\ r.kid[p][Other(dir)] = c /\ r.kid[p][dir] = near
      /\ r.kid[s][dir] = p /\ r.kid[s][Other(dir)] = far
      /\ \A k \in Keys \ {p, s} : \A d \in Sides :
           r.kid[k][d] = IF k = g /\ d = SideAt(t, g, p) THEN s ELSE t.kid[k][d]
  BY <1>2, <1>4, RotateShape
<1>7. /\ \A x \in Places : x # s /\ x # p => new[x] = sub[x]
      /\ new[s] = sub[p] /\ s \in Places /\ p \in Places
      /\ \A x \in Keys : x \in new[p] <=> x = p \/ x \in sub[c] \/ x \in sub[near]
      /\ new[p] \subseteq Keys
      /\ new \in [Places -> SUBSET Keys]
  <2>1. /\ \A x \in Places : x # s /\ x # p => new[x] = sub[x]
        /\ new[s] = sub[p] /\ s \in Places /\ p \in Places
        /\ new[p] = (sub[p] \ {s}) \ sub[far]
    BY <1>2
  <2>2. ASSUME NEW x \in Keys PROVE x \in new[p] <=> x = p \/ x \in sub[c] \/ x \in sub[near]
    <3>1. /\ x \in sub[near] => SideFor(x, p) = dir /\ x # p /\ x # s
          /\ x \in sub[c] => SideFor(x, s) = dir /\ x # p /\ x # s
          /\ x \in sub[far] => SideFor(x, p) = Other(dir) /\ SideFor(x, s) = Other(dir) /\ x # p
          /\ x \in sub[p] <=>
              x = p \/ x = s \/ x \in sub[c] \/ x \in sub[far] \/ x \in sub[near]
      BY <1>3
    <3>2. x \in new[p] <=> x \in sub[p] /\ x # s /\ x \notin sub[far]
      BY <2>1
    <3> QED BY <1>1, <1>2, <3>1, <3>2
  <2>3. new[p] \subseteq Keys
    BY <1>5, <2>1
  <2>4. new \in [Places -> SUBSET Keys]
    BY <1>5, <2>1
  <2> QED BY <2>1, <2>2, <2>3, <2>4
<1> HIDE DEF new
<1>8. new[r.root] = N /\ r.root \in Places
  <2>1. CASE g = Nil
    BY <1>2, <1>6, <1>7, <2>1
  <2>2. CASE g # Nil
    <3>1. t.root # s
      BY <1>2, <1>4, <1>5 DEF Grown
    <3>2. r.root = t.root /\ t.root # p /\ t.root \in Places
      BY <1>2, <1>5, <1>6, <2>2
    <3> QED BY <1>7, <3>1, <3>2
  <2> QED BY <2>1, <2>2
<1>9. ASSUME NEW k \in N, k # p, k # s, NEW d \in Sides
      PROVE  /\ k \in Keys
             /\ r.kid[k][d] = (IF t.kid[k][d] = p THEN s ELSE t.kid[k][d]) /\ t.kid[k][d] # s
             /\ new[r.kid[k][d]] = sub[t.kid[k][d]]
  <2>1. k \in Keys
    BY <1>5
  <2>2. r.kid[k][d] = (IF t.kid[k][d] = p THEN s ELSE t.kid[k][d]) /\ t.kid[k][d] # s
    BY <1>9, RotateKids
  <2> QED BY <1>5, <1>7, <2>1, <2>2
<1>10. Grown(r, new)
  <2>1. new[Nil] = {}
    BY <1>2, <1>4, <1>7 DEF Grown
  <2>2. ASSUME NEW n \in Keys PROVE n \in N <=> n = r.root \/ r.up[n] # Nil
    <3>1. n \in N <=> n = t.root \/ t.up[n] # Nil
      BY <1>4 DEF Grown
    <3>2. /\ r.up[n] = IF n = c THEN p ELSE IF n = p THEN s ELSE IF n = s THEN g ELSE t.up[n]
          /\ r.root = IF g = Nil THEN s ELSE t.root
      BY <1>6
    <3>3. p # Nil /\ s # Nil /\ p \in N /\ s \in N /\ (c # Nil => c \in N) /\ n # Nil
      BY <1>2, <1>5
    <3>4. CASE n \in {p, s, c}
      BY <1>2, <3>2, <3>3, <3>4
    <3>5. CASE n \notin {p, s, c}
      BY <1>2, <3>1, <3>2, <3>3, <3>5
    <3> QED BY <3>4, <3>5
  <2>3. r.root # Nil => r.up[r.root] = Nil
    <3>1. CASE g = Nil
      BY <1>2, <1>6, <3>1
    <3>2. CASE g # Nil
      <4>1. t.root \in N /\ t.up[t.root] = Nil /\ t.root # Nil
        BY <1>2, <1>4, <1>5, <3>2 DEF Grown, Places
      <4>2. r.root = t.root /\ t.root # s /\ t.root # p /\ t.root # c /\ t.root \in Keys
        BY <1>2, <1>5, <1>6, <3>2, <4>1
      <4> QED BY <1>6, <4>1, <4>2
    <3> QED BY <3>1, <3>2
  <2>4. ASSUME NEW n \in Keys, n \notin N, NEW d \in Sides PROVE r.kid[n][d] = Nil
    <3>1. t.kid[n][d] = Nil
      BY <1>4, <2>4 DEF Grown
    <3>2. n # p /\ n # s /\ n # g
      BY <1>2, <1>5, <2>4
    <3> QED BY <1>6, <3>1, <3>2
  <2> QED BY <1>7, <1>8, <2>1, <2>2, <2>3, <2>4 DEF Grown
<1>11. ASSUME NEW k \in N PROVE NodeOK(r, new, k)
  <2>1. CASE k = s
    <3>1. new[p] \subseteq Keys /\ new[far] = sub[far] /\ sub[far] \subseteq Keys
      <4>1. far \in Places
        BY <1>1, <1>2, <1>5
      <4> QED BY <1>2, <1>5, <1>7, <4>1
    <3>2. \A x \in Keys : x \in new[s] <=> x = s \/ x \in new[p] \/ x \in new[far]
      BY <1>3, <1>7, <3>1
    <3>3. /\ \A x \in new[p] : x # s /\ SideFor(x, s) = dir
          /\ \A x \in new[far] : x # s /\ SideFor(x, s) = Other(dir)
      BY <1>2, <1>3, <1>7, <3>1
    <3>4. r.up[p] = s /\ far # Nil => r.up[far] = s
      BY <1>2, <1>6
    <3>5. r.up[s] = g /\ r.up[p] = s
      BY <1>2, <1>6
    <3>6. g # Nil => \E d \in Sides : r.kid[g][d] = s
      <4>1. SideAt(t, g, p) \in Sides
        BY DEF SideAt
      <4> QED BY <1>2, <1>5, <1>9, <4>1
    <3>7. r.kid[s][dir] = p /\ r.kid[s][Other(dir)] = far
      BY <1>6
    <3>8. \A x \in Keys : x \in new[s] <=> x = s \/ \E d \in Sides : x \in new[r.kid[s][d]]
      BY <1>1, <3>2, <3>7
    <3>9. \A d \in Sides : \A x \in new[r.kid[s][d]] : x # s /\ SideFor(x, s) = d
      BY <1>1, <3>3, <3>7
    <3>10. \A d \in Sides : r.kid[s][d] # Nil => r.up[r.kid[s][d]] = s
      BY <1>1, <3>4, <3>5, <3>7
    <3>11. NodeOK(r, new, s)
      BY <3>5, <3>6, <3>8, <3>9, <3>10 DEF NodeOK
    <3> QED BY <2>1, <3>11
  <2>2. CASE k = p
    <3>1. new[c] = sub[c] /\ new[near] = sub[near] /\ c \in Places /\ near \in Places
      <4>1. c \in Places /\ near \in Places
        BY <1>1, <1>2, <1>5
      <4> QED BY <1>2, <1>5, <1>7, <4>1
    <3>2. \A x \in Keys : x \in new[p] <=> x = p \/ x \in new[near] \/ x \in new[c]
      BY <1>7, <3>1
    <3>3. /\ \A x \in new[near] : x # p /\ SideFor(x, p) = dir
          /\ \A x \in new[c] : x # p /\ SideFor(x, p) = Other(dir)
      BY <1>3, <3>1
    <3>4. /\ c # Nil => r.up[c] = p
          /\ near # Nil => r.up[near] = p
      BY <1>2, <1>6
    <3>5. r.up[p] = s /\ \E d \in Sides : r.kid[s][d] = p
      BY <1>2, <1>6
    <3>6. r.kid[p][dir] = near /\ r.kid[p][Other(dir)] = c
      BY <1>6
    <3>7. \A x \in Keys : x \in new[p] <=> x = p \/ \E d \in Sides : x \in new[r.kid[p][d]]
      BY <1>1, <3>2, <3>6
    <3>8. \A d \in Sides : \A x \in new[r.kid[p][d]] : x # p /\ SideFor(x, p) = d
      BY <1>1, <3>3, <3>6
    <3>9. \A d \in Sides : r.kid[p][d] # Nil => r.up[r.kid[p][d]] = p
      BY <1>1, <3>4, <3>6
    <3>10. NodeOK(r, new, p)
      BY <3>5, <3>7, <3>8, <3>9 DEF NodeOK
    <3> QED BY <2>2, <3>10
  <2>3. CASE k # p /\ k # s
    <3>1. k \in Keys /\ NodeOK(t, sub, k) /\ new[k] = sub[k]
      BY <1>4, <1>5, <1>7, <2>3, KeyFacts
    <3>2. \A d \in Sides : new[r.kid[k][d]] = sub[t.kid[k][d]]
      BY <1>9, <2>3
    <3>3. \A x \in Keys : x \in new[k] <=> x = k \/ \E d \in Sides : x \in new[r.kid[k][d]]
      BY <3>1, <3>2 DEF NodeOK
    <3>4. \A d \in Sides : \A x \in new[r.kid[k][d]] : x # k /\ SideFor(x, k) = d
      BY <3>1, <3>2 DEF NodeOK
    <3>5. ASSUME NEW d \in Sides, r.kid[k][d] # Nil PROVE r.up[r.kid[k][d]] = k
      <4>1. r.kid[k][d] = (IF t.kid[k][d] = p THEN s ELSE t.kid[k][d]) /\ t.kid[k][d] # s
        BY <1>9, <2>3
      <4>2. CASE t.kid[k][d] = p
        <5>1. g = k
          BY <1>2, <3>1, <4>2 DEF NodeOK, Axis
        <5>2. r.up[s] = g
          BY <1>2, <1>6
        <5> QED BY <4>1, <4>2, <5>1, <5>2
      <4>3. CASE t.kid[k][d] # p
        <5>1. t.kid[k][d] \in Keys /\ t.up[t.kid[k][d]] = k
          BY <1>5, <3>1, <3>5, <4>1, <4>3 DEF NodeOK, Places
        <5>2. t.kid[k][d] # c
          BY <1>2, <2>3, <5>1
        <5>3. r.up[t.kid[k][d]] = t.up[t.kid[k][d]]
          BY <1>6, <4>1, <4>3, <5>1, <5>2
        <5> QED BY <4>1, <4>3, <5>1, <5>3
      <4> QED BY <4>2, <4>3
    <3>6. r.up[k] # Nil => \E d \in Sides : r.kid[r.up[k]][d] = k
      <4> SUFFICES ASSUME r.up[k] # Nil PROVE \E d \in Sides : r.kid[r.up[k]][d] = k
        OBVIOUS
      <4>1. CASE k = c
        BY <1>1, <1>6, <3>1, <4>1
      <4>2. CASE k # c
        <5>1. r.up[k] = t.up[k]
          BY <1>6, <2>3, <3>1, <4>2
        <5>2. PICK d \in Sides : t.kid[t.up[k]][d] = k
          BY <3>1, <5>1 DEF NodeOK
        <5>3. t.up[k] \in N
          BY <5>1, TreeFacts
        <5>4. CASE t.up[k] = s
          <6>1. d = Other(dir) /\ k = far
            BY <1>1, <4>2, <5>2, <5>4 DEF Axis
          <6> QED BY <1>1, <1>6, <5>1, <5>4, <6>1
        <5>5. CASE t.up[k] = p
          <6>1. d = dir /\ k = near
            BY <1>1, <2>3, <5>2, <5>5 DEF Axis
          <6> QED BY <1>6, <5>1, <5>5, <6>1
        <5>6. CASE t.up[k] # s /\ t.up[k] # p
          BY <1>9, <2>3, <5>1, <5>2, <5>3, <5>6
        <5> QED BY <5>4, <5>5, <5>6
      <4> QED BY <4>1, <4>2
    <3> QED BY <3>3, <3>4, <3>5, <3>6 DEF NodeOK
  <2> QED BY <2>1, <2>2, <2>3
<1>12. \A k \in N : s \in sub[k] /\ k # s => p \in sub[k]
  <2> SUFFICES ASSUME NEW k \in N, s \in sub[k], k # s PROVE p \in sub[k]
    OBVIOUS
  <2>1. k \in sub[p] \/ p \in sub[k]
    <3>1. s \in sub[k] \cap sub[p]
      BY <1>2, <1>3
    <3> QED BY <1>4, <1>5, <3>1 DEF Nested
  <2>2. ASSUME NEW n \in {near, c, far}, k \in sub[n] PROVE FALSE
    <3>1. /\ n # Nil => n \in N
          /\ sub[Nil] = {}
      BY <1>2, <1>4 DEF Grown
    <3>2. n # Nil /\ n \in N
      BY <2>2, <3>1
    <3>3. s \in sub[n]
      BY <1>4, <2>2, <3>2 DEF Nested
    <3> QED BY <1>3, <3>3
  <2>3. k \in Keys /\ (k \in sub[p] => k = p)
    BY <1>3, <1>5, <2>2
  <2> QED BY <1>5, <2>1, <2>3
<1>13. Nested(r, new)
  <2>1. \A n \in {near, c} : \A k \in sub[n] : k \in N /\ sub[k] \subseteq sub[n]
    BY <1>2, <1>4, <1>5 DEF Nested, Grown
  <2>2. ASSUME NEW n \in N, NEW m \in N, m \in new[n] PROVE new[m] \subseteq new[n]
    <3>1. CASE n = s
      <4>1. m \in sub[p] /\ sub[m] \subseteq sub[p] /\ new[n] = sub[p] /\ m \in Keys
        BY <1>4, <1>5, <1>7, <2>2, <3>1 DEF Nested
      <4>2. new[p] \subseteq sub[p]
        BY <1>3, <1>5, <1>7
      <4> QED BY <1>5, <1>7, <4>1, <4>2
    <3>2. CASE n = p
      <4>1. m = p \/ m \in sub[c] \/ m \in sub[near]
        BY <1>5, <1>7, <2>2, <3>2
      <4>2. m # p => new[m] = sub[m]
        BY <1>3, <1>5, <1>7, <4>1
      <4> QED BY <1>5, <1>7, <2>1, <3>2, <4>1, <4>2
    <3>3. CASE n # s /\ n # p
      <4>1. new[n] = sub[n] /\ sub[m] \subseteq sub[n] /\ m \in Keys
        BY <1>4, <1>5, <1>7, <2>2, <3>3 DEF Nested, Places
      <4>2. m = s => sub[p] \subseteq sub[n]
        BY <1>4, <1>5, <1>7, <1>12, <2>2, <3>3, <4>1 DEF Nested
      <4>3. new[p] \subseteq sub[p]
        BY <1>3, <1>5, <1>7
      <4> QED BY <1>5, <1>7, <4>1, <4>2, <4>3
    <3> QED BY <3>1, <3>2, <3>3
  <2>3. ASSUME NEW n \in N, NEW m \in N, new[n] \cap new[m] # {}
        PROVE  n \in new[m] \/ m \in new[n]
    <3> DEFINE Apart(k, l) == new[k] \cap new[l] # {} => k \in new[l] \/ l \in new[k]
    <3>1. PICK x : x \in new[n] /\ x \in new[m]
      BY <2>3
    <3>2. ASSUME NEW k \in N, NEW y \in new[s] \cap new[k] PROVE s \in new[k] \/ k \in new[s]
      <4>1. CASE k = s
        BY <1>2, <1>3, <1>7, <4>1
      <4>2. CASE k = p
        BY <1>5, <1>7, <4>2
      <4>3. CASE k # s /\ k # p
        <5>1. new[k] = sub[k] /\ y \in sub[p] /\ y \in sub[k]
          BY <1>5, <1>7, <3>2, <4>3
        <5>2. k \in sub[p] \/ p \in sub[k]
          BY <1>4, <1>5, <5>1 DEF Nested
        <5>3. p \in sub[k] => s \in sub[k]
          <6>1. s \in sub[p]
            BY <1>2, <1>3
          <6> QED BY <1>4, <1>5, <6>1 DEF Nested
        <5> QED BY <1>7, <5>1, <5>2, <5>3
      <4> QED BY <4>1, <4>2, <4>3
    <3>3. ASSUME NEW k \in N, k # s, NEW y \in new[p] \cap new[k] PROVE p \in new[k] \/ k \in new[p]
      <4>1. CASE k = p
        BY <1>2, <1>7, <4>1
      <4>2. CASE k # p
        <5>1. new[k] = sub[k] /\ y \in sub[k] /\ k \in Keys /\ y \in Keys
          BY <1>5, <1>7, <3>3, <4>2, KeyFacts
        <5>2. y \in sub[p] /\ y \notin sub[far]
          <6>1. y = p \/ y \in sub[c] \/ y \in sub[near]
            BY <1>7, <3>3, <5>1
          <6>2. SideFor(y, p) = dir \/ SideFor(y, s) = dir \/ y = p
            BY <1>3, <6>1
          <6>3. y \notin sub[far]
            <7>1. y \in sub[far] => y # p /\ SideFor(y, p) = Other(dir) /\ SideFor(y, s) = Other(dir)
              BY <1>3
            <7> QED BY <1>1, <6>2, <7>1
          <6> QED BY <1>3, <5>1, <6>1, <6>3
        <5>3. k \in sub[p] \/ p \in sub[k]
          BY <1>4, <1>5, <5>1, <5>2 DEF Nested
        <5>4. k \notin sub[far]
          <6>1. far # Nil => far \in N
            BY <1>2
          <6>2. sub[Nil] = {}
            BY <1>4 DEF Grown
          <6>3. far \in N /\ k \in sub[far] => y \in sub[far]
            BY <1>4, <5>1 DEF Nested
          <6> QED BY <5>2, <6>1, <6>2, <6>3
        <5>5. k \in sub[p] => k \in new[p]
          BY <1>3, <1>7, <3>3, <5>1, <5>4
        <5> QED BY <5>1, <5>3, <5>5
      <4> QED BY <4>1, <4>2
    <3>4. CASE n = s \/ m = s
      BY <3>1, <3>2, <3>4
    <3>5. CASE n # s /\ m # s /\ (n = p \/ m = p)
      BY <3>1, <3>3, <3>5
    <3>6. CASE n # s /\ m # s /\ n # p /\ m # p
      <4>1. new[n] = sub[n] /\ new[m] = sub[m]
        BY <1>5, <1>7, <3>6
      <4> QED BY <1>4, <3>1, <4>1 DEF Nested
    <3> QED BY <3>4, <3>5, <3>6
  <2> QED BY <1>8, <2>2, <2>3 DEF Nested
<1>14. Convex(r, new)
  <2> SUFFICES ASSUME NEW n \in N, NEW x \in N, NEW a \in new[n], NEW b \in new[n], a < x, x < b
               PROVE  x \in new[n]
    BY <1>8 DEF Convex
  <2>1. CASE n = s
    BY <1>4, <1>5, <1>7, <2>1 DEF Convex
  <2>2. CASE n = p
    <3>1. a \in Keys /\ b \in Keys /\ x \in Keys /\ a \in sub[p] /\ b \in sub[p]
      BY <1>3, <1>5, <1>7, <2>2
    <3>2. x \in sub[p]
      BY <1>4, <1>5, <3>1 DEF Convex
    <3>3. /\ a # s /\ b # s /\ SideFor(a, s) = dir /\ SideFor(b, s) = dir
      BY <1>2, <1>3, <1>7, <2>2, <3>1
    <3>4. x # s /\ SideFor(x, s) = dir
      <4>1. a < x /\ x < b /\ SideFor(a, s) = SideFor(b, s) /\ s \in Keys
        BY <1>2, <3>3
      <4>2. x # s /\ SideFor(x, s) = SideFor(a, s)
        BY ONLY <3>1, <3>3, <4>1, SideBetween
      <4> QED BY <3>3, <4>2
    <3> QED BY <1>1, <1>3, <1>7, <2>2, <3>1, <3>2, <3>4
  <2>3. CASE n # s /\ n # p
    <3>1. new[n] = sub[n]
      BY <1>5, <1>7, <2>3
    <3> QED BY <1>4, <3>1 DEF Convex
  <2> QED BY <2>1, <2>2, <2>3
<1>15. Tree(r, new)
  BY <1>6, <1>8, <1>10, <1>11, <1>13, <1>14 DEF Tree
<1> QED BY <1>8, <1>15 DEF new

(* What a rotation of painted nodes may do to their colours: those of p and s    *)
(* may change, and that of the child far of s too.                            *)
Repaint(t, p, s, c, far, near, reds, black, reds2, black2, spot2) ==
  /\ reds2 \subseteq Keys /\ black2 \in [Places -> Nat]
  /\ \A k \in Places : k \notin {p, s, far} =>
       (k \in reds <=> k \in reds2) /\ black2[k] = black[k]
  /\ black2[Nil] = 0 /\ black2[s] = black[p]
  /\ black2[p] = black2[near] + Weight(reds2, p) /\ black2[p] = black2[c] + Weight(reds2, p)
  /\ black2[s] = black2[p] + Weight(reds2, s) /\ black2[s] = black2[far] + Weight(reds2, s)
  /\ far # Nil => \A d \in Sides : black2[far] = black[t.kid[far][d]] + Weight(reds2, far)
  /\ s \in reds2 => p \in reds /\ (p \in reds2 => p = spot2) /\ far \notin reds2
  /\ p \in reds2 => near \notin reds2 /\ c \notin reds2
  /\ far \in reds2 => \A d \in Sides : t.kid[far][d] \notin reds

(* What a rotation does to the number of black nodes, if p and s may change    *)
(* their colours, and the child far of s too.                                 *)
LEMMA RotateBalances ==
  ASSUME NEW t, NEW sub, Tree(t, sub), NEW p \in sub[t.root], NEW dir \in Sides,
         NEW s, NEW c, NEW g, NEW far, NEW near, Axis(t, p, dir, s, c, g, far, near),
         NEW r, r = Rotate(t, p, dir),
         NEW reds, NEW black, NEW node, NEW side,
         Balanced(t, sub[t.root], reds, black, node, side), node # s, node # far \/ node = Nil,
         NEW reds2, NEW black2, NEW spot2,
         Repaint(t, p, s, c, far, near, reds, black, reds2, black2, spot2)
  PROVE  Balanced(r, sub[t.root], reds2, black2, IF node = p THEN Nil ELSE node, side)
<1> USE KeyFacts
<1> DEFINE N == sub[t.root]
           hole == IF node = p THEN Nil ELSE node
<1>0. /\ black2 \in [Places -> Nat]
      /\ \A k \in Places : k \notin {p, s, far} =>
           (k \in reds <=> k \in reds2) /\ black2[k] = black[k]
      /\ black2[Nil] = 0 /\ black2[s] = black[p]
      /\ black2[p] = black2[near] + Weight(reds2, p) /\ black2[p] = black2[c] + Weight(reds2, p)
      /\ black2[s] = black2[p] + Weight(reds2, s) /\ black2[s] = black2[far] + Weight(reds2, s)
      /\ far # Nil => \A d \in Sides : black2[far] = black[t.kid[far][d]] + Weight(reds2, far)
  BY DEF Repaint
<1>1. Other(dir) \in Sides /\ \A e \in Sides : e = dir \/ e = Other(dir)
  BY SideTwo
<1>2. /\ p \in Keys /\ s \in N /\ s \in Keys /\ s # p
      /\ \A n \in {c, far, near} : n # Nil => n \in N /\ n \in Keys /\ n # p /\ n # s
      /\ \A x \in sub[far] : x # p /\ x # s
  BY Around
<1>3. /\ r.kid[p][Other(dir)] = c /\ r.kid[p][dir] = near
      /\ r.kid[s][dir] = p /\ r.kid[s][Other(dir)] = far
      /\ \A k \in N \ {p, s}, d \in Sides :
           /\ r.kid[k][d] = (IF t.kid[k][d] = p THEN s ELSE t.kid[k][d])
           /\ t.kid[k][d] # s
           /\ t.kid[k][d] # Nil => t.kid[k][d] \notin {c, far, near}
  BY RotateKids
<1>6. c \in Places /\ near \in Places /\ far \in Places /\ p \in Places
  BY <1>2
<1>4. ASSUME NEW k \in N, NEW d \in Sides
      PROVE  black2[k] = black2[r.kid[k][d]] + Weight(reds2, k)
                           + (IF k = hole /\ d = side THEN 1 ELSE 0)
  <2>0. k \in Keys /\ t.kid[k][d] \in Places
    BY TreeFacts
  <2> DEFINE w == Weight(reds2, k)
  <2>9. w \in Nat
    BY DEF Weight
  <2>1. CASE k = p
    <3>1. black2[k] = black2[r.kid[k][d]] + w /\ k # hole
      BY <1>0, <1>1, <1>2, <1>3, <2>1
    <3>2. r.kid[k][d] \in Places
      BY <1>1, <1>3, <1>6, <2>1
    <3>3. black2[r.kid[k][d]] \in Nat
      BY <1>0, <3>2
    <3> HIDE DEF w
    <3> QED BY <2>9, <3>1, <3>3 DEF w
  <2>2. CASE k = s
    <3>1. black2[k] = black2[r.kid[k][d]] + w /\ k # hole
      BY <1>0, <1>1, <1>2, <1>3, <2>2
    <3>2. r.kid[k][d] \in Places
      BY <1>1, <1>3, <1>6, <2>2
    <3>3. black2[r.kid[k][d]] \in Nat
      BY <1>0, <3>2
    <3> HIDE DEF w
    <3> QED BY <2>9, <3>1, <3>3 DEF w
  <2>3. CASE k # p /\ k # s
    <3> DEFINE x == t.kid[k][d]
    <3>1. /\ r.kid[k][d] = (IF x = p THEN s ELSE x) /\ x # s /\ x \in Places
          /\ x # Nil => x # far
      BY <1>3, <2>0, <2>3
    <3>2. black2[r.kid[k][d]] = black[x]
      <4>1. x = Nil => black[x] = 0
        BY DEF Balanced
      <4> QED BY <1>0, <3>1, <4>1
    <3>3. CASE k = far
      <4>1. black2[k] = black[x] + Weight(reds2, k) /\ k # hole
        BY <1>0, <1>2, <2>0, <3>3
      <4>2. black[x] \in Nat
        BY <3>1 DEF Balanced
      <4> QED BY <2>9, <3>2, <4>1, <4>2
    <3>4. CASE k # far
      <4>1. black2[k] = black[k] /\ Weight(reds2, k) = Weight(reds, k)
        BY <1>0, <2>0, <2>3, <3>4 DEF Weight
      <4>2. black[k] = black[x] + Weight(reds, k) + (IF k = node /\ d = side THEN 1 ELSE 0)
        BY DEF Balanced
      <4>3. k = node <=> k = hole
        BY <2>0, <2>3
      <4> HIDE DEF hole
      <4> QED BY <3>2, <4>1, <4>2, <4>3
    <3> QED BY <3>3, <3>4
  <2> QED BY <2>1, <2>2, <2>3
<1> HIDE DEF hole
<1>5. Balanced(r, N, reds2, black2, hole, side)
  BY <1>0, <1>4 DEF Balanced
<1> QED BY <1>5 DEF hole

(* After a rotation only spot2 may be a red child of a red node.            *)
LEMMA RotateCalms ==
  ASSUME NEW t, NEW sub, Tree(t, sub), NEW p \in sub[t.root], NEW dir \in Sides,
         NEW s, NEW c, NEW g, NEW far, NEW near, Axis(t, p, dir, s, c, g, far, near),
         NEW r, r = Rotate(t, p, dir),
         NEW reds, NEW black, NEW spot \in {Nil, s, far},
         Calm(t, sub[t.root], reds, spot),
         NEW reds2, NEW black2, NEW spot2,
         Repaint(t, p, s, c, far, near, reds, black, reds2, black2, spot2)
  PROVE  Calm(r, sub[t.root], reds2, spot2)
<1> USE KeyFacts
<1> DEFINE N == sub[t.root]
<1>0. /\ reds2 \subseteq Keys
      /\ \A k \in Keys : k \notin {p, s, far} => (k \in reds <=> k \in reds2)
      /\ s \in reds2 => p \in reds /\ (p \in reds2 => p = spot2) /\ far \notin reds2
      /\ p \in reds2 => near \notin reds2 /\ c \notin reds2
      /\ far \in reds2 => \A d \in Sides : t.kid[far][d] \notin reds
  BY DEF Repaint
<1>1. Other(dir) \in Sides /\ \A e \in Sides : e = dir \/ e = Other(dir)
  BY SideTwo
<1>2. /\ p \in Keys /\ s \in N /\ s \in Keys /\ s # p
      /\ \A n \in {c, far, near} : n # Nil => n \in N /\ n \in Keys /\ n # p /\ n # s
  BY Around
<1>3. /\ r.kid[p][Other(dir)] = c /\ r.kid[p][dir] = near
      /\ r.kid[s][dir] = p /\ r.kid[s][Other(dir)] = far
      /\ \A k \in N \ {p, s}, d \in Sides :
           /\ r.kid[k][d] = (IF t.kid[k][d] = p THEN s ELSE t.kid[k][d])
           /\ t.kid[k][d] # s
           /\ t.kid[k][d] # Nil => t.kid[k][d] \notin {c, far, near}
  BY RotateKids
<1>4. ASSUME NEW k \in N, NEW d \in Sides, k \in reds2, r.kid[k][d] \in reds2
      PROVE  r.kid[k][d] = spot2
  <2>0. k \in Keys /\ t.kid[k][d] \in Places
    BY TreeFacts
  <2>1. CASE k = p
    BY <1>0, <1>1, <1>3, <1>4, <2>1
  <2>2. CASE k = s
    BY <1>0, <1>1, <1>3, <1>4, <2>2
  <2>3. CASE k # p /\ k # s
    <3> DEFINE x == t.kid[k][d]
    <3>1. /\ r.kid[k][d] = (IF x = p THEN s ELSE x) /\ x # s /\ x \in Places
          /\ x # Nil => x # far
      BY <1>3, <2>0, <2>3
    <3>2. x \in reds /\ x \in Keys
      BY <1>0, <1>2, <1>4, <3>1 DEF Places
    <3>3. CASE k = far
      BY <1>0, <1>4, <3>2, <3>3
    <3>4. CASE k # far
      <4>1. k \in reds
        BY <1>0, <1>4, <2>0, <2>3, <3>4
      <4>2. x = spot
        BY <3>2, <4>1 DEF Calm
      <4> QED BY <3>1, <3>2, <4>2
    <3> QED BY <3>3, <3>4
  <2> QED BY <2>1, <2>2, <2>3
<1> QED BY <1>4 DEF Calm

-----------------------------------------------------------------------------
(* The turns of an insert and of an erase, with their colours. *)
Painted(t, sub, nodes, reds, black, node, side, spot) ==
  /\ Tree(t, sub) /\ nodes = sub[t.root] /\ reds \subseteq Keys
  /\ Balanced(t, nodes, reds, black, node, side) /\ Calm(t, nodes, reds, spot)

Repainted(r, nodes, reds, node, side, spot) ==
  \E sub, black : Painted(r, sub, nodes, reds, black, node, side, spot)

(* A rotation of painted nodes. *)
Stage(t, sub, nodes, p, dir, s, c, g, far, near, reds, black, node, side, spot) ==
  /\ p \in nodes /\ dir \in Sides /\ Axis(t, p, dir, s, c, g, far, near)
  /\ Painted(t, sub, nodes, reds, black, node, side, spot)
  /\ node # s /\ (node # far \/ node = Nil) /\ spot \in {Nil, s, far}

(* The three facts of a rotation together.                                  *)
LEMMA RotatePaints ==
  ASSUME NEW t, NEW sub, NEW nodes, NEW p, NEW dir, NEW s, NEW c, NEW g, NEW far, NEW near,
         NEW reds, NEW black, NEW node, NEW side, NEW spot,
         Stage(t, sub, nodes, p, dir, s, c, g, far, near, reds, black, node, side, spot),
         NEW reds2, NEW black2, NEW spot2,
         Repaint(t, p, s, c, far, near, reds, black, reds2, black2, spot2)
  PROVE  Repainted(Rotate(t, p, dir), nodes, reds2, IF node = p THEN Nil ELSE node, side, spot2)
<1> USE KeyFacts
<1> DEFINE r == Rotate(t, p, dir)
<1>1. /\ Tree(t, sub) /\ nodes = sub[t.root] /\ p \in sub[t.root] /\ dir \in Sides
      /\ Axis(t, p, dir, s, c, g, far, near)
      /\ Balanced(t, sub[t.root], reds, black, node, side) /\ Calm(t, sub[t.root], reds, spot)
      /\ node # s /\ (node # far \/ node = Nil) /\ spot \in {Nil, s, far}
  BY DEF Painted, Stage
<1> HIDE DEF r
<1>0. r = Rotate(t, p, dir)
  BY DEF r
<1>2. Balanced(r, nodes, reds2, black2, IF node = p THEN Nil ELSE node, side)
  BY <1>0, <1>1, RotateBalances
<1>3. Calm(r, nodes, reds2, spot2)
  BY <1>0, <1>1, RotateCalms
<1>4. PICK new : Tree(r, new) /\ new[r.root] = nodes
  BY <1>0, <1>1, RotateKeeps
<1>5. reds2 \subseteq Keys
  BY DEF Repaint
<1>6. Repainted(r, nodes, reds2, IF node = p THEN Nil ELSE node, side, spot2)
  BY <1>2, <1>3, <1>4, <1>5 DEF Painted, Repainted
<1> QED BY <1>6 DEF r

(* Facts of the nodes around an axis for the proofs that use RotatePaints. *)
LEMMA AxisPaints ==
  ASSUME NEW t, NEW sub, NEW nodes, NEW p, NEW dir, NEW s, NEW c, NEW g, NEW far, NEW near,
         NEW reds, NEW black, NEW node, NEW side, NEW spot,
         Stage(t, sub, nodes, p, dir, s, c, g, far, near, reds, black, node, side, spot)
  PROVE  /\ p \in Keys /\ s \in Keys /\ s \in nodes /\ s # p /\ Nil \notin reds
         /\ \A n \in {c, far, near} : n \in Places /\ n # p /\ n # s
         /\ c = far => c = Nil
         /\ black \in [Places -> Nat] /\ black[Nil] = 0
         /\ p # node => black[p] = black[near] + Weight(reds, p) /\ black[p] = black[s] + Weight(reds, p)
         /\ p = node /\ dir = side => black[p] = black[near] + Weight(reds, p) + 1 /\ black[p] = black[s] + Weight(reds, p)
         /\ black[s] = black[c] + Weight(reds, s) /\ black[s] = black[far] + Weight(reds, s)
         /\ far # Nil => /\ far \in nodes
                         /\ \A d \in Sides : /\ t.kid[far][d] \in Places /\ t.kid[far][d] # far
                                             /\ black[far] = black[t.kid[far][d]] + Weight(reds, far)
         /\ p \in reds /\ near \in reds => near = spot
         /\ p \in reds /\ s \in reds => s = spot
         /\ s \in reds /\ c \in reds => c = spot
         /\ s \in reds /\ far \in reds => far = spot
         /\ far \in reds => \A d \in Sides : t.kid[far][d] \in reds => t.kid[far][d] = spot
<1> USE KeyFacts
<1>1. /\ Tree(t, sub) /\ nodes = sub[t.root] /\ p \in sub[t.root] /\ p \in nodes /\ dir \in Sides
      /\ reds \subseteq Keys /\ Axis(t, p, dir, s, c, g, far, near)
      /\ Balanced(t, nodes, reds, black, node, side) /\ Calm(t, nodes, reds, spot)
      /\ node # s /\ (node # far \/ node = Nil)
  BY DEF Painted, Stage
<1>2. Other(dir) \in Sides /\ Other(dir) # dir /\ \A e \in Sides : e = dir \/ e = Other(dir)
  BY <1>1, SideTwo
<1>3. /\ p \in Keys /\ s \in sub[t.root] /\ s \in Keys /\ s # p
      /\ \A n \in {c, far, near} : n # Nil => n \in sub[t.root] /\ n \in Keys /\ n # p /\ n # s
      /\ c # Nil => c # far
  BY <1>1, Around
<1>4. /\ s = t.kid[p][Other(dir)] /\ c = t.kid[s][dir]
      /\ far = t.kid[s][Other(dir)] /\ near = t.kid[p][dir]
  BY <1>1 DEF Axis
<1>5. \A n \in {c, far, near} : n \in Places /\ n # p /\ n # s
  BY <1>3
<1>6. /\ black \in [Places -> Nat] /\ black[Nil] = 0
      /\ \A n \in nodes, d \in Sides :
           black[n] = black[t.kid[n][d]] + Weight(reds, n) + (IF n = node /\ d = side THEN 1 ELSE 0)
  BY <1>1 DEF Balanced
<1>7. /\ p # node => black[p] = black[near] + Weight(reds, p) /\ black[p] = black[s] + Weight(reds, p)
      /\ p = node /\ dir = side =>
           black[p] = black[near] + Weight(reds, p) + 1 /\ black[p] = black[s] + Weight(reds, p)
  <2>1. /\ black[p] = black[near] + Weight(reds, p) + (IF p = node /\ dir = side THEN 1 ELSE 0)
        /\ black[p] = black[s] + Weight(reds, p) + (IF p = node /\ Other(dir) = side THEN 1 ELSE 0)
    BY <1>1, <1>2, <1>4, <1>6
  <2> DEFINE w == Weight(reds, p)
  <2>2. w \in Nat /\ black[near] \in Nat /\ black[s] \in Nat
    BY <1>3, <1>5, <1>6 DEF Weight
  <2>3. /\ black[p] = black[near] + w + (IF p = node /\ dir = side THEN 1 ELSE 0)
        /\ black[p] = black[s] + w + (IF p = node /\ Other(dir) = side THEN 1 ELSE 0)
    BY <2>1
  <2> HIDE DEF w
  <2>4. p # node => black[p] = black[near] + w /\ black[p] = black[s] + w
    BY <2>2, <2>3
  <2>5. p = node /\ dir = side => black[p] = black[near] + w + 1 /\ black[p] = black[s] + w
    BY <1>2, <2>2, <2>3
  <2> QED BY <2>4, <2>5 DEF w
<1>9. s # node => black[s] = black[c] + Weight(reds, s) /\ black[s] = black[far] + Weight(reds, s)
  <2> SUFFICES ASSUME s # node
               PROVE  black[s] = black[c] + Weight(reds, s) /\ black[s] = black[far] + Weight(reds, s)
    OBVIOUS
  <2>1. /\ black[s] = black[t.kid[s][dir]] + Weight(reds, s) + 0
        /\ black[s] = black[t.kid[s][Other(dir)]] + Weight(reds, s) + 0
    BY <1>1, <1>2, <1>3, <1>6
  <2>2. black[c] \in Nat /\ black[far] \in Nat /\ Weight(reds, s) \in Nat
    BY <1>5, <1>6 DEF Weight
  <2> DEFINE w == Weight(reds, s)
  <2>3. /\ black[s] = black[c] + w + 0 /\ black[s] = black[far] + w + 0
        /\ black[c] \in Nat /\ black[far] \in Nat /\ w \in Nat
    BY <1>4, <2>1, <2>2
  <2> HIDE DEF w
  <2>4. black[s] = black[c] + w /\ black[s] = black[far] + w
    BY <2>3
  <2> QED BY <2>4 DEF w
<1>10. far # Nil => /\ far \in nodes
                    /\ \A d \in Sides : /\ t.kid[far][d] \in Places /\ t.kid[far][d] # far
                                        /\ far # node => black[far] = black[t.kid[far][d]] + Weight(reds, far)
  <2> SUFFICES ASSUME far # Nil, NEW d \in Sides
               PROVE  /\ far \in nodes /\ t.kid[far][d] \in Places /\ t.kid[far][d] # far
                      /\ far # node => black[far] = black[t.kid[far][d]] + Weight(reds, far)
    OBVIOUS
  <2>1. far \in nodes /\ far \in Keys
    BY <1>1, <1>3
  <2>2. t.kid[far][d] \in Places /\ t.kid[far][d] # far
    BY <1>1, <2>1, TreeFacts
  <2>3. far # node => black[far] = black[t.kid[far][d]] + Weight(reds, far) + 0
    BY <1>6, <2>1
  <2>4. black[t.kid[far][d]] \in Nat /\ Weight(reds, far) \in Nat
    BY <1>6, <2>2 DEF Weight
  <2> QED BY <2>1, <2>2, <2>3, <2>4
<1>11. /\ p \in reds /\ near \in reds => near = spot
       /\ p \in reds /\ s \in reds => s = spot
       /\ s \in reds /\ c \in reds => c = spot
       /\ s \in reds /\ far \in reds => far = spot
       /\ far \in reds => \A d \in Sides : t.kid[far][d] \in reds => t.kid[far][d] = spot
  BY <1>1, <1>2, <1>3, <1>4 DEF Calm
<1>12. far # Nil => far # node
  BY <1>1
<1> QED BY <1>1, <1>3, <1>5, <1>6, <1>7, <1>9, <1>10, <1>11, <1>12

(* The rotation at the grandparent g, which exchanges its colour with p.       *)
LEMMA TurnUp ==
  ASSUME NEW t, NEW sub, NEW nodes, NEW g \in nodes, NEW dir \in Sides,
         NEW p, NEW c, NEW gg, NEW n, NEW u, Axis(t, g, dir, p, c, gg, n, u),
         NEW reds, NEW black, NEW side,
         Painted(t, sub, nodes, reds, black, Nil, side, n),
         p \in reds, n \in reds, u \notin reds
  PROVE  Repainted(Rotate(t, g, dir), nodes, (reds \ {p}) \union {g}, Nil, side, Nil)
<1> USE KeyFacts
<1> DEFINE reds2 == (reds \ {p}) \union {g}
           black2 == [k \in Places |-> IF k = p THEN black[g] ELSE IF k = g THEN black[u] ELSE black[k]]
<1>0. Stage(t, sub, nodes, g, dir, p, c, gg, n, u, reds, black, Nil, side, n)
  BY DEF Stage, Axis
<1>1. /\ g \in Keys /\ p \in Keys /\ p \in nodes /\ p # g /\ Nil \notin reds
      /\ \A k \in {c, n, u} : k \in Places /\ k # g /\ k # p
      /\ c = n => c = Nil
      /\ black \in [Places -> Nat] /\ black[Nil] = 0
      /\ black[g] = black[u] + Weight(reds, g) /\ black[g] = black[p] + Weight(reds, g)
      /\ black[p] = black[c] + Weight(reds, p) /\ black[p] = black[n] + Weight(reds, p)
      /\ n # Nil => \A d \in Sides : /\ t.kid[n][d] \in Places /\ t.kid[n][d] # n
                                     /\ black[n] = black[t.kid[n][d]] + Weight(reds, n)
      /\ g \in reds /\ p \in reds => p = n
      /\ p \in reds /\ c \in reds => c = n
      /\ n \in reds => \A d \in Sides : t.kid[n][d] \in reds => t.kid[n][d] = n
  <2>1. Nil # g
    BY <1>0, TreeFacts DEF Stage, Painted
  <2> QED BY <1>0, <2>1, AxisPaints
<1>2. g \notin reds /\ c \notin reds /\ n # Nil /\ \A d \in Sides : t.kid[n][d] \notin reds
  BY <1>1
<1>3. Weight(reds, g) = 1 /\ Weight(reds, p) = 0 /\ Weight(reds2, g) = 0 /\ Weight(reds2, p) = 1
  BY <1>1, <1>2 DEF Weight
<1>4. /\ black[g] \in Nat /\ black[u] \in Nat /\ black[p] \in Nat /\ black[c] \in Nat /\ black[n] \in Nat
      /\ black[g] = black[u] + 1 /\ black[p] = black[u] /\ black[c] = black[u] /\ black[n] = black[u]
  <2>1. /\ black[g] \in Nat /\ black[u] \in Nat /\ black[p] \in Nat /\ black[c] \in Nat /\ black[n] \in Nat
    BY <1>1
  <2>2. /\ black[g] = black[u] + 1 /\ black[g] = black[p] + 1
        /\ black[p] = black[c] + 0 /\ black[p] = black[n] + 0
    BY <1>1, <1>3
  <2> QED BY <2>1, <2>2
<1>5. /\ black2 \in [Places -> Nat] /\ black2[p] = black[g] /\ black2[g] = black[u]
      /\ \A k \in Places : k \notin {p, g} => black2[k] = black[k]
  BY <1>1, <1>4
<1>6. /\ black2[c] = black[u] /\ black2[n] = black[u] /\ black2[u] = black[u] /\ black2[Nil] = 0
  BY <1>1, <1>4, <1>5
<1>7. \A d \in Sides : black2[n] = black[t.kid[n][d]] + Weight(reds2, n)
  <2>1. Weight(reds2, n) = Weight(reds, n)
    BY <1>1 DEF Weight
  <2> QED BY <1>1, <1>2, <1>4, <1>6, <2>1
<1> HIDE DEF black2
<1>8. Repaint(t, g, p, c, n, u, reds, black, reds2, black2, Nil)
  <2>1. reds2 \subseteq Keys
    BY <1>1 DEF Painted
  <2>2. \A k \in Places : k \notin {g, p, n} => (k \in reds <=> k \in reds2) /\ black2[k] = black[k]
    BY <1>5
  <2>3. /\ black2[g] = black2[u] + Weight(reds2, g) /\ black2[g] = black2[c] + Weight(reds2, g)
        /\ black2[p] = black2[g] + Weight(reds2, p) /\ black2[p] = black2[n] + Weight(reds2, p)
    BY <1>3, <1>4, <1>5, <1>6
  <2>4. p \notin reds2 /\ u \notin reds2 /\ c \notin reds2
    BY <1>1, <1>2
  <2> QED BY <1>2, <1>5, <1>6, <1>7, <2>1, <2>2, <2>3, <2>4 DEF Repaint
<1>9. Repainted(Rotate(t, g, dir), nodes, reds2, IF Nil = g THEN Nil ELSE Nil, side, Nil)
  BY <1>0, <1>8, RotatePaints
<1> QED BY <1>9

(* The first rotation of tree_insert_node for an inner n: the child of the    *)
(* other side is then the red one under a red one.                            *)
LEMMA TurnIn ==
  ASSUME NEW t, NEW sub, NEW nodes, NEW p \in nodes, NEW dir \in Sides,
         NEW n, NEW c, NEW g, NEW far, NEW near, Axis(t, p, dir, n, c, g, far, near),
         NEW reds, NEW black, NEW side,
         Painted(t, sub, nodes, reds, black, Nil, side, n), p \in reds, n \in reds
  PROVE  Repainted(Rotate(t, p, dir), nodes, reds, Nil, side, p)
<1> USE KeyFacts
<1>0. Stage(t, sub, nodes, p, dir, n, c, g, far, near, reds, black, Nil, side, n)
  BY DEF Stage, Axis
<1>1. /\ p \in Keys /\ n \in Keys /\ n \in nodes /\ n # p /\ Nil \notin reds
      /\ \A k \in {c, far, near} : k \in Places /\ k # p /\ k # n
      /\ black \in [Places -> Nat] /\ black[Nil] = 0
      /\ black[p] = black[near] + Weight(reds, p) /\ black[p] = black[n] + Weight(reds, p)
      /\ black[n] = black[c] + Weight(reds, n) /\ black[n] = black[far] + Weight(reds, n)
      /\ far # Nil => \A d \in Sides : /\ t.kid[far][d] \in Places /\ t.kid[far][d] # far
                                       /\ black[far] = black[t.kid[far][d]] + Weight(reds, far)
      /\ p \in reds /\ near \in reds => near = n
      /\ n \in reds /\ c \in reds => c = n
      /\ n \in reds /\ far \in reds => far = n
  <2>1. Nil # p
    BY <1>0 DEF Stage, Painted, Tree, Grown
  <2> QED BY <1>0, <2>1, AxisPaints
<1>2. near \notin reds /\ c \notin reds /\ far \notin reds
  BY <1>1
<1>3. Weight(reds, p) = 0 /\ Weight(reds, n) = 0
  BY <1>1 DEF Weight
<1>4. /\ black[p] \in Nat /\ black[near] \in Nat /\ black[n] \in Nat /\ black[c] \in Nat /\ black[far] \in Nat
      /\ black[near] = black[p] /\ black[n] = black[p] /\ black[c] = black[p] /\ black[far] = black[p]
  <2>1. /\ black[p] \in Nat /\ black[near] \in Nat /\ black[n] \in Nat /\ black[c] \in Nat /\ black[far] \in Nat
    BY <1>1
  <2>2. /\ black[p] = black[near] + 0 /\ black[p] = black[n] + 0
        /\ black[n] = black[c] + 0 /\ black[n] = black[far] + 0
    BY <1>1, <1>3
  <2> QED BY <2>1, <2>2
<1>8. Repaint(t, p, n, c, far, near, reds, black, reds, black, p)
  <2>1. reds \subseteq Keys
    BY DEF Painted
  <2>2. /\ black[p] = black[near] + Weight(reds, p) /\ black[p] = black[c] + Weight(reds, p)
        /\ black[n] = black[p] + Weight(reds, n) /\ black[n] = black[far] + Weight(reds, n)
    BY <1>3, <1>4
  <2>3. far # Nil => \A d \in Sides : black[far] = black[t.kid[far][d]] + Weight(reds, far)
    BY <1>1
  <2> QED BY <1>1, <1>2, <1>4, <2>1, <2>2, <2>3 DEF Repaint
<1>9. Repainted(Rotate(t, p, dir), nodes, reds, IF Nil = p THEN Nil ELSE Nil, side, p)
  BY <1>0, <1>8, RotatePaints
<1> QED BY <1>9

(* The red nodes after delete_6. *)
OverReds(reds, p, s, d) == {k \in reds \union {s} : k \notin {p, d} /\ (k = s => p \in reds)}

(* The rotations of an erase: delete_6, and the first one of delete_5. *)
LEMMA TurnOver ==
  ASSUME NEW t, NEW sub, NEW nodes, NEW p \in nodes, NEW dir \in Sides,
         NEW s, NEW c, NEW g, NEW d, NEW near, Axis(t, p, dir, s, c, g, d, near),
         NEW reds, NEW black,
         Painted(t, sub, nodes, reds, black, p, dir, Nil), s \notin reds, d \in reds
  PROVE  Repainted(Rotate(t, p, dir), nodes, OverReds(reds, p, s, d), Nil, dir, Nil)
<1> USE KeyFacts
<1> DEFINE reds2 == OverReds(reds, p, s, d)
           black2 == [k \in Places |-> IF k = s THEN black[p] ELSE IF k = p THEN black[near] + 1
                                       ELSE IF k = d THEN black[d] + 1 ELSE black[k]]
<1>00. p # s /\ p # d
  <2>1. Tree(t, sub) /\ p \in sub[t.root]
    BY DEF Painted
  <2> QED BY <2>1, Around, TreeFacts
<1>0. Stage(t, sub, nodes, p, dir, s, c, g, d, near, reds, black, p, dir, Nil)
  BY <1>00 DEF Stage
<1>1. /\ p \in Keys /\ s \in Keys /\ s \in nodes /\ s # p /\ Nil \notin reds
      /\ \A k \in {c, d, near} : k \in Places /\ k # p /\ k # s
      /\ c = d => c = Nil
      /\ black \in [Places -> Nat] /\ black[Nil] = 0
      /\ black[p] = black[near] + Weight(reds, p) + 1 /\ black[p] = black[s] + Weight(reds, p)
      /\ black[s] = black[c] + Weight(reds, s) /\ black[s] = black[d] + Weight(reds, s)
      /\ d # Nil => \A e \in Sides : /\ t.kid[d][e] \in Places /\ t.kid[d][e] # d
                                     /\ black[d] = black[t.kid[d][e]] + Weight(reds, d)
      /\ d \in reds => \A e \in Sides : t.kid[d][e] \in reds => t.kid[d][e] = Nil
  BY <1>0, AxisPaints
<1>20. near # d
  <2>1. Tree(t, sub) /\ p \in sub[t.root]
    BY DEF Painted
  <2>2. d # Nil => d # near
    BY <2>1, Around
  <2> QED BY <1>1, <2>2
<1>2. d # Nil /\ (\A e \in Sides : t.kid[d][e] \notin reds) /\ c # d
  BY <1>1
<1>3. /\ Weight(reds, s) = 1 /\ Weight(reds, d) = 0 /\ Weight(reds2, p) = 1 /\ Weight(reds2, d) = 1
      /\ Weight(reds2, s) = Weight(reds, p) /\ Weight(reds, p) \in Nat
  BY <1>1 DEF Weight, OverReds
<1> HIDE DEF reds2
<1>4. /\ black[p] \in Nat /\ black[near] \in Nat /\ black[s] \in Nat /\ black[c] \in Nat /\ black[d] \in Nat
      /\ black[s] = black[near] + 1 /\ black[c] = black[near] /\ black[d] = black[near]
      /\ black[p] = black[near] + Weight(reds, p) + 1
  <2>1. /\ black[p] \in Nat /\ black[near] \in Nat /\ black[s] \in Nat /\ black[c] \in Nat /\ black[d] \in Nat
    BY <1>1
  <2>2. /\ black[p] = black[near] + Weight(reds, p) + 1 /\ black[p] = black[s] + Weight(reds, p)
        /\ black[s] = black[c] + 1 /\ black[s] = black[d] + 1
    BY <1>1, <1>3
  <2> DEFINE w == Weight(reds, p)
  <2> HIDE DEF w
  <2>3. black[p] = black[near] + w + 1 /\ black[p] = black[s] + w /\ w \in Nat
    BY <1>3, <2>2 DEF w
  <2>4. black[s] = black[near] + 1
    BY <2>1, <2>3
  <2> QED BY <2>1, <2>2, <2>4
<1>5. /\ black2 \in [Places -> Nat] /\ black2[s] = black[p] /\ black2[p] = black[near] + 1
      /\ black2[d] = black[near] + 1
      /\ \A k \in Places : k \notin {s, p, d} => black2[k] = black[k]
  BY <1>1, <1>4
<1>6. /\ black2[c] = black[near] /\ black2[near] = black[near] /\ black2[Nil] = 0
  BY <1>20, <1>1, <1>2, <1>4, <1>5
<1>7. \A e \in Sides : black2[d] = black[t.kid[d][e]] + Weight(reds2, d)
  <2> SUFFICES ASSUME NEW e \in Sides PROVE black2[d] = black[t.kid[d][e]] + Weight(reds2, d)
    OBVIOUS
  <2>1. black[d] = black[t.kid[d][e]] + 0 /\ black[t.kid[d][e]] \in Nat
    BY <1>1, <1>2, <1>3
  <2>2. black[t.kid[d][e]] = black[d]
    BY <1>4, <2>1
  <2> QED BY <1>3, <1>4, <1>5, <2>2
<1> HIDE DEF black2
<1>8. Repaint(t, p, s, c, d, near, reds, black, reds2, black2, Nil)
  <2>1. reds2 \subseteq Keys
    BY <1>1 DEF Painted, reds2, OverReds
  <2>2. \A k \in Places : k \notin {p, s, d} => (k \in reds <=> k \in reds2) /\ black2[k] = black[k]
    BY <1>5 DEF reds2, OverReds
  <2>3. /\ black2[p] = black2[near] + Weight(reds2, p) /\ black2[p] = black2[c] + Weight(reds2, p)
    BY <1>3, <1>5, <1>6
  <2>4. /\ black2[s] = black2[p] + Weight(reds2, s) /\ black2[s] = black2[d] + Weight(reds2, s)
    <3> DEFINE w == Weight(reds, p)
    <3>1. black[p] = black[near] + w + 1 /\ w \in Nat
      BY <1>3, <1>4
    <3> HIDE DEF w
    <3>2. black[p] = (black[near] + 1) + w
      BY <1>4, <3>1
    <3> QED BY <1>3, <1>5, <3>2 DEF w
  <2>5. p \notin reds2 /\ d \notin reds2 /\ (s \in reds2 => p \in reds)
    BY DEF reds2, OverReds
  <2> QED BY <1>2, <1>5, <1>6, <1>7, <2>1, <2>2, <2>3, <2>4, <2>5 DEF Repaint
<1>10. Repainted(Rotate(t, p, dir), nodes, reds2, IF p = p THEN Nil ELSE p, dir, Nil)
  BY <1>0, <1>8, RotatePaints
<1> QED BY <1>10 DEF reds2

(* The first rotation of delete_5, at the sibling.                          *)
LEMMA TurnBack ==
  ASSUME NEW t, NEW sub, NEW nodes, NEW s \in nodes, NEW dir \in Sides,
         NEW c, NEW e, NEW p, NEW far, NEW d, Axis(t, s, dir, c, e, p, far, d),
         NEW reds, NEW black, NEW side,
         Painted(t, sub, nodes, reds, black, p, side, Nil), p # Nil, p # c, p # far,
         s \notin reds, c \in reds, d \notin reds
  PROVE  Repainted(Rotate(t, s, dir), nodes, (reds \ {c}) \union {s}, p, side, Nil)
<1> USE KeyFacts
<1> DEFINE reds2 == (reds \ {c}) \union {s}
           black2 == [k \in Places |-> IF k = c THEN black[s] ELSE IF k = s THEN black[d] ELSE black[k]]
<1>0. Stage(t, sub, nodes, s, dir, c, e, p, far, d, reds, black, p, side, Nil)
  BY DEF Stage
<1>20. s # p
  <2>1. Tree(t, sub) /\ s \in sub[t.root]
    BY DEF Painted
  <2> QED BY <2>1, Around
<1>1. /\ s \in Keys /\ c \in Keys /\ c \in nodes /\ c # s /\ Nil \notin reds
      /\ \A k \in {e, far, d} : k \in Places /\ k # s /\ k # c
      /\ black \in [Places -> Nat] /\ black[Nil] = 0
      /\ black[s] = black[d] + Weight(reds, s) /\ black[s] = black[c] + Weight(reds, s)
      /\ black[c] = black[e] + Weight(reds, c) /\ black[c] = black[far] + Weight(reds, c)
      /\ far # Nil => \A x \in Sides : /\ t.kid[far][x] \in Places /\ t.kid[far][x] # far
                                       /\ black[far] = black[t.kid[far][x]] + Weight(reds, far)
      /\ c \in reds /\ e \in reds => e = Nil
      /\ c \in reds /\ far \in reds => far = Nil
  BY <1>0, <1>20, AxisPaints
<1>2. e \notin reds /\ far \notin reds
  BY <1>1
<1>3. Weight(reds, s) = 1 /\ Weight(reds, c) = 0 /\ Weight(reds2, s) = 0 /\ Weight(reds2, c) = 1
  BY <1>1 DEF Weight
<1>4. /\ black[s] \in Nat /\ black[d] \in Nat /\ black[c] \in Nat /\ black[e] \in Nat /\ black[far] \in Nat
      /\ black[s] = black[d] + 1 /\ black[c] = black[d] /\ black[e] = black[d] /\ black[far] = black[d]
  <2>1. /\ black[s] \in Nat /\ black[d] \in Nat /\ black[c] \in Nat /\ black[e] \in Nat /\ black[far] \in Nat
    BY <1>1
  <2>2. /\ black[s] = black[d] + 1 /\ black[s] = black[c] + 1
        /\ black[c] = black[e] + 0 /\ black[c] = black[far] + 0
    BY <1>0, <1>1, <1>3
  <2> QED BY <2>1, <2>2
<1>5. /\ black2 \in [Places -> Nat] /\ black2[c] = black[s] /\ black2[s] = black[d]
      /\ \A k \in Places : k \notin {c, s} => black2[k] = black[k]
  BY <1>1, <1>4
<1>6. /\ black2[e] = black[d] /\ black2[far] = black[d] /\ black2[d] = black[d] /\ black2[Nil] = 0
  BY <1>1, <1>4, <1>5
<1> HIDE DEF black2
<1>7. far # Nil => \A x \in Sides : black2[far] = black[t.kid[far][x]] + Weight(reds2, far)
  <2>1. Weight(reds2, far) = Weight(reds, far)
    BY <1>1 DEF Weight
  <2> QED BY <1>1, <1>4, <1>6, <2>1
<1>8. Repaint(t, s, c, e, far, d, reds, black, reds2, black2, Nil)
  <2>1. reds2 \subseteq Keys
    BY <1>1 DEF Painted
  <2>2. \A k \in Places : k \notin {s, c, far} => (k \in reds <=> k \in reds2) /\ black2[k] = black[k]
    BY <1>5
  <2>3. /\ black2[s] = black2[d] + Weight(reds2, s) /\ black2[s] = black2[e] + Weight(reds2, s)
        /\ black2[c] = black2[s] + Weight(reds2, c) /\ black2[c] = black2[far] + Weight(reds2, c)
    BY <1>3, <1>4, <1>5, <1>6
  <2>4. c \notin reds2 /\ d \notin reds2 /\ e \notin reds2 /\ far \notin reds2
    BY <1>1, <1>2
  <2> QED BY <1>5, <1>6, <1>7, <2>1, <2>2, <2>3, <2>4 DEF Repaint
<1>10. Repainted(Rotate(t, s, dir), nodes, reds2, IF p = s THEN Nil ELSE p, side, Nil)
  BY <1>0, <1>8, RotatePaints
<1> QED BY <1>20, <1>10

(* Where a node hangs. *)
LEMMA Hangs ==
  ASSUME NEW t, NEW sub, Tree(t, sub), NEW n \in sub[t.root]
  PROVE  /\ t.up[n] = Nil <=> n = t.root
         /\ t.up[n] # Nil => /\ t.up[n] \in sub[t.root] /\ t.up[n] # n /\ SideAt(t, t.up[n], n) \in Sides
                             /\ t.kid[t.up[n]][SideAt(t, t.up[n], n)] = n
         /\ \A k \in sub[t.root], d \in Sides :
              t.kid[k][d] = n => t.up[n] = k /\ d = SideAt(t, k, n)
<1> USE KeyFacts
<1>1. /\ \A k \in sub[t.root] : k \in Keys /\ k \in sub[k] /\ NodeOK(t, sub, k)
      /\ Grown(t, sub)
  BY TreeFacts DEF Tree
<1>2. t.up[n] = Nil <=> n = t.root
  BY <1>1 DEF Grown
<1>3. ASSUME t.up[n] # Nil
      PROVE  /\ t.up[n] \in sub[t.root] /\ t.up[n] # n /\ SideAt(t, t.up[n], n) \in Sides
             /\ t.kid[t.up[n]][SideAt(t, t.up[n], n)] = n
  <2>1. t.up[n] \in sub[t.root]
    BY <1>3, TreeFacts
  <2>2. PICK d \in Sides : t.kid[t.up[n]][d] = n
    BY <1>1, <1>3 DEF NodeOK
  <2>3. t.up[n] # n
    BY <1>1, <2>1, <2>2, TreeFacts
  <2> QED BY <2>1, <2>2, <2>3 DEF SideAt
<1>4. ASSUME NEW k \in sub[t.root], NEW d \in Sides, t.kid[k][d] = n
      PROVE  t.up[n] = k /\ d = SideAt(t, k, n)
  <2>1. n # Nil /\ t.up[n] = k
    BY <1>1, <1>4 DEF NodeOK
  <2>2. t.kid[k]["right"] = n => d = "right"
    BY <1>1, <1>4 DEF NodeOK
  <2> QED BY <1>4, <2>1, <2>2 DEF SideAt
<1> QED BY <1>2, <1>3, <1>4

(* Both rotations of tree_insert_node. *)
LEMMA MendTurns ==
  ASSUME NEW t, NEW sub, NEW nodes, NEW n \in nodes, NEW p, p = t.up[n], p # Nil,
         NEW g, g = t.up[p], g # Nil, NEW dir, dir = SideAt(t, g, p),
         NEW reds, NEW black, NEW side, Painted(t, sub, nodes, reds, black, Nil, side, n),
         p \in reds, n \in reds, t.kid[g][Other(dir)] \notin reds
  PROVE  /\ n # t.kid[p][Other(dir)] =>
              Repainted(Rotate(t, g, Other(dir)), nodes, (reds \ {p}) \union {g}, Nil, side, Nil)
         /\ n = t.kid[p][Other(dir)] =>
              Repainted(Rotate(Rotate(t, p, dir), g, Other(dir)), nodes, (reds \ {n}) \union {g}, Nil, side, Nil)
<1> USE KeyFacts
<1>1. Tree(t, sub) /\ nodes = sub[t.root]
  BY DEF Painted
<1>2. /\ n \in Keys /\ p \in nodes /\ p \in Keys /\ g \in nodes /\ g \in Keys
      /\ p # n /\ g # p /\ dir \in Sides /\ t.kid[g][dir] = p
  BY <1>1, Hangs, TreeFacts
<1>3. Other(dir) \in Sides /\ Other(dir) # dir /\ Other(Other(dir)) = dir
      /\ \A e \in Sides : e = dir \/ e = Other(dir)
  BY <1>2, SideTwo
<1>4. n = t.kid[p][dir] \/ n = t.kid[p][Other(dir)]
  BY <1>1, <1>3, Hangs, SMTT(30)
<1>5. CASE n # t.kid[p][Other(dir)]
  <2>1. Axis(t, g, Other(dir), p, t.kid[p][Other(dir)], t.up[g], n, t.kid[g][Other(dir)])
    BY <1>2, <1>3, <1>4, <1>5 DEF Axis
  <2>2. Repainted(Rotate(t, g, Other(dir)), nodes, (reds \ {p}) \union {g}, Nil, side, Nil)
    BY <1>2, <1>3, <2>1, TurnUp
  <2> QED BY <1>5, <2>2
<1>6. CASE n = t.kid[p][Other(dir)]
  <2> DEFINE c == t.kid[n][dir]
             far == t.kid[n][Other(dir)]
             near == t.kid[p][dir]
             r == Rotate(t, p, dir)
             u == t.kid[g][Other(dir)]
  <2>1. Axis(t, p, dir, n, c, g, far, near)
    BY <1>2, <1>6 DEF Axis
  <2> HIDE DEF r
  <2>0. r = Rotate(t, p, dir)
    BY DEF r
  <2>2. Repainted(r, nodes, reds, Nil, side, p)
    BY <1>2, <2>0, <2>1, TurnIn
  <2>3. PICK sub1, black1 : Painted(r, sub1, nodes, reds, black1, Nil, side, p)
    BY <2>2 DEF Repainted
  <2>20. p \in sub[t.root] /\ g \in sub[t.root]
    BY <1>1, <1>2
  <2> HIDE DEF c, far, near, u
  <2>4. /\ r.kid[n][dir] = p
        /\ \A k \in nodes \ {p, n}, d \in Sides : r.kid[k][d] = (IF t.kid[k][d] = p THEN n ELSE t.kid[k][d])
    <3>1. /\ r.kid[p][Other(dir)] = c /\ r.kid[p][dir] = near
          /\ r.kid[n][dir] = p /\ r.kid[n][Other(dir)] = far
          /\ \A k \in sub[t.root] \ {p, n}, d \in Sides :
               /\ r.kid[k][d] = (IF t.kid[k][d] = p THEN n ELSE t.kid[k][d])
               /\ t.kid[k][d] # n
               /\ t.kid[k][d] # Nil => t.kid[k][d] \notin {c, far, near}
      BY ONLY <1>1, <1>2, <2>0, <2>1, <2>20, RotateKids
    <3> QED BY <1>1, <3>1
  <2>5. g # n
    BY <1>1, <1>2, <2>1, <2>20, Around, SMTT(30)
  <2>6. r.kid[g][dir] = n
    BY <1>2, <2>4, <2>5
  <2>7. r.kid[g][Other(dir)] = u
    <3>1. u # p
      BY <1>1, <1>2, <1>3, Hangs DEF u
    <3> QED BY <1>2, <1>3, <2>4, <2>5, <3>1 DEF u
  <2>8. Axis(r, g, Other(dir), n, r.kid[n][Other(dir)], r.up[g], p, u)
    BY <1>2, <1>3, <2>4, <2>6, <2>7 DEF Axis, u
  <2>9. Repainted(Rotate(r, g, Other(dir)), nodes, (reds \ {n}) \union {g}, Nil, side, Nil)
    BY <1>2, <1>3, <2>3, <2>8, TurnUp DEF u
  <2> QED BY <1>6, <2>9 DEF r
<1> QED BY <1>5, <1>6

(* delete_6 and delete_5. *)
LEMMA BalanceTurns ==
  ASSUME NEW t, NEW sub, NEW nodes, NEW p \in nodes, NEW dir \in Sides,
         NEW s, s = t.kid[p][Other(dir)], s # Nil, NEW c, c = t.kid[s][dir], NEW d, d = t.kid[s][Other(dir)],
         NEW reds, NEW black, Painted(t, sub, nodes, reds, black, p, dir, Nil), s \notin reds
  PROVE  /\ d \in reds =>
              Repainted(Rotate(t, p, dir), nodes, OverReds(reds, p, s, d), Nil, dir, Nil)
         /\ d \notin reds /\ c \in reds =>
              \E after : /\ Repainted(Rotate(Rotate(t, s, Other(dir)), p, dir), nodes, after, Nil, dir, Nil)
                         /\ after = {k \in reds : k \notin {p, s} /\ (k = c => p \in reds)}
<1> USE KeyFacts
<1> DEFINE g == t.up[p]
           near == t.kid[p][dir]
<1>1. Tree(t, sub) /\ nodes = sub[t.root] /\ reds \subseteq Keys
  BY DEF Painted
<1>2. Axis(t, p, dir, s, c, g, d, near)
  BY DEF Axis
<1>3. Other(dir) \in Sides /\ Other(dir) # dir /\ Other(Other(dir)) = dir
  BY SideTwo
<1>4. /\ p \in Keys /\ s \in Keys /\ s \in nodes /\ s # p /\ t.up[s] = p
      /\ c # Nil => c \in nodes /\ c \in Keys /\ c # p /\ c # s
  BY <1>1, <1>2, Around, SMTT(30)
<1>5. ASSUME d \in reds
      PROVE  Repainted(Rotate(t, p, dir), nodes, OverReds(reds, p, s, d), Nil, dir, Nil)
  BY <1>2, <1>5, TurnOver
<1>6. ASSUME d \notin reds, c \in reds
      PROVE  /\ Repainted(Rotate(Rotate(t, s, Other(dir)), p, dir), nodes,
                          OverReds((reds \ {c}) \union {s}, p, c, s), Nil, dir, Nil)
             /\ OverReds((reds \ {c}) \union {s}, p, c, s)
                  = {k \in reds : k \notin {p, s} /\ (k = c => p \in reds)}
  <2> DEFINE e == t.kid[c][Other(dir)]
             far == t.kid[c][dir]
             r == Rotate(t, s, Other(dir))
             reds1 == (reds \ {c}) \union {s}
  <2>1. c # Nil /\ c \in nodes /\ c # p /\ c # s
    BY <1>1, <1>4, <1>6
  <2>2. Axis(t, s, Other(dir), c, e, p, far, d)
    BY <1>3, <1>4, <2>1 DEF Axis
  <2>3. p # far /\ p # Nil
    <3>1. /\ \A k \in nodes : k \in Keys /\ k \in sub[k]
          /\ s \in sub[p] /\ p \notin sub[s] /\ sub[c] \subseteq sub[s]
      BY <1>1, <1>3, <1>4, <2>1, TreeFacts, SMTT(30)
    <3>2. far # Nil => far \in sub[c]
      BY <1>1, <2>1, TreeFacts, SMTT(30)
    <3> QED BY <1>4, <3>1, <3>2
  <2> HIDE DEF e, far
  <2>4. Repainted(r, nodes, reds1, p, dir, Nil)
    <3>1. d \notin reds /\ c \in reds /\ s \notin reds /\ p # Nil /\ p # c /\ p # far /\ s \in nodes /\ Other(dir) \in Sides
      BY <1>3, <1>4, <1>6, <2>1, <2>3
    <3> QED BY <2>2, <3>1, TurnBack
  <2> HIDE DEF r
  <2>0. r = Rotate(t, s, Other(dir))
    BY DEF r
  <2>5. PICK sub1, black1 : Painted(r, sub1, nodes, reds1, black1, p, dir, Nil)
    BY <2>4 DEF Repainted
  <2>6. /\ r.kid[c][Other(dir)] = s /\ r.kid[c][Other(Other(dir))] = far
        /\ \A k \in nodes \ {s, c}, x \in Sides : r.kid[k][x] = (IF t.kid[k][x] = s THEN c ELSE t.kid[k][x])
    <3>1. s \in sub[t.root]
      BY <1>1, <1>4
    <3> DEFINE o == Other(dir)
    <3> HIDE DEF o
    <3>2. Tree(t, sub) /\ o \in Sides /\ Axis(t, s, o, c, e, p, far, d) /\ r = Rotate(t, s, o)
      BY <1>1, <1>3, <2>0, <2>2 DEF o
    <3>3. /\ r.kid[s][Other(o)] = e /\ r.kid[s][o] = d
          /\ r.kid[c][o] = s /\ r.kid[c][Other(o)] = far
          /\ \A k \in sub[t.root] \ {s, c}, x \in Sides :
               /\ r.kid[k][x] = (IF t.kid[k][x] = s THEN c ELSE t.kid[k][x])
               /\ t.kid[k][x] # c
               /\ t.kid[k][x] # Nil => t.kid[k][x] \notin {e, far, d}
      BY ONLY <3>1, <3>2, RotateKids
    <3> QED BY ONLY <1>1, <3>3 DEF o
  <2>7. r.kid[p][Other(dir)] = c
    BY <1>3, <1>4, <2>1, <2>6
  <2>8. Axis(r, p, dir, c, far, r.up[p], s, r.kid[p][dir])
    BY <1>3, <2>1, <2>6, <2>7 DEF Axis
  <2>9. c \notin reds1 /\ s \in reds1
    BY <2>1
  <2>10. Repainted(Rotate(r, p, dir), nodes, OverReds(reds1, p, c, s), Nil, dir, Nil)
    <3> HIDE DEF reds1
    <3> QED BY <2>5, <2>8, <2>9, TurnOver
  <2>11. OverReds(reds1, p, c, s) = {k \in reds : k \notin {p, s} /\ (k = c => p \in reds)}
    BY <1>4, <1>6, <2>1 DEF OverReds
  <2> QED BY <2>10, <2>11 DEF r
<1> QED BY <1>5, <1>6

-----------------------------------------------------------------------------
(* The steps of both that change colours only. *)
LEMMA PaintFacts ==
  ASSUME NEW t, NEW sub, NEW nodes, NEW reds, NEW black, NEW node, NEW side, NEW spot,
         Painted(t, sub, nodes, reds, black, node, side, spot)
  PROVE  /\ Tree(t, sub) /\ nodes = sub[t.root] /\ reds \subseteq Keys /\ nodes \subseteq Keys
         /\ Nil \notin nodes /\ Nil \notin reds
         /\ black \in [Places -> Nat] /\ black[Nil] = 0
         /\ \A k \in nodes, d \in Sides :
              /\ t.kid[k][d] \in Places /\ t.kid[k][d] # k
              /\ t.kid[k][d] # Nil => t.kid[k][d] \in nodes /\ t.up[t.kid[k][d]] = k
              /\ black[t.kid[k][d]] \in Nat
              /\ k # node => black[k] = black[t.kid[k][d]] + Weight(reds, k)
              /\ k = node /\ d # side => black[k] = black[t.kid[k][d]] + Weight(reds, k)
              /\ k = node /\ d = side => black[k] = black[t.kid[k][d]] + Weight(reds, k) + 1
              /\ k \in reds /\ t.kid[k][d] \in reds => t.kid[k][d] = spot
<1> USE KeyFacts
<1>1. /\ Tree(t, sub) /\ nodes = sub[t.root] /\ reds \subseteq Keys
      /\ Balanced(t, nodes, reds, black, node, side) /\ Calm(t, nodes, reds, spot)
  BY DEF Painted
<1>2. nodes \subseteq Keys
  BY <1>1, TreeFacts
<1>3. /\ black \in [Places -> Nat] /\ black[Nil] = 0
      /\ \A k \in nodes, d \in Sides :
           black[k] = black[t.kid[k][d]] + Weight(reds, k) + (IF k = node /\ d = side THEN 1 ELSE 0)
  BY <1>1 DEF Balanced
<1>4. ASSUME NEW k \in nodes, NEW d \in Sides
      PROVE  /\ t.kid[k][d] \in Places /\ t.kid[k][d] # k
             /\ t.kid[k][d] # Nil => t.kid[k][d] \in nodes /\ t.up[t.kid[k][d]] = k
  <2>1. k \in Keys /\ t.kid[k][d] \in Places
    BY <1>1, <1>2, TreeFacts
  <2>2. t.kid[k][d] # Nil => t.kid[k][d] \in nodes /\ t.kid[k][d] # k
    BY <1>1, TreeFacts
  <2>3. t.kid[k][d] # Nil => t.up[t.kid[k][d]] = k
    BY <1>1, <2>2, Hangs
  <2> QED BY <2>1, <2>2, <2>3
<1>5. ASSUME NEW k \in nodes, NEW d \in Sides
      PROVE  /\ black[t.kid[k][d]] \in Nat
             /\ k # node => black[k] = black[t.kid[k][d]] + Weight(reds, k)
             /\ k = node /\ d # side => black[k] = black[t.kid[k][d]] + Weight(reds, k)
             /\ k = node /\ d = side => black[k] = black[t.kid[k][d]] + Weight(reds, k) + 1
  <2> DEFINE w == Weight(reds, k)
             b == black[t.kid[k][d]]
  <2>1. w \in Nat /\ b \in Nat
    BY <1>3, <1>4 DEF Weight
  <2>2. black[k] = b + w + (IF k = node /\ d = side THEN 1 ELSE 0)
    BY <1>3
  <2> HIDE DEF w, b
  <2>3. /\ b \in Nat
        /\ k # node => black[k] = b + w
        /\ k = node /\ d # side => black[k] = b + w
        /\ k = node /\ d = side => black[k] = b + w + 1
    BY <2>1, <2>2
  <2> QED BY <2>3 DEF w, b
<1>6. \A k \in nodes, d \in Sides : k \in reds /\ t.kid[k][d] \in reds => t.kid[k][d] = spot
  BY <1>1 DEF Calm
<1> QED BY <1>1, <1>2, <1>3, <1>4, <1>5, <1>6

(* What is to be shown of painted nodes, without a sum of three. *)
Paints(t, nodes, reds, black, node, side, spot) ==
  /\ reds \subseteq Keys /\ black \in [Places -> Nat] /\ black[Nil] = 0
  /\ \A k \in nodes, d \in Sides :
       /\ black[t.kid[k][d]] \in Nat
       /\ black[k] = IF k = node /\ d = side THEN black[t.kid[k][d]] + Weight(reds, k) + 1
                     ELSE black[t.kid[k][d]] + Weight(reds, k)
       /\ k \in reds /\ t.kid[k][d] \in reds => t.kid[k][d] = spot

(* A tree with its colours from its parts.                                  *)
LEMMA PaintFrom ==
  ASSUME NEW t, NEW sub, Tree(t, sub), NEW nodes, nodes = sub[t.root],
         NEW reds, NEW black, NEW node, NEW side, NEW spot,
         Paints(t, nodes, reds, black, node, side, spot)
  PROVE  Repainted(t, nodes, reds, node, side, spot)
<1>1. ASSUME NEW k \in nodes, NEW d \in Sides
      PROVE  black[k] = black[t.kid[k][d]] + Weight(reds, k) + (IF k = node /\ d = side THEN 1 ELSE 0)
  <2> DEFINE w == Weight(reds, k)
             b == black[t.kid[k][d]]
  <2>1. w \in Nat /\ b \in Nat /\ black[k] = IF k = node /\ d = side THEN b + w + 1 ELSE b + w
    BY DEF Weight, Paints
  <2> HIDE DEF w, b
  <2>2. black[k] = b + w + (IF k = node /\ d = side THEN 1 ELSE 0)
    BY <2>1
  <2> QED BY <2>2 DEF w, b
<1>2. Painted(t, sub, nodes, reds, black, node, side, spot)
  BY <1>1 DEF Painted, Paints, Balanced, Calm
<1> QED BY <1>2 DEF Repainted

(* The repair of an insert ends under a black parent, or blackens the root. *)
LEMMA MendStops ==
  ASSUME NEW t, NEW sub, NEW nodes, NEW reds, NEW black, NEW side, NEW n \in nodes, NEW p, p = t.up[n],
         Painted(t, sub, nodes, reds, black, Nil, side, n)
  PROVE  /\ p = Nil \/ p \notin reds => Repainted(t, nodes, reds, Nil, side, Nil)
         /\ p \in reds /\ t.up[p] = Nil => Repainted(t, nodes, reds \ {p}, Nil, side, Nil)
<1> USE KeyFacts
<1>1. /\ Tree(t, sub) /\ nodes = sub[t.root] /\ reds \subseteq Keys /\ nodes \subseteq Keys
      /\ Nil \notin nodes /\ Nil \notin reds
      /\ black \in [Places -> Nat] /\ black[Nil] = 0
  BY PaintFacts
<1>2. \A k \in nodes, d \in Sides :
              /\ t.kid[k][d] \in Places /\ t.kid[k][d] # k
              /\ t.kid[k][d] # Nil => t.kid[k][d] \in nodes /\ t.up[t.kid[k][d]] = k
              /\ black[t.kid[k][d]] \in Nat
              /\ black[k] = black[t.kid[k][d]] + Weight(reds, k)
              /\ k \in reds /\ t.kid[k][d] \in reds => t.kid[k][d] = n
  BY <1>1, PaintFacts
<1>3. ASSUME p = Nil \/ p \notin reds PROVE Repainted(t, nodes, reds, Nil, side, Nil)
  <2>1. \A k \in nodes, d \in Sides : k \in reds /\ t.kid[k][d] \in reds => t.kid[k][d] = Nil
    BY <1>1, <1>2, <1>3
  <2>2. \A k \in nodes, d \in Sides :
          /\ black[t.kid[k][d]] \in Nat
          /\ black[k] = IF k = Nil /\ d = side THEN black[t.kid[k][d]] + Weight(reds, k) + 1
                        ELSE black[t.kid[k][d]] + Weight(reds, k)
    BY <1>1, <1>2
  <2>3. Paints(t, nodes, reds, black, Nil, side, Nil)
    BY <1>1, <2>1, <2>2 DEF Paints
  <2> QED BY <1>1, <2>3, PaintFrom
<1>4. ASSUME p \in reds, t.up[p] = Nil PROVE Repainted(t, nodes, reds \ {p}, Nil, side, Nil)
  <2> DEFINE black2 == [k \in Places |-> IF k = p THEN black[k] + 1 ELSE black[k]]
             reds2 == reds \ {p}
  <2>1. black2 \in [Places -> Nat] /\ black2[Nil] = 0 /\ reds2 \in SUBSET Keys
    BY <1>1, <1>4
  <2>2. ASSUME NEW k \in nodes, NEW d \in Sides
        PROVE  /\ black2[t.kid[k][d]] \in Nat
               /\ black2[k] = black2[t.kid[k][d]] + Weight(reds2, k)
    <3> DEFINE x == t.kid[k][d]
    <3>1. x # p
      BY <1>1, <1>2, <1>4
    <3>2. black2[x] = black[x] /\ black[x] \in Nat /\ black[k] = black[x] + Weight(reds, k) /\ k \in Places
      BY <1>1, <1>2, <3>1
    <3> HIDE DEF x
    <3>3. CASE k = p
      <4>1. Weight(reds, k) = 0 /\ Weight(reds2, k) = 1 /\ black2[k] = black[k] + 1
        BY <1>4, <3>2, <3>3 DEF Weight
      <4> HIDE DEF black2, reds2
      <4>2. black2[k] = black2[x] + Weight(reds2, k)
        BY <3>2, <4>1
      <4> QED BY <3>2, <4>2 DEF x
    <3>4. CASE k # p
      <4>1. Weight(reds, k) = Weight(reds2, k) /\ black2[k] = black[k]
        BY <3>2, <3>4 DEF Weight
      <4> HIDE DEF black2, reds2
      <4>2. black2[k] = black2[x] + Weight(reds2, k)
        BY <3>2, <4>1
      <4> QED BY <3>2, <4>2 DEF x
    <3> QED BY <3>3, <3>4
  <2>3. \A k \in nodes, d \in Sides : k \in reds2 /\ t.kid[k][d] \in reds2 => t.kid[k][d] = Nil
    BY <1>1, <1>2, <1>4
  <2> HIDE DEF black2, reds2
  <2>4. \A k \in nodes, d \in Sides :
          /\ black2[t.kid[k][d]] \in Nat
          /\ black2[k] = IF k = Nil /\ d = side THEN black2[t.kid[k][d]] + Weight(reds2, k) + 1
                         ELSE black2[t.kid[k][d]] + Weight(reds2, k)
    BY <1>1, <2>2
  <2>6. Paints(t, nodes, reds2, black2, Nil, side, Nil)
    BY <2>1, <2>3, <2>4 DEF Paints
  <2>5. Repainted(t, nodes, reds2, Nil, side, Nil)
    BY <1>1, <2>6, PaintFrom
  <2> QED BY <2>5 DEF reds2
<1> QED BY <1>3, <1>4

(* With a red uncle, the repair goes on two levels above.                   *)
LEMMA MendUncle ==
  ASSUME NEW t, NEW sub, NEW nodes, NEW reds, NEW black, NEW side, NEW n \in nodes, NEW p, p = t.up[n],
         NEW g, g = t.up[p], g # Nil, NEW dir, dir = SideAt(t, g, p), NEW u, u = t.kid[g][Other(dir)],
         Painted(t, sub, nodes, reds, black, Nil, side, n), p \in reds, n \in reds, u \in reds
  PROVE  Repainted(t, nodes, (reds \ {p, u}) \union {g}, Nil, side, g) /\ g \in nodes
<1> USE KeyFacts
<1>1. /\ Tree(t, sub) /\ nodes = sub[t.root] /\ reds \subseteq Keys /\ nodes \subseteq Keys
      /\ Nil \notin nodes /\ Nil \notin reds
      /\ black \in [Places -> Nat] /\ black[Nil] = 0
  BY PaintFacts
<1>2. \A k \in nodes, d \in Sides :
              /\ t.kid[k][d] \in Places /\ t.kid[k][d] # k
              /\ t.kid[k][d] # Nil => t.kid[k][d] \in nodes /\ t.up[t.kid[k][d]] = k
              /\ black[t.kid[k][d]] \in Nat
              /\ black[k] = black[t.kid[k][d]] + Weight(reds, k)
              /\ k \in reds /\ t.kid[k][d] \in reds => t.kid[k][d] = n
  BY <1>1, PaintFacts
<1>3. /\ p \in nodes /\ g \in nodes /\ p # n /\ g # p /\ dir \in Sides /\ t.kid[g][dir] = p
  <2>1. p \in nodes /\ p # n
    BY <1>1, Hangs
  <2> QED BY <1>1, <2>1, Hangs
<1>4. Other(dir) \in Sides /\ Other(dir) # dir /\ \A e \in Sides : e = dir \/ e = Other(dir)
  BY <1>3, SideTwo
<1>5. /\ u \in nodes /\ t.up[u] = g /\ u # g /\ g \notin reds
      /\ \A k \in nodes, d \in Sides : t.kid[k][d] = n => k = p
      /\ \A k \in nodes, d \in Sides : t.kid[k][d] \in {p, u} => k = g
  <2>1. u # Nil /\ p # Nil /\ n # Nil
    BY <1>1
  <2>2. u \in nodes /\ t.up[u] = g /\ u # g
    <3> DEFINE o == Other(dir)
    <3>1. o \in Sides /\ u = t.kid[g][o]
      BY <1>4
    <3> HIDE DEF o
    <3> QED BY ONLY <1>2, <1>3, <2>1, <3>1
  <2>3. g \notin reds
    BY <1>2, <1>3
  <2>4. \A k \in nodes, d \in Sides : t.kid[k][d] = n => k = p
    BY <1>2, <2>1
  <2>5. \A k \in nodes, d \in Sides : t.kid[k][d] \in {p, u} => k = g
    BY ONLY <1>2, <1>3, <2>1, <2>2, p = t.up[n], g = t.up[p]
  <2> QED BY <2>2, <2>3, <2>4, <2>5
<1> DEFINE black2 == [k \in Places |-> IF k = p \/ k = u THEN black[k] + 1 ELSE black[k]]
           reds2 == (reds \ {p, u}) \union {g}
<1>6. black2 \in [Places -> Nat] /\ black2[Nil] = 0 /\ reds2 \in SUBSET Keys
  <2>1. \A k \in Places : black[k] \in Nat /\ black[k] + 1 \in Nat
    BY <1>1
  <2>2. black2 \in [Places -> Nat]
    BY <2>1
  <2>3. p # Nil /\ u # Nil
    BY <1>1
  <2> QED BY <1>1, <1>3, <2>2, <2>3
<1>7. ASSUME NEW k \in nodes, NEW d \in Sides
      PROVE  /\ black2[t.kid[k][d]] \in Nat
             /\ black2[k] = black2[t.kid[k][d]] + Weight(reds2, k)
  <2> DEFINE x == t.kid[k][d]
  <2>1. x \in Places /\ black[x] \in Nat /\ black[k] = black[x] + Weight(reds, k) /\ k \in Places
    BY <1>1, <1>2
  <2>2. CASE k = p \/ k = u
    <3>1. x \notin {p, u} /\ k \in reds /\ k \notin reds2
      BY <1>3, <1>5, <2>2
    <3>2. Weight(reds, k) = 0 /\ Weight(reds2, k) = 1
      BY <3>1 DEF Weight
    <3>3. black2[k] = black[k] + 1 /\ black2[x] = black[x]
      BY <2>1, <2>2, <3>1
    <3> HIDE DEF black2, reds2, x
    <3>4. black2[k] = black2[x] + Weight(reds2, k)
      BY <2>1, <3>2, <3>3
    <3> QED BY <2>1, <3>3, <3>4 DEF x
  <2>3. CASE k = g
    <3>1. x = p \/ x = u
      BY <1>3, <1>4, <2>3
    <3>2. Weight(reds, k) = 1 /\ Weight(reds2, k) = 0
      BY <1>5, <2>3 DEF Weight
    <3>3. black2[k] = black[k] /\ black2[x] = black[x] + 1
      BY <1>3, <1>5, <2>1, <2>3, <3>1
    <3> HIDE DEF black2, reds2, x
    <3>4. black2[k] = black2[x] + Weight(reds2, k) /\ black2[x] \in Nat
      BY <2>1, <3>2, <3>3
    <3> QED BY <3>4 DEF x
  <2>4. CASE k \notin {p, u, g}
    <3>1. x \notin {p, u}
      BY <1>5, <2>4
    <3>2. Weight(reds2, k) = Weight(reds, k)
      BY <2>4 DEF Weight
    <3>3. black2[k] = black[k] /\ black2[x] = black[x]
      BY <2>1, <2>4, <3>1
    <3> HIDE DEF black2, reds2, x
    <3> QED BY <2>1, <3>2, <3>3 DEF x
  <2> QED BY <2>2, <2>3, <2>4
<1>8. ASSUME NEW k \in nodes, NEW d \in Sides, k \in reds2, t.kid[k][d] \in reds2
      PROVE  t.kid[k][d] = g
  <2>1. CASE k = g
    BY <1>2, <1>3, <1>4, <1>8, <2>1
  <2>2. CASE k # g
    BY <1>2, <1>5, <1>8, <2>2
  <2> QED BY <2>1, <2>2
<1> HIDE DEF black2, reds2
<1>9. Paints(t, nodes, reds2, black2, Nil, side, g)
  BY <1>1, <1>6, <1>7, <1>8 DEF Paints
<1>10. Repainted(t, nodes, reds2, Nil, side, g)
  BY <1>1, <1>9, PaintFrom
<1> QED BY <1>3, <1>10 DEF reds2

(* Where nothing is missing, the side does not matter. *)
LEMMA AnySide ==
  ASSUME NEW t, NEW nodes, NEW reds, NEW side, NEW spot, Repainted(t, nodes, reds, Nil, side, spot), NEW other
  PROVE  Repainted(t, nodes, reds, Nil, other, spot)
<1>1. PICK sub, black : Painted(t, sub, nodes, reds, black, Nil, side, spot)
  BY DEF Repainted
<1>2. /\ Tree(t, sub) /\ nodes = sub[t.root] /\ reds \subseteq Keys /\ Nil \notin nodes
      /\ black \in [Places -> Nat] /\ black[Nil] = 0
      /\ \A k \in nodes, d \in Sides :
              /\ black[t.kid[k][d]] \in Nat
              /\ k # Nil => black[k] = black[t.kid[k][d]] + Weight(reds, k)
              /\ k \in reds /\ t.kid[k][d] \in reds => t.kid[k][d] = spot
  BY <1>1, PaintFacts
<1>3. Paints(t, nodes, reds, black, Nil, other, spot)
  BY <1>2 DEF Paints
<1> QED BY <1>2, <1>3, PaintFrom

(* An erase that only changes colours at p ends there, or goes on above it. *)
LEMMA BalancePaints ==
  ASSUME NEW t, NEW sub, NEW nodes, NEW p \in nodes, NEW dir \in Sides,
         NEW s, s = t.kid[p][Other(dir)], NEW c, c = t.kid[s][dir], NEW d, d = t.kid[s][Other(dir)],
         NEW reds, NEW black, Painted(t, sub, nodes, reds, black, p, dir, Nil), s \notin reds
  PROVE  /\ s # Nil
         /\ c \notin reds /\ d \notin reds /\ p \in reds =>
              Repainted(t, nodes, (reds \ {p}) \union {s}, Nil, dir, Nil)
         /\ c \notin reds /\ d \notin reds /\ p \notin reds =>
              Repainted(t, nodes, reds \union {s}, t.up[p], SideAt(t, t.up[p], p), Nil)
<1> USE KeyFacts
<1>0. Other(dir) \in Sides /\ Other(dir) # dir /\ \A e \in Sides : e = dir \/ e = Other(dir)
  BY SideTwo
<1>1. /\ Tree(t, sub) /\ nodes = sub[t.root] /\ reds \subseteq Keys /\ nodes \subseteq Keys
      /\ Nil \notin nodes /\ Nil \notin reds
      /\ black \in [Places -> Nat] /\ black[Nil] = 0
  BY PaintFacts
<1>2. \A k \in nodes, e \in Sides :
              /\ t.kid[k][e] \in Places /\ t.kid[k][e] # k
              /\ t.kid[k][e] # Nil => t.kid[k][e] \in nodes /\ t.up[t.kid[k][e]] = k
              /\ black[t.kid[k][e]] \in Nat
              /\ k # p => black[k] = black[t.kid[k][e]] + Weight(reds, k)
              /\ k = p /\ e # dir => black[k] = black[t.kid[k][e]] + Weight(reds, k)
              /\ k = p /\ e = dir => black[k] = black[t.kid[k][e]] + Weight(reds, k) + 1
              /\ k \in reds /\ t.kid[k][e] \in reds => t.kid[k][e] = Nil
  BY <1>1, PaintFacts
<1>3. Weight(reds, p) \in Nat /\ (p \in reds => Weight(reds, p) = 0) /\ (p \notin reds => Weight(reds, p) = 1)
  BY DEF Weight
<1> DEFINE near == t.kid[p][dir]
<1>4. /\ black[p] \in Nat /\ black[s] \in Nat /\ black[near] \in Nat
      /\ black[p] = black[s] + Weight(reds, p)
      /\ black[p] = black[near] + Weight(reds, p) + 1
  BY <1>0, <1>1, <1>2
<1>5. black[s] = black[near] + 1 /\ s # Nil
  <2> DEFINE w == Weight(reds, p)
  <2> HIDE DEF near, w
  <2>1. black[s] = black[near] + 1
    <3>1. /\ black[p] = black[s] + w /\ black[p] = black[near] + w + 1 /\ w \in Nat
      BY <1>3, <1>4 DEF w
    <3> QED BY <1>4, <3>1
  <2>2. s # Nil
    BY <1>1, <1>4, <2>1
  <2> QED BY <2>1, <2>2
<1>6. /\ s \in nodes /\ s # p /\ t.up[s] = p /\ s \in Keys /\ p \in Keys
      /\ black[s] = black[c] + 1 /\ black[s] = black[d] + 1
      /\ c \in Places /\ c # s /\ black[c] \in Nat /\ d \in Places /\ d # s /\ black[d] \in Nat
      /\ \A k \in nodes, e \in Sides : t.kid[k][e] = s => k = p /\ e = Other(dir)
  <2>1. s \in nodes /\ s # p /\ t.up[s] = p
    BY <1>0, <1>2, <1>5
  <2>2. Weight(reds, s) = 1
    BY DEF Weight
  <2>3. /\ black[s] = black[c] + 1 /\ black[s] = black[d] + 1
        /\ c \in Places /\ c # s /\ black[c] \in Nat /\ d \in Places /\ d # s /\ black[d] \in Nat
    BY <1>0, <1>2, <2>1, <2>2
  <2>4. \A k \in nodes, e \in Sides : t.kid[k][e] = s => k = p /\ e = Other(dir)
    BY <1>0, <1>1, <2>1, Hangs
  <2> QED BY <1>1, <2>1, <2>3, <2>4
<1>7. /\ black[near] \in Nat /\ black[s] \in Nat /\ black[s] - 1 = black[near] /\ near # s /\ near \in Places /\ near # p
  <2>1. near # s /\ near \in Places /\ near # p
    <3>1. near \in Places /\ near # p
      BY <1>2
    <3>2. near # s
      BY <1>0, <1>6
    <3> QED BY <3>1, <3>2
  <2> HIDE DEF near
  <2> QED BY <1>4, <1>5, <2>1
<1>8. ASSUME c \notin reds, d \notin reds, p \in reds
      PROVE  Repainted(t, nodes, (reds \ {p}) \union {s}, Nil, dir, Nil)
  <2> DEFINE black2 == [k \in Places |-> IF k = s THEN black[near] ELSE black[k]]
             reds2 == (reds \ {p}) \union {s}
  <2>1. black2 \in [Places -> Nat] /\ black2[Nil] = 0 /\ reds2 \in SUBSET Keys
    BY <1>1, <1>5, <1>6, <1>7
  <2>2. ASSUME NEW k \in nodes, NEW e \in Sides
        PROVE  /\ black2[t.kid[k][e]] \in Nat
               /\ black2[k] = black2[t.kid[k][e]] + Weight(reds2, k)
    <3> DEFINE x == t.kid[k][e]
    <3>1. x \in Places /\ black[x] \in Nat /\ k \in Places
      BY <1>1, <1>2
    <3>2. CASE k = p
      <4>1. Weight(reds2, k) = 1 /\ black2[k] = black[p]
        BY <1>6, <3>2 DEF Weight
      <4>2. black2[x] = black[near]
        <5>1. x = near \/ x = s
          BY <1>0, <3>2
        <5> HIDE DEF x, near
        <5> QED BY <1>6, <1>7, <3>1, <5>1
      <4>3. black[p] = black[near] + 1
        BY <1>3, <1>4, <1>5, <1>8
      <4> HIDE DEF black2, reds2, x, near
      <4>4. black2[k] = black2[x] + Weight(reds2, k) /\ black2[x] \in Nat
        BY <1>7, <4>1, <4>2, <4>3
      <4> QED BY <4>4 DEF x
    <3>3. CASE k = s
      <4>1. Weight(reds2, k) = 0 /\ black2[k] = black[near]
        BY <1>6, <3>1, <3>3 DEF Weight
      <4>2. (x = c \/ x = d) /\ x # s
        BY <1>0, <1>6, <3>3
      <4>3. black2[x] = black[x] /\ black[x] = black[near]
        BY <1>5, <1>6, <1>7, <3>1, <4>2, SMTT(30)
      <4> HIDE DEF black2, reds2, x, near
      <4>4. black2[k] = black2[x] + Weight(reds2, k) /\ black2[x] \in Nat
        BY <1>7, <4>1, <4>3
      <4> QED BY <4>4 DEF x
    <3>4. CASE k # p /\ k # s
      <4>1. Weight(reds2, k) = Weight(reds, k) /\ black2[k] = black[k]
        BY <3>1, <3>4 DEF Weight
      <4>2. x # s
        BY <1>6, <3>4
      <4>3. black2[x] = black[x] /\ black[k] = black[x] + Weight(reds, k)
        BY <1>2, <3>1, <3>4, <4>2
      <4> HIDE DEF black2, reds2, x, near
      <4> QED BY <3>1, <4>1, <4>3 DEF x
    <3> QED BY <3>2, <3>3, <3>4
  <2>3. \A k \in nodes, e \in Sides : k \in reds2 /\ t.kid[k][e] \in reds2 => t.kid[k][e] = Nil
    <3> SUFFICES ASSUME NEW k \in nodes, NEW e \in Sides, k \in reds2, t.kid[k][e] \in reds2
                 PROVE  t.kid[k][e] = Nil
      OBVIOUS
    <3>1. CASE k = s
      BY <1>0, <1>6, <1>8, <3>1
    <3>2. CASE k # s
      <4>1. k \in reds /\ k # p /\ t.kid[k][e] # s
        BY <1>6, <3>2
      <4>2. t.kid[k][e] \in reds
        BY <4>1
      <4> QED BY <1>2, <4>1, <4>2
    <3> QED BY <3>1, <3>2
  <2> HIDE DEF black2, reds2
  <2>4. Paints(t, nodes, reds2, black2, Nil, dir, Nil)
    BY <1>1, <2>1, <2>2, <2>3 DEF Paints
  <2>5. Repainted(t, nodes, reds2, Nil, dir, Nil)
    BY <1>1, <2>4, PaintFrom
  <2> QED BY <2>5 DEF reds2
<1>9. ASSUME c \notin reds, d \notin reds, p \notin reds
      PROVE  Repainted(t, nodes, reds \union {s}, t.up[p], SideAt(t, t.up[p], p), Nil)
  <2> DEFINE black2 == [k \in Places |-> IF k = s THEN black[near] ELSE IF k = p THEN black[near] + 1 ELSE black[k]]
             reds2 == reds \union {s}
             g == t.up[p]
             side == SideAt(t, g, p)
  <2>1. black2 \in [Places -> Nat] /\ black2[Nil] = 0 /\ reds2 \in SUBSET Keys
    BY <1>1, <1>5, <1>6, <1>7
  <2>0. /\ \A k \in nodes, e \in Sides : t.kid[k][e] = p <=> k = g /\ e = side
        /\ g # p
    BY <1>1, Hangs
  <2>10. g # s
    <3>1. Axis(t, p, dir, s, c, g, d, near)
      BY <1>5 DEF Axis
    <3>2. p \in sub[t.root]
      BY <1>1
    <3> HIDE DEF g, near
    <3> QED BY <1>1, <3>1, <3>2, Around
  <2> HIDE DEF g, side
  <2>2. ASSUME NEW k \in nodes, NEW e \in Sides
        PROVE  /\ black2[t.kid[k][e]] \in Nat
               /\ black2[k] = IF k = g /\ e = side THEN black2[t.kid[k][e]] + Weight(reds2, k) + 1
                              ELSE black2[t.kid[k][e]] + Weight(reds2, k)
    <3> DEFINE x == t.kid[k][e]
    <3>1. x \in Places /\ black[x] \in Nat /\ k \in Places
      BY <1>1, <1>2
    <3>2. CASE k = p
      <4>1. Weight(reds2, k) = 1 /\ black2[k] = black[near] + 1 /\ k # g
        BY <1>6, <1>9, <2>0, <3>2 DEF Weight
      <4>2. black2[x] = black[near]
        <5>1. x = near \/ x = s
          BY <1>0, <3>2
        <5> HIDE DEF x, near
        <5> QED BY <1>6, <1>7, <3>1, <5>1
      <4> HIDE DEF black2, reds2, x, near
      <4>4. black2[k] = black2[x] + Weight(reds2, k) /\ black2[x] \in Nat
        BY <1>7, <4>1, <4>2
      <4> QED BY <4>1, <4>4 DEF x
    <3>3. CASE k = s
      <4>1. Weight(reds2, k) = 0 /\ black2[k] = black[near] /\ k # g
        BY <1>6, <2>10, <3>1, <3>3 DEF Weight
      <4>2. (x = c \/ x = d) /\ x # s /\ x # p
        BY <1>0, <1>6, <2>0, <2>10, <3>3
      <4>3. black2[x] = black[x] /\ black[x] = black[near]
        BY <1>5, <1>6, <1>7, <3>1, <4>2, SMTT(30)
      <4> HIDE DEF black2, reds2, x, near
      <4>4. black2[k] = black2[x] + Weight(reds2, k) /\ black2[x] \in Nat
        BY <1>7, <4>1, <4>3
      <4> QED BY <4>1, <4>4 DEF x
    <3>4. CASE k # p /\ k # s /\ x # p
      <4>1. Weight(reds2, k) = Weight(reds, k) /\ black2[k] = black[k]
        BY <3>1, <3>4 DEF Weight
      <4>2. x # s /\ ~ (k = g /\ e = side)
        BY <1>6, <2>0, <3>4
      <4>3. black2[x] = black[x] /\ black[k] = black[x] + Weight(reds, k)
        BY <1>2, <3>1, <3>4, <4>2
      <4> HIDE DEF black2, reds2, x, near
      <4> QED BY <3>1, <4>1, <4>2, <4>3 DEF x
    <3>5. CASE k # p /\ k # s /\ x = p
      <4>1. Weight(reds2, k) = Weight(reds, k) /\ black2[k] = black[k] /\ Weight(reds, k) \in Nat
        BY <3>1, <3>5 DEF Weight
      <4>2. k = g /\ e = side
        BY <2>0, <3>5
      <4>3. black2[x] = black[near] + 1 /\ black[k] = black[p] + Weight(reds, k) /\ black[p] = (black[near] + 1) + 1
        <5>1. black2[x] = black[near] + 1
          BY <1>6, <3>1, <3>5
        <5>2. black[k] = black[p] + Weight(reds, k)
          BY <1>2, <3>5
        <5>3. black[p] = black[near] + 1 + 1
          BY <1>3, <1>4, <1>9
        <5> HIDE DEF near, black2
        <5> QED BY <1>7, <5>1, <5>2, <5>3
      <4> HIDE DEF black2, reds2, x, near
      <4>4. black2[k] = black2[x] + Weight(reds2, k) + 1 /\ black2[x] \in Nat
        <5> DEFINE w == Weight(reds, k)
                   b == black[near]
        <5>1. w \in Nat /\ b \in Nat /\ black2[x] = b + 1 /\ black2[k] = ((b + 1) + 1) + w
          BY <1>7, <4>1, <4>3
        <5> HIDE DEF w, b
        <5>2. black2[k] = black2[x] + w + 1 /\ black2[x] \in Nat
          BY <5>1
        <5> QED BY <4>1, <5>2 DEF w
      <4> QED BY <4>2, <4>4 DEF x
    <3> QED BY <3>2, <3>3, <3>4, <3>5
  <2>3. \A k \in nodes, e \in Sides : k \in reds2 /\ t.kid[k][e] \in reds2 => t.kid[k][e] = Nil
    <3> SUFFICES ASSUME NEW k \in nodes, NEW e \in Sides, k \in reds2, t.kid[k][e] \in reds2
                 PROVE  t.kid[k][e] = Nil
      OBVIOUS
    <3>1. CASE k = s
      BY <1>0, <1>6, <1>9, <3>1
    <3>2. CASE k # s
      <4>1. k \in reds /\ k # p /\ t.kid[k][e] # s
        BY <1>6, <1>9, <3>2
      <4>2. t.kid[k][e] \in reds
        BY <4>1
      <4> QED BY <1>2, <4>1, <4>2
    <3> QED BY <3>1, <3>2
  <2> HIDE DEF black2, reds2
  <2>4. Paints(t, nodes, reds2, black2, g, side, Nil)
    BY <1>1, <2>1, <2>2, <2>3 DEF Paints
  <2>5. Repainted(t, nodes, reds2, g, side, Nil)
    BY <1>1, <2>4, PaintFrom
  <2> QED BY <2>5 DEF reds2, g, side
<1> QED BY <1>5, <1>8, <1>9

-----------------------------------------------------------------------------
(* A new node a under p. *)
HungAt(r, t, a, p, side) ==
  /\ r \in Shapes /\ r.root = t.root
  /\ \A k \in Keys : r.up[k] = IF k = a THEN p ELSE t.up[k]
  /\ \A k \in Keys, d \in Sides : r.kid[k][d] = IF k = p /\ d = side THEN a ELSE t.kid[k][d]

(* Below p is where a belongs. *)
Fits(t, sub, a, p) ==
  \A x \in sub[t.root] : x \notin sub[p] => a # x /\ (a < x <=> p < x)

(* A node under a missing child leaves a tree.                              *)
LEMMA AttachKeeps ==
  ASSUME NEW t, NEW sub, Tree(t, sub), NEW p \in sub[t.root], NEW a \in Keys, a # p,
         NEW side, side = SideFor(a, p), t.kid[p][side] = Nil, Fits(t, sub, a, p),
         NEW r, HungAt(r, t, a, p, side)
  PROVE  /\ a \notin sub[t.root]
         /\ \E new : Tree(r, new) /\ new[r.root] = sub[t.root] \union {a}
<1> USE KeyFacts
<1> DEFINE N == sub[t.root]
           new == [x \in Places |-> IF x = a THEN {a} ELSE IF p \in sub[x] THEN sub[x] \union {a} ELSE sub[x]]
<1>1. /\ t.root \in Places /\ N \subseteq Keys
      /\ \A n \in Places : sub[n] \subseteq Keys
      /\ \A n \in Keys : t.up[n] \in Places /\ \A d \in Sides : t.kid[n][d] \in Places
      /\ \A n \in N : n \in Keys /\ n \in sub[n] /\ sub[n] \subseteq N
  BY TreeFacts
<1>2. /\ t \in Shapes /\ Grown(t, sub) /\ Nested(t, sub) /\ Convex(t, sub)
      /\ \A n \in N : NodeOK(t, sub, n)
      /\ sub[Nil] = {} /\ p \in Keys
  BY <1>1 DEF Tree, Grown
<1>3. /\ r \in Shapes /\ r.root = t.root
      /\ \A k \in Keys : r.up[k] = IF k = a THEN p ELSE t.up[k]
      /\ \A k \in Keys, d \in Sides : r.kid[k][d] = IF k = p /\ d = side THEN a ELSE t.kid[k][d]
  BY DEF HungAt
<1>4. side \in Sides
  BY <1>1, SideFacts
<1>5. a \notin N
  <2>1. a \notin sub[p]
    <3> SUFFICES ASSUME a \in sub[p] PROVE FALSE
      OBVIOUS
    <3>1. PICK d \in Sides : a \in sub[t.kid[p][d]]
      BY <1>2 DEF NodeOK
    <3>2. SideFor(a, p) = d
      BY <1>2, <3>1 DEF NodeOK
    <3> QED BY <1>2, <3>1, <3>2
  <2> QED BY <2>1 DEF Fits
<1>6. /\ t.up[a] = Nil /\ t.root # a /\ p # Nil /\ t.root # Nil
      /\ \A d \in Sides : t.kid[a][d] = Nil
      /\ \A n \in N : n # a /\ \A d \in Sides : t.kid[n][d] # a
  <2>1. t.up[a] = Nil /\ t.root # a /\ \A d \in Sides : t.kid[a][d] = Nil
    BY <1>2, <1>5 DEF Grown
  <2>2. \A n \in N : n # a /\ \A d \in Sides : t.kid[n][d] # a
    BY <1>5, TreeFacts
  <2>3. p # Nil /\ t.root # Nil
    BY <1>2
  <2> QED BY <2>1, <2>2, <2>3
<1>7. /\ new \in [Places -> SUBSET Keys] /\ new[Nil] = {} /\ new[a] = {a}
      /\ \A n \in Places : n # a => new[n] = IF p \in sub[n] THEN sub[n] \union {a} ELSE sub[n]
      /\ new[r.root] = N \union {a}
      /\ \A n \in N : \A x \in N : x \in new[n] <=> x \in sub[n]
      /\ \A n \in N : a \in new[n] <=> p \in sub[n]
  <2>1. \A n \in Places : n # a => new[n] = IF p \in sub[n] THEN sub[n] \union {a} ELSE sub[n]
    OBVIOUS
  <2>2. new \in [Places -> SUBSET Keys]
    BY <1>1
  <2>3. new[Nil] = {} /\ new[a] = {a}
    BY <1>2
  <2>4. new[r.root] = N \union {a}
    BY <1>1, <1>3, <1>6, <2>1
  <2>5. ASSUME NEW n \in N PROVE n \in Places /\ n # a /\ a \notin sub[n]
    BY <1>1, <1>5
  <2> HIDE DEF new
  <2>6. /\ \A n \in N : \A x \in N : x \in new[n] <=> x \in sub[n]
        /\ \A n \in N : a \in new[n] <=> p \in sub[n]
    BY <1>5, <2>1, <2>5
  <2> QED BY <2>1, <2>2, <2>3, <2>4, <2>6
<1> HIDE DEF new
<1>8. Grown(r, new)
  <2>1. \A n \in Keys : n \in new[r.root] <=> n = r.root \/ r.up[n] # Nil
    BY <1>2, <1>3, <1>6, <1>7 DEF Grown
  <2>2. r.root # Nil => r.up[r.root] = Nil
    <3>1. t.root \in Keys /\ t.up[t.root] = Nil /\ t.root # a
      BY <1>1, <1>2, <1>6 DEF Grown, Places
    <3> QED BY <1>3, <3>1
  <2>3. \A n \in Keys : n \notin new[r.root] => \A d \in Sides : r.kid[n][d] = Nil
    BY <1>2, <1>3, <1>7 DEF Grown
  <2> QED BY <1>7, <2>1, <2>2, <2>3 DEF Grown
<1>9. \A n \in N : n # p => \A d \in Sides : r.kid[n][d] = t.kid[n][d]
  BY <1>1, <1>3
<1>10. ASSUME NEW n \in N, n \notin sub[p] PROVE SideFor(a, n) = SideFor(p, n)
  BY <1>10 DEF Fits, SideFor
<1>11. ASSUME NEW n \in N \union {a} PROVE NodeOK(r, new, n)
  <2>1. CASE n = a
    <3>1. /\ \A d \in Sides : r.kid[a][d] = Nil
          /\ r.up[a] = p /\ r.kid[p][side] = a
      BY <1>2, <1>3, <1>4, <1>6
    <3> QED BY <1>4, <1>7, <2>1, <3>1 DEF NodeOK
  <2>2. CASE n = p
    <3>1. \A d \in Sides : d # side => /\ r.kid[p][d] = t.kid[p][d] /\ new[r.kid[p][d]] = sub[t.kid[p][d]]
                                       /\ t.kid[p][d] # a
      <4> SUFFICES ASSUME NEW d \in Sides, d # side
                   PROVE  /\ r.kid[p][d] = t.kid[p][d] /\ new[r.kid[p][d]] = sub[t.kid[p][d]]
                          /\ t.kid[p][d] # a
        OBVIOUS
      <4>1. p \notin sub[t.kid[p][d]] /\ t.kid[p][d] \in Places
        BY <1>1, <1>2 DEF NodeOK
      <4>2. t.kid[p][d] # a
        BY <1>6
      <4>3. r.kid[p][d] = t.kid[p][d]
        BY <1>2, <1>3
      <4>4. new[t.kid[p][d]] = sub[t.kid[p][d]]
        BY <1>7, <4>1, <4>2
      <4> QED BY <4>2, <4>3, <4>4
    <3>2. r.kid[p][side] = a /\ new[a] = {a} /\ sub[t.kid[p][side]] = {}
      BY <1>2, <1>3, <1>4, <1>7
    <3>3. \A x \in Keys : x \in new[p] <=> x = a \/ x \in sub[p]
      BY <1>1, <1>2, <1>6, <1>7
    <3>4. NodeOK(t, sub, p)
      BY <1>2
    <3>5. \A x \in Keys : x \in new[p] <=> x = p \/ \E d \in Sides : x \in new[r.kid[p][d]]
      BY <1>4, <3>1, <3>2, <3>3, <3>4 DEF NodeOK
    <3>6. \A d \in Sides : \A x \in new[r.kid[p][d]] : x # p /\ SideFor(x, p) = d
      BY <1>4, <3>1, <3>2, <3>4 DEF NodeOK
    <3>7. \A d \in Sides : r.kid[p][d] # Nil => r.up[r.kid[p][d]] = p
      <4> SUFFICES ASSUME NEW d \in Sides, r.kid[p][d] # Nil PROVE r.up[r.kid[p][d]] = p
        OBVIOUS
      <4>1. CASE d = side
        BY <1>3, <3>2, <4>1
      <4>2. CASE d # side
        <5>1. t.up[t.kid[p][d]] = p /\ t.kid[p][d] \in Keys /\ t.kid[p][d] # a
          BY <1>1, <1>2, <3>1, <3>4, <4>2 DEF NodeOK, Places
        <5>2. r.up[t.kid[p][d]] = p
          BY <1>3, <5>1
        <5> QED BY <3>1, <4>2, <5>2
      <4> QED BY <4>1, <4>2
    <3>8. r.up[p] # Nil => \E d \in Sides : r.kid[r.up[p]][d] = p
      <4> SUFFICES ASSUME t.up[p] # Nil PROVE \E d \in Sides : r.kid[t.up[p]][d] = p
        BY <1>2, <1>3
      <4>1. /\ t.up[p] \in N /\ t.up[p] # p /\ SideAt(t, t.up[p], p) \in Sides
            /\ t.kid[t.up[p]][SideAt(t, t.up[p], p)] = p
        BY Hangs
      <4> QED BY <1>9, <4>1
    <3>9. NodeOK(r, new, p)
      BY <3>5, <3>6, <3>7, <3>8 DEF NodeOK
    <3> QED BY <2>2, <3>9
  <2>3. CASE n \in N /\ n # p
    <3>1. NodeOK(t, sub, n) /\ n \in Keys
      BY <1>1, <1>2, <2>3
    <3>2. ASSUME NEW d \in Sides
          PROVE  /\ r.kid[n][d] = t.kid[n][d] /\ t.kid[n][d] # a /\ t.kid[n][d] \in Places
                 /\ new[t.kid[n][d]] = IF p \in sub[t.kid[n][d]] THEN sub[t.kid[n][d]] \union {a} ELSE sub[t.kid[n][d]]
      <4>1. r.kid[n][d] = t.kid[n][d] /\ t.kid[n][d] # a
        BY <1>6, <1>9, <2>3
      <4>2. t.kid[n][d] \in Places
        BY <1>1, <2>3
      <4> QED BY <1>7, <4>1, <4>2
    <3>3. ASSUME NEW x \in Keys PROVE x \in new[n] <=> x = n \/ \E d \in Sides : x \in new[r.kid[n][d]]
      <4>1. x \in sub[n] <=> x = n \/ \E d \in Sides : x \in sub[t.kid[n][d]]
        BY <3>1 DEF NodeOK
      <4>2. p \in sub[n] <=> \E d \in Sides : p \in sub[t.kid[n][d]]
        BY <1>2, <2>3, <3>1 DEF NodeOK
      <4>3. \A d \in Sides : x \in new[r.kid[n][d]] <=>
              x \in sub[t.kid[n][d]] \/ (x = a /\ p \in sub[t.kid[n][d]])
        BY <3>2
      <4>4. x \in new[n] <=> x \in sub[n] \/ (x = a /\ p \in sub[n])
        BY <1>7, <2>3, <1>6, <3>1
      <4> QED BY <4>1, <4>2, <4>3, <4>4
    <3>4. ASSUME NEW d \in Sides, NEW x \in new[r.kid[n][d]] PROVE x # n /\ SideFor(x, n) = d
      <4>1. CASE x \in sub[t.kid[n][d]]
        BY <3>1, <4>1 DEF NodeOK
      <4>2. CASE x \notin sub[t.kid[n][d]]
        <5>1. x = a /\ p \in sub[t.kid[n][d]]
          BY <3>2, <3>4, <4>2
        <5>2. n \notin sub[p]
          <6>1. t.kid[n][d] # Nil
            BY <1>2, <5>1
          <6>2. t.kid[n][d] \in N /\ n \notin sub[t.kid[n][d]]
            BY <2>3, <6>1, TreeFacts
          <6> QED BY <1>2, <5>1, <6>2 DEF Nested
        <5>3. SideFor(a, n) = SideFor(p, n) /\ SideFor(p, n) = d
          BY <1>10, <2>3, <3>1, <5>1, <5>2 DEF NodeOK
        <5> QED BY <1>6, <2>3, <5>1, <5>3
      <4> QED BY <4>1, <4>2
    <3>5. ASSUME NEW d \in Sides, r.kid[n][d] # Nil PROVE r.up[r.kid[n][d]] = n
      <4>1. t.up[t.kid[n][d]] = n /\ t.kid[n][d] \in Keys
        BY <3>1, <3>2, <3>5 DEF NodeOK, Places
      <4>2. r.kid[n][d] = t.kid[n][d] /\ t.kid[n][d] # a
        BY <3>2
      <4>3. r.up[t.kid[n][d]] = n
        BY <1>3, <4>1, <4>2
      <4> QED BY <4>2, <4>3
    <3>6. r.up[n] # Nil => \E d \in Sides : r.kid[r.up[n]][d] = n
      <4> SUFFICES ASSUME t.up[n] # Nil PROVE \E d \in Sides : r.kid[t.up[n]][d] = n
        BY <1>3, <1>6, <2>3, <3>1
      <4>1. /\ t.up[n] \in N /\ SideAt(t, t.up[n], n) \in Sides
            /\ t.kid[t.up[n]][SideAt(t, t.up[n], n)] = n
        BY <2>3, Hangs
      <4>2. ~ (t.up[n] = p /\ SideAt(t, t.up[n], n) = side)
        BY <1>1, <2>3, <4>1
      <4>3. r.kid[t.up[n]][SideAt(t, t.up[n], n)] = n
        BY <1>1, <1>3, <4>1, <4>2
      <4> QED BY <4>1, <4>3
    <3> QED BY <3>3, <3>4, <3>5, <3>6 DEF NodeOK
  <2> QED BY <2>1, <2>2, <2>3
<1>12. Nested(r, new)
  <2>1. ASSUME NEW n \in N \union {a}, NEW m \in N \union {a}, m \in new[n] PROVE new[m] \subseteq new[n]
    <3>1. CASE m = a
      BY <1>7, <2>1, <3>1
    <3>2. CASE n = a
      BY <1>7, <2>1, <3>2
    <3>3. CASE n # a /\ m # a
      <4>1. n \in N /\ m \in N /\ m \in sub[n] /\ sub[m] \subseteq sub[n]
        BY <1>2, <1>7, <2>1, <3>3 DEF Nested
      <4>2. n \in Places /\ m \in Places
        BY <1>1, <4>1
      <4>3. /\ new[n] = IF p \in sub[n] THEN sub[n] \union {a} ELSE sub[n]
            /\ new[m] = IF p \in sub[m] THEN sub[m] \union {a} ELSE sub[m]
        BY <1>7, <3>3, <4>2
      <4> QED BY <4>1, <4>3
    <3> QED BY <3>1, <3>2, <3>3
  <2>2. ASSUME NEW n \in N \union {a}, NEW m \in N \union {a}, new[n] \cap new[m] # {}
        PROVE  n \in new[m] \/ m \in new[n]
    <3>1. PICK x : x \in new[n] /\ x \in new[m]
      BY <2>2
    <3>2. CASE n = a \/ m = a
      BY <1>7, <3>1, <3>2
    <3>3. CASE n # a /\ m # a
      <4>1. n \in N /\ m \in N
        BY <3>3
      <4>2. sub[n] \cap sub[m] # {}
        BY <1>1, <1>7, <3>1, <3>3, <4>1
      <4>3. n \in sub[m] \/ m \in sub[n]
        BY <1>2, <4>1, <4>2 DEF Nested
      <4> QED BY <1>7, <4>1, <4>3
    <3> QED BY <3>2, <3>3
  <2> QED BY <1>7, <2>1, <2>2 DEF Nested
<1>13. Convex(r, new)
  <2> SUFFICES ASSUME NEW n \in N \union {a}, NEW x \in N \union {a}, NEW l \in new[n], NEW h \in new[n], l < x, x < h
               PROVE  x \in new[n]
    BY <1>7 DEF Convex
  <2>0. l \in Keys /\ h \in Keys /\ x \in Keys /\ n \in Keys
    BY <1>1, <1>7
  <2>1. CASE n = a
    BY <1>7, <2>0, <2>1
  <2>2. CASE n # a /\ p \notin sub[n]
    <3>1. n \in N /\ new[n] = sub[n] /\ l \in sub[n] /\ h \in sub[n] /\ sub[n] \subseteq N
      BY <1>1, <1>7, <2>2
    <3>2. CASE x # a
      BY <1>2, <3>1, <3>2 DEF Convex
    <3>3. CASE x = a
      <4>1. CASE n \in sub[p]
        <5>1. PICK d \in Sides : n \in sub[t.kid[p][d]]
          BY <1>1, <1>2, <2>2, <3>1, <4>1 DEF NodeOK
        <5>2. t.kid[p][d] # Nil /\ d # side
          BY <1>2, <5>1
        <5>3. t.kid[p][d] \in N
          BY <5>2, TreeFacts
        <5>4. l \in sub[t.kid[p][d]] /\ h \in sub[t.kid[p][d]]
          BY <1>2, <3>1, <5>1, <5>3 DEF Nested
        <5>5. l # p /\ h # p /\ SideFor(l, p) = d /\ SideFor(h, p) = d
          BY <1>2, <5>4 DEF NodeOK
        <5>6. l < a /\ a < h
          BY <3>3
        <5>7. SideFor(a, p) = d
          BY <1>2, <2>0, <5>5, <5>6, SideBetween
        <5> QED BY <5>2, <5>7
      <4>2. CASE n \notin sub[p]
        <5>1. l \notin sub[p] /\ h \notin sub[p]
          BY <1>2, <2>2, <3>1, <4>2 DEF Nested
        <5>2. (a < l <=> p < l) /\ (a < h <=> p < h) /\ l # p /\ h # p
          BY <1>1, <3>1, <5>1 DEF Fits
        <5>3. l < a /\ a < h
          BY <3>3
        <5>4. l < p /\ p < h
          BY <1>2, <2>0, <5>2, <5>3
        <5>5. p \in sub[n]
          BY <1>2, <3>1, <5>4 DEF Convex
        <5> QED BY <2>2, <5>5
      <4> QED BY <4>1, <4>2
    <3> QED BY <3>2, <3>3
  <2>3. CASE n # a /\ p \in sub[n]
    <3>1. n \in N /\ new[n] = sub[n] \union {a} /\ sub[p] \subseteq sub[n] /\ sub[n] \subseteq N
      BY <1>1, <1>2, <1>7, <2>3 DEF Nested
    <3>2. CASE x = a
      BY <3>1, <3>2
    <3>3. CASE x # a /\ l # a /\ h # a
      BY <1>2, <3>1, <3>3 DEF Convex
    <3>4. CASE x # a /\ x \in sub[p]
      BY <3>1, <3>4
    <3>5. CASE x # a /\ x \notin sub[p] /\ (l = a \/ h = a)
      <4>1. x \in N /\ a # x /\ (a < x <=> p < x) /\ x # p
        BY <1>1, <3>5 DEF Fits
      <4>2. CASE l = a
        <5>1. h \in sub[n]
          BY <2>0, <3>1, <4>2
        <5>2. p < x /\ x < h
          BY <4>1, <4>2
        <5> QED BY <1>2, <2>3, <3>1, <4>1, <5>1, <5>2 DEF Convex
      <4>3. CASE h = a
        <5>1. l \in sub[n]
          BY <2>0, <3>1, <4>3
        <5>2. x < p /\ l < x
          <6>1. x < a /\ l < x
            BY <4>3
          <6>2. x \in Nat /\ p \in Nat /\ a \in Nat
            BY <1>2, <2>0
          <6>3. ~ (a < x)
            BY <6>1, <6>2
          <6> QED BY <4>1, <6>1, <6>2, <6>3
        <5> QED BY <1>2, <2>3, <3>1, <4>1, <5>1, <5>2 DEF Convex
      <4> QED BY <3>5, <4>2, <4>3
    <3> QED BY <3>2, <3>3, <3>4, <3>5
  <2> QED BY <2>1, <2>2, <2>3
<1>14. Tree(r, new)
  BY <1>3, <1>7, <1>8, <1>11, <1>12, <1>13 DEF Tree
<1> QED BY <1>5, <1>7, <1>14

(* The new node is red and the only one that may be under a red one.        *)
LEMMA AttachPaints ==
  ASSUME NEW t, NEW sub, NEW nodes, NEW p \in nodes, NEW a \in Keys, a # p,
         NEW side, side = SideFor(a, p), t.kid[p][side] = Nil, Fits(t, sub, a, p),
         NEW r, HungAt(r, t, a, p, side),
         NEW reds, NEW black, NEW any, Painted(t, sub, nodes, reds, black, Nil, any, Nil)
  PROVE  a \notin nodes /\ Repainted(r, nodes \union {a}, reds \union {a}, Nil, any, a)
<1> USE KeyFacts
<1>1. /\ Tree(t, sub) /\ nodes = sub[t.root] /\ reds \subseteq Keys /\ nodes \subseteq Keys
      /\ Nil \notin nodes /\ Nil \notin reds /\ black \in [Places -> Nat] /\ black[Nil] = 0
  BY PaintFacts
<1>2. \A k \in nodes, d \in Sides :
              /\ t.kid[k][d] \in Places
              /\ t.kid[k][d] # Nil => t.kid[k][d] \in nodes
              /\ black[t.kid[k][d]] \in Nat
              /\ black[k] = black[t.kid[k][d]] + Weight(reds, k)
              /\ k \in reds /\ t.kid[k][d] \in reds => t.kid[k][d] = Nil
  BY <1>1, PaintFacts
<1>3. a \notin nodes /\ \E new : Tree(r, new) /\ new[r.root] = nodes \union {a}
  BY <1>1, AttachKeeps
<1>4. PICK new : Tree(r, new) /\ new[r.root] = nodes \union {a}
  BY <1>3
<1>5. \A k \in Keys, d \in Sides : r.kid[k][d] = IF k = p /\ d = side THEN a ELSE t.kid[k][d]
  BY DEF HungAt
<1>6. \A d \in Sides : t.kid[a][d] = Nil
  BY <1>1, <1>3 DEF Tree, Grown
<1> DEFINE black2 == [k \in Places |-> IF k = a THEN 0 ELSE black[k]]
           reds2 == reds \union {a}
           M == nodes \union {a}
<1>7. black2 \in [Places -> Nat] /\ black2[Nil] = 0 /\ reds2 \subseteq Keys
  BY <1>1
<1>8. ASSUME NEW k \in M, NEW d \in Sides
      PROVE  /\ black2[r.kid[k][d]] \in Nat
             /\ black2[k] = black2[r.kid[k][d]] + Weight(reds2, k)
             /\ k \in reds2 /\ r.kid[k][d] \in reds2 => r.kid[k][d] = a
  <2> DEFINE x == t.kid[k][d]
  <2>1. CASE k = a
    <3>1. r.kid[k][d] = Nil /\ a # Nil /\ Weight(reds2, k) = 0
      BY <1>1, <1>3, <1>5, <1>6, <2>1 DEF Weight
    <3>2. black2[k] = 0
      BY <2>1
    <3> HIDE DEF black2, reds2
    <3>3. Nil \notin reds2
      BY <1>7
    <3> QED BY <1>7, <3>1, <3>2, <3>3
  <2>2. CASE k # a
    <3>1. /\ k \in nodes /\ k \in Places /\ x \in Places /\ x # a /\ black[x] \in Nat
          /\ black[k] = black[x] + Weight(reds, k)
          /\ k \in reds /\ x \in reds => x = Nil
      BY <1>1, <1>2, <1>3, <2>2
    <3>2. black2[k] = black[k] /\ Weight(reds2, k) = Weight(reds, k) /\ black2[x] = black[x]
      BY <2>2, <3>1 DEF Weight
    <3>3. r.kid[k][d] = x \/ (r.kid[k][d] = a /\ x = Nil)
      BY <1>1, <1>5, <3>1
    <3>4. black2[r.kid[k][d]] = black[x]
      BY <1>1, <3>2, <3>3
    <3>5. k \in reds2 /\ r.kid[k][d] \in reds2 => r.kid[k][d] = a
      BY <1>1, <2>2, <3>1, <3>3
    <3> HIDE DEF black2, reds2, x
    <3> QED BY <3>1, <3>2, <3>4, <3>5
  <2> QED BY <2>1, <2>2
<1> HIDE DEF black2, reds2, M
<1>9. Nil \notin M
  BY <1>1 DEF M
<1>10. Paints(r, M, reds2, black2, Nil, any, a)
  BY <1>7, <1>8, <1>9 DEF Paints
<1>11. Repainted(r, M, reds2, Nil, any, a)
  BY <1>4, <1>10, PaintFrom DEF M
<1> QED BY <1>3, <1>11 DEF M, reds2

(* The first node. *)
LEMMA AttachFirst ==
  ASSUME NEW t, NEW sub, Tree(t, sub), t.root = Nil, NEW a \in Keys, NEW reds \in SUBSET Keys,
         NEW r \in Shapes, r.root = a, \A k \in Keys : r.up[k] = IF k = a THEN Nil ELSE t.up[k],
         r.kid = t.kid, NEW any
  PROVE  sub[t.root] = {} /\ Repainted(r, {a}, reds \union {a}, Nil, any, a)
<1> USE KeyFacts
<1> DEFINE new == [x \in Places |-> IF x = a THEN {a} ELSE {}]
           black == [x \in Places |-> 0]
           reds2 == reds \union {a}
<1>1. /\ sub[Nil] = {} /\ \A k \in Keys : t.up[k] = Nil /\ \A d \in Sides : t.kid[k][d] = Nil
  BY DEF Tree, Grown
<1>2. \A k \in Keys : r.up[k] = Nil /\ \A d \in Sides : r.kid[k][d] = Nil
  BY <1>1
<1>3. /\ new \in [Places -> SUBSET Keys] /\ new[Nil] = {} /\ new[a] = {a} /\ new[r.root] = {a}
      /\ r.root # Nil
  OBVIOUS
<1>4. Grown(r, new)
  BY <1>2, <1>3 DEF Grown
<1> HIDE DEF new
<1>5. NodeOK(r, new, a)
  BY <1>2, <1>3 DEF NodeOK
<1>6. Nested(r, new) /\ Convex(r, new)
  <2>1. Nested(r, new)
    BY <1>3 DEF Nested
  <2>2. \A l, h \in {a} : l = h
    OBVIOUS
  <2>3. ~ (a < a)
    BY KeyFacts
  <2>4. \A n, x \in {a} : \A l, h \in new[n] : ~ (l < x)
    BY <1>3, <2>3
  <2> QED BY <1>3, <2>1, <2>4 DEF Convex
<1>7. Tree(r, new)
  BY <1>3, <1>4, <1>5, <1>6 DEF Tree
<1>8. Weight(reds2, a) = 0 /\ Nil \notin reds2 /\ reds2 \subseteq Keys
  BY DEF Weight
<1> HIDE DEF reds2
<1>9. black \in [Places -> Nat] /\ \A x \in Places : black[x] = 0
  OBVIOUS
<1> HIDE DEF black
<1>10. Paints(r, {a}, reds2, black, Nil, any, a)
  BY <1>2, <1>8, <1>9 DEF Paints
<1>11. Repainted(r, {a}, reds2, Nil, any, a)
  BY <1>3, <1>7, <1>10, PaintFrom
<1> QED BY <1>1, <1>11 DEF reds2

-----------------------------------------------------------------------------
(* A node n that is taken out, with at most the child c. *)
OnlyKid(t, n, c) ==
  /\ \A d \in Sides : t.kid[n][d] \in {Nil, c}
  /\ c # Nil => \E d \in Sides : t.kid[n][d] = c

(* The fields without a node.                                               *)
LEMMA WithoutShape ==
  ASSUME NEW t \in Shapes, NEW n \in Keys, NEW c \in Places, c # n, NEW g, g = t.up[n], g # n,
         NEW r, r = Without(t, n, c)
  PROVE  /\ r \in Shapes
         /\ r.root = IF g = Nil THEN c ELSE t.root
         /\ \A k \in Keys : r.up[k] = IF k = n THEN Nil ELSE IF k = c THEN g ELSE t.up[k]
         /\ \A k \in Keys, d \in Sides :
              r.kid[k][d] = IF k = n THEN Nil ELSE IF k = g /\ d = SideAt(t, g, n) THEN c ELSE t.kid[k][d]
<1> USE KeyFacts
<1> DEFINE side == IF n = t.kid[g]["right"] THEN "right" ELSE "left"
           linked == [k \in Keys |-> [d \in Sides |-> IF k = g /\ d = side THEN c ELSE t.kid[k][d]]]
           link == [root |-> IF g = Nil THEN c ELSE t.root, up |-> t.up, kid |-> linked]
           ups == [k \in Keys |-> IF k = n THEN Nil ELSE IF k = c THEN g ELSE t.up[k]]
           kids == [k \in Keys |-> [d \in Sides |-> IF k = n THEN Nil ELSE link.kid[k][d]]]
<1>1. r = [root |-> link.root, up |-> ups, kid |-> kids]
  BY DEF Without, Link
<1>2. /\ g \in Places /\ t.kid \in [Keys -> [Sides -> Places]] /\ t.up \in [Keys -> Places] /\ t.root \in Places
  BY DEF Shapes
<1>3. link.kid = linked /\ link.root = IF g = Nil THEN c ELSE t.root
  OBVIOUS
<1>4. \A k \in Keys, d \in Sides : linked[k][d] = IF k = g /\ d = side THEN c ELSE t.kid[k][d]
  OBVIOUS
<1>5. linked \in [Keys -> [Sides -> Places]]
  BY <1>2
<1> HIDE DEF linked, link
<1>6. \A k \in Keys, d \in Sides : kids[k][d] = IF k = n THEN Nil ELSE linked[k][d]
  BY <1>3
<1>7. kids \in [Keys -> [Sides -> Places]]
  BY <1>3, <1>5
<1>8. ups \in [Keys -> Places] /\ \A k \in Keys : ups[k] = IF k = n THEN Nil ELSE IF k = c THEN g ELSE t.up[k]
  BY <1>2
<1> HIDE DEF kids, ups
<1>9. r.root = link.root /\ r.up = ups /\ r.kid = kids
  BY <1>1
<1>10. link.root \in Places
  BY <1>2, <1>3
<1>11. r \in Shapes
  BY <1>1, <1>7, <1>8, <1>10 DEF Shapes
<1>12. side = SideAt(t, g, n)
  BY DEF SideAt
<1> HIDE DEF side
<1> QED BY <1>3, <1>4, <1>6, <1>8, <1>9, <1>11, <1>12

(* What is known of the node that goes. *)
LEMMA OnlyKidFacts ==
  ASSUME NEW t, NEW sub, Tree(t, sub), NEW n \in sub[t.root], NEW c, OnlyKid(t, n, c),
         NEW g, g = t.up[n], NEW r, r = Without(t, n, c)
  PROVE  /\ n \in Keys /\ c \in Places /\ c # n /\ g \in Places /\ g # n /\ (g = Nil <=> t.root = n)
         /\ c # Nil => c \in sub[t.root] /\ t.up[c] = n /\ c # g
         /\ \A x \in Keys : x \in sub[n] <=> x = n \/ x \in sub[c]
         /\ n \notin sub[c]
         /\ g # Nil => g \in sub[t.root] /\ g \in Keys
         /\ r \in Shapes
         /\ r.root = IF g = Nil THEN c ELSE t.root
         /\ \A k \in Keys : r.up[k] = IF k = n THEN Nil ELSE IF k = c THEN g ELSE t.up[k]
         /\ \A d \in Sides : r.kid[n][d] = Nil
         /\ \A k \in Keys : k \notin sub[t.root] => \A d \in Sides : r.kid[k][d] = Nil
         /\ \A k \in sub[t.root] \ {n}, d \in Sides :
              /\ r.kid[k][d] = IF t.kid[k][d] = n THEN c ELSE t.kid[k][d]
              /\ t.kid[k][d] = n => k = g
              /\ t.kid[k][d] = c => c = Nil
<1> USE KeyFacts
<1>1. /\ t \in Shapes /\ Grown(t, sub) /\ sub[Nil] = {}
      /\ \A k \in sub[t.root] : k \in Keys /\ k \in sub[k] /\ NodeOK(t, sub, k)
      /\ \A k \in Places : sub[k] \subseteq Keys
      /\ sub[t.root] \subseteq Keys
      /\ \A k \in Keys : t.up[k] \in Places /\ \A d \in Sides : t.kid[k][d] \in Places
  BY TreeFacts DEF Tree, Grown
<1>2. /\ n \in Keys /\ g \in Places /\ g # n /\ (g = Nil <=> t.root = n)
      /\ g # Nil => g \in sub[t.root] /\ g \in Keys /\ t.kid[g][SideAt(t, g, n)] = n
  <2>1. n \in Keys /\ g \in Places
    BY <1>1
  <2>2. /\ g = Nil <=> t.root = n
        /\ g # Nil => g \in sub[t.root] /\ g # n /\ t.kid[g][SideAt(t, g, n)] = n
    BY Hangs
  <2> QED BY <1>1, <2>1, <2>2
<1>3. c = Nil \/ \E d \in Sides : c = t.kid[n][d]
  BY DEF OnlyKid
<1>4. /\ c \in Places /\ c # n /\ n \notin sub[c]
      /\ c # Nil => c \in sub[t.root] /\ t.up[c] = n
  <2>1. CASE c = Nil
    BY <1>1, <1>2, <2>1
  <2>2. CASE c # Nil
    <3>1. PICK d \in Sides : c = t.kid[n][d]
      BY <1>3, <2>2
    <3>2. c \in sub[t.root] /\ c # n /\ n \notin sub[c]
      BY <2>2, <3>1, TreeFacts
    <3>3. t.up[c] = n
      BY <3>1, <3>2, Hangs
    <3> QED BY <1>1, <3>2, <3>3
  <2> QED BY <2>1, <2>2
<1>5. c # Nil => c # g
  <2> SUFFICES ASSUME c # Nil, c = g PROVE FALSE
    OBVIOUS
  <2>1. PICK d \in Sides : c = t.kid[n][d]
    BY <1>3
  <2>2. g # Nil /\ SideAt(t, g, n) \in Sides /\ t.kid[g][SideAt(t, g, n)] = n
    BY <1>2 DEF SideAt
  <2>3. c \in sub[t.root] /\ n \in sub[c]
    BY <1>2, <1>4, <2>2, TreeFacts
  <2> QED BY <1>4, <2>3
<1>6. \A x \in Keys : x \in sub[n] <=> x = n \/ x \in sub[c]
  BY <1>1 DEF OnlyKid, NodeOK
<1>7. /\ r \in Shapes
      /\ r.root = IF g = Nil THEN c ELSE t.root
      /\ \A k \in Keys : r.up[k] = IF k = n THEN Nil ELSE IF k = c THEN g ELSE t.up[k]
      /\ \A k \in Keys, d \in Sides :
           r.kid[k][d] = IF k = n THEN Nil ELSE IF k = g /\ d = SideAt(t, g, n) THEN c ELSE t.kid[k][d]
  BY <1>1, <1>2, <1>4, WithoutShape
<1>8. ASSUME NEW k \in sub[t.root] \ {n}, NEW d \in Sides
      PROVE  /\ r.kid[k][d] = IF t.kid[k][d] = n THEN c ELSE t.kid[k][d]
             /\ t.kid[k][d] = n => k = g
             /\ t.kid[k][d] = c => c = Nil
  <2>1. t.kid[k][d] = n => k = g /\ d = SideAt(t, g, n)
    BY Hangs
  <2>2. k = g /\ d = SideAt(t, g, n) => t.kid[k][d] = n
    BY <1>1, <1>2
  <2>3. r.kid[k][d] = IF k = g /\ d = SideAt(t, g, n) THEN c ELSE t.kid[k][d]
    BY <1>1, <1>7
  <2>4. t.kid[k][d] = c => c = Nil
    <3> SUFFICES ASSUME t.kid[k][d] = c, c # Nil PROVE FALSE
      OBVIOUS
    <3>1. c \in sub[t.root] /\ t.up[c] = n
      BY <1>4
    <3> QED BY <3>1, Hangs
  <2> QED BY <2>1, <2>2, <2>3, <2>4
<1>9. \A d \in Sides : r.kid[n][d] = Nil
  BY <1>2, <1>7
<1>10. \A k \in Keys : k \notin sub[t.root] => \A d \in Sides : r.kid[k][d] = Nil
  BY <1>1, <1>2, <1>7 DEF Grown
<1> QED BY <1>2, <1>4, <1>5, <1>6, <1>7, <1>8, <1>9, <1>10

(* A node with at most one child can be taken out.                          *)
LEMMA UnlinkKeeps ==
  ASSUME NEW t, NEW sub, Tree(t, sub), NEW n \in sub[t.root], NEW c, OnlyKid(t, n, c),
         NEW r, r = Without(t, n, c)
  PROVE  \E new : Tree(r, new) /\ new[r.root] = sub[t.root] \ {n}
<1> USE KeyFacts
<1> DEFINE N == sub[t.root]
           g == t.up[n]
           new == [x \in Places |-> sub[x] \ {n}]
<1>1. /\ t.root \in Places /\ N \subseteq Keys
      /\ \A k \in Places : sub[k] \subseteq Keys
      /\ \A k \in Keys : t.up[k] \in Places /\ \A d \in Sides : t.kid[k][d] \in Places
      /\ \A k \in N : k \in Keys /\ k \in sub[k] /\ sub[k] \subseteq N
      /\ Grown(t, sub) /\ Nested(t, sub) /\ Convex(t, sub)
      /\ \A k \in N : NodeOK(t, sub, k)
      /\ sub[Nil] = {}
  BY TreeFacts DEF Tree, Grown
<1> HIDE DEF g
<1>0. g = t.up[n]
  BY DEF g
<1>2. /\ n \in Keys /\ c \in Places /\ c # n /\ g \in Places /\ g # n /\ (g = Nil <=> t.root = n)
      /\ c # Nil => c \in N /\ t.up[c] = n /\ c # g
      /\ \A x \in Keys : x \in sub[n] <=> x = n \/ x \in sub[c]
      /\ n \notin sub[c]
      /\ g # Nil => g \in N /\ g \in Keys
  BY <1>0, OnlyKidFacts
<1>3. /\ r \in Shapes
      /\ r.root = IF g = Nil THEN c ELSE t.root
      /\ \A k \in Keys : r.up[k] = IF k = n THEN Nil ELSE IF k = c THEN g ELSE t.up[k]
      /\ \A d \in Sides : r.kid[n][d] = Nil
      /\ \A k \in Keys : k \notin N => \A d \in Sides : r.kid[k][d] = Nil
  BY <1>0, OnlyKidFacts
<1>4. \A k \in N \ {n}, d \in Sides :
              /\ r.kid[k][d] = IF t.kid[k][d] = n THEN c ELSE t.kid[k][d]
              /\ t.kid[k][d] = n => k = g
              /\ t.kid[k][d] = c => c = Nil
  BY <1>0, OnlyKidFacts
<1>5. /\ new \in [Places -> SUBSET Keys] /\ \A k \in Places : new[k] = sub[k] \ {n}
  BY <1>1
<1> HIDE DEF new
<1>6. new[r.root] = N \ {n} /\ new[Nil] = {} /\ new[c] = sub[n] \ {n}
  <2>1. new[c] = sub[n] \ {n}
    <3>1. sub[n] \subseteq Keys /\ sub[c] \subseteq Keys
      BY <1>1, <1>2
    <3> QED BY <1>2, <1>5, <3>1
  <2> QED BY <1>1, <1>2, <1>3, <1>5, <2>1
<1>7. Grown(r, new)
  <2>1. ASSUME NEW k \in Keys PROVE k \in N \ {n} <=> k = r.root \/ r.up[k] # Nil
    <3>1. k \in N <=> k = t.root \/ t.up[k] # Nil
      BY <1>1 DEF Grown
    <3>2. CASE k = n
      BY <1>2, <1>3, <3>2
    <3>3. CASE k = c
      BY <1>2, <1>3, <3>3
    <3>4. CASE k # n /\ k # c
      BY <1>2, <1>3, <3>1, <3>4
    <3> QED BY <3>2, <3>3, <3>4
  <2>2. r.root # Nil => r.up[r.root] = Nil
    <3>1. CASE g = Nil
      <4>1. r.root = c
        BY <1>3, <3>1
      <4>2. c # Nil => c \in Keys /\ r.up[c] = g
        BY <1>1, <1>2, <1>3
      <4> QED BY <3>1, <4>1, <4>2
    <3>2. CASE g # Nil
      <4>1. t.root # Nil => t.root \in Keys /\ t.up[t.root] = Nil /\ t.root # n
        BY <1>1, <1>2, <3>2 DEF Grown, Places
      <4>2. t.root # Nil => t.root # c
        BY <1>2, <4>1
      <4> QED BY <1>3, <3>2, <4>1, <4>2
    <3> QED BY <3>1, <3>2
  <2>3. \A k \in Keys : k \notin N \ {n} => \A d \in Sides : r.kid[k][d] = Nil
    BY <1>3
  <2> QED BY <1>5, <1>6, <2>1, <2>2, <2>3 DEF Grown
<1>8. ASSUME NEW k \in N \ {n} PROVE NodeOK(r, new, k)
  <2>1. k \in Keys /\ NodeOK(t, sub, k) /\ k # n /\ k \in Places
    BY <1>1
  <2>2. ASSUME NEW d \in Sides PROVE new[r.kid[k][d]] = sub[t.kid[k][d]] \ {n}
    <3>1. CASE t.kid[k][d] = n
      BY <1>4, <1>6, <3>1
    <3>2. CASE t.kid[k][d] # n
      BY <1>1, <1>4, <1>5, <2>1, <3>2
    <3> QED BY <3>1, <3>2
  <2>3. \A x \in Keys : x \in new[k] <=> x = k \/ \E d \in Sides : x \in new[r.kid[k][d]]
    BY <1>5, <2>1, <2>2 DEF NodeOK
  <2>4. \A d \in Sides : \A x \in new[r.kid[k][d]] : x # k /\ SideFor(x, k) = d
    BY <2>1, <2>2 DEF NodeOK
  <2>5. ASSUME NEW d \in Sides, r.kid[k][d] # Nil PROVE r.up[r.kid[k][d]] = k
    <3>1. CASE t.kid[k][d] = n
      <4>1. r.kid[k][d] = c /\ k = g /\ c # Nil
        BY <1>4, <2>5, <3>1
      <4>2. c \in Keys
        BY <1>1, <1>2, <4>1
      <4> QED BY <1>2, <1>3, <4>1, <4>2
    <3>2. CASE t.kid[k][d] # n
      <4>1. r.kid[k][d] = t.kid[k][d]
        BY <1>4, <3>2
      <4>2. t.up[t.kid[k][d]] = k /\ t.kid[k][d] \in Keys
        BY <1>1, <2>1, <2>5, <4>1 DEF NodeOK, Places
      <4>3. t.kid[k][d] # c
        BY <1>4, <2>5, <4>1
      <4>4. r.up[t.kid[k][d]] = t.up[t.kid[k][d]]
        BY <1>3, <3>2, <4>2, <4>3
      <4> QED BY <4>1, <4>2, <4>4
    <3> QED BY <3>1, <3>2
  <2>6. ASSUME r.up[k] # Nil PROVE \E d \in Sides : r.kid[r.up[k]][d] = k
    <3>1. CASE k = c
      <4>1. r.up[k] = g /\ g # Nil /\ g \in N \ {n}
        BY <1>2, <1>3, <2>1, <2>6, <3>1
      <4>2. PICK d \in Sides : t.kid[g][d] = n
        BY <1>1, <4>1 DEF NodeOK, g
      <4>3. r.kid[g][d] = c
        BY <1>4, <4>1, <4>2
      <4> QED BY <3>1, <4>1, <4>3
    <3>2. CASE k # c
      <4>1. r.up[k] = t.up[k]
        BY <1>3, <2>1, <3>2
      <4>2. PICK d \in Sides : t.kid[t.up[k]][d] = k
        BY <2>1, <2>6, <4>1 DEF NodeOK
      <4>3. t.up[k] \in N
        BY <2>6, <4>1, Hangs
      <4>4. t.up[k] # n
        BY <2>1, <3>2, <4>2 DEF OnlyKid
      <4>5. r.kid[t.up[k]][d] = k
        BY <1>4, <2>1, <4>2, <4>3, <4>4
      <4> QED BY <4>1, <4>5
    <3> QED BY <3>1, <3>2
  <2> QED BY <2>3, <2>4, <2>5, <2>6 DEF NodeOK
<1>9. Nested(r, new)
  <2>1. \A k \in N \ {n} : k \in Places /\ new[k] = sub[k] \ {n}
    BY <1>1, <1>5
  <2>2. ASSUME NEW k \in N \ {n}, NEW m \in N \ {n}, m \in new[k] PROVE new[m] \subseteq new[k]
    BY <1>1, <2>1, <2>2 DEF Nested
  <2>3. ASSUME NEW k \in N \ {n}, NEW m \in N \ {n}, new[k] \cap new[m] # {} PROVE k \in new[m] \/ m \in new[k]
    BY <1>1, <2>1, <2>3 DEF Nested
  <2> QED BY <1>6, <2>2, <2>3 DEF Nested
<1>10. Convex(r, new)
  <2>1. \A k \in N \ {n} : k \in Places /\ new[k] = sub[k] \ {n}
    BY <1>1, <1>5
  <2> QED BY <1>1, <1>6, <2>1 DEF Convex
<1>11. Tree(r, new)
  BY <1>3, <1>6, <1>7, <1>8, <1>9, <1>10 DEF Tree
<1> QED BY <1>6, <1>11

(* A red node can be taken out; a black one with a child, which is then     *)
(* blackened; after another, a black node is missing on its side.           *)
LEMMA UnlinkPaints ==
  ASSUME NEW t, NEW sub, NEW nodes, NEW n \in nodes, NEW c, OnlyKid(t, n, c),
         NEW r, r = Without(t, n, c),
         NEW reds, NEW black, NEW any, Painted(t, sub, nodes, reds, black, Nil, any, Nil)
  PROVE  /\ n \in reds => c = Nil
         /\ Repainted(r, nodes \ {n}, reds \ {n, c},
                      IF n \notin reds /\ c = Nil THEN t.up[n] ELSE Nil, SideAt(t, t.up[n], n), Nil)
<1> USE KeyFacts
<1> DEFINE g == t.up[n]
           side == SideAt(t, g, n)
<1> HIDE DEF g, side
<1>0. g = t.up[n] /\ side = SideAt(t, g, n) /\ n \in sub[t.root] /\ Tree(t, sub)
  BY DEF g, side, Painted
<1>1. /\ Tree(t, sub) /\ nodes = sub[t.root] /\ reds \subseteq Keys /\ nodes \subseteq Keys
      /\ Nil \notin nodes /\ Nil \notin reds /\ black \in [Places -> Nat] /\ black[Nil] = 0
  BY PaintFacts
<1>2. \A k \in nodes, d \in Sides :
              /\ t.kid[k][d] \in Places
              /\ t.kid[k][d] # Nil => t.kid[k][d] \in nodes
              /\ black[t.kid[k][d]] \in Nat
              /\ black[k] = black[t.kid[k][d]] + Weight(reds, k)
              /\ k \in reds /\ t.kid[k][d] \in reds => t.kid[k][d] = Nil
  BY <1>1, PaintFacts
<1>3. /\ n \in Keys /\ c \in Places /\ c # n /\ g \in Places /\ g # n /\ (g = Nil <=> t.root = n)
      /\ c # Nil => c \in nodes /\ t.up[c] = n /\ c # g
      /\ \A k \in nodes \ {n}, d \in Sides :
              /\ r.kid[k][d] = IF t.kid[k][d] = n THEN c ELSE t.kid[k][d]
              /\ t.kid[k][d] = n => k = g
              /\ t.kid[k][d] = c => c = Nil
  BY <1>0, <1>1, OnlyKidFacts
<1>4. \A k \in nodes, d \in Sides : k = g /\ d = side <=> t.kid[k][d] = n
  <2>1. n \in sub[t.root] /\ n # Nil
    BY <1>0, <1>1
  <2>2. /\ g # Nil => t.kid[g][side] = n
        /\ \A k \in sub[t.root], d \in Sides : t.kid[k][d] = n => g = k /\ d = SideAt(t, k, n)
    BY <1>0, <2>1, Hangs
  <2> QED BY <1>0, <1>1, <2>1, <2>2
<1>5. PICK e \in Sides : t.kid[n][e] = Nil
  <2> SUFFICES ASSUME \A d \in Sides : t.kid[n][d] # Nil PROVE FALSE
    OBVIOUS
  <2>1. c # Nil /\ t.kid[n]["left"] = c /\ t.kid[n]["right"] = c
    BY DEF OnlyKid
  <2>2. c \in sub[t.root]
    BY <1>1, <1>3, <2>1
  <2>3. "left" = SideAt(t, n, c) /\ "right" = SideAt(t, n, c)
    BY <1>0, <2>1, <2>2, Hangs
  <2> QED BY <2>3
<1>6. black[n] = Weight(reds, n) /\ Weight(reds, n) \in Nat
  <2>1. black[n] = 0 + Weight(reds, n)
    BY <1>1, <1>2, <1>5
  <2>2. Weight(reds, n) \in Nat
    BY DEF Weight
  <2> QED BY <2>1, <2>2
<1>7. ASSUME c # Nil
      PROVE  c \in reds /\ n \notin reds /\ \A d \in Sides : black[t.kid[c][d]] = 0
  <2>1. PICK d \in Sides : t.kid[n][d] = c
    BY <1>7 DEF OnlyKid
  <2>2. black[c] = 0
    <3>1. black[n] = black[c] + Weight(reds, n) /\ black[c] \in Nat
      BY <1>2, <2>1
    <3> QED BY <1>6, <3>1
  <2>3. ASSUME NEW f \in Sides PROVE Weight(reds, c) = 0 /\ black[t.kid[c][f]] = 0
    <3>1. black[c] = black[t.kid[c][f]] + Weight(reds, c) /\ black[t.kid[c][f]] \in Nat /\ c \in nodes
      BY <1>2, <1>3, <1>7
    <3>2. Weight(reds, c) \in Nat
      BY DEF Weight
    <3> QED BY <2>2, <3>1, <3>2
  <2>4. c \in reds
    BY <2>1, <2>3 DEF Weight
  <2>5. n \notin reds
    BY <1>2, <1>7, <2>1, <2>4
  <2> QED BY <2>3, <2>4, <2>5
<1> DEFINE black2 == [k \in Places |-> IF k = c /\ c # Nil THEN 1 ELSE black[k]]
           reds2 == reds \ {n, c}
           M == nodes \ {n}
           hole == IF n \notin reds /\ c = Nil THEN g ELSE Nil
<1>8. black2 \in [Places -> Nat] /\ black2[Nil] = 0 /\ reds2 \subseteq Keys
  BY <1>1
<1>9. ASSUME NEW k \in M, NEW d \in Sides
      PROVE  /\ black2[r.kid[k][d]] \in Nat
             /\ black2[k] = IF k = hole /\ d = side THEN black2[r.kid[k][d]] + Weight(reds2, k) + 1
                            ELSE black2[r.kid[k][d]] + Weight(reds2, k)
             /\ k \in reds2 /\ r.kid[k][d] \in reds2 => r.kid[k][d] = Nil
  <2> DEFINE x == t.kid[k][d]
             y == r.kid[k][d]
             w == Weight(reds, k)
  <2>1. /\ k \in nodes /\ k \in Places /\ k # Nil /\ k # n /\ x \in Places /\ black[x] \in Nat
        /\ black[k] = black[x] + w /\ w \in Nat
        /\ k \in reds /\ x \in reds => x = Nil
        /\ y = (IF x = n THEN c ELSE x) /\ (x = n => k = g) /\ (x = c => c = Nil)
        /\ k = g /\ d = side <=> x = n
    <3>1. w \in Nat
      BY DEF Weight
    <3> QED BY <1>1, <1>2, <1>3, <1>4, <3>1
  <2>2. k # c => Weight(reds2, k) = w /\ black2[k] = black[k]
    BY <2>1 DEF Weight
  <2>3. k \in reds2 => k \in reds
    OBVIOUS
  <2>4. CASE x = n
    <3>1. y = c /\ k # c /\ c \notin reds2 /\ k = g /\ d = side
      BY <1>1, <1>3, <2>1, <2>4
    <3>2. black[k] = Weight(reds, n) + w
      BY <1>6, <2>1, <2>4
    <3>3. CASE n \in reds
      <4>1. c = Nil /\ black2[c] = 0 /\ Weight(reds, n) = 0 /\ k # hole
        BY <1>1, <1>7, <1>8, <2>1, <3>3 DEF Weight
      <4> HIDE DEF x, y, w, black2, reds2, hole, M
      <4>2. black2[y] \in Nat /\ black2[k] = black2[y] + Weight(reds2, k)
        BY <2>1, <2>2, <3>1, <3>2, <4>1
      <4> QED BY <3>1, <4>1, <4>2 DEF y
    <3>4. CASE n \notin reds /\ c # Nil
      <4>1. black2[c] = 1 /\ Weight(reds, n) = 1 /\ k # hole
        BY <1>3, <2>1, <3>4 DEF Weight
      <4> HIDE DEF x, y, w, black2, reds2, hole, M
      <4>2. black2[y] \in Nat /\ black2[k] = black2[y] + Weight(reds2, k)
        BY <2>1, <2>2, <3>1, <3>2, <4>1
      <4> QED BY <3>1, <4>1, <4>2 DEF y
    <3>5. CASE n \notin reds /\ c = Nil
      <4>1. black2[c] = 0 /\ Weight(reds, n) = 1 /\ k = hole
        BY <1>1, <1>8, <3>1, <3>5 DEF Weight
      <4> HIDE DEF x, y, w, black2, reds2, hole, M
      <4>2. black2[y] \in Nat /\ black2[k] = black2[y] + Weight(reds2, k) + 1
        BY <2>1, <2>2, <3>1, <3>2, <4>1
      <4> QED BY <3>1, <4>1, <4>2 DEF y
    <3> QED BY <3>3, <3>4, <3>5
  <2>5. CASE x # n
    <3>1. y = x /\ black2[x] = black[x] /\ ~ (k = hole /\ d = side)
      BY <2>1, <2>5
    <3>2. k \in reds2 /\ y \in reds2 => y = Nil
      BY <2>1, <3>1
    <3>3. CASE k = c
      <4>1. Weight(reds2, k) = 1 /\ black2[k] = 1 /\ black[x] = 0
        BY <1>7, <2>1, <3>3 DEF Weight
      <4> HIDE DEF x, y, w, black2, reds2, hole, M
      <4>2. black2[y] \in Nat /\ black2[k] = black2[y] + Weight(reds2, k)
        BY <3>1, <4>1
      <4> QED BY <3>1, <3>2, <4>2 DEF y
    <3>4. CASE k # c
      <4> HIDE DEF x, y, w, black2, reds2, hole, M
      <4>2. black2[y] \in Nat /\ black2[k] = black2[y] + Weight(reds2, k)
        BY <2>1, <2>2, <3>1, <3>4
      <4> QED BY <3>1, <3>2, <4>2 DEF y
    <3> QED BY <3>3, <3>4
  <2> QED BY <2>4, <2>5
<1> HIDE DEF black2, reds2, M, hole
<1>10. Paints(r, M, reds2, black2, hole, side, Nil)
  BY <1>8, <1>9 DEF Paints
<1>11. PICK new : Tree(r, new) /\ new[r.root] = M
  <2>1. \E new : Tree(r, new) /\ new[r.root] = sub[t.root] \ {n}
    BY <1>0, UnlinkKeeps
  <2> QED BY <1>1, <2>1 DEF M
<1>12. Repainted(r, M, reds2, hole, side, Nil)
  BY <1>10, <1>11, PaintFrom
<1>13. n \in reds => c = Nil
  BY <1>7
<1>14. /\ hole = IF n \notin reds /\ c = Nil THEN t.up[n] ELSE Nil
       /\ side = SideAt(t, t.up[n], n)
  BY DEF hole, g, side
<1> QED BY <1>12, <1>13, <1>14 DEF M, reds2

-----------------------------------------------------------------------------
(* A node n with two children is replaced by the lowest one m on its right. *)
Exchange(n, m) == [k \in Places |-> IF k = n THEN m ELSE IF k = m THEN n ELSE k]

Exchanging(f, n, m) ==
  /\ f \in [Places -> Places] /\ f[Nil] = Nil /\ f[n] = m /\ f[m] = n
  /\ \A k \in Places : f[f[k]] = k /\ (k \in Keys <=> f[k] \in Keys)
  /\ \A k \in Places : k # n /\ k # m => f[k] = k

(* To exchange two names twice changes nothing.                             *)
LEMMA ExchangeFacts ==
  ASSUME NEW n \in Keys, NEW m \in Keys
  PROVE  Exchanging(Exchange(n, m), n, m)
BY KeyFacts DEF Exchanging, Exchange, Places

Renamed(r, t, f) ==
  /\ r \in Shapes /\ r.root = f[t.root]
  /\ \A k \in Keys : r.up[k] = f[t.up[f[k]]]
  /\ \A k \in Keys, d \in Sides : r.kid[k][d] = f[t.kid[f[k]][d]]

(* m lies where n does among the nodes. *)
InPlaceOf(nodes, n, m) == \A x \in nodes : x # n => x # m /\ (x < n <=> x < m)

(* In a tree without m, m can take the place of n if no other node is       *)
(* between them.                                                            *)
LEMMA RenameKeeps ==
  ASSUME NEW t, NEW sub, Tree(t, sub), NEW n \in sub[t.root], NEW m \in Keys, m \notin sub[t.root],
         InPlaceOf(sub[t.root], n, m), NEW f, Exchanging(f, n, m), NEW r, Renamed(r, t, f)
  PROVE  \E new : Tree(r, new) /\ new[r.root] = (sub[t.root] \ {n}) \union {m}
<1> USE KeyFacts
<1> DEFINE N == sub[t.root]
           new == [x \in Places |-> {k \in Keys : f[k] \in sub[f[x]]}]
<1>1. /\ t.root \in Places /\ N \subseteq Keys
      /\ \A k \in Places : sub[k] \subseteq Keys
      /\ \A k \in Keys : t.up[k] \in Places /\ \A d \in Sides : t.kid[k][d] \in Places
      /\ \A k \in N : k \in Keys /\ k \in sub[k] /\ sub[k] \subseteq N
      /\ Grown(t, sub) /\ Nested(t, sub) /\ Convex(t, sub)
      /\ \A k \in N : NodeOK(t, sub, k)
      /\ sub[Nil] = {} /\ n \in Keys
  BY TreeFacts DEF Tree, Grown
<1>2. /\ \A k \in Places : f[k] \in Places /\ f[f[k]] = k /\ (k \in Keys <=> f[k] \in Keys)
      /\ f[Nil] = Nil /\ f[n] = m /\ f[m] = n
      /\ \A k \in Places : k # n /\ k # m => f[k] = k
  BY DEF Exchanging
<1>3. /\ r \in Shapes /\ r.root = f[t.root]
      /\ \A k \in Keys : r.up[k] = f[t.up[f[k]]]
      /\ \A k \in Keys, d \in Sides : r.kid[k][d] = f[t.kid[f[k]][d]]
  BY DEF Renamed
<1>4. /\ \A x \in Places : new[x] \subseteq Keys
      /\ \A x \in Places, k \in Keys : k \in new[x] <=> f[k] \in sub[f[x]]
      /\ new \in [Places -> SUBSET Keys]
  OBVIOUS
<1> HIDE DEF new
<1>5. /\ r.root \in Places /\ new[Nil] = {}
      /\ \A k \in Keys : k \in new[r.root] <=> f[k] \in N
      /\ new[r.root] = (N \ {n}) \union {m}
  <2>0. f[t.root] \in Places /\ f[f[t.root]] = t.root
    BY <1>1, <1>2
  <2>1. r.root \in Places /\ f[r.root] = t.root
    BY <1>3, <2>0
  <2>2. \A k \in Keys : k \in new[r.root] <=> f[k] \in N
    BY <1>4, <2>1
  <2>3. new[Nil] = {}
    <3>1. \A k \in Keys : k \in new[Nil] <=> f[k] \in sub[f[Nil]]
      BY <1>4
    <3>2. f[Nil] = Nil /\ sub[Nil] = {} /\ new[Nil] \subseteq Keys
      BY <1>1, <1>2, <1>4
    <3> HIDE DEF new
    <3> QED BY ONLY <3>1, <3>2
  <2>4. new[r.root] \subseteq Keys
    BY <1>4, <2>1
  <2>5. \A k \in Keys : f[k] \in N <=> k \in (N \ {n}) \union {m}
    BY <1>1, <1>2
  <2>6. new[r.root] = (N \ {n}) \union {m}
    BY <1>1, <2>2, <2>4, <2>5
  <2> QED BY <2>1, <2>2, <2>3, <2>6
<1>6. ASSUME NEW a \in N, NEW b \in N, a # b
      PROVE  f[a] \in Keys /\ f[b] \in Keys /\ f[a] # f[b] /\ (f[a] < f[b] <=> a < b)
  <2>1. a \in Keys /\ b \in Keys /\ a \in Nat /\ b \in Nat /\ n \in Nat /\ m \in Nat /\ a # m /\ b # m
    BY <1>1
  <2>2. f[a] = (IF a = n THEN m ELSE a) /\ f[b] = (IF b = n THEN m ELSE b)
    BY <1>2, <2>1
  <2>3. a # n => a # m /\ (a < n <=> a < m)
    BY DEF InPlaceOf
  <2>4. b # n => b # m /\ (b < n <=> b < m)
    BY DEF InPlaceOf
  <2>5. f[a] \in Keys /\ f[b] \in Keys
    BY <2>1, <2>2
  <2>6. CASE a = n
    <3>1. f[a] = m /\ f[b] = b /\ b # n
      BY <1>6, <2>2, <2>6
    <3>2. f[a] < f[b] <=> a < b
      BY <1>6, <2>1, <2>4, <2>6, <3>1
    <3> QED BY <2>1, <2>5, <3>1, <3>2
  <2>7. CASE b = n
    <3>1. f[b] = m /\ f[a] = a /\ a # n
      BY <1>6, <2>2, <2>7
    <3>2. f[a] < f[b] <=> a < b
      BY <1>6, <2>1, <2>3, <2>7, <3>1
    <3> QED BY <2>1, <2>5, <3>1, <3>2
  <2>8. CASE a # n /\ b # n
    BY <1>6, <2>2, <2>5, <2>8
  <2> QED BY <2>6, <2>7, <2>8
<1>7. ASSUME NEW k \in Keys, NEW d \in Sides
      PROVE  /\ f[k] \in Keys /\ r.kid[k][d] \in Places /\ f[r.kid[k][d]] = t.kid[f[k]][d]
             /\ r.up[k] \in Places /\ f[r.up[k]] = t.up[f[k]]
             /\ r.kid[k][d] = Nil <=> t.kid[f[k]][d] = Nil
             /\ r.up[k] = Nil <=> t.up[f[k]] = Nil
  <2>1. f[k] \in Keys /\ t.kid[f[k]][d] \in Places /\ t.up[f[k]] \in Places
    BY <1>1, <1>2
  <2>2. r.kid[k][d] = f[t.kid[f[k]][d]] /\ r.up[k] = f[t.up[f[k]]]
    BY <1>3
  <2>3. \A x \in Places : f[x] \in Places /\ f[f[x]] = x /\ (f[x] = Nil <=> x = Nil)
    BY <1>2
  <2> QED BY ONLY <2>1, <2>2, <2>3
<1>8. Grown(r, new)
  <2>1. ASSUME NEW k \in Keys PROVE k \in new[r.root] <=> k = r.root \/ r.up[k] # Nil
    <3>1. k \in new[r.root] <=> f[k] \in N
      BY <1>5
    <3>2. f[k] \in Keys /\ (r.up[k] = Nil <=> t.up[f[k]] = Nil)
      BY <1>7
    <3>3. f[k] \in N <=> f[k] = t.root \/ t.up[f[k]] # Nil
      BY <1>1, <3>2 DEF Grown
    <3>4. f[k] = t.root <=> k = r.root
      <4>1. f[f[k]] = k /\ f[f[t.root]] = t.root /\ r.root = f[t.root]
        BY <1>1, <1>2, <1>3
      <4> QED BY ONLY <4>1
    <3> QED BY <3>1, <3>2, <3>3, <3>4
  <2>2. ASSUME r.root # Nil PROVE r.up[r.root] = Nil
    <3>0. r.root \in Keys
      BY <1>5, <2>2 DEF Places
    <3>1. t.root # Nil /\ r.root \in Keys /\ f[r.root] = t.root
      <4>1. f[f[t.root]] = t.root /\ r.root = f[t.root] /\ f[Nil] = Nil
        BY <1>1, <1>2, <1>3
      <4> QED BY ONLY <2>2, <3>0, <4>1
    <3>2. t.up[t.root] = Nil
      BY <1>1, <3>1 DEF Grown
    <3> QED BY <1>7, <3>1, <3>2
  <2>3. ASSUME NEW k \in Keys, k \notin new[r.root], NEW d \in Sides PROVE r.kid[k][d] = Nil
    <3>1. f[k] \in Keys /\ f[k] \notin N
      BY <1>5, <1>7, <2>3
    <3>2. t.kid[f[k]][d] = Nil
      BY <1>1, <3>1 DEF Grown
    <3> QED BY <1>7, <3>2
  <2> QED BY <1>4, <1>5, <2>1, <2>2, <2>3 DEF Grown
<1>9. ASSUME NEW k \in new[r.root] PROVE NodeOK(r, new, k)
  <2>1. k \in Keys /\ f[k] \in N /\ f[k] \in Keys /\ NodeOK(t, sub, f[k]) /\ k \in Places
    BY <1>1, <1>2, <1>4, <1>5
  <2>2. ASSUME NEW d \in Sides, NEW x \in Keys
        PROVE  x \in new[r.kid[k][d]] <=> f[x] \in sub[t.kid[f[k]][d]]
    <3>1. r.kid[k][d] \in Places /\ f[r.kid[k][d]] = t.kid[f[k]][d]
      BY <1>7, <2>1
    <3>2. x \in new[r.kid[k][d]] <=> f[x] \in sub[f[r.kid[k][d]]]
      BY <1>4, <3>1
    <3> QED BY <3>1, <3>2
  <2>3. ASSUME NEW x \in Keys PROVE x \in new[k] <=> x = k \/ \E d \in Sides : x \in new[r.kid[k][d]]
    <3>1. f[x] \in sub[f[k]] <=> f[x] = f[k] \/ \E d \in Sides : f[x] \in sub[t.kid[f[k]][d]]
      <4>1. f[x] \in Keys
        BY <1>2
      <4> QED BY <2>1, <4>1 DEF NodeOK
    <3>2. f[x] = f[k] <=> x = k
      <4>1. f[f[x]] = x /\ f[f[k]] = k
        BY <1>2, <2>1
      <4> QED BY ONLY <4>1
    <3>3. x \in new[k] <=> f[x] \in sub[f[k]]
      BY <1>4, <2>1
    <3> QED BY <2>2, <3>1, <3>2, <3>3
  <2>4. ASSUME NEW d \in Sides, NEW x \in new[r.kid[k][d]] PROVE x # k /\ SideFor(x, k) = d
    <3>1. x \in Keys
      BY <1>4, <1>7, <2>1
    <3>2. f[x] \in sub[t.kid[f[k]][d]]
      BY <2>2, <3>1
    <3>3. f[x] # f[k] /\ SideFor(f[x], f[k]) = d /\ f[x] \in sub[f[k]]
      BY <1>2, <2>1, <3>1, <3>2 DEF NodeOK
    <3>4. f[x] \in N
      BY <1>1, <2>1, <3>3
    <3>5. f[f[x]] < f[f[k]] <=> f[x] < f[k]
      BY <1>6, <2>1, <3>3, <3>4
    <3>6. f[f[x]] = x /\ f[f[k]] = k
      BY <1>2, <2>1, <3>1
    <3> QED BY <3>3, <3>5, <3>6 DEF SideFor
  <2>5. ASSUME NEW d \in Sides, r.kid[k][d] # Nil PROVE r.up[r.kid[k][d]] = k
    <3> DEFINE x == r.kid[k][d]
    <3>1. x \in Places /\ f[x] = t.kid[f[k]][d] /\ t.kid[f[k]][d] # Nil
      BY <1>7, <2>1, <2>5
    <3>2. x \in Keys
      BY <2>5, <3>1 DEF Places
    <3>3. t.up[f[x]] = f[k]
      BY <2>1, <3>1 DEF NodeOK
    <3> HIDE DEF x
    <3>4. r.up[x] = f[f[k]]
      BY <1>3, <3>2, <3>3
    <3>5. r.up[x] = k
      BY <1>2, <2>1, <3>4
    <3> QED BY <3>5 DEF x
  <2>6. ASSUME r.up[k] # Nil PROVE \E d \in Sides : r.kid[r.up[k]][d] = k
    <3> DEFINE h == r.up[k]
    <3>0. \E d \in Sides : TRUE
      OBVIOUS
    <3>1. h \in Places /\ f[h] = t.up[f[k]] /\ t.up[f[k]] # Nil
      BY <1>7, <2>1, <2>6, <3>0
    <3>2. h \in Keys
      BY <2>6, <3>1 DEF Places
    <3>3. PICK d \in Sides : t.kid[f[h]][d] = f[k]
      BY <2>1, <3>1 DEF NodeOK
    <3> HIDE DEF h
    <3>4. r.kid[h][d] = f[f[k]]
      <4>1. r.kid[h][d] = f[t.kid[f[h]][d]]
        BY <1>3, <3>2
      <4> QED BY ONLY <3>3, <4>1
    <3>5. r.kid[h][d] = k
      BY <1>2, <2>1, <3>4
    <3> QED BY <3>5 DEF h
  <2> QED BY <2>3, <2>4, <2>5, <2>6 DEF NodeOK
<1>10. Nested(r, new)
  <2>1. ASSUME NEW k \in new[r.root]
        PROVE  k \in Keys /\ k \in Places /\ f[k] \in N /\ new[k] \subseteq Keys
    BY <1>2, <1>4, <1>5
  <2>2. ASSUME NEW k \in new[r.root], NEW j \in new[r.root], j \in new[k] PROVE new[j] \subseteq new[k]
    <3>1. f[j] \in sub[f[k]] /\ f[j] \in N /\ f[k] \in N
      BY <1>4, <2>1, <2>2
    <3>2. sub[f[j]] \subseteq sub[f[k]]
      BY <1>1, <3>1 DEF Nested
    <3> QED BY <1>4, <2>1, <3>2
  <2>3. ASSUME NEW k \in new[r.root], NEW j \in new[r.root], new[k] \cap new[j] # {}
        PROVE  k \in new[j] \/ j \in new[k]
    <3>1. PICK x : x \in new[k] /\ x \in new[j]
      BY <2>3
    <3>2. f[x] \in sub[f[k]] /\ f[x] \in sub[f[j]] /\ f[j] \in N /\ f[k] \in N
      BY <1>4, <2>1, <3>1
    <3>3. f[k] \in sub[f[j]] \/ f[j] \in sub[f[k]]
      BY <1>1, <3>2 DEF Nested
    <3> QED BY <1>4, <2>1, <3>3
  <2> QED BY <2>2, <2>3 DEF Nested
<1>11. Convex(r, new)
  <2> SUFFICES ASSUME NEW k \in new[r.root], NEW x \in new[r.root], NEW a \in new[k], NEW b \in new[k], a < x, x < b
               PROVE  x \in new[k]
    BY DEF Convex
  <2>1. /\ k \in Keys /\ k \in Places /\ f[k] \in N /\ a \in Keys /\ b \in Keys /\ x \in Keys
        /\ f[x] \in N /\ f[a] \in sub[f[k]] /\ f[b] \in sub[f[k]]
    BY <1>2, <1>4, <1>5
  <2>2. f[a] \in N /\ f[b] \in N
    BY <1>1, <2>1
  <2>3. f[f[a]] = a /\ f[f[b]] = b /\ f[f[x]] = x
    BY <1>2, <2>1
  <2>4. f[a] # f[x] /\ f[b] # f[x]
    <3>1. a # x /\ b # x
      BY <2>1
    <3> QED BY <2>3, <3>1
  <2>5. f[a] < f[x] /\ f[x] < f[b]
    <3>1. f[f[a]] < f[f[x]] <=> f[a] < f[x]
      BY <1>6, <2>1, <2>2, <2>4
    <3>2. f[f[x]] < f[f[b]] <=> f[x] < f[b]
      BY <1>6, <2>1, <2>2, <2>4
    <3> QED BY <2>3, <3>1, <3>2
  <2>6. f[x] \in sub[f[k]]
    BY <1>1, <2>1, <2>5 DEF Convex
  <2> QED BY <1>4, <2>1, <2>6
<1>12. Tree(r, new)
  BY <1>3, <1>8, <1>9, <1>10, <1>11 DEF Tree
<1> QED BY <1>5, <1>12

(* The colours stay where they were.                                        *)
LEMMA RenamePaints ==
  ASSUME NEW t, NEW sub, NEW nodes, NEW reds, NEW black, NEW node \in Places, NEW side,
         Painted(t, sub, nodes, reds, black, node, side, Nil),
         NEW n \in nodes, NEW m \in Keys, m \notin nodes, InPlaceOf(nodes, n, m),
         NEW f, Exchanging(f, n, m), NEW r, Renamed(r, t, f),
         NEW reds2 \in SUBSET Keys, \A k \in Keys : k \in reds2 <=> f[k] \in reds
  PROVE  Repainted(r, (nodes \ {n}) \union {m}, reds2, f[node], side, Nil)
<1> USE KeyFacts
<1> DEFINE M == (nodes \ {n}) \union {m}
<1>1. /\ Tree(t, sub) /\ nodes = sub[t.root] /\ reds \subseteq Keys /\ nodes \subseteq Keys
      /\ Nil \notin nodes /\ Nil \notin reds /\ black \in [Places -> Nat] /\ black[Nil] = 0
  BY PaintFacts
<1>2. \A k \in nodes, d \in Sides :
              /\ t.kid[k][d] \in Places
              /\ black[t.kid[k][d]] \in Nat
              /\ k # node => black[k] = black[t.kid[k][d]] + Weight(reds, k)
              /\ k = node /\ d # side => black[k] = black[t.kid[k][d]] + Weight(reds, k)
              /\ k = node /\ d = side => black[k] = black[t.kid[k][d]] + Weight(reds, k) + 1
              /\ k \in reds /\ t.kid[k][d] \in reds => t.kid[k][d] = Nil
  BY <1>1, PaintFacts
<1>3. PICK new : Tree(r, new) /\ new[r.root] = M
  <2>1. \E new : Tree(r, new) /\ new[r.root] = (sub[t.root] \ {n}) \union {m}
    <3>1. n \in sub[t.root] /\ m \notin sub[t.root] /\ InPlaceOf(sub[t.root], n, m)
      BY <1>1
    <3> QED BY <1>1, <3>1, RenameKeeps
  <2> QED BY <1>1, <2>1
<1>4. /\ \A k \in Places : f[k] \in Places /\ f[f[k]] = k /\ (k \in Keys <=> f[k] \in Keys)
      /\ f[Nil] = Nil /\ f[n] = m /\ f[m] = n
      /\ \A k \in Places : k # n /\ k # m => f[k] = k
  BY DEF Exchanging
<1>5. \A k \in Keys, d \in Sides : r.kid[k][d] = f[t.kid[f[k]][d]]
  BY DEF Renamed
<1> DEFINE black2 == [k \in Places |-> black[f[k]]]
<1>6. black2 \in [Places -> Nat] /\ black2[Nil] = 0 /\ \A k \in Places : black2[k] = black[f[k]]
  BY <1>1, <1>4
<1> HIDE DEF black2
<1>7. ASSUME NEW k \in M, NEW d \in Sides
      PROVE  /\ black2[r.kid[k][d]] \in Nat
             /\ black2[k] = IF k = f[node] /\ d = side THEN black2[r.kid[k][d]] + Weight(reds2, k) + 1
                            ELSE black2[r.kid[k][d]] + Weight(reds2, k)
             /\ k \in reds2 /\ r.kid[k][d] \in reds2 => r.kid[k][d] = Nil
  <2> DEFINE j == f[k]
             x == t.kid[j][d]
  <2>1. k \in Keys /\ k \in Places /\ j \in nodes /\ j \in Keys
    BY <1>1, <1>4
  <2>2. x \in Places /\ r.kid[k][d] = f[x] /\ f[x] \in Places /\ f[f[x]] = x
    BY <1>2, <1>4, <1>5, <2>1
  <2>3. black2[r.kid[k][d]] = black[x] /\ black2[k] = black[j] /\ black[x] \in Nat
    BY <1>1, <1>6, <2>1, <2>2
  <2>4. Weight(reds2, k) = Weight(reds, j)
    BY <2>1 DEF Weight
  <2>5. k = f[node] <=> j = node
    BY <1>4, <2>1
  <2>6. /\ j # node => black[j] = black[x] + Weight(reds, j)
        /\ j = node /\ d # side => black[j] = black[x] + Weight(reds, j)
        /\ j = node /\ d = side => black[j] = black[x] + Weight(reds, j) + 1
        /\ j \in reds /\ x \in reds => x = Nil
    BY <1>2, <2>1
  <2>7. r.kid[k][d] \in reds2 => x \in reds
    BY <2>2
  <2>8. x = Nil => r.kid[k][d] = Nil
    BY <1>4, <2>2
  <2>9. k \in reds2 => j \in reds
    BY <2>1
  <2> HIDE DEF j, x
  <2> QED BY <2>3, <2>4, <2>5, <2>6, <2>7, <2>8, <2>9
<1> HIDE DEF M
<1>8. Paints(r, M, reds2, black2, f[node], side, Nil)
  BY <1>6, <1>7 DEF Paints
<1>9. Repainted(r, M, reds2, f[node], side, Nil)
  BY <1>3, <1>8, PaintFrom
<1> QED BY <1>9 DEF M

-----------------------------------------------------------------------------
(* The ways down. *)

LEMMA ShapeFacts ==
  /\ Shape.root = root /\ Shape.up = up /\ Shape.kid = kid
  /\ \A sub : Tree(Shape, sub) => Nodes = sub[root]
<1>1. Shape.root = root /\ Shape.up = up /\ Shape.kid = kid
  BY DEF Shape
<1>2. ASSUME NEW sub, Tree(Shape, sub) PROVE Nodes = sub[root]
  <2>1. sub[Shape.root] \subseteq Keys
    BY <1>2, TreeFacts
  <2>2. \A n \in Keys : n \in sub[Shape.root] <=> n = Shape.root \/ Shape.up[n] # Nil
    BY <1>2 DEF Tree, Grown
  <2> QED BY <1>1, <2>1, <2>2 DEF Nodes
<1> QED BY <1>1, <1>2

(* Of two nodes that hang from each other both are the same. *)
LEMMA Apart ==
  ASSUME NEW t, NEW sub, Tree(t, sub), NEW a \in sub[t.root], NEW b \in sub[t.root],
         a \in sub[b], b \in sub[a]
  PROVE  a = b
<1> SUFFICES ASSUME a # b PROVE FALSE
  OBVIOUS
<1>1. a \in Keys /\ b \in Keys /\ NodeOK(t, sub, b) /\ Nested(t, sub)
  BY TreeFacts DEF Tree
<1>2. PICK d \in Sides : a \in sub[t.kid[b][d]]
  BY <1>1 DEF NodeOK
<1>3. t.kid[b][d] # Nil
  BY <1>2 DEF Tree, Grown
<1>4. t.kid[b][d] \in sub[t.root] /\ b \notin sub[t.kid[b][d]]
  BY <1>3, TreeFacts
<1>5. sub[a] \subseteq sub[t.kid[b][d]]
  BY <1>1, <1>2, <1>4 DEF Nested
<1> QED BY <1>4, <1>5

(* What a child hangs from, its parent hangs from. *)
LEMMA AboveKid ==
  ASSUME NEW t, NEW sub, Tree(t, sub), NEW n \in sub[t.root], NEW d \in Sides, t.kid[n][d] # Nil,
         NEW a \in sub[t.root]
  PROVE  t.kid[n][d] \in sub[a] <=> a = t.kid[n][d] \/ n \in sub[a]
<1> USE KeyFacts
<1> DEFINE k == t.kid[n][d]
<1>1. /\ k \in sub[t.root] /\ k \in sub[n] /\ k \in sub[k] /\ n \in Keys /\ a \in Keys /\ k \in Keys
      /\ NodeOK(t, sub, n) /\ Nested(t, sub) /\ a \in sub[a] /\ n \notin sub[k]
  BY TreeFacts DEF Tree
<1>2. n \in sub[a] => k \in sub[a]
  BY <1>1 DEF Nested
<1>3. ASSUME k \in sub[a], a # k, n \notin sub[a] PROVE FALSE
  <2>1. a \in sub[n] /\ a # n
    BY <1>1, <1>3 DEF Nested
  <2>2. PICK e \in Sides : a \in sub[t.kid[n][e]]
    BY <1>1, <2>1 DEF NodeOK
  <2>3. t.kid[n][e] # Nil
    BY <2>2 DEF Tree, Grown
  <2>4. t.kid[n][e] \in sub[t.root]
    BY <2>3, TreeFacts
  <2>5. sub[a] \subseteq sub[t.kid[n][e]]
    BY <1>1, <2>2, <2>4 DEF Nested
  <2>6. e = d
    <3>1. k \in sub[t.kid[n][e]]
      BY <1>3, <2>5
    <3> QED BY <1>1, <3>1 DEF NodeOK
  <2>7. a \in sub[k]
    BY <2>2, <2>6
  <2> QED BY <1>1, <1>3, <2>7, Apart
<1> QED BY <1>1, <1>2, <1>3

(* A way down on the left from n. *)
LeftWay(sub, n, path) ==
  /\ path \in Seq(Keys) /\ Len(path) > 0
  /\ \A i \in 1 .. Len(path) : path[i] \in sub[n]
  /\ \A i, j \in 1 .. Len(path) : i < j => path[j] < path[i]
  /\ \A a \in sub[n] : (\E i \in 1 .. Len(path) : path[i] = a) <=> EndOf(path) \in sub[a]
  /\ \A x \in sub[n] : x < EndOf(path) => x \in sub[EndOf(path)]

(* A way of no steps.                                                       *)
LEMMA LeftWayFirst ==
  ASSUME NEW sub, Tree(Shape, sub), NEW n \in Nodes
  PROVE  LeftWay(sub, n, <<n>>) /\ EndOf(<<n>>) = n
<1> DEFINE p == <<n>>
<1>1. /\ n \in Keys /\ n \in sub[n] /\ sub[n] \subseteq Nodes /\ n \in Nodes /\ Nodes = sub[root]
      /\ Shape.root = root
  BY ShapeFacts, TreeFacts
<1>2. p \in Seq(Keys) /\ Len(p) = 1 /\ EndOf(p) = n /\ \A i \in 1 .. 1 : p[i] = n
  BY <1>1 DEF EndOf
<1>3. ASSUME NEW a \in sub[n], n \in sub[a] PROVE a = n
  BY <1>1, <1>3, Apart
<1> HIDE DEF p
<1>4. \A a \in sub[n] : (\E i \in 1 .. Len(p) : p[i] = a) <=> EndOf(p) \in sub[a]
  BY <1>1, <1>2, <1>3
<1>5. \A i, j \in 1 .. Len(p) : i < j => p[j] < p[i]
  BY <1>2
<1>6. LeftWay(sub, n, p)
  BY <1>1, <1>2, <1>4, <1>5 DEF LeftWay
<1> QED BY <1>2, <1>6 DEF p

(* A way goes on to the left child.                                         *)
LEMMA LeftWayOn ==
  ASSUME NEW sub, Tree(Shape, sub), NEW n \in Nodes, NEW path, LeftWay(sub, n, path),
         NEW x, x = kid[EndOf(path)]["left"], x # Nil
  PROVE  /\ LeftWay(sub, n, Append(path, x)) /\ EndOf(Append(path, x)) = x
         /\ EndOf(path) \in sub[n] /\ x \in sub[EndOf(path)]
         /\ sub[x] \subseteq sub[EndOf(path)] /\ EndOf(path) \notin sub[x]
<1> USE KeyFacts
<1> DEFINE e == EndOf(path)
           q == Append(path, x)
<1>1. /\ path \in Seq(Keys) /\ Len(path) > 0 /\ Len(path) \in Nat /\ e = path[Len(path)]
      /\ \A i \in 1 .. Len(path) : path[i] \in sub[n] /\ path[i] \in Keys
  BY DEF LeftWay, EndOf
<1>2. /\ Nodes = sub[root] /\ Shape.root = root /\ Shape.kid = kid /\ "left" \in Sides
      /\ e \in sub[n] /\ sub[n] \subseteq Nodes /\ n \in sub[n]
  <2>1. Nodes = sub[root] /\ Shape.root = root /\ Shape.kid = kid
    BY ShapeFacts
  <2>2. sub[n] \subseteq Nodes /\ n \in sub[n]
    BY <2>1, TreeFacts
  <2> QED BY <1>1, <2>1, <2>2
<1>3. e \in sub[Shape.root] /\ x = Shape.kid[e]["left"]
  BY <1>2
<1> HIDE DEF e
<1>4. /\ x \in Nodes /\ x \in sub[e] /\ x # e /\ sub[x] \subseteq sub[e] /\ e \notin sub[x]
  <2>1. \A d \in Sides : Shape.kid[e][d] # Nil =>
              /\ Shape.kid[e][d] \in sub[Shape.root] /\ Shape.kid[e][d] \in sub[e] /\ Shape.kid[e][d] # e
              /\ sub[Shape.kid[e][d]] \subseteq sub[e] /\ e \notin sub[Shape.kid[e][d]]
    BY <1>3, TreeFacts
  <2> QED BY <1>2, <1>3, <2>1
<1>5. /\ e \in Keys /\ x \in Keys /\ x \in sub[x] /\ NodeOK(Shape, sub, e) /\ Nested(Shape, sub)
      /\ sub[e] \subseteq sub[n]
  <2>1. e \in Keys /\ x \in Keys /\ x \in sub[x]
    BY <1>2, <1>3, <1>4, TreeFacts
  <2>2. NodeOK(Shape, sub, e) /\ Nested(Shape, sub)
    BY <1>3 DEF Tree
  <2> QED BY <1>2, <1>3, <2>1, <2>2 DEF Nested
<1>6. SideFor(x, e) = "left" /\ x < e
  <2>1. SideFor(x, e) = "left"
    BY <1>2, <1>3, <1>5 DEF NodeOK
  <2> QED BY <1>5, <2>1 DEF SideFor
<1>7. /\ q \in Seq(Keys) /\ Len(q) = Len(path) + 1 /\ q[Len(q)] = x
      /\ \A i \in 1 .. Len(path) : q[i] = path[i]
  BY <1>1, <1>5
<1> HIDE DEF q
<1>8. EndOf(q) = x
  BY <1>7 DEF EndOf
<1>9. \A i \in 1 .. Len(q) : q[i] \in sub[n]
  <2> SUFFICES ASSUME NEW i \in 1 .. Len(q) PROVE q[i] \in sub[n]
    OBVIOUS
  <2>1. i \in 1 .. Len(path) \/ i = Len(q)
    BY <1>1, <1>7
  <2> QED BY <1>1, <1>4, <1>5, <1>7, <2>1
<1>10. ASSUME NEW i \in 1 .. Len(q), NEW j \in 1 .. Len(q), i < j PROVE q[j] < q[i]
  <2>1. i \in 1 .. Len(path) /\ q[i] = path[i] /\ path[i] \in Keys
    BY <1>1, <1>7, <1>10
  <2>2. CASE j = Len(q)
    <3>1. i = Len(path) \/ (i < Len(path) /\ Len(path) \in 1 .. Len(path))
      BY <1>1, <2>1
    <3>2. path[i] = e \/ e < path[i]
      BY <1>1, <2>1, <3>1 DEF LeftWay
    <3>3. x \in Nat /\ e \in Nat /\ path[i] \in Nat
      BY <1>5, <2>1
    <3>4. x < path[i]
      BY <1>6, <3>2, <3>3
    <3> QED BY <1>7, <2>1, <2>2, <3>4
  <2>3. CASE j # Len(q)
    <3>1. j \in 1 .. Len(path)
      BY <1>1, <1>7, <2>3
    <3>2. path[j] < path[i]
      BY <1>10, <2>1, <3>1 DEF LeftWay
    <3> QED BY <1>7, <2>1, <3>1, <3>2
  <2> QED BY <2>2, <2>3
<1>11. ASSUME NEW a \in sub[n] PROVE (\E i \in 1 .. Len(q) : q[i] = a) <=> EndOf(q) \in sub[a]
  <2>1. x \in sub[a] <=> a = x \/ e \in sub[a]
    <3>1. a \in sub[Shape.root]
      BY <1>2
    <3>2. Shape.kid[e]["left"] \in sub[a] <=> a = Shape.kid[e]["left"] \/ e \in sub[a]
      BY <1>2, <1>3, <3>1, AboveKid
    <3> QED BY <1>3, <3>2
  <2>2. (\E i \in 1 .. Len(path) : path[i] = a) <=> e \in sub[a]
    BY DEF LeftWay, e
  <2>3. (\E i \in 1 .. Len(q) : q[i] = a) <=> a = x \/ \E i \in 1 .. Len(path) : path[i] = a
    <3>1. \A i \in 1 .. Len(q) : i \in 1 .. Len(path) \/ i = Len(q)
      BY <1>1, <1>7
    <3>2. Len(q) \in 1 .. Len(q) /\ \A i \in 1 .. Len(path) : i \in 1 .. Len(q)
      BY <1>1, <1>7
    <3> QED BY <1>7, <3>1, <3>2
  <2> QED BY <1>8, <2>1, <2>2, <2>3
<1>12. ASSUME NEW y \in sub[n], y < EndOf(q) PROVE y \in sub[EndOf(q)]
  <2>1. y \in Keys /\ y < x /\ y \in Nat /\ e \in Nat /\ x \in Nat
    <3>1. y \in Nodes
      BY <1>2
    <3> QED BY <1>5, <1>8, <1>12, <3>1 DEF Nodes
  <2>2. y < e
    BY <1>6, <2>1
  <2>3. y \in sub[e] /\ y # e
    <3>1. \A z \in sub[n] : z < e => z \in sub[e]
      BY DEF LeftWay, e
    <3> QED BY <2>1, <2>2, <3>1
  <2>4. PICK d \in Sides : y \in sub[Shape.kid[e][d]]
    BY <1>5, <2>1, <2>3 DEF NodeOK
  <2>5. SideFor(y, e) = d
    BY <1>5, <2>4 DEF NodeOK
  <2>6. d = "left"
    BY <2>2, <2>5 DEF SideFor
  <2> QED BY <1>3, <1>8, <2>4, <2>6
<1>13. LeftWay(sub, n, q)
  BY <1>7, <1>1, <1>9, <1>10, <1>11, <1>12 DEF LeftWay
<1> QED BY <1>2, <1>4, <1>8, <1>13 DEF q, e

(* How many nodes hang from each bounds how far there is to go. *)
LEMMA SizeFacts ==
  ASSUME NEW t, NEW sub, Tree(t, sub)
  PROVE  /\ Cardinality(Keys) \in Nat
         /\ \A n \in sub[t.root] : Cardinality(sub[n]) \in Nat /\ Cardinality(sub[n]) > 0
                                    /\ Cardinality(sub[n]) <= Cardinality(Keys)
         /\ \A n, k \in sub[t.root] : sub[k] \subseteq sub[n] /\ n \notin sub[k]
                                     => Cardinality(sub[k]) < Cardinality(sub[n])
<1>1. IsFiniteSet(Keys) /\ \A n \in sub[t.root] : sub[n] \subseteq Keys /\ n \in sub[n]
  BY TreeFacts, KeyFacts
<1>2. Cardinality(Keys) \in Nat
  BY <1>1, FS_CardinalityType
<1>3. ASSUME NEW n \in sub[t.root]
      PROVE  /\ IsFiniteSet(sub[n]) /\ Cardinality(sub[n]) \in Nat /\ Cardinality(sub[n]) > 0
             /\ Cardinality(sub[n]) <= Cardinality(Keys)
  <2>1. IsFiniteSet(sub[n]) /\ Cardinality(sub[n]) <= Cardinality(Keys)
    BY <1>1, FS_Subset
  <2>2. Cardinality(sub[n]) \in Nat /\ Cardinality(sub[n]) # 0
    BY <1>1, <2>1, FS_CardinalityType, FS_EmptySet
  <2> QED BY <2>1, <2>2
<1>4. ASSUME NEW n \in sub[t.root], NEW k \in sub[t.root], sub[k] \subseteq sub[n], n \notin sub[k]
      PROVE  Cardinality(sub[k]) < Cardinality(sub[n])
  <2>1. Cardinality(sub[k]) <= Cardinality(sub[n]) /\ Cardinality(sub[k]) # Cardinality(sub[n])
    <3>1. n \in sub[n]
      BY <1>1
    <3> QED BY <1>3, <1>4, <3>1, FS_Subset
  <2> QED BY <1>3, <2>1
<1> QED BY <1>2, <1>3, <1>4

(* LeftPath ends at the lowest node below n. *)
LEMMA LeftPathFacts ==
  ASSUME NEW sub, Tree(Shape, sub), NEW n \in Nodes
  PROVE  /\ LeftWay(sub, n, LeftPath(n)) /\ EndOf(LeftPath(n)) \in sub[n]
         /\ kid[EndOf(LeftPath(n))]["left"] = Nil
         /\ \A x \in sub[n] : EndOf(LeftPath(n)) <= x
<1> DEFINE C == Cardinality(Keys)
           Ends(p) == kid[EndOf(p)]["left"] = Nil
           Next(p) == IF kid[EndOf(p)]["left"] = Nil THEN p ELSE Append(p, kid[EndOf(p)]["left"])
           V == [i \in 0 .. C |-> {p \in Seq(Keys) :
                   LeftWay(sub, n, p) /\ (Ends(p) \/ Cardinality(sub[EndOf(p)]) + i <= C)}]
           F == [i \in 1 .. C |-> [p \in V[i - 1] |-> Next(p)]]
           Eq(g) == g = [i \in 0 .. C |-> IF i = 0 THEN <<n>> ELSE Next(g[i - 1])]
           path == CHOOSE g : Eq(g)
<1>0. Nodes = sub[root] /\ Shape.root = root /\ Shape.kid = kid /\ n \in sub[Shape.root]
  BY ShapeFacts
<1>1. /\ C \in Nat
      /\ \A k \in Nodes : Cardinality(sub[k]) \in Nat /\ Cardinality(sub[k]) > 0 /\ Cardinality(sub[k]) <= C
      /\ \A k, j \in Nodes : sub[j] \subseteq sub[k] /\ k \notin sub[j]
                                     => Cardinality(sub[j]) < Cardinality(sub[k])
  BY <1>0, SizeFacts
<1>2. ASSUME NEW p, LeftWay(sub, n, p) PROVE EndOf(p) \in sub[n] /\ EndOf(p) \in Nodes /\ p \in Seq(Keys)
  <2>1. p \in Seq(Keys) /\ Len(p) \in 1 .. Len(p) /\ p[Len(p)] \in sub[n]
    BY <1>2 DEF LeftWay
  <2>2. sub[n] \subseteq Nodes
    BY <1>0, TreeFacts
  <2> QED BY <2>1, <2>2 DEF EndOf
<1>3. <<n>> \in V[0]
  <2>1. LeftWay(sub, n, <<n>>) /\ EndOf(<<n>>) = n
    BY LeftWayFirst
  <2>2. Cardinality(sub[n]) + 0 <= C
    BY <1>1
  <2>3. <<n>> \in Seq(Keys)
    BY <1>2, <2>1
  <2> QED BY <1>1, <2>1, <2>2, <2>3
<1>4. ASSUME NEW i \in 1 .. C, NEW p \in V[i - 1] PROVE Next(p) \in V[i]
  <2>1. i - 1 \in 0 .. C /\ i \in 0 .. C /\ i \in Nat
    BY <1>1
  <2>2. /\ LeftWay(sub, n, p) /\ (Ends(p) \/ Cardinality(sub[EndOf(p)]) + (i - 1) <= C)
        /\ p \in Seq(Keys) /\ EndOf(p) \in Nodes
    BY <1>2, <2>1
  <2>3. CASE Ends(p)
    BY <2>1, <2>2, <2>3
  <2>4. CASE ~ Ends(p)
    <3> DEFINE x == kid[EndOf(p)]["left"]
               q == Append(p, x)
    <3>1. /\ LeftWay(sub, n, q) /\ EndOf(q) = x
          /\ EndOf(p) \in sub[n] /\ x \in sub[EndOf(p)]
          /\ sub[x] \subseteq sub[EndOf(p)] /\ EndOf(p) \notin sub[x]
      BY <2>2, <2>4, LeftWayOn
    <3>2. x \in Nodes /\ q \in Seq(Keys)
      BY <1>2, <3>1
    <3>3. Next(p) = q
      BY <2>4
    <3> HIDE DEF x, q
    <3>4. Cardinality(sub[x]) < Cardinality(sub[EndOf(p)])
      BY <1>1, <2>2, <3>1, <3>2
    <3>5. /\ Cardinality(sub[x]) \in Nat /\ Cardinality(sub[EndOf(p)]) \in Nat
          /\ Cardinality(sub[EndOf(p)]) + (i - 1) <= C
      BY <1>1, <2>2, <2>4, <3>2
    <3>6. Cardinality(sub[x]) + i <= C
      BY <1>1, <2>1, <3>4, <3>5
    <3> HIDE DEF Next, Ends
    <3> QED BY <2>1, <3>1, <3>2, <3>3, <3>6
  <2> QED BY <2>3, <2>4
<1>5. \E g : Eq(g)
  <2> HIDE DEF V, Next
  <2>1. \A i \in 1 .. C : \A p \in V[i - 1] : F[i][p] \in V[i]
    BY <1>4
  <2> HIDE DEF F
  <2>2. PICK g : Chained(g, C, <<n>>, V, F)
    <3>1. Chainable(C, <<n>>, V, F)
      BY <1>1, <1>3, <2>1 DEF Chainable
    <3> QED BY <3>1, Chains
  <2>3. ASSUME NEW i \in 1 .. C PROVE F[i][g[i - 1]] = Next(g[i - 1])
    <3>1. g[i - 1] \in V[i - 1]
      BY <1>1, <2>2 DEF Chained
    <3> QED BY <3>1 DEF F
  <2>4. \A i \in 0 .. C : (IF i = 0 THEN <<n>> ELSE F[i][g[i - 1]])
                            = (IF i = 0 THEN <<n>> ELSE Next(g[i - 1]))
    BY <1>1, <2>3
  <2>5. Eq(g)
    BY <2>2, <2>4 DEF Chained
  <2> QED BY <2>5
<1>6. Eq(path)
  BY <1>5
<1>7. LeftPath(n) = path[C]
  BY DEF LeftPath
<1> HIDE DEF path
<1>8. \A i \in 0 .. C : path[i] \in V[i]
  <2>1. path[0] = <<n>> /\ \A i \in 1 .. C : path[i] = Next(path[i - 1])
    <3> HIDE DEF Next
    <3>1. \A i \in 0 .. C : path[i] = IF i = 0 THEN <<n>> ELSE Next(path[i - 1])
      BY <1>6
    <3> QED BY <1>1, <3>1
  <2> HIDE DEF V, Next
  <2>2. path[0] \in V[0]
    BY <1>3, <2>1
  <2>3. \A i \in 1 .. C : path[i - 1] \in V[i - 1] => path[i] \in V[i]
    BY <1>4, <2>1
  <2> QED BY <1>1, <2>2, <2>3, ChainHolds
<1> DEFINE p == LeftPath(n)
<1>9. LeftWay(sub, n, p) /\ (Ends(p) \/ Cardinality(sub[EndOf(p)]) + C <= C)
  BY <1>1, <1>7, <1>8
<1> HIDE DEF p, V, F
<1>10. EndOf(p) \in sub[n] /\ EndOf(p) \in Nodes
  BY <1>2, <1>9
<1>11. Ends(p)
  BY <1>1, <1>9, <1>10
<1>12. ASSUME NEW x \in sub[n] PROVE EndOf(p) <= x
  <2> DEFINE e == EndOf(p)
  <2>1. /\ sub[n] \subseteq Nodes /\ x \in Keys /\ e \in Keys /\ e \in sub[Shape.root]
        /\ NodeOK(Shape, sub, e)
    BY <1>0, <1>10, TreeFacts DEF Tree
  <2>2. x \in Nat /\ e \in Nat
    BY <2>1, KeyFacts
  <2> SUFFICES ASSUME x < e PROVE FALSE
    BY <2>2
  <2>3. x \in sub[e] /\ x # e
    BY <1>9, <2>2 DEF LeftWay
  <2>4. PICK d \in Sides : x \in sub[Shape.kid[e][d]]
    BY <2>1, <2>3 DEF NodeOK
  <2>5. SideFor(x, e) = d
    BY <2>1, <2>4 DEF NodeOK
  <2>6. d = "left"
    BY <2>5 DEF SideFor
  <2>7. Shape.kid[e]["left"] = Nil
    BY <1>0, <1>11
  <2> QED BY <2>4, <2>6, <2>7 DEF Tree, Grown
<1> QED BY <1>9, <1>10, <1>11, <1>12 DEF p

-----------------------------------------------------------------------------
(* An erase takes a node out. *)

LEMMA MinRightFacts ==
  ASSUME NEW sub, Tree(Shape, sub), NEW n \in Nodes, TwoChildren(n), NEW m, m = MinRight(n)
  PROVE  /\ m \in Nodes /\ m \in Keys /\ n \in Keys /\ m # n /\ m # root /\ n < m
         /\ kid[m]["left"] = Nil /\ OnlyKid(Shape, m, kid[m]["right"])
         /\ kid[m]["right"] \in Places /\ kid[m]["right"] # n /\ kid[m]["right"] # m
         /\ InPlaceOf(Nodes \ {m}, n, m)
         /\ m # kid[n]["right"] => up[m] \in Nodes /\ up[m] # n /\ up[m] # m
<1> USE KeyFacts
<1> DEFINE k == kid[n]["right"]
<1>1. /\ Nodes = sub[root] /\ Shape.root = root /\ Shape.kid = kid /\ Shape.up = up
      /\ "left" \in Sides /\ "right" \in Sides /\ n \in sub[Shape.root] /\ Convex(Shape, sub)
      /\ k # Nil
  BY ShapeFacts DEF Tree, TwoChildren
<1>2. /\ n \in Keys /\ n \in sub[n] /\ NodeOK(Shape, sub, n) /\ k \in Nodes /\ k \in sub[n]
      /\ sub[k] \subseteq sub[n] /\ n \notin sub[k] /\ sub[n] \subseteq Nodes
  <2>1. n \in Keys /\ n \in sub[n] /\ sub[n] \subseteq sub[Shape.root] /\ NodeOK(Shape, sub, n)
    BY <1>1, TreeFacts DEF Tree
  <2>2. \A d \in Sides : Shape.kid[n][d] # Nil =>
           /\ Shape.kid[n][d] \in sub[Shape.root] /\ Shape.kid[n][d] \in sub[n]
           /\ sub[Shape.kid[n][d]] \subseteq sub[n] /\ n \notin sub[Shape.kid[n][d]]
    BY <1>1, TreeFacts
  <2> QED BY <1>1, <2>1, <2>2
<1> HIDE DEF k
<1>3. m \in sub[k] /\ kid[m]["left"] = Nil /\ \A x \in sub[k] : m <= x
  <2>1. m = EndOf(LeftPath(k))
    BY DEF MinRight, k
  <2>2. /\ EndOf(LeftPath(k)) \in sub[k] /\ kid[EndOf(LeftPath(k))]["left"] = Nil
        /\ \A x \in sub[k] : EndOf(LeftPath(k)) <= x
    BY <1>2, LeftPathFacts
  <2> QED BY ONLY <2>1, <2>2
<1>4. m \in Nodes /\ m \in Keys /\ m # n /\ m \in sub[n] /\ m \in sub[m]
  <2>1. m \in Nodes /\ m # n /\ m \in sub[n]
    BY <1>2, <1>3
  <2> QED BY <1>1, <2>1, TreeFacts
<1>5. \A x \in sub[k] : x # n /\ SideFor(x, n) = "right"
  BY <1>1, <1>2 DEF NodeOK, k
<1>6. n < m
  <2>1. SideFor(m, n) = "right" /\ m \in Nat /\ n \in Nat
    BY <1>2, <1>3, <1>4, <1>5
  <2> QED BY <1>4, <2>1 DEF SideFor
<1>7. n \notin sub[m]
  BY <1>1, <1>4, Apart
<1>8. m # root
  BY <1>1, <1>7
<1>9. /\ kid[m]["right"] \in Places
      /\ kid[m]["right"] # Nil => kid[m]["right"] \in sub[m] /\ m \notin sub[kid[m]["right"]]
  <2>1. m \in sub[Shape.root]
    BY <1>1, <1>4
  <2>2. /\ \A d \in Sides : Shape.kid[m][d] \in Places
        /\ \A d \in Sides : Shape.kid[m][d] # Nil => Shape.kid[m][d] \in sub[m] /\ m \notin sub[Shape.kid[m][d]]
    BY <1>4, <2>1, TreeFacts
  <2> QED BY <1>1, <2>2
<1>10. kid[m]["right"] # n /\ kid[m]["right"] # m
  <2>1. Nil # n /\ Nil # m
    BY <1>2, <1>4
  <2>2. kid[m]["right"] # m
    <3> SUFFICES ASSUME kid[m]["right"] = m PROVE FALSE
      OBVIOUS
    <3>1. m \notin sub[m]
      BY <1>9, <2>1
    <3> QED BY <1>4, <3>1
  <2>3. kid[m]["right"] # n
    BY <1>7, <1>9, <2>1
  <2> QED BY <2>2, <2>3
<1>11. OnlyKid(Shape, m, kid[m]["right"])
  BY <1>1, <1>3 DEF OnlyKid
<1>12. InPlaceOf(Nodes \ {m}, n, m)
  <2> SUFFICES ASSUME NEW x \in Nodes, x # m, x # n PROVE x < n <=> x < m
    BY DEF InPlaceOf
  <2>1. x \in Keys /\ x \in Nat /\ n \in Nat /\ m \in Nat
    BY <1>2, <1>4 DEF Nodes
  <2>2. x < n => x < m
    BY <1>6, <2>1
  <2>3. ASSUME n < x, x < m PROVE FALSE
    <3>1. x \in sub[n]
      BY <1>1, <1>2, <1>4, <2>3 DEF Convex
    <3>2. PICK d \in Sides : x \in sub[Shape.kid[n][d]]
      BY <1>2, <2>1, <3>1 DEF NodeOK
    <3>3. SideFor(x, n) = d
      BY <1>2, <3>2 DEF NodeOK
    <3>4. d = "right"
      BY <2>1, <2>3, <3>3 DEF SideFor
    <3>5. m <= x
      BY <1>1, <1>3, <3>2, <3>4 DEF k
    <3> QED BY <2>1, <2>3, <3>5
  <2> QED BY <2>1, <2>2, <2>3
<1>13. ASSUME m # k PROVE up[m] \in Nodes /\ up[m] # n /\ up[m] # m
  <2>1. /\ up[m] \in Nodes /\ up[m] # m /\ SideAt(Shape, up[m], m) \in Sides
        /\ kid[up[m]][SideAt(Shape, up[m], m)] = m
    BY <1>1, <1>4, <1>8, Hangs
  <2>2. ASSUME up[m] = n PROVE FALSE
    <3>1. PICK d \in Sides : kid[n][d] = m
      BY <2>1, <2>2
    <3>2. SideFor(m, n) = d
      BY <1>1, <1>2, <1>4, <3>1 DEF NodeOK
    <3>3. d = "right"
      BY <1>3, <1>5, <3>2
    <3> QED BY <1>13, <3>1, <3>3 DEF k
  <2> QED BY <2>1, <2>2
<1> QED BY <1>2, <1>3, <1>4, <1>6, <1>8, <1>9, <1>10, <1>11, <1>12, <1>13 DEF k

(* The two nodes exchange places and then one goes, or one goes and the other  *)
(* takes its place.                                                           *)
LEMMA SwapRenames ==
  ASSUME Shape \in Shapes, NEW n \in Keys, NEW m \in Keys, n # m, NEW c \in Places, c # n, c # m,
         up[m] \in Keys, up[m] # n, up[m] # m, root # n, root # m,
         NEW side, side = SideAt(Shape, up[m], m)
  PROVE  /\ Renamed(Without(Swapped(n, m), n, c), Without(Shape, m, c), Exchange(n, m))
         /\ Swapped(n, m).up[n] = up[m]
         /\ \A d \in Sides : kid[m][d] # n /\ kid[m][d] # m => Swapped(n, m).kid[n][d] = kid[m][d]
         /\ side = IF n = Swapped(n, m).kid[up[m]]["right"] THEN "right" ELSE "left"
<1> USE KeyFacts
<1> DEFINE f == Exchange(n, m)
           w == Without(Shape, m, c)
           S == Swapped(n, m)
           r == Without(S, n, c)
           q == up[m]
<1>1. /\ root \in Places /\ up \in [Keys -> Places] /\ kid \in [Keys -> [Sides -> Places]]
      /\ Shape.root = root /\ Shape.up = up /\ Shape.kid = kid
  BY ShapeFacts DEF Shapes, Shape
<1>2. /\ \A k \in Places : f[k] \in Places /\ f[f[k]] = k /\ (k \in Keys <=> f[k] \in Keys)
      /\ f[Nil] = Nil /\ f[n] = m /\ f[m] = n
      /\ \A k \in Places : k # n /\ k # m => f[k] = k
  BY ExchangeFacts DEF Exchanging
<1>3. \A k \in Places : f[k] = IF k = n THEN m ELSE IF k = m THEN n ELSE k
  BY DEF Exchange
<1> DEFINE N(k) == IF k = n THEN m ELSE IF k = m THEN n ELSE k
<1>4. S = [root |-> root, up |-> [k \in Keys |-> N(up[N(k)])],
           kid |-> [k \in Keys |-> [d \in Sides |-> N(kid[N(k)][d])]]]
  BY DEF Swapped
<1>5. /\ S.root = root
      /\ \A k \in Keys : S.up[k] = f[up[f[k]]]
      /\ \A k \in Keys, d \in Sides : S.kid[k][d] = f[kid[f[k]][d]]
      /\ S \in Shapes
  <2>1. \A k \in Keys : N(k) = f[k] /\ f[k] \in Keys /\ up[f[k]] \in Places /\ N(up[f[k]]) = f[up[f[k]]]
    <3> SUFFICES ASSUME NEW k \in Keys
                 PROVE  N(k) = f[k] /\ f[k] \in Keys /\ up[f[k]] \in Places /\ N(up[f[k]]) = f[up[f[k]]]
      OBVIOUS
    <3> HIDE DEF f
    <3>1. f[k] \in Keys
      BY <1>2
    <3>2. up[f[k]] \in Places
      BY <1>1, <3>1
    <3>3. \A j \in Places : f[j] = N(j)
      BY <1>3
    <3> HIDE DEF N
    <3> QED BY <3>1, <3>2, <3>3
  <2>2. \A k \in Keys, d \in Sides : kid[f[k]][d] \in Places /\ N(kid[f[k]][d]) = f[kid[f[k]][d]]
    <3> SUFFICES ASSUME NEW k \in Keys, NEW d \in Sides
                 PROVE  kid[f[k]][d] \in Places /\ N(kid[f[k]][d]) = f[kid[f[k]][d]]
      OBVIOUS
    <3> HIDE DEF f
    <3>1. f[k] \in Keys
      BY <1>2
    <3>2. kid[f[k]][d] \in Places
      <4>1. kid[f[k]] \in [Sides -> Places]
        BY <1>1, <3>1
      <4> QED BY <4>1
    <3>3. \A j \in Places : f[j] = N(j)
      BY <1>3
    <3> HIDE DEF N
    <3> QED BY <3>2, <3>3
  <2>3. \A k \in Keys : N(up[N(k)]) = f[up[f[k]]] /\ f[up[f[k]]] \in Places
    BY <1>2, <2>1
  <2>4. \A k \in Keys, d \in Sides : N(kid[N(k)][d]) = f[kid[f[k]][d]] /\ f[kid[f[k]][d]] \in Places
    BY <1>2, <2>1, <2>2
  <2> DEFINE ups == [k \in Keys |-> N(up[N(k)])]
             kids == [k \in Keys |-> [d \in Sides |-> N(kid[N(k)][d])]]
  <2>5. ups \in [Keys -> Places] /\ \A k \in Keys : ups[k] = f[up[f[k]]]
    BY <2>3
  <2>6. kids \in [Keys -> [Sides -> Places]] /\ \A k \in Keys, d \in Sides : kids[k][d] = f[kid[f[k]][d]]
    BY <2>4
  <2> HIDE DEF ups, kids
  <2>7. S = [root |-> root, up |-> ups, kid |-> kids]
    BY <1>4 DEF ups, kids
  <2>8. S.root = root /\ S.up = ups /\ S.kid = kids /\ S \in Shapes
    BY <1>1, <2>5, <2>6, <2>7 DEF Shapes
  <2> QED BY <2>5, <2>6, <2>8
<1>6. q \in Keys /\ q # n /\ q # m /\ f[q] = q /\ f[c] = c
  BY <1>2
<1>7. S.up[n] = q
  BY <1>1, <1>2, <1>5, <1>6
<1> HIDE DEF f, S, N
<1>8. /\ w \in Shapes
      /\ w.root = root
      /\ \A k \in Keys : w.up[k] = IF k = m THEN Nil ELSE IF k = c THEN q ELSE up[k]
      /\ \A k \in Keys, d \in Sides :
              w.kid[k][d] = IF k = m THEN Nil ELSE IF k = q /\ d = side THEN c ELSE kid[k][d]
  <2> HIDE DEF w
  <2>1. w = Without(Shape, m, c) /\ q = Shape.up[m] /\ q # Nil
    BY <1>1, <1>6 DEF w
  <2> QED BY <1>1, <1>6, <2>1, WithoutShape
<1> DEFINE e == SideAt(S, q, n)
<1>9. /\ r \in Shapes
      /\ r.root = root
      /\ \A k \in Keys : r.up[k] = IF k = n THEN Nil ELSE IF k = c THEN q ELSE S.up[k]
      /\ \A k \in Keys, d \in Sides :
              r.kid[k][d] = IF k = n THEN Nil ELSE IF k = q /\ d = e THEN c ELSE S.kid[k][d]
  <2> HIDE DEF r, q
  <2>1. r = Without(S, n, c) /\ q = S.up[n] /\ q # Nil
    BY <1>6, <1>7 DEF r
  <2> QED BY <1>5, <1>6, <2>1, WithoutShape
<1>10. e = side
  <2>1. "right" \in Sides /\ S.kid[q]["right"] = f[kid[q]["right"]] /\ kid[q]["right"] \in Places
    BY <1>1, <1>5, <1>6
  <2>2. \A x \in Places : n = f[x] <=> m = x
    BY <1>2
  <2>3. n = S.kid[q]["right"] <=> m = kid[q]["right"]
    BY <2>1, <2>2
  <2> QED BY <1>1, <2>3 DEF SideAt
<1>11. e = IF n = S.kid[q]["right"] THEN "right" ELSE "left"
  BY DEF SideAt
<1> HIDE DEF e, w, r, q
<1>12. r.root = f[w.root]
  BY <1>1, <1>2, <1>8, <1>9
<1>13. ASSUME NEW k \in Keys PROVE r.up[k] = f[w.up[f[k]]]
  <2>1. f[k] \in Keys /\ f[f[k]] = k
    BY <1>2
  <2>2. r.up[k] = IF k = n THEN Nil ELSE IF k = c THEN q ELSE f[up[f[k]]]
    BY <1>5, <1>9
  <2>3. w.up[f[k]] = IF f[k] = m THEN Nil ELSE IF f[k] = c THEN q ELSE up[f[k]]
    BY <1>8, <2>1
  <2>4. (f[k] = m <=> k = n) /\ (f[k] = c <=> k = c)
    BY <1>2, <1>6, <2>1
  <2> QED BY ONLY <1>2, <1>6, <2>2, <2>3, <2>4
<1>14. ASSUME NEW k \in Keys, NEW d \in Sides PROVE r.kid[k][d] = f[w.kid[f[k]][d]]
  <2>1. f[k] \in Keys /\ f[f[k]] = k
    BY <1>2
  <2>2. r.kid[k][d] = IF k = n THEN Nil ELSE IF k = q /\ d = side THEN c ELSE f[kid[f[k]][d]]
    BY <1>5, <1>9, <1>10
  <2>3. w.kid[f[k]][d] = IF f[k] = m THEN Nil ELSE IF f[k] = q /\ d = side THEN c ELSE kid[f[k]][d]
    BY <1>8, <2>1
  <2>4. (f[k] = m <=> k = n) /\ (f[k] = q <=> k = q)
    BY <1>2, <1>6, <2>1
  <2> QED BY ONLY <1>2, <1>6, <2>2, <2>3, <2>4
<1>15. Renamed(r, w, f)
  BY <1>9, <1>12, <1>13, <1>14 DEF Renamed
<1>16. \A d \in Sides : kid[m][d] # n /\ kid[m][d] # m => S.kid[n][d] = kid[m][d]
  <2> SUFFICES ASSUME NEW d \in Sides, kid[m][d] # n, kid[m][d] # m PROVE S.kid[n][d] = kid[m][d]
    OBVIOUS
  <2>1. kid[m][d] \in Places /\ S.kid[n][d] = f[kid[f[n]][d]]
    BY <1>1, <1>5
  <2> QED BY <1>2, <2>1
<1> QED BY <1>7, <1>10, <1>11, <1>15, <1>16 DEF f, S, q, r, w

(* The tree that tree_delete takes n out of. *)
SpareShape(n) == IF TwoChildren(n) THEN Swapped(n, MinRight(n)) ELSE Shape
SpareReds(n) == IF TwoChildren(n) THEN SwappedReds(n, MinRight(n)) ELSE red
SpareKid(n) ==
  IF SpareShape(n).kid[n]["left"] # Nil THEN SpareShape(n).kid[n]["left"] ELSE SpareShape(n).kid[n]["right"]

SpareSide(n) == IF n = SpareShape(n).kid[SpareShape(n).up[n]]["right"] THEN "right" ELSE "left"

(* After the swap, if there is one, n has at most one child.                *)
LEMMA SparePaints ==
  ASSUME NEW sub, NEW black, NEW any, NEW n \in Nodes, ~ SwapBreaks(n),
         Painted(Shape, sub, Nodes, red, black, Nil, any, Nil)
  PROVE  /\ n \in SpareReds(n) => SpareKid(n) = Nil
         /\ Repainted(Without(SpareShape(n), n, SpareKid(n)), Nodes \ {n}, SpareReds(n) \ {n, SpareKid(n)},
                      IF n \notin SpareReds(n) /\ SpareKid(n) = Nil THEN SpareShape(n).up[n] ELSE Nil,
                      SpareSide(n), Nil)
         /\ SpareKid(n) = Nil /\ Nodes # {n} => SpareShape(n).up[n] \in Nodes \ {n}
         /\ Nodes = {n} => SpareShape(n).up[n] = Nil
         /\ SpareSide(n) \in Sides
<1> USE KeyFacts
<1>1. /\ Tree(Shape, sub) /\ Nodes = sub[Shape.root] /\ Nodes = sub[root] /\ red \subseteq Keys
      /\ Shape.root = root /\ Shape.kid = kid /\ Shape.up = up
      /\ Nodes \subseteq Keys /\ Shape \in Shapes
      /\ "left" \in Sides /\ "right" \in Sides
  BY ShapeFacts, PaintFacts DEF Tree
<1>2. /\ n \in Keys /\ n \in sub[Shape.root]
      /\ up[n] # Nil => up[n] \in Nodes /\ up[n] # n
      /\ up[n] = Nil <=> n = root
      /\ \A d \in Sides : kid[n][d] # Nil => kid[n][d] \in Nodes /\ kid[n][d] # n
  <2>1. n \in Keys /\ n \in sub[Shape.root]
    BY <1>1
  <2>2. /\ up[n] # Nil => up[n] \in Nodes /\ up[n] # n
        /\ up[n] = Nil <=> n = root
    BY <1>1, <2>1, Hangs
  <2>3. \A d \in Sides : Shape.kid[n][d] # Nil => Shape.kid[n][d] \in sub[Shape.root] /\ Shape.kid[n][d] # n
    BY <1>1, <2>1, TreeFacts
  <2> QED BY <1>1, <2>1, <2>2, <2>3
<1>3. SpareSide(n) \in Sides
  BY DEF SpareSide
<1>4. CASE ~ TwoChildren(n)
  <2> DEFINE c == SpareKid(n)
             side == SideAt(Shape, up[n], n)
  <2>1. SpareShape(n) = Shape /\ SpareReds(n) = red
    BY <1>4 DEF SpareShape, SpareReds
  <2>2. SpareSide(n) = side
    BY <1>1, <2>1 DEF SpareSide, SideAt
  <2>3. c = IF kid[n]["left"] # Nil THEN kid[n]["left"] ELSE kid[n]["right"]
    BY <1>1, <2>1 DEF SpareKid
  <2>4. OnlyKid(Shape, n, c)
    BY <1>1, <1>4, <2>3 DEF OnlyKid, TwoChildren
  <2> HIDE DEF c, side
  <2>5. /\ n \in red => c = Nil
        /\ Repainted(Without(Shape, n, c), Nodes \ {n}, red \ {n, c},
                     IF n \notin red /\ c = Nil THEN up[n] ELSE Nil, side, Nil)
    <3>1. /\ n \in red => c = Nil
          /\ Repainted(Without(Shape, n, c), Nodes \ {n}, red \ {n, c},
                       IF n \notin red /\ c = Nil THEN Shape.up[n] ELSE Nil,
                       SideAt(Shape, Shape.up[n], n), Nil)
      BY <2>4, UnlinkPaints
    <3> QED BY <1>1, <3>1 DEF side
  <2>6. ASSUME c = Nil, Nodes # {n} PROVE up[n] \in Nodes \ {n}
    <3> SUFFICES ASSUME up[n] = Nil PROVE FALSE
      BY <1>2
    <3>1. n = root /\ NodeOK(Shape, sub, n) /\ sub[Nil] = {}
      BY <1>1, <1>2 DEF Tree, Grown
    <3>2. \A x \in Keys : x \in sub[n] <=> x = n
      BY <1>1, <2>4, <2>6, <3>1 DEF NodeOK, OnlyKid
    <3> QED BY <1>1, <1>2, <2>6, <3>1, <3>2
  <2>7. Nodes = {n} => up[n] = Nil
    BY <1>2
  <2> QED BY <1>1, <1>3, <2>1, <2>2, <2>5, <2>6, <2>7 DEF c
<1>5. CASE TwoChildren(n)
  <2> DEFINE m == MinRight(n)
             c == kid[m]["right"]
             q == up[m]
             side == SideAt(Shape, q, m)
             f == Exchange(n, m)
             w == Without(Shape, m, c)
             reds2 == SwappedReds(n, m) \ {n, c}
  <2>1. n # root /\ m # kid[n]["right"]
    BY <1>5 DEF SwapBreaks
  <2>2. /\ m \in Nodes /\ m \in Keys /\ m # n /\ m # root
        /\ kid[m]["left"] = Nil /\ OnlyKid(Shape, m, c)
        /\ c \in Places /\ c # n /\ c # m
        /\ InPlaceOf(Nodes \ {m}, n, m)
        /\ q \in Nodes /\ q # n /\ q # m
    <3> HIDE DEF m
    <3>1. m = MinRight(n)
      BY DEF m
    <3> QED BY <1>1, <1>5, <2>1, <3>1, MinRightFacts
  <2> HIDE DEF m
  <2>3. /\ Renamed(Without(Swapped(n, m), n, c), w, f)
        /\ Swapped(n, m).up[n] = q
        /\ \A d \in Sides : kid[m][d] # n /\ kid[m][d] # m => Swapped(n, m).kid[n][d] = kid[m][d]
        /\ side = IF n = Swapped(n, m).kid[q]["right"] THEN "right" ELSE "left"
    <3> HIDE DEF c, side
    <3>1. side = SideAt(Shape, up[m], m) /\ up[m] \in Keys
      BY <1>1, <2>2 DEF side
    <3>2. /\ Shape \in Shapes /\ n \in Keys /\ m \in Keys /\ n # m /\ c \in Places /\ c # n /\ c # m
          /\ up[m] # n /\ up[m] # m /\ root # n /\ root # m
      BY <1>1, <1>2, <2>1, <2>2
    <3>3. /\ Renamed(Without(Swapped(n, m), n, c), Without(Shape, m, c), Exchange(n, m))
          /\ Swapped(n, m).up[n] = up[m]
          /\ \A d \in Sides : kid[m][d] # n /\ kid[m][d] # m => Swapped(n, m).kid[n][d] = kid[m][d]
          /\ side = IF n = Swapped(n, m).kid[up[m]]["right"] THEN "right" ELSE "left"
      BY ONLY <3>1, <3>2, SwapRenames
    <3> QED BY ONLY <3>3
  <2>4. SpareShape(n) = Swapped(n, m) /\ SpareReds(n) = SwappedReds(n, m)
    BY <1>5 DEF SpareShape, SpareReds, m
  <2>5. SpareKid(n) = c /\ SpareSide(n) = side
    <3>1. Nil # n /\ Nil # m
      BY <1>2, <2>2
    <3>2. Swapped(n, m).kid[n]["left"] = Nil /\ Swapped(n, m).kid[n]["right"] = c
      BY <1>1, <2>2, <2>3, <3>1
    <3> QED BY <2>3, <2>4, <3>2 DEF SpareKid, SpareSide
  <2> HIDE DEF c, side, q, f, w, reds2
  <2>6. /\ m \in red => c = Nil
        /\ Repainted(w, Nodes \ {m}, red \ {m, c}, IF m \notin red /\ c = Nil THEN q ELSE Nil, side, Nil)
    <3>1. /\ m \in red => c = Nil
          /\ Repainted(Without(Shape, m, c), Nodes \ {m}, red \ {m, c},
                       IF m \notin red /\ c = Nil THEN Shape.up[m] ELSE Nil,
                       SideAt(Shape, Shape.up[m], m), Nil)
      BY ONLY <2>2, UnlinkPaints, Painted(Shape, sub, Nodes, red, black, Nil, any, Nil)
    <3> QED BY <1>1, <3>1 DEF side, q, w
  <2>7. n \in SwappedReds(n, m) <=> m \in red
    BY <1>2, <2>2 DEF SwappedReds
  <2>8. Exchanging(f, n, m)
    BY <1>2, <2>2, ExchangeFacts DEF f
  <2>9. reds2 \in SUBSET Keys /\ \A k \in Keys : k \in reds2 <=> f[k] \in red \ {m, c}
    <3>1. reds2 \in SUBSET Keys /\ \A k \in Keys : k \in reds2 <=>
             /\ k # n /\ k # c
             /\ IF k = n THEN m \in red ELSE IF k = m THEN n \in red ELSE k \in red
      BY DEF reds2, SwappedReds
    <3>2. f[n] = m /\ f[m] = n /\ \A k \in Keys : k # n /\ k # m => f[k] = k
      BY <2>8 DEF Exchanging
    <3> QED BY <1>2, <2>2, <3>1, <3>2
  <2>10. Repainted(Without(Swapped(n, m), n, c), Nodes \ {n}, reds2,
                   IF m \notin red /\ c = Nil THEN q ELSE Nil, side, Nil)
    <3> DEFINE node == IF m \notin red /\ c = Nil THEN q ELSE Nil
               nodes == Nodes \ {m}
               r == Without(Swapped(n, m), n, c)
               reds == red \ {m, c}
    <3>1. node \in Places /\ f[node] = node
      BY <1>1, <2>2, <2>8 DEF Exchanging, Places
    <3>2. n \in nodes /\ m \notin nodes /\ (nodes \ {n}) \union {m} = Nodes \ {n}
      BY <2>2
    <3>3. PICK s2, b2 : Painted(w, s2, nodes, reds, b2, node, side, Nil)
      BY <2>6 DEF Repainted
    <3>4. InPlaceOf(nodes, n, m) /\ Renamed(r, w, f)
      BY <2>2, <2>3
    <3>0. reds2 \in SUBSET Keys /\ \A k \in Keys : k \in reds2 <=> f[k] \in reds
      BY <2>9
    <3> HIDE DEF node, nodes, r, reds
    <3>5. Repainted(r, (nodes \ {n}) \union {m}, reds2, f[node], side, Nil)
      BY ONLY <2>2, <2>8, <3>0, <3>1, <3>2, <3>3, <3>4, RenamePaints
    <3>6. Repainted(r, Nodes \ {n}, reds2, node, side, Nil)
      BY <3>1, <3>2, <3>5
    <3> QED BY <3>6 DEF node, r
  <2>11. Nodes # {n}
    BY <2>2
  <2>12. /\ Swapped(n, m).up[n] = q /\ q \in Nodes \ {n}
         /\ n \notin SwappedReds(n, m) /\ c = Nil <=> m \notin red /\ c = Nil
    BY <2>2, <2>3, <2>7
  <2>13. n \in SpareReds(n) => SpareKid(n) = Nil
    BY <2>4, <2>5, <2>6, <2>7
  <2>14. Repainted(Without(SpareShape(n), n, SpareKid(n)), Nodes \ {n}, SpareReds(n) \ {n, SpareKid(n)},
                   IF n \notin SpareReds(n) /\ SpareKid(n) = Nil THEN SpareShape(n).up[n] ELSE Nil,
                   SpareSide(n), Nil)
    BY <2>4, <2>5, <2>10, <2>12 DEF reds2
  <2> QED BY <1>3, <2>4, <2>11, <2>12, <2>13, <2>14
<1> QED BY <1>4, <1>5

-----------------------------------------------------------------------------
(* The steps. *)

LEMMA MinFacts ==
  ASSUME NEW S, S \subseteq Keys, S # {}
  PROVE  /\ Min(S) \in S /\ \A y \in S : Min(S) <= y
         /\ \A x \in S : (\A y \in S : x <= y) => x = Min(S)
<1>1. S \subseteq Nat
  BY KeyFacts
<1>2. \E x \in S : \A y \in S : x <= y
  BY <1>1, NatLeast
<1>3. Min(S) \in S /\ \A y \in S : Min(S) <= y
  BY <1>2 DEF Min
<1>4. ASSUME NEW x \in S, \A y \in S : x <= y PROVE x = Min(S)
  <2>1. x <= Min(S) /\ Min(S) <= x /\ x \in Nat /\ Min(S) \in Nat
    BY <1>1, <1>3, <1>4
  <2> QED BY <2>1
<1> QED BY <1>3, <1>4

Hole == IF treeCall.fn = "balance" THEN pos ELSE Nil
Spot == IF treeCall.fn = "mend" THEN pos ELSE Nil

Lowest(nodes) == IF nodes = {} THEN Nil ELSE Min(nodes)

(* The invariant, as the lemmas above have it.                              *)
LEMMA PaintedNow ==
  ASSUME NEW sub, NEW black, TreeOK(sub, black)
  PROVE  /\ Tree(Shape, sub) /\ Nodes = sub[root] /\ red \subseteq Keys /\ Nodes \subseteq Keys
         /\ treeCall.fn # "broken" => Painted(Shape, sub, Nodes, red, black, Hole, treeCall.key, Spot)
         /\ leftmost = Lowest(Nodes) /\ treeCount \in Nat /\ treeCount >= Cardinality(Nodes)
         /\ IsFiniteSet(Nodes) /\ Cardinality(Nodes) \in Nat
         /\ CallOK(sub) /\ IterOK(sub)
<1>1. /\ Tree(Shape, sub) /\ Nodes = sub[root] /\ red \subseteq Keys /\ Shape.root = root
      /\ Nodes \subseteq Keys
  BY ShapeFacts DEF TreeOK, Nodes
<1>2. IsFiniteSet(Nodes) /\ Cardinality(Nodes) \in Nat
  BY <1>1, KeyFacts, FS_Subset, FS_CardinalityType
<1>3. treeCall.fn # "broken" => Painted(Shape, sub, Nodes, red, black, Hole, treeCall.key, Spot)
  BY <1>1 DEF TreeOK, Painted, Hole, Spot
<1> QED BY <1>1, <1>2, <1>3 DEF TreeOK, Lowest

(* What the program has then made of the fields. *)
LEMMA BecomesFacts ==
  ASSUME NEW r, NEW nodes, NEW reds, NEW node, NEW side, NEW spot, Becomes(r), red' = reds,
         Repainted(r, nodes, reds, node, side, spot)
  PROVE  /\ Nodes' = nodes /\ red' \subseteq Keys /\ nodes \subseteq Keys
         /\ \E sub, black : /\ Tree(Shape', sub)
                            /\ Balanced(Shape', Nodes', red', black, node, side)
                            /\ Calm(Shape', Nodes', red', spot)
<1>1. PICK sub, black : Painted(r, sub, nodes, reds, black, node, side, spot)
  BY DEF Repainted
<1>2. /\ Tree(r, sub) /\ nodes = sub[r.root] /\ reds \subseteq Keys /\ nodes \subseteq Keys
      /\ Balanced(r, nodes, reds, black, node, side) /\ Calm(r, nodes, reds, spot)
  <2>1. nodes \subseteq Keys
    BY <1>1, PaintFacts
  <2> QED BY <1>1, <2>1 DEF Painted
<1>3. Shape' = r
  <2>1. r \in Shapes
    BY <1>2 DEF Tree
  <2>2. r = [root |-> r.root, up |-> r.up, kid |-> r.kid]
    BY <2>1 DEF Shapes
  <2> QED BY <2>2 DEF Shape, Becomes
<1>4. Nodes' = nodes
  <2>1. \A n \in Keys : n \in sub[r.root] <=> n = r.root \/ r.up[n] # Nil
    BY <1>2 DEF Tree, Grown
  <2>2. Nodes' = {k \in Keys : k = r.root \/ r.up[k] # Nil}
    BY DEF Nodes, Becomes
  <2> QED BY <1>2, <2>1, <2>2
<1> QED BY <1>2, <1>3, <1>4

(* The call that follows a change of the tree. *)
NextCall(nodes) ==
  \/ treeCall' = Idle /\ pos' \in Places
  \/ treeCall' \in [fn : {"balance"}, key : Sides] /\ pos' \in nodes
  \/ /\ treeCall'.fn = "mend" /\ treeCall' \in [fn : {"mend"}, key : Places]
     /\ pos' \in nodes /\ pos' \in red'

(* A tree after a change, with the call that follows, keeps the invariant.  *)
LEMMA TreeGoesOn ==
  ASSUME NEW r, NEW nodes, NEW reds, Becomes(r), red' = reds, Repainted(r, nodes, reds, Hole', treeCall'.key, Spot'),
         NextCall(nodes), leftmost' = Lowest(nodes), treeCount' \in Nat, treeCount' >= Cardinality(nodes),
         origin' # "begin"
  PROVE  TreeKept'
<1> USE KeyFacts
<1>1. /\ Nodes' = nodes /\ red' \subseteq Keys /\ nodes \subseteq Keys
      /\ \E sub, black : /\ Tree(Shape', sub)
                         /\ Balanced(Shape', Nodes', red', black, Hole', treeCall'.key)
                         /\ Calm(Shape', Nodes', red', Spot')
  BY BecomesFacts
<1>2. PICK sub, black : /\ Tree(Shape', sub)
                        /\ Balanced(Shape', Nodes', red', black, Hole', treeCall'.key)
                        /\ Calm(Shape', Nodes', red', Spot')
  BY <1>1
<1>3. CallOK(sub)'
  <2>1. CASE treeCall' = Idle /\ pos' \in Places
    BY <2>1 DEF CallOK, Calls, Idle, Places
  <2>2. CASE treeCall' \in [fn : {"balance"}, key : Sides] /\ pos' \in nodes
    BY <1>1, <2>2 DEF CallOK, Places
  <2>3. CASE treeCall'.fn = "mend" /\ treeCall' \in [fn : {"mend"}, key : Places] /\ pos' \in nodes /\ pos' \in red'
    BY <1>1, <2>3 DEF CallOK, Calls, Places
  <2> QED BY <2>1, <2>2, <2>3 DEF NextCall
<1>4. IterOK(sub)'
  BY DEF IterOK
<1>5. TreeOK(sub, black)'
  BY <1>1, <1>2, <1>3, <1>4 DEF TreeOK, Lowest, Hole, Spot
<1> QED BY <1>5 DEF TreeKept

(* The tree stays as it is. *)
LEMMA TreeRests ==
  ASSUME NEW sub, NEW black, TreeOK(sub, black), UNCHANGED treeFields,
         treeCall'.fn \in {"none", "insert", "search", "erase_key", "broken"},
         treeCall.fn \in {"none", "insert", "search", "erase_key"} \/ treeCall'.fn = "broken",
         CallOK(sub)', IterOK(sub)'
  PROVE  TreeKept'
<1> USE KeyFacts
<1>1. Shape' = Shape /\ Nodes' = Nodes /\ red' = red /\ leftmost' = leftmost /\ treeCount' = treeCount
  BY DEF treeFields, Shape, Nodes
<1>2. treeCall'.fn # "broken" =>
        /\ Balanced(Shape, Nodes, red, black, Nil, treeCall'.key)
        /\ Calm(Shape, Nodes, red, Nil)
  <2> SUFFICES ASSUME treeCall'.fn # "broken"
               PROVE  Balanced(Shape, Nodes, red, black, Nil, treeCall'.key) /\ Calm(Shape, Nodes, red, Nil)
    OBVIOUS
  <2>1. treeCall.fn \in {"none", "insert", "search", "erase_key"}
    OBVIOUS
  <2>2. Balanced(Shape, Nodes, red, black, Nil, treeCall.key) /\ Calm(Shape, Nodes, red, Nil)
    BY <2>1 DEF TreeOK
  <2>3. Nil \notin Nodes
    BY DEF Nodes
  <2> QED BY <2>2, <2>3 DEF Balanced
<1>3. TreeOK(sub, black)'
  BY <1>1, <1>2 DEF TreeOK
<1> QED BY <1>3 DEF TreeKept

(* The lowest node after one is taken out.                                  *)
LEMMA LowestWithout ==
  ASSUME NEW nodes, nodes \subseteq Keys, NEW n \in nodes, NEW low, low = Lowest(nodes)
  PROVE  Lowest(nodes \ {n}) = IF low # n THEN low ELSE IF nodes = {n} THEN Nil ELSE Min(nodes \ {n})
<1>1. low = Min(nodes) /\ low \in nodes /\ \A y \in nodes : low <= y
  BY MinFacts DEF Lowest
<1>2. CASE low # n
  <2>1. low \in nodes \ {n} /\ nodes \ {n} # {} /\ \A y \in nodes \ {n} : low <= y
    BY <1>1, <1>2
  <2>2. low = Min(nodes \ {n})
    BY <2>1, MinFacts
  <2> QED BY <1>2, <2>1, <2>2 DEF Lowest
<1>3. CASE low = n
  BY <1>3 DEF Lowest
<1> QED BY <1>2, <1>3

(* tree_delete keeps the invariant.                                         *)
LEMMA DeleteKeeps ==
  ASSUME NEW sub, NEW black, TreeOK(sub, black), NEW n \in Nodes,
         treeCall.fn \in {"none", "erase_key"}, Delete(n), origin' # "begin"
  PROVE  TreeKept'
<1> USE KeyFacts
<1>1. /\ Tree(Shape, sub) /\ Nodes = sub[root] /\ red \subseteq Keys /\ Nodes \subseteq Keys
      /\ Painted(Shape, sub, Nodes, red, black, Nil, treeCall.key, Nil)
      /\ leftmost = Lowest(Nodes) /\ treeCount \in Nat /\ treeCount >= Cardinality(Nodes)
      /\ IsFiniteSet(Nodes) /\ Cardinality(Nodes) \in Nat
  <2>1. Hole = Nil /\ Spot = Nil
    BY DEF Hole, Spot
  <2> QED BY <2>1, PaintedNow
<1> DEFINE shape == SpareShape(n)
           reds == SpareReds(n)
           c == SpareKid(n)
           side == SpareSide(n)
           taken == IF n \in reds THEN Nil ELSE c
           r == Without(shape, n, taken)
           nodes == Nodes \ {n}
           reds2 == reds \ {n, c}
           node == IF n \notin reds /\ c = Nil THEN shape.up[n] ELSE Nil
<1>2. /\ ~ SwapBreaks(n)
      /\ leftmost' = LeftmostWithout(n)
      /\ Becomes(r) /\ red' = reds2
      /\ IF Nodes = {n} \/ n \in reds \/ c # Nil
         THEN /\ treeCount' = IF Nodes = {n} THEN 0 ELSE treeCount - 1
              /\ Done
         ELSE /\ treeCall' = [fn |-> "balance", key |-> side]
              /\ pos' = shape.up[n]
              /\ treeCount' = treeCount
  BY DEF Delete, SpareShape, SpareReds, SpareKid, SpareSide
<1>3. /\ n \in reds => c = Nil
      /\ Repainted(Without(shape, n, c), nodes, reds2, node, side, Nil)
      /\ c = Nil /\ Nodes # {n} => shape.up[n] \in nodes
      /\ Nodes = {n} => shape.up[n] = Nil
      /\ side \in Sides
  BY <1>1, <1>2, SparePaints
<1>4. taken = c
  BY <1>3
<1>5. Repainted(r, nodes, reds2, node, side, Nil)
  BY <1>3, <1>4
<1> HIDE DEF shape, reds, c, side, taken, r, reds2
<1>6. leftmost' = Lowest(nodes)
  <2>1. Lowest(Nodes \ {n}) = IF leftmost # n THEN leftmost ELSE IF Nodes = {n} THEN Nil ELSE Min(Nodes \ {n})
    BY <1>1, LowestWithout
  <2> QED BY <1>2, <2>1 DEF LeftmostWithout
<1>7. Cardinality(nodes) = Cardinality(Nodes) - 1 /\ Cardinality(nodes) \in Nat
      /\ (Nodes = {n} => Cardinality(nodes) = 0)
  <2>1. IsFiniteSet(nodes) /\ Cardinality(nodes) = Cardinality(Nodes) - 1
    BY <1>1, FS_RemoveElement
  <2>2. Cardinality(nodes) \in Nat
    BY <2>1, FS_CardinalityType
  <2>3. Nodes = {n} => Cardinality(nodes) = 0
    BY FS_EmptySet
  <2> QED BY <2>1, <2>2, <2>3
<1>8. CASE Nodes = {n} \/ n \in reds \/ c # Nil
  <2>1. node = Nil
    BY <1>3, <1>8
  <2>2. treeCall' = Idle /\ pos' = Nil /\ treeCount' = IF Nodes = {n} THEN 0 ELSE treeCount - 1
    BY <1>2, <1>8 DEF Done
  <2>3. treeCount' \in Nat /\ treeCount' >= Cardinality(nodes)
    <3> HIDE DEF nodes
    <3> QED BY <1>1, <1>7, <2>2
  <2>4. Hole' = Nil /\ Spot' = Nil
    BY <2>2 DEF Hole, Spot, Idle
  <2> HIDE DEF nodes
  <2>5. Repainted(r, nodes, reds2, Nil, treeCall'.key, Nil)
    BY <1>5, <2>1, AnySide
  <2>6. NextCall(nodes)
    BY <2>2 DEF NextCall
  <2> QED BY <1>2, <1>6, <2>3, <2>4, <2>5, <2>6, TreeGoesOn
<1>9. CASE ~ (Nodes = {n} \/ n \in reds \/ c # Nil)
  <2>1. /\ treeCall' = [fn |-> "balance", key |-> side] /\ pos' = shape.up[n] /\ treeCount' = treeCount
        /\ shape.up[n] \in nodes /\ node = shape.up[n]
    BY <1>2, <1>3, <1>9
  <2>2. Hole' = node /\ Spot' = Nil /\ treeCall'.key = side
    BY <2>1 DEF Hole, Spot
  <2>3. NextCall(nodes)
    BY <1>3, <2>1 DEF NextCall
  <2>4. treeCount' \in Nat /\ treeCount' >= Cardinality(nodes)
    <3> HIDE DEF nodes
    <3> QED BY <1>1, <1>7, <2>1
  <2> HIDE DEF nodes, node
  <2>5. Repainted(r, nodes, reds2, Hole', treeCall'.key, Spot')
    BY <1>5, <2>2
  <2> QED BY <1>2, <1>6, <2>3, <2>4, <2>5, TreeGoesOn
<1> QED BY <1>8, <1>9

(* An iteration of tree_insert_node keeps it.                               *)
LEMMA MendKeeps ==
  ASSUME NEW sub, NEW black, TreeOK(sub, black), Mend
  PROVE  TreeKept'
<1> USE KeyFacts
<1> DEFINE n == pos
           p == up[n]
           g == up[p]
           key == treeCall.key
<1>1. /\ Tree(Shape, sub) /\ Nodes = sub[root] /\ red \subseteq Keys /\ Nodes \subseteq Keys
      /\ Painted(Shape, sub, Nodes, red, black, Nil, key, n)
      /\ leftmost = Lowest(Nodes) /\ treeCount \in Nat /\ treeCount >= Cardinality(Nodes)
      /\ treeCall.fn = "mend" /\ n \in Nodes /\ n \in red /\ treeCall \in Calls
      /\ origin # "begin"
      /\ Shape.root = root /\ Shape.up = up /\ Shape.kid = kid
  <2>1. treeCall.fn = "mend"
    BY DEF Mend
  <2>2. Hole = Nil /\ Spot = n
    BY <2>1 DEF Hole, Spot
  <2>3. n \in Nodes /\ n \in red /\ treeCall \in Calls /\ origin # "begin"
    BY <2>1, PaintedNow DEF CallOK, IterOK
  <2> QED BY <2>1, <2>2, <2>3, PaintedNow, ShapeFacts
<1>2. /\ leftmost' = Lowest(Nodes) /\ treeCount' \in Nat /\ treeCount' >= Cardinality(Nodes)
      /\ origin' # "begin" /\ leftmost' = leftmost /\ treeCount' = treeCount
  BY <1>1 DEF Mend
<1>3. p # Nil => p \in Nodes
  BY <1>1, Hangs
<1>4. ASSUME NEW r, NEW reds, Becomes(r), red' = reds, Repainted(r, Nodes, reds, Nil, key, Nil), Done
      PROVE  TreeKept'
  <2>1. Hole' = Nil /\ Spot' = Nil /\ treeCall' = Idle /\ pos' = Nil
    BY <1>4 DEF Hole, Spot, Idle, Done
  <2>2. Repainted(r, Nodes, reds, Hole', treeCall'.key, Spot')
    BY <1>4, <2>1, AnySide
  <2>3. NextCall(Nodes)
    BY <2>1 DEF NextCall
  <2> QED BY <1>2, <1>4, <2>2, <2>3, TreeGoesOn
<1> HIDE DEF n, p, g, key
<1>5. n = pos /\ p = up[n] /\ g = up[p] /\ p = Shape.up[n] /\ g = Shape.up[p]
  BY <1>1 DEF n, p, g
<1>6. CASE p = Nil \/ Black(p)
  <2>1. p = Nil \/ p \notin red
    BY <1>6 DEF Black
  <2>2. Done /\ UNCHANGED <<root, red, up, kid>>
    BY <1>5, <1>6 DEF Mend
  <2>3. Becomes(Shape) /\ red' = red
    BY <1>1, <2>2 DEF Becomes
  <2>4. Repainted(Shape, Nodes, red, Nil, key, Nil)
    BY <1>1, <1>5, <2>1, MendStops
  <2> QED BY <1>4, <2>2, <2>3, <2>4
<1>7. CASE p # Nil /\ ~ Black(p) /\ g = Nil
  <2>1. p \in red
    BY <1>7 DEF Black
  <2>2. Recolour({}, {p}) /\ Done /\ UNCHANGED <<root, up, kid>>
    BY <1>5, <1>7 DEF Mend
  <2>3. Becomes(Shape) /\ red' = red \ {p}
    BY <1>1, <2>2 DEF Becomes, Recolour
  <2>4. Repainted(Shape, Nodes, red \ {p}, Nil, key, Nil)
    BY <1>1, <1>5, <1>7, <2>1, MendStops
  <2> QED BY <1>4, <2>2, <2>3, <2>4
<1>8. CASE p # Nil /\ ~ Black(p) /\ g # Nil
  <2> DEFINE dir == SideOf(p)
             u == kid[g][Other(dir)]
             inner == n = kid[p][Other(dir)]
             outer == IF inner THEN Rotate(Shape, p, dir) ELSE Shape
  <2>1. IF Black(u)
        THEN /\ Becomes(Rotate(outer, g, Other(dir)))
             /\ Recolour({g}, {IF inner THEN n ELSE p})
             /\ Done
        ELSE /\ Recolour({g}, {p, u})
             /\ pos' = g
             /\ UNCHANGED <<treeCall, root, up, kid>>
    BY <1>5, <1>8 DEF Mend
  <2>2. p \in red /\ dir = SideAt(Shape, g, p) /\ inner \in BOOLEAN /\ dir \in Sides
    BY <1>1, <1>5, <1>8 DEF Black, SideOf, SideAt
  <2> HIDE DEF dir
  <2>3. /\ u = Shape.kid[g][Other(dir)] /\ (inner <=> n = Shape.kid[p][Other(dir)])
        /\ outer = IF inner THEN Rotate(Shape, p, dir) ELSE Shape
    BY <1>1
  <2> HIDE DEF u, inner, outer
  <2>4. CASE Black(u)
    <3> DEFINE r == Rotate(outer, g, Other(dir))
               reds == (red \ {IF inner THEN n ELSE p}) \union {g}
    <3>1. Becomes(r) /\ red' = reds /\ Done
      BY <2>1, <2>4 DEF Recolour
    <3>2. Shape.kid[g][Other(dir)] \notin red
      BY <1>1, <2>3, <2>4 DEF Black
    <3>3. Repainted(r, Nodes, reds, Nil, key, Nil)
      <4>1. /\ n # Shape.kid[p][Other(dir)] =>
                 Repainted(Rotate(Shape, g, Other(dir)), Nodes, (red \ {p}) \union {g}, Nil, key, Nil)
            /\ n = Shape.kid[p][Other(dir)] =>
                 Repainted(Rotate(Rotate(Shape, p, dir), g, Other(dir)), Nodes,
                           (red \ {n}) \union {g}, Nil, key, Nil)
        BY ONLY <1>1, <1>5, <1>8, <2>2, <3>2, MendTurns
      <4>2. CASE inner
        BY <2>3, <4>1, <4>2
      <4>3. CASE ~ inner
        BY <2>3, <4>1, <4>3
      <4> QED BY <4>2, <4>3
    <3> HIDE DEF r, reds
    <3> QED BY <1>4, <3>1, <3>3
  <2>5. CASE ~ Black(u)
    <3> DEFINE reds == (red \ {p, u}) \union {g}
    <3>1. /\ red' = reds /\ pos' = g /\ treeCall' = treeCall /\ Becomes(Shape)
      BY <1>1, <2>1, <2>5 DEF Recolour, Becomes
    <3>2. u \in red
      BY <2>5 DEF Black
    <3>3. Repainted(Shape, Nodes, reds, Nil, key, g) /\ g \in Nodes
      BY ONLY <1>1, <1>5, <1>8, <2>2, <2>3, <3>2, MendUncle
    <3>4. g \in red'
      BY <3>1
    <3> HIDE DEF reds
    <3>5. Hole' = Nil /\ Spot' = g /\ treeCall'.key = key
      BY <1>1, <3>1 DEF Hole, Spot, key
    <3>6. Repainted(Shape, Nodes, reds, Hole', treeCall'.key, Spot')
      BY <3>3, <3>5
    <3>7. NextCall(Nodes)
      BY <1>1, <3>1, <3>3, <3>4 DEF NextCall, Calls
    <3> QED BY <1>2, <3>1, <3>6, <3>7, TreeGoesOn
  <2> QED BY <2>4, <2>5
<1> QED BY <1>6, <1>7, <1>8

(* An iteration of tree_delete's loop keeps it.                             *)
LEMMA BalanceKeeps ==
  ASSUME NEW sub, NEW black, TreeOK(sub, black), Balance
  PROVE  TreeKept'
<1> USE KeyFacts
<1> DEFINE p == pos
           dir == treeCall.key
           s == kid[p][Other(dir)]
           d == kid[s][Other(dir)]
           c == kid[s][dir]
<1>1. /\ Tree(Shape, sub) /\ Nodes = sub[root] /\ red \subseteq Keys /\ Nodes \subseteq Keys
      /\ Painted(Shape, sub, Nodes, red, black, p, dir, Nil)
      /\ leftmost = Lowest(Nodes) /\ treeCount \in Nat /\ treeCount >= Cardinality(Nodes)
      /\ treeCall.fn = "balance" /\ p \in Nodes /\ dir \in Sides
      /\ origin # "begin" /\ Nil \notin red
      /\ Shape.root = root /\ Shape.up = up /\ Shape.kid = kid
      /\ treeCall \in [fn : {"balance"}, key : Sides]
  <2>1. treeCall.fn = "balance"
    BY DEF Balance
  <2>2. Hole = p /\ Spot = Nil
    BY <2>1 DEF Hole, Spot
  <2>3. p \in Nodes /\ treeCall \in [fn : {"balance"}, key : Sides] /\ origin # "begin"
    BY <2>1, PaintedNow DEF CallOK, IterOK
  <2>4. red \subseteq Keys
    BY PaintedNow
  <2> QED BY <2>1, <2>2, <2>3, <2>4, PaintedNow, ShapeFacts
<1>2. /\ leftmost' = Lowest(Nodes) /\ treeCount' \in Nat /\ treeCount' >= Cardinality(Nodes)
      /\ origin' # "begin"
  BY <1>1 DEF Balance
<1>3. ASSUME NEW r, NEW reds, NEW side, Becomes(r), red' = reds, Repainted(r, Nodes, reds, Nil, side, Nil), Done
      PROVE  TreeKept'
  <2>1. Hole' = Nil /\ Spot' = Nil /\ treeCall' = Idle /\ pos' = Nil
    BY <1>3 DEF Hole, Spot, Idle, Done
  <2>2. Repainted(r, Nodes, reds, Hole', treeCall'.key, Spot')
    BY <1>3, <2>1, AnySide
  <2>3. NextCall(Nodes)
    BY <2>1 DEF NextCall
  <2> QED BY <1>2, <1>3, <2>2, <2>3, TreeGoesOn
<1>4. /\ Black(s)
      /\ \/ /\ ~ Black(d)
            /\ Becomes(Rotate(Shape, p, dir))
            /\ red' = {k \in red \union {s} : k \notin {p, d} /\ (k = s => p \in red)}
            /\ Done
         \/ /\ Black(d) /\ ~ Black(c)
            /\ Becomes(Rotate(Rotate(Shape, s, Other(dir)), p, dir))
            /\ red' = {k \in red : k \notin {p, s} /\ (k = c => p \in red)}
            /\ Done
         \/ /\ Black(d) /\ Black(c) /\ ~ Black(p)
            /\ Recolour({s}, {p})
            /\ Done /\ UNCHANGED <<root, up, kid>>
         \/ /\ Black(d) /\ Black(c) /\ Black(p)
            /\ Recolour({s}, {})
            /\ IF up[p] = Nil THEN Done
               ELSE pos' = up[p] /\ treeCall' = [treeCall EXCEPT !.key = SideOf(p)]
            /\ UNCHANGED <<root, up, kid>>
  BY DEF Balance
<1> HIDE DEF p, dir, s, d, c
<1>5. /\ s = Shape.kid[p][Other(dir)] /\ d = Shape.kid[s][Other(dir)] /\ c = Shape.kid[s][dir]
      /\ s \notin red /\ dir = treeCall.key
  BY <1>1, <1>4 DEF s, d, c, Black, dir
<1>6. /\ s # Nil
      /\ c \notin red /\ d \notin red /\ p \in red =>
           Repainted(Shape, Nodes, (red \ {p}) \union {s}, Nil, dir, Nil)
      /\ c \notin red /\ d \notin red /\ p \notin red =>
           Repainted(Shape, Nodes, red \union {s}, Shape.up[p], SideAt(Shape, Shape.up[p], p), Nil)
  BY ONLY <1>1, <1>5, BalancePaints
<1>7. /\ d \in red =>
           Repainted(Rotate(Shape, p, dir), Nodes, OverReds(red, p, s, d), Nil, dir, Nil)
      /\ d \notin red /\ c \in red =>
           \E after : /\ Repainted(Rotate(Rotate(Shape, s, Other(dir)), p, dir), Nodes, after, Nil, dir, Nil)
                      /\ after = {k \in red : k \notin {p, s} /\ (k = c => p \in red)}
  BY ONLY <1>1, <1>5, <1>6, BalanceTurns
<1>8. CASE ~ Black(d)
  <2>1. d \in red
    BY <1>8 DEF Black
  <2>2. Becomes(Rotate(Shape, p, dir)) /\ red' = OverReds(red, p, s, d) /\ Done
    BY <1>4, <1>8 DEF OverReds
  <2> QED BY <1>3, <1>7, <2>1, <2>2
<1>9. CASE Black(d) /\ ~ Black(c)
  <2>1. d \notin red /\ c \in red
    BY <1>1, <1>9 DEF Black
  <2>2. /\ Becomes(Rotate(Rotate(Shape, s, Other(dir)), p, dir))
        /\ red' = {k \in red : k \notin {p, s} /\ (k = c => p \in red)}
        /\ Done
    BY <1>4, <1>9
  <2>3. PICK after : /\ Repainted(Rotate(Rotate(Shape, s, Other(dir)), p, dir), Nodes, after, Nil, dir, Nil)
                     /\ after = {k \in red : k \notin {p, s} /\ (k = c => p \in red)}
    BY <1>7, <2>1
  <2>4. red' = after
    BY <2>2, <2>3
  <2> QED BY <1>3, <2>2, <2>3, <2>4
<1>10. CASE Black(d) /\ Black(c) /\ ~ Black(p)
  <2>1. d \notin red /\ c \notin red /\ p \in red
    BY <1>1, <1>10 DEF Black
  <2>2. red' = (red \ {p}) \union {s} /\ Done /\ UNCHANGED <<root, up, kid>>
    BY <1>4, <1>10 DEF Recolour
  <2>3. Becomes(Shape)
    BY <1>1, <2>2 DEF Becomes
  <2> QED BY <1>3, <1>6, <2>1, <2>2, <2>3
<1>11. CASE Black(d) /\ Black(c) /\ Black(p)
  <2>1. d \notin red /\ c \notin red /\ p \notin red
    BY <1>1, <1>11 DEF Black
  <2>2. /\ red' = red \union {s} /\ UNCHANGED <<root, up, kid>>
        /\ IF up[p] = Nil THEN Done
           ELSE pos' = up[p] /\ treeCall' = [treeCall EXCEPT !.key = SideOf(p)]
    BY <1>4, <1>11 DEF Recolour
  <2>3. Becomes(Shape)
    BY <1>1, <2>2 DEF Becomes
  <2>4. Repainted(Shape, Nodes, red \union {s}, up[p], SideAt(Shape, up[p], p), Nil)
    BY <1>1, <1>6, <2>1
  <2>5. CASE up[p] = Nil
    BY <1>3, <2>2, <2>3, <2>4, <2>5
  <2>6. CASE up[p] # Nil
    <3>1. up[p] \in Nodes
      BY <1>1, <2>6, Hangs
    <3>2. /\ pos' = up[p] /\ treeCall'.fn = "balance" /\ treeCall'.key = SideAt(Shape, up[p], p)
          /\ treeCall' \in [fn : {"balance"}, key : Sides]
      BY <1>1, <2>2, <2>6 DEF SideOf, SideAt
    <3>3. Hole' = up[p] /\ Spot' = Nil
      BY <3>2 DEF Hole, Spot
    <3>4. NextCall(Nodes)
      BY <3>1, <3>2 DEF NextCall
    <3>5. Repainted(Shape, Nodes, red \union {s}, Hole', treeCall'.key, Spot')
      BY <2>4, <3>2, <3>3
    <3> QED BY <1>2, <2>2, <2>3, <3>4, <3>5, TreeGoesOn
  <2> QED BY <2>5, <2>6
<1> QED BY <1>4, <1>8, <1>9, <1>10, <1>11

(* The lowest node after one is added.                                      *)
LEMMA LowestWith ==
  ASSUME NEW nodes, nodes \subseteq Keys, NEW a \in Keys, NEW low, low = Lowest(nodes)
  PROVE  Lowest(nodes \union {a}) = IF low = Nil \/ a < low THEN a ELSE low
<1> USE KeyFacts
<1> DEFINE more == nodes \union {a}
           l == IF low = Nil \/ a < low THEN a ELSE low
<1>1. more \subseteq Keys /\ more # {}
  OBVIOUS
<1>2. CASE nodes = {}
  <2>1. l = a /\ more = {a} /\ a <= a
    BY <1>2 DEF Lowest
  <2> HIDE DEF more, l
  <2>2. a \in more /\ \A y \in more : a <= y
    BY <2>1
  <2>3. a = Min(more)
    BY <1>1, <2>2, MinFacts
  <2> QED BY <1>1, <2>1, <2>3 DEF Lowest, more, l
<1>3. CASE nodes # {}
  <2>1. low \in nodes /\ low # Nil /\ low \in Nat /\ a \in Nat /\ \A y \in nodes : low <= y /\ y \in Nat
    BY <1>3, MinFacts DEF Lowest
  <2>2. l \in more /\ \A y \in more : l <= y
    <3>1. l \in more
      BY <2>1
    <3>2. l <= a /\ l <= low /\ l \in Nat
      BY <2>1
    <3>3. \A y \in nodes : l <= y
      <4> HIDE DEF l
      <4> QED BY <2>1, <3>2
    <3> HIDE DEF l
    <3> QED BY <3>1, <3>2, <3>3
  <2> HIDE DEF more, l
  <2>3. l = Min(more)
    BY <1>1, <2>2, MinFacts
  <2> QED BY <1>1, <2>3 DEF Lowest, more, l
<1> QED BY <1>2, <1>3

(* The new node keeps it.                                                   *)
LEMMA AttachStep ==
  ASSUME NEW sub, NEW black, TreeOK(sub, black), Attach
  PROVE  TreeKept'
<1> USE KeyFacts
<1> DEFINE a == treeCall.key
           side == SideFor(a, pos)
           nodes == Nodes \union {a}
           reds == red \union {a}
           r == [root |-> root', up |-> up', kid |-> kid']
<1>1. /\ Tree(Shape, sub) /\ Nodes = sub[root] /\ red \subseteq Keys /\ Nodes \subseteq Keys
      /\ Painted(Shape, sub, Nodes, red, black, Nil, a, Nil)
      /\ leftmost = Lowest(Nodes) /\ treeCount \in Nat /\ treeCount >= Cardinality(Nodes)
      /\ Cardinality(Nodes) \in Nat /\ IsFiniteSet(Nodes)
      /\ treeCall.fn = "insert" /\ a \in Keys /\ treeCall \in Calls /\ pos \in Places
      /\ pos = Nil => root = Nil
      /\ pos # Nil => pos \in Nodes /\ Belongs(sub)
      /\ origin # "begin"
      /\ Shape.root = root /\ Shape.up = up /\ Shape.kid = kid
  <2>1. treeCall.fn = "insert"
    BY DEF Attach
  <2>2. Hole = Nil /\ Spot = Nil
    BY <2>1 DEF Hole, Spot
  <2>3. /\ CallOK(sub) /\ origin # "begin"
    BY <2>1, PaintedNow DEF IterOK
  <2>4. /\ a \in Keys /\ treeCall \in Calls /\ pos \in Places
        /\ pos = Nil => root = Nil
        /\ pos # Nil => pos \in Nodes /\ Belongs(sub)
    BY <2>1, <2>3 DEF CallOK
  <2>5. /\ Tree(Shape, sub) /\ Nodes = sub[root] /\ red \subseteq Keys /\ Nodes \subseteq Keys
        /\ leftmost = Lowest(Nodes) /\ treeCount \in Nat /\ treeCount >= Cardinality(Nodes)
        /\ Cardinality(Nodes) \in Nat /\ IsFiniteSet(Nodes)
        /\ Painted(Shape, sub, Nodes, red, black, Hole, treeCall.key, Spot)
    BY <2>1, PaintedNow
  <2> QED BY <2>1, <2>2, <2>3, <2>4, <2>5, ShapeFacts
<1>2. /\ pos # Nil => a # pos /\ kid[pos][side] = Nil
      /\ red' = reds
      /\ up' = [up EXCEPT ![a] = pos]
      /\ pos = Nil => root' = a /\ kid' = kid
      /\ pos # Nil => kid' = [kid EXCEPT ![pos][side] = a] /\ root' = root
      /\ treeCount' = treeCount + 1
      /\ leftmost' = IF leftmost = Nil \/ a < leftmost THEN a ELSE leftmost
      /\ treeCall' = [treeCall EXCEPT !.fn = "mend"] /\ pos' = a
      /\ origin' = origin
  BY DEF Attach, Onward
<1>3. /\ r.root = root' /\ r.up = up' /\ r.kid = kid' /\ Becomes(r)
  BY DEF Becomes
<1>4. /\ root \in Places /\ up \in [Keys -> Places] /\ kid \in [Keys -> [Sides -> Places]]
  BY <1>1 DEF Tree, Shapes
<1>5. up' \in [Keys -> Places] /\ \A k \in Keys : up'[k] = IF k = a THEN pos ELSE up[k]
  BY <1>1, <1>2, <1>4
<1> HIDE DEF a
<1>6. /\ a \notin Nodes /\ Repainted(r, nodes, reds, Nil, a, a)
  <2>1. CASE pos = Nil
    <3>1. root = Nil /\ root' = a /\ kid' = kid
      BY <1>1, <1>2, <2>1
    <3>2. r \in Shapes
      BY <1>1, <1>4, <1>5, <3>1 DEF Shapes, Places
    <3>3. /\ r.root = a /\ \A k \in Keys : r.up[k] = IF k = a THEN Nil ELSE Shape.up[k]
          /\ r.kid = Shape.kid /\ red \in SUBSET Keys /\ Shape.root = Nil
      BY <1>1, <1>3, <1>5, <2>1, <3>1
    <3> HIDE DEF r
    <3>4. sub[Shape.root] = {} /\ Repainted(r, {a}, red \union {a}, Nil, a, a)
      <4>1. Tree(Shape, sub) /\ a \in Keys
        BY <1>1
      <4> QED BY ONLY <4>1, <3>2, <3>3, AttachFirst
    <3>5. Nodes = {} /\ nodes = {a}
      BY <1>1, <3>4
    <3> QED BY <3>4, <3>5
  <2>2. CASE pos # Nil
    <3>1. /\ pos \in Nodes /\ Belongs(sub) /\ a # pos /\ kid[pos][side] = Nil
          /\ kid' = [kid EXCEPT ![pos][side] = a] /\ root' = root
      BY <1>1, <1>2, <2>2
    <3>2. pos \in Keys /\ side \in Sides
      BY <1>1, <3>1 DEF SideFor
    <3> HIDE DEF side
    <3>3. /\ kid' \in [Keys -> [Sides -> Places]]
          /\ \A k \in Keys, d \in Sides : kid'[k][d] = IF k = pos /\ d = side THEN a ELSE kid[k][d]
      <4>1. kid[pos] \in [Sides -> Places] /\ a \in Places
        BY <1>1, <1>4, <3>2
      <4>2. [kid[pos] EXCEPT ![side] = a] \in [Sides -> Places]
        BY <3>2, <4>1
      <4>3. \A d \in Sides : [kid[pos] EXCEPT ![side] = a][d] = IF d = side THEN a ELSE kid[pos][d]
        BY <4>1
      <4> DEFINE new == [kid[pos] EXCEPT ![side] = a]
      <4>4. kid' = [kid EXCEPT ![pos] = new]
        BY <3>1, <3>2, <4>1
      <4> HIDE DEF new
      <4>5. new \in [Sides -> Places] /\ \A d \in Sides : new[d] = IF d = side THEN a ELSE kid[pos][d]
        BY <4>2, <4>3 DEF new
      <4> QED BY <1>4, <3>2, <4>4, <4>5
    <3>4. r \in Shapes
      BY <1>4, <1>5, <3>1, <3>3 DEF Shapes
    <3>5. HungAt(r, Shape, a, pos, side)
      BY <1>1, <1>3, <1>5, <3>1, <3>3, <3>4 DEF HungAt
    <3>6. Fits(Shape, sub, a, pos)
      BY <1>1, <3>1 DEF Fits, Belongs, a
    <3>7. side = SideFor(a, pos) /\ Shape.kid[pos][side] = Nil
      BY <1>1, <3>1 DEF side
    <3> HIDE DEF r
    <3>8. a \notin Nodes /\ Repainted(r, Nodes \union {a}, red \union {a}, Nil, a, a)
      BY ONLY <1>1, <3>1, <3>5, <3>6, <3>7, AttachPaints
    <3> QED BY <3>8
  <2> QED BY <2>1, <2>2
<1>7. leftmost' = Lowest(nodes)
  BY <1>1, <1>2, LowestWith
<1>8. Cardinality(nodes) = Cardinality(Nodes) + 1
  BY <1>1, <1>6, FS_AddElement
<1>9. treeCount' \in Nat /\ treeCount' >= Cardinality(nodes)
  <2> HIDE DEF nodes
  <2> QED BY <1>1, <1>2, <1>8
<1>10. /\ treeCall'.fn = "mend" /\ treeCall'.key = a /\ treeCall' \in [fn : {"mend"}, key : Places]
  BY <1>1, <1>2 DEF Calls, a
<1>11. Hole' = Nil /\ Spot' = a
  BY <1>2, <1>10 DEF Hole, Spot
<1>12. NextCall(nodes)
  BY <1>2, <1>10 DEF NextCall
<1>13. origin' # "begin"
  BY <1>1, <1>2
<1> HIDE DEF nodes, reds, r
<1>14. Repainted(r, nodes, reds, Hole', treeCall'.key, Spot')
  BY <1>6, <1>10, <1>11
<1> QED BY <1>2, <1>3, <1>7, <1>9, <1>12, <1>13, <1>14, TreeGoesOn

(* A key that belongs below n, and is not n's, belongs below n's child.     *)
LEMMA BelongsBelow ==
  ASSUME NEW sub, Tree(Shape, sub), NEW n \in Nodes, NEW key \in Keys, key # n, NEW m,
         m = kid[n][SideFor(key, n)], m # Nil,
         \A x \in Nodes : x \notin sub[n] => key # x /\ (key < x <=> n < x)
  PROVE  m \in Nodes /\ \A x \in Nodes : x \notin sub[m] => key # x /\ (key < x <=> m < x)
<1> USE KeyFacts
<1> DEFINE d == SideFor(key, n)
<1>1. /\ Nodes = sub[root] /\ Shape.root = root /\ Shape.kid = kid /\ Convex(Shape, sub)
      /\ n \in Keys /\ n \in sub[n] /\ NodeOK(Shape, sub, n) /\ d \in Sides
      /\ \A x \in Nodes : x \in Keys /\ x \in Nat
      /\ key \in Nat
  <2>1. Nodes = sub[root] /\ Shape.root = root /\ Shape.kid = kid
    BY ShapeFacts
  <2>2. /\ Convex(Shape, sub) /\ n \in Keys /\ n \in sub[n] /\ NodeOK(Shape, sub, n)
    BY <2>1, TreeFacts DEF Tree
  <2>3. d \in Sides /\ key \in Nat /\ \A x \in Nodes : x \in Keys /\ x \in Nat
    BY DEF SideFor, Nodes
  <2> QED BY <2>1, <2>2, <2>3
<1>2. /\ m \in Nodes /\ m \in sub[n] /\ m \in sub[m]
  <2>1. Shape.kid[n][d] = m /\ n \in sub[Shape.root]
    BY <1>1
  <2>2. m \in sub[Shape.root] /\ m \in sub[n]
    BY <1>1, <2>1, TreeFacts
  <2> QED BY <1>1, <2>2, TreeFacts
<1>3. /\ \A x \in sub[m] : x # n /\ SideFor(x, n) = d
      /\ SideFor(m, n) = d /\ m # n
  BY <1>1, <1>2 DEF NodeOK
<1>4. ASSUME NEW x \in Nodes, x \notin sub[m]
      PROVE  key # x /\ (key < x <=> m < x)
  <2>0. x \in Nat /\ n \in Nat /\ m \in Nat /\ key \in Nat /\ x \in Keys
    BY <1>1, <1>2
  <2>1. CASE x \notin sub[n]
    <3>1. key # x /\ (key < x <=> n < x)
      BY <2>1
    <3>2. n < x => m < x
      <4> SUFFICES ASSUME n < x, ~ (m < x) PROVE FALSE
        OBVIOUS
      <4>1. x # m
        BY <1>2, <2>1
      <4>2. x < m
        BY <2>0, <4>1
      <4> QED BY <1>1, <1>2, <2>1, <4>2 DEF Convex
    <3>3. m < x => n < x
      <4> SUFFICES ASSUME m < x, ~ (n < x) PROVE FALSE
        OBVIOUS
      <4>1. x # n
        BY <1>1, <2>1
      <4>2. x < n
        BY <2>0, <4>1
      <4> QED BY <1>1, <1>2, <2>1, <4>2 DEF Convex
    <3> QED BY <3>1, <3>2, <3>3
  <2>2. CASE x = n
    <3>1. (key < n <=> m < n) /\ key # n
      BY <1>3 DEF SideFor
    <3> QED BY <2>2, <3>1
  <2>3. CASE x \in sub[n] /\ x # n
    <3>1. PICK e \in Sides : x \in sub[Shape.kid[n][e]]
      BY <1>1, <2>0, <2>3 DEF NodeOK
    <3>2. e # d
      BY <1>1, <1>4, <3>1
    <3>3. SideFor(x, n) = e
      BY <1>1, <3>1 DEF NodeOK
    <3>4. (x < n <=> ~ (key < n)) /\ (key < n <=> m < n)
      BY <1>1, <1>3, <3>2, <3>3 DEF SideFor
    <3> QED BY <1>3, <2>0, <2>3, <3>4
  <2> QED BY <2>1, <2>2, <2>3
<1> QED BY <1>2, <1>4

(* The loops of the way down keep it.                                       *)
LEMMA DescendStep ==
  ASSUME NEW sub, NEW black, TreeOK(sub, black), Descend
  PROVE  TreeKept'
<1> USE KeyFacts
<1> DEFINE key == treeCall.key
           m == Onward(pos)
<1>1. /\ treeCall.fn \in {"insert", "search", "erase_key"} /\ pos # Nil /\ key # pos /\ m # Nil
      /\ pos' = m /\ UNCHANGED <<treeFields, treeCall, origin>>
  BY DEF Descend, Going
<1>2. /\ Tree(Shape, sub) /\ Nodes \subseteq Keys /\ CallOK(sub) /\ origin # "begin"
  BY <1>1, PaintedNow DEF IterOK
<1>3. pos \in Nodes /\ treeCall \in Calls
  BY <1>1, <1>2 DEF CallOK
<1>4. Nodes' = Nodes
  BY <1>1 DEF Nodes, treeFields
<1>5. m \in Nodes
  <2>1. Shape.kid = kid /\ Nodes = sub[root] /\ Shape.root = root
    BY <1>2, ShapeFacts
  <2>2. SideFor(key, pos) \in Sides
    BY DEF SideFor
  <2> QED BY <1>1, <1>2, <1>3, <2>1, <2>2, TreeFacts DEF Onward
<1>6. treeCall.fn = "insert" =>
        key \in Keys /\ \A x \in Nodes : x \notin sub[m] => key # x /\ (key < x <=> m < x)
  <2> SUFFICES ASSUME treeCall.fn = "insert"
               PROVE  key \in Keys /\ \A x \in Nodes : x \notin sub[m] => key # x /\ (key < x <=> m < x)
    OBVIOUS
  <2>1. key \in Keys /\ \A x \in Nodes : x \notin sub[pos] => key # x /\ (key < x <=> pos < x)
    BY <1>1, <1>2 DEF CallOK, Belongs
  <2>2. /\ pos \in Nodes /\ key # pos /\ m = kid[pos][SideFor(key, pos)] /\ m # Nil
        /\ Tree(Shape, sub)
    BY <1>1, <1>2, <1>3 DEF Onward
  <2> HIDE DEF key, m
  <2> QED BY ONLY <2>1, <2>2, BelongsBelow
<1> HIDE DEF m
<1>7. CallOK(sub)'
  <2>1. treeCall' = treeCall /\ pos' = m /\ m \in Places /\ m # Nil
    BY <1>1, <1>2, <1>5
  <2> QED BY <1>1, <1>3, <1>4, <1>5, <1>6, <2>1 DEF CallOK, Belongs
<1>8. IterOK(sub)'
  BY <1>1, <1>2 DEF IterOK
<1> QED BY <1>1, <1>7, <1>8, TreeRests

(* A call with a key begins at the root.                                    *)
LEMMA BeginStep ==
  ASSUME NEW sub, NEW black, TreeOK(sub, black), NEW fn, NEW key \in Keys, BeginTree(fn, key)
  PROVE  TreeKept'
<1> USE KeyFacts
<1>1. /\ treeCall.fn = "none" /\ fn \in {"insert", "search", "erase_key"}
      /\ fn \in {"search", "erase_key"} => root # Nil
      /\ treeCall' = [fn |-> fn, key |-> key] /\ pos' = root /\ origin' = "none"
      /\ UNCHANGED treeFields
  BY DEF BeginTree, TreeIdle, DropIter
<1>2. /\ Nodes' = Nodes /\ root' = root
  BY <1>1 DEF Nodes, treeFields
<1>3. Nodes = sub[root] /\ root \in Places /\ (root # Nil => root \in Nodes)
  <2>1. Tree(Shape, sub) /\ Shape.root = root
    BY PaintedNow, ShapeFacts
  <2> QED BY <2>1, TreeFacts, ShapeFacts
<1>4. CallOK(sub)'
  <2>1. Belongs(sub)'
    BY <1>1, <1>2, <1>3 DEF Belongs
  <2>2. treeCall' \in Calls /\ treeCall'.fn = fn /\ treeCall'.key = key
    BY <1>1 DEF Calls, Places
  <2> QED BY <1>1, <1>2, <1>3, <2>1, <2>2 DEF CallOK
<1>5. IterOK(sub)'
  BY <1>1 DEF IterOK
<1> QED BY <1>1, <1>4, <1>5, TreeRests

(* A search or an insert ends without a change.                             *)
LEMMA FoundStep ==
  ASSUME NEW sub, NEW black, TreeOK(sub, black), Found \/ NotFound
  PROVE  TreeKept'
<1> USE KeyFacts
<1>1. /\ treeCall.fn \in {"insert", "search", "erase_key"} /\ treeCall' = Idle /\ pos' = Nil
      /\ UNCHANGED treeFields /\ origin' \in {"search", "none", origin}
  BY DEF Found, NotFound, Going, DropIter
<1>2. origin # "begin"
  BY <1>1, PaintedNow DEF IterOK
<1>3. CallOK(sub)'
  BY <1>1 DEF CallOK, Calls, Idle
<1>4. IterOK(sub)'
  BY <1>1, <1>2 DEF IterOK
<1> QED BY <1>1, <1>3, <1>4, TreeRests DEF Idle

(* An erase by key or by iterator keeps it.                                 *)
LEMMA EraseStep ==
  ASSUME NEW sub, NEW black, TreeOK(sub, black), EraseKey \/ IterErase
  PROVE  TreeKept'
<1>1. CASE EraseKey
  <2>1. treeCall.fn = "erase_key" /\ origin' = origin /\ Delete(pos)
    BY <1>1 DEF EraseKey
  <2>2. pos \in Nodes /\ origin # "begin"
    BY <2>1, PaintedNow DEF CallOK, IterOK
  <2> QED BY <2>1, <2>2, DeleteKeeps
<1>2. CASE IterErase
  <2>1. treeCall.fn = "none" /\ origin' = "erase" /\ iter.node \in Nodes /\ Delete(iter.node)
    BY <1>2 DEF IterErase, Usable, TreeIdle
  <2> QED BY <2>1, DeleteKeeps
<1> QED BY <1>1, <1>2

(* Where the model ends, the fields are as before.                          *)
LEMMA BreakStep ==
  ASSUME NEW sub, NEW black, TreeOK(sub, black), BreakTree
  PROVE  TreeKept'
<1> USE KeyFacts
<1>1. /\ treeCall' = [fn |-> "broken", key |-> Nil] /\ pos' = Nil
      /\ UNCHANGED <<treeFields, iter, origin>>
  BY DEF BreakTree
<1>2. Nodes' = Nodes /\ Shape' = Shape
  BY <1>1 DEF Nodes, Shape, treeFields
<1>3. CallOK(sub)'
  BY <1>1 DEF CallOK, Calls, Places
<1>4. IterOK(sub)'
  BY <1>1, <1>2, PaintedNow DEF IterOK
<1> QED BY <1>1, <1>3, <1>4, TreeRests

(* No nodes. *)
EmptyTree == [root |-> Nil, up |-> [k \in Keys |-> Nil], kid |-> [k \in Keys |-> [side \in Sides |-> Nil]]]

(* The tree of no nodes.                                                    *)
LEMMA EmptyPaints ==
  ASSUME NEW any
  PROVE  Repainted(EmptyTree, {}, {}, Nil, any, Nil)
<1> USE KeyFacts
<1> DEFINE t == EmptyTree
           sub == [x \in Places |-> {}]
           black == [x \in Places |-> 0]
<1>1. /\ t.root = Nil /\ \A k \in Keys : t.up[k] = Nil
      /\ \A k \in Keys, d \in Sides : t.kid[k][d] = Nil
      /\ t \in Shapes
  <2>1. /\ [k \in Keys |-> Nil] \in [Keys -> Places]
        /\ [k \in Keys |-> [side \in Sides |-> Nil]] \in [Keys -> [Sides -> Places]]
    OBVIOUS
  <2> QED BY <2>1 DEF EmptyTree, Shapes
<1>2. /\ sub \in [Places -> SUBSET Keys] /\ sub[Nil] = {}
      /\ black \in [Places -> Nat] /\ black[Nil] = 0
  OBVIOUS
<1> HIDE DEF sub, black, t
<1>3. Grown(t, sub)
  BY <1>1, <1>2 DEF Grown
<1>4. Tree(t, sub)
  BY <1>1, <1>2, <1>3 DEF Tree, Nested, Convex
<1>5. Painted(t, sub, {}, {}, black, Nil, any, Nil)
  BY <1>1, <1>2, <1>4 DEF Painted, Balanced, Calm
<1> QED BY <1>5 DEF Repainted, t

(* axk_rbtree_clear keeps the invariant.                                    *)
LEMMA ClearStep ==
  ASSUME NEW sub, NEW black, TreeOK(sub, black), ClearTree
  PROVE  TreeKept'
<1> USE KeyFacts
<1>1. Becomes(EmptyTree) /\ red' = {}
  BY DEF ClearTree, Becomes, EmptyTree
<1>2. treeCall' = Idle /\ pos' \in Places
  BY PaintedNow DEF ClearTree, TreeIdle, CallOK
<1>3. Hole' = Nil /\ Spot' = Nil
  BY <1>2 DEF Hole, Spot, Idle
<1>4. Repainted(EmptyTree, {}, {}, Hole', treeCall'.key, Spot')
  BY <1>3, EmptyPaints
<1>5. leftmost' = Lowest({}) /\ treeCount' \in Nat /\ treeCount' >= Cardinality({}) /\ origin' # "begin"
  BY FS_EmptySet DEF ClearTree, DropIter, Lowest
<1>6. NextCall({})
  BY <1>2 DEF NextCall
<1> QED BY <1>1, <1>4, <1>5, <1>6, TreeGoesOn

(* axk_rbtree_create establishes it.                                        *)
LEMMA TreeStarts == TreeInit => TreeKept
<1> SUFFICES ASSUME TreeInit PROVE TreeKept
  OBVIOUS
<1> USE KeyFacts
<1>1. /\ Shape = EmptyTree /\ red = {} /\ treeCall = Idle /\ pos = Nil /\ origin = "none"
      /\ leftmost = Nil /\ treeCount = 0
  BY DEF TreeInit, Shape, EmptyTree
<1>2. Nodes = {}
  BY DEF TreeInit, Nodes
<1>3. PICK sub, black : Painted(EmptyTree, sub, {}, {}, black, Nil, Idle.key, Nil)
  BY EmptyPaints DEF Repainted
<1>4. /\ Tree(Shape, sub)
      /\ Balanced(Shape, Nodes, red, black, Nil, treeCall.key) /\ Calm(Shape, Nodes, red, Nil)
  BY <1>1, <1>2, <1>3 DEF Painted
<1>5. CallOK(sub) /\ IterOK(sub)
  BY <1>1 DEF CallOK, IterOK, Calls, Idle
<1>6. Cardinality(Nodes) = 0
  BY <1>2, FS_EmptySet
<1>7. TreeOK(sub, black)
  BY <1>1, <1>2, <1>4, <1>5, <1>6 DEF TreeOK, Idle
<1> QED BY <1>7 DEF TreeKept

-----------------------------------------------------------------------------
(* The iterator. *)

Falling(seq) == seq \in Seq(Keys) /\ \A i, j \in 1 .. Len(seq) : i < j => seq[j] < seq[i]

Holds(seq, a) == \E i \in 1 .. Len(seq) : seq[i] = a

(* A falling sequence without its last member, which is the least.          *)
LEMMA FrontFacts ==
  ASSUME NEW seq, Falling(seq), seq # <<>>
  PROVE  /\ Falling(SubSeq(seq, 1, Len(seq) - 1)) /\ Holds(seq, EndOf(seq)) /\ EndOf(seq) \in Keys
         /\ \A a \in Keys : Holds(SubSeq(seq, 1, Len(seq) - 1), a) <=> Holds(seq, a) /\ a # EndOf(seq)
         /\ \A a \in Keys : Holds(seq, a) => EndOf(seq) <= a
         /\ \A i \in 1 .. Len(SubSeq(seq, 1, Len(seq) - 1)) : SubSeq(seq, 1, Len(seq) - 1)[i] = seq[i]
         /\ Len(SubSeq(seq, 1, Len(seq) - 1)) = Len(seq) - 1
<1> DEFINE l == Len(seq)
           front == SubSeq(seq, 1, l - 1)
           e == EndOf(seq)
<1>1. seq \in Seq(Keys) /\ l \in Nat /\ l > 0 /\ e = seq[l] /\ Keys \subseteq Nat
  BY KeyFacts, LenProperties, EmptySeq DEF Falling, EndOf
<1>3. \A i \in 1 .. l : seq[i] \in Keys /\ seq[i] \in Nat
  BY <1>1, ElementOfSeq
<1>2. front \in Seq(Keys) /\ Len(front) = l - 1 /\ \A i \in 1 .. l - 1 : front[i] = seq[i]
  <2> HIDE DEF l
  <2>1. 1 \in Int /\ l - 1 \in Int /\ \A i \in 1 .. l - 1 : seq[i] \in Keys
    BY <1>1, <1>3
  <2>2. /\ front \in Seq(Keys) /\ Len(front) = IF 1 <= l - 1 THEN (l - 1) - 1 + 1 ELSE 0
        /\ \A i \in 1 .. (l - 1) - 1 + 1 : front[i] = seq[1 + i - 1]
    BY <2>1, SubSeqProperties
  <2> HIDE DEF front
  <2>3. Len(front) = l - 1
    BY <1>1, <2>2
  <2>4. ASSUME NEW i \in 1 .. l - 1 PROVE front[i] = seq[i]
    <3>1. i \in 1 .. (l - 1) - 1 + 1 /\ 1 + i - 1 = i
      BY <1>1
    <3>2. front[i] = seq[1 + i - 1]
      BY <2>2, <3>1
    <3> QED BY <3>1, <3>2
  <2> QED BY <2>2, <2>3, <2>4
<1> HIDE DEF l, front, e
<1>4. \A i, j \in 1 .. l : i < j => seq[j] < seq[i]
  BY DEF Falling, l
<1>5. Falling(front)
  BY <1>1, <1>2, <1>4 DEF Falling
<1>6. Holds(seq, e) /\ e \in Keys /\ e \in Nat
  <2>1. l \in 1 .. l
    BY <1>1
  <2> QED BY <1>1, <1>3, <2>1 DEF Holds, l
<1>7. ASSUME NEW a \in Keys PROVE Holds(front, a) <=> Holds(seq, a) /\ a # e
  <2>1. ASSUME Holds(front, a) PROVE Holds(seq, a) /\ a # e
    <3>1. PICK i \in 1 .. l - 1 : front[i] = a
      BY <1>2, <2>1 DEF Holds
    <3>2. i \in 1 .. l /\ i < l /\ l \in 1 .. l /\ seq[i] = a
      BY <1>1, <1>2, <3>1
    <3>3. seq[l] < seq[i]
      BY <1>4, <3>2
    <3> QED BY <1>1, <1>3, <3>2, <3>3 DEF Holds, l
  <2>2. ASSUME Holds(seq, a), a # e PROVE Holds(front, a)
    <3>1. PICK i \in 1 .. l : seq[i] = a
      BY <2>2 DEF Holds, l
    <3>2. i \in 1 .. l - 1
      BY <1>1, <2>2, <3>1
    <3> QED BY <1>2, <3>1, <3>2 DEF Holds
  <2> QED BY <2>1, <2>2
<1>8. ASSUME NEW a \in Keys, Holds(seq, a) PROVE e <= a
  <2>1. PICK i \in 1 .. l : seq[i] = a
    BY <1>8 DEF Holds, l
  <2>2. i = l \/ i < l
    BY <1>1
  <2>3. l \in 1 .. l
    BY <1>1
  <2> QED BY <1>1, <1>3, <1>4, <2>1, <2>2, <2>3
<1> QED BY <1>2, <1>5, <1>6, <1>7, <1>8 DEF l, front, e

(* Two falling sequences joined, when the second is below the first.        *)
LEMMA JoinedFacts ==
  ASSUME NEW s, NEW q, Falling(s), Falling(q),
         \A a, b \in Keys : Holds(s, a) /\ Holds(q, b) => b < a
  PROVE  /\ Falling(s \o q)
         /\ \A a \in Keys : Holds(s \o q, a) <=> Holds(s, a) \/ Holds(q, a)
<1> DEFINE w == s \o q
           m == Len(s)
           l == Len(q)
<1>1. /\ s \in Seq(Keys) /\ q \in Seq(Keys) /\ m \in Nat /\ l \in Nat
      /\ \A i \in 1 .. m : s[i] \in Keys
      /\ \A i \in 1 .. l : q[i] \in Keys
  BY DEF Falling
<1>2. w \in Seq(Keys) /\ Len(w) = m + l
      /\ \A i \in 1 .. m + l : w[i] = IF i <= m THEN s[i] ELSE q[i - m]
  BY <1>1, ConcatProperties
<1> HIDE DEF w, m, l
<1>9. \A i \in 1 .. m : i \in 1 .. m + l /\ i <= m
  BY <1>1
<1>10. \A i \in 1 .. m : w[i] = s[i]
  BY <1>2, <1>9
<1>11. \A i \in 1 .. l : m + i \in 1 .. m + l /\ ~ (m + i <= m) /\ (m + i) - m = i
  BY <1>1
<1>12. ASSUME NEW i \in 1 .. l PROVE w[m + i] = q[i]
  <2>1. w[m + i] = q[(m + i) - m]
    BY <1>2, <1>11
  <2> QED BY <1>11, <2>1
<1>3. \A i \in 1 .. m + l : i \in 1 .. m \/ (i - m \in 1 .. l /\ w[i] = q[i - m])
  <2> SUFFICES ASSUME NEW i \in 1 .. m + l, i \notin 1 .. m PROVE i - m \in 1 .. l /\ w[i] = q[i - m]
    OBVIOUS
  <2>1. i - m \in 1 .. l /\ ~ (i <= m)
    BY <1>1
  <2> QED BY <1>2, <2>1
<1>4. \A i \in 1 .. m : Holds(s, s[i])
  BY DEF Holds, m
<1>5. \A i \in 1 .. l : Holds(q, q[i])
  BY DEF Holds, l
<1>6. ASSUME NEW i \in 1 .. m + l, NEW j \in 1 .. m + l, i < j PROVE w[j] < w[i]
  <2>1. CASE j \in 1 .. m
    <3>1. i \in 1 .. m
      BY <1>1, <1>6, <2>1
    <3>2. s[j] < s[i]
      BY <1>6, <2>1, <3>1 DEF Falling, m
    <3> QED BY <1>10, <2>1, <3>1, <3>2
  <2>2. CASE i \in 1 .. m /\ j \notin 1 .. m
    <3>1. w[i] = s[i] /\ j - m \in 1 .. l /\ w[j] = q[j - m]
      BY <1>10, <1>3, <2>2
    <3> QED BY <1>1, <1>4, <1>5, <2>2, <3>1
  <2>3. CASE i \notin 1 .. m /\ j \notin 1 .. m
    <3>1. i - m \in 1 .. l /\ w[i] = q[i - m] /\ j - m \in 1 .. l /\ w[j] = q[j - m]
      BY <1>3, <2>3
    <3>2. i - m < j - m
      BY <1>1, <1>6
    <3>3. q[j - m] < q[i - m]
      BY <3>1, <3>2 DEF Falling, l
    <3> QED BY <3>1, <3>3
  <2> QED BY <2>1, <2>2, <2>3
<1>7. Falling(w)
  BY <1>2, <1>6 DEF Falling
<1>8. ASSUME NEW a \in Keys PROVE Holds(w, a) <=> Holds(s, a) \/ Holds(q, a)
  <2>1. ASSUME Holds(w, a) PROVE Holds(s, a) \/ Holds(q, a)
    <3>1. PICK i \in 1 .. m + l : w[i] = a
      BY <1>2, <2>1 DEF Holds
    <3>2. CASE i \in 1 .. m
      BY <1>10, <1>4, <3>1, <3>2
    <3>3. CASE i \notin 1 .. m
      BY <1>3, <1>5, <3>1, <3>3
    <3> QED BY <3>2, <3>3
  <2>2. ASSUME Holds(s, a) PROVE Holds(w, a)
    <3>1. PICK i \in 1 .. m : s[i] = a
      BY <2>2 DEF Holds, m
    <3>2. i \in 1 .. Len(w) /\ w[i] = a
      BY <1>2, <1>9, <1>10, <3>1
    <3> QED BY <3>2 DEF Holds
  <2>3. ASSUME Holds(q, a) PROVE Holds(w, a)
    <3>1. PICK i \in 1 .. l : q[i] = a
      BY <2>3 DEF Holds, l
    <3>2. m + i \in 1 .. Len(w) /\ w[m + i] = a
      BY <1>2, <1>11, <1>12, <3>1
    <3> QED BY <3>2 DEF Holds
  <2> QED BY <2>1, <2>2, <2>3
<1> QED BY <1>7, <1>8 DEF w

(* Pending in these words.                                                  *)
LEMMA PendingFacts ==
  ASSUME NEW sub, Tree(Shape, sub), NEW it
  PROVE  Pending(Shape, sub, it) <=>
           /\ Falling(it.stack)
           /\ \A a \in Keys : Holds(it.stack, a) <=> a \in Nodes /\ it.node < a /\ it.node \in sub[a]
<1>1. Nodes = sub[Shape.root]
  BY ShapeFacts
<1> QED BY <1>1 DEF Pending, Falling, Holds

(* The way down on the left from n joins what is above n.                    *)
LEMMA FirstPends ==
  ASSUME NEW sub, Tree(Shape, sub), NEW n \in Nodes, NEW stack, Falling(stack),
         \A a \in Keys : Holds(stack, a) <=> a \in Nodes /\ a \notin sub[n] /\ n \in sub[a] /\ n < a
  PROVE  /\ Pending(Shape, sub, First(LeftPath(n), stack))
         /\ First(LeftPath(n), stack).node \in sub[n]
         /\ \A x \in sub[n] : First(LeftPath(n), stack).node <= x
<1> USE KeyFacts
<1> DEFINE path == LeftPath(n)
           e == EndOf(path)
           front == SubSeq(path, 1, Len(path) - 1)
           joined == stack \o front
           it == First(path, stack)
<1>1. /\ LeftWay(sub, n, path) /\ e \in sub[n] /\ \A x \in sub[n] : e <= x
  BY LeftPathFacts
<1>2. /\ n \in sub[n] /\ n \in Keys /\ sub[n] \subseteq Nodes /\ Nodes \subseteq Keys
      /\ Nested(Shape, sub) /\ Convex(Shape, sub) /\ Nodes = sub[Shape.root]
  BY ShapeFacts, TreeFacts DEF Tree
<1>3. it.node = e /\ it.stack = joined
  BY DEF First
<1> HIDE DEF path
<1>4. /\ Falling(path) /\ path # <<>>
      /\ \A a \in sub[n] : Holds(path, a) <=> e \in sub[a]
      /\ \A a : Holds(path, a) => a \in sub[n]
  BY <1>1, EmptySeq DEF LeftWay, Falling, Holds
<1>5. /\ Falling(front)
      /\ \A a \in Keys : Holds(front, a) <=> Holds(path, a) /\ a # e
  BY <1>4, FrontFacts
<1> HIDE DEF front, e, it
<1>6. ASSUME NEW a \in Keys, NEW b \in Keys, Holds(stack, a), Holds(front, b) PROVE b < a
  <2>1. a \in Nodes /\ a \notin sub[n] /\ n < a /\ b \in sub[n]
    BY <1>4, <1>5, <1>6
  <2>2. ~ (a < b)
    BY <1>2, <2>1 DEF Convex
  <2>3. a # b
    BY <2>1
  <2> QED BY <2>2, <2>3
<1>7. /\ Falling(joined)
      /\ \A a \in Keys : Holds(joined, a) <=> Holds(stack, a) \/ Holds(front, a)
  BY <1>5, <1>6, JoinedFacts
<1> HIDE DEF joined
<1>8. e \in Nodes /\ e \in Nat /\ n \in Nat
  BY <1>1, <1>2
<1>9. ASSUME NEW a \in Keys, Holds(joined, a) PROVE a \in Nodes /\ e < a /\ e \in sub[a]
  <2>1. CASE Holds(stack, a)
    <3>1. a \in Nodes /\ n \in sub[a] /\ n < a
      BY <2>1
    <3>2. e \in sub[a]
      BY <1>1, <1>2, <3>1 DEF Nested
    <3>3. e <= n
      BY <1>1, <1>2
    <3> QED BY <1>8, <3>1, <3>2, <3>3
  <2>2. CASE Holds(front, a)
    <3>1. a \in sub[n] /\ a # e /\ e \in sub[a] /\ e <= a
      BY <1>1, <1>4, <1>5, <2>2
    <3> QED BY <1>2, <1>8, <3>1
  <2> QED BY <1>7, <1>9, <2>1, <2>2
<1>10. ASSUME NEW a \in Nodes, e < a, e \in sub[a] PROVE Holds(joined, a)
  <2>0. a \in Keys
    BY <1>2
  <2>1. CASE a \in sub[n]
    <3>1. a # e /\ Holds(path, a)
      BY <1>4, <1>8, <1>10, <2>1
    <3> QED BY <1>5, <1>7, <2>0, <3>1
  <2>2. CASE a \notin sub[n]
    <3>1. n \in sub[a]
      BY <1>1, <1>2, <1>10, <2>2 DEF Nested
    <3>2. ~ (a < n)
      BY <1>1, <1>2, <1>8, <1>10, <2>2 DEF Convex
    <3>3. n < a
      <4>1. n # a
        BY <1>2, <2>2
      <4>2. a \in Nat
        BY <2>0
      <4> QED BY <1>8, <3>2, <4>1, <4>2
    <3> QED BY <1>7, <2>0, <2>2, <3>1, <3>3
  <2> QED BY <2>1, <2>2
<1>11. \A a \in Keys : Holds(joined, a) <=> a \in Nodes /\ e < a /\ e \in sub[a]
  BY <1>9, <1>10
<1>12. Pending(Shape, sub, it)
  BY <1>3, <1>7, <1>11, PendingFacts
<1> QED BY <1>1, <1>3, <1>12 DEF it, path

(* Of two nodes, one from which both hang is between them. *)
LEMMA Between ==
  ASSUME NEW sub, Tree(Shape, sub), NEW e \in Nodes, NEW k \in Nodes, e < k
  PROVE  \E a \in Nodes : e \in sub[a] /\ k \in sub[a] /\ e <= a /\ a <= k
<1> USE KeyFacts
<1> DEFINE Joint(a) == e \in sub[a] /\ k \in sub[a]
<1>1. /\ Nodes = sub[Shape.root] /\ Shape.root = root /\ Shape.kid = kid /\ Nodes \subseteq Keys
      /\ e \in Nat /\ k \in Nat
  <2>1. Nodes = sub[Shape.root] /\ Shape.root = root /\ Shape.kid = kid
    BY ShapeFacts
  <2>2. Nodes \subseteq Keys
    BY DEF Nodes
  <2> QED BY <2>1, <2>2
<1>2. \A a \in Nodes : Cardinality(sub[a]) \in Nat
  BY <1>1, SizeFacts
<1>3. root \in Nodes /\ Joint(root)
  <2>1. root # Nil
    BY <1>1 DEF Tree, Grown
  <2> QED BY <1>1, <2>1, TreeFacts
<1> DEFINE S == {Cardinality(sub[a]) : a \in {b \in Nodes : Joint(b)}}
<1>4. \E s \in S : \A x \in S : s <= x
  <2>1. S \subseteq Nat /\ S # {}
    BY <1>2, <1>3
  <2> HIDE DEF S
  <2> QED BY <2>1, NatLeast
<1>5. PICK a \in Nodes : Joint(a) /\ \A b \in Nodes : Joint(b) => Cardinality(sub[a]) <= Cardinality(sub[b])
  BY <1>4
<1> HIDE DEF S
<1>6. a \in Keys /\ a \in Nat /\ NodeOK(Shape, sub, a)
  BY <1>1 DEF Tree
<1>7. ASSUME NEW d \in Sides, e \in sub[kid[a][d]], k \in sub[kid[a][d]] PROVE FALSE
  <2> DEFINE c == kid[a][d]
  <2>1. c # Nil
    BY <1>7 DEF Tree, Grown
  <2>2. c \in Nodes /\ sub[c] \subseteq sub[a] /\ a \notin sub[c]
    BY <1>1, <2>1, TreeFacts
  <2>3. Cardinality(sub[c]) < Cardinality(sub[a])
    BY <1>1, <2>2, SizeFacts
  <2>4. Joint(c)
    BY <1>7
  <2> HIDE DEF c, Joint
  <2> QED BY <1>2, <1>5, <2>2, <2>3, <2>4
<1>8. \A x \in sub[a] : x # a => x \in Keys /\ \E d \in Sides : x \in sub[kid[a][d]] /\ SideFor(x, a) = d
  BY <1>1, <1>6, TreeFacts DEF NodeOK
<1>9. ASSUME a < e PROVE FALSE
  <2>1. e # a /\ k # a /\ ~ (e < a) /\ ~ (k < a)
    BY <1>1, <1>6, <1>9
  <2>2. SideFor(e, a) = "right" /\ SideFor(k, a) = "right"
    BY <2>1 DEF SideFor
  <2> QED BY <1>5, <1>7, <1>8, <2>1, <2>2
<1>10. ASSUME k < a PROVE FALSE
  <2>1. e # a /\ k # a /\ e < a
    BY <1>1, <1>6, <1>10
  <2>2. SideFor(e, a) = "left" /\ SideFor(k, a) = "left"
    BY <1>10, <2>1 DEF SideFor
  <2> QED BY <1>5, <1>7, <1>8, <2>1, <2>2
<1>11. e <= a /\ a <= k
  BY <1>1, <1>6, <1>9, <1>10
<1> QED BY <1>5, <1>11

(* The nodes that follow a node: those on its right, and those above.        *)
LEMMA OnTheRight ==
  ASSUME NEW sub, Tree(Shape, sub), NEW e \in Nodes
  PROVE  /\ \A x \in sub[kid[e]["right"]] : x \in sub[e] /\ e < x
         /\ \A x \in sub[e] : e < x => x \in sub[kid[e]["right"]]
<1> USE KeyFacts
<1>1. /\ Nodes = sub[Shape.root] /\ Shape.kid = kid /\ e \in Keys /\ e \in Nat /\ NodeOK(Shape, sub, e)
      /\ \A n \in Places : sub[n] \subseteq Keys
      /\ kid[e]["right"] \in Places
  <2>1. Nodes = sub[Shape.root] /\ Shape.kid = kid
    BY ShapeFacts
  <2>2. e \in Keys /\ e \in Nat
    BY DEF Nodes
  <2>3. /\ \A n \in Places : sub[n] \subseteq Keys
        /\ Shape.kid[e]["right"] \in Places
    BY <2>2, TreeFacts
  <2> QED BY <2>1, <2>2, <2>3 DEF Tree
<1>2. ASSUME NEW x \in sub[kid[e]["right"]] PROVE x \in sub[e] /\ e < x
  <2>1. x \in Keys /\ x \in Nat
    BY <1>1, <1>2
  <2>2. x \in sub[e] /\ x # e /\ SideFor(x, e) = "right"
    BY <1>1, <1>2, <2>1 DEF NodeOK
  <2>3. ~ (x < e)
    BY <2>2 DEF SideFor
  <2> QED BY <1>1, <2>1, <2>2, <2>3
<1>3. ASSUME NEW x \in sub[e], e < x PROVE x \in sub[kid[e]["right"]]
  <2>1. x \in Keys /\ x \in Nat
    BY <1>1, <1>3
  <2>2. x # e /\ ~ (x < e)
    BY <1>1, <1>3, <2>1
  <2>3. PICK d \in Sides : x \in sub[kid[e][d]]
    BY <1>1, <2>1, <2>2 DEF NodeOK
  <2>4. d = "right"
    BY <1>1, <2>2, <2>3 DEF NodeOK, SideFor
  <2> QED BY <2>3, <2>4
<1> QED BY <1>2, <1>3

(* axk_rbtree_next goes to the next node, and keeps on the stack what comes later. *)
LEMMA AfterPends ==
  ASSUME NEW sub, Tree(Shape, sub), NEW it, it.node \in Nodes, Pending(Shape, sub, it),
         NEW rest, rest = {k \in Nodes : k > it.node}
  PROVE  /\ After(it).node = Lowest(rest)
         /\ After(it).node # Nil => After(it).node \in Nodes /\ Pending(Shape, sub, After(it))
<1> USE KeyFacts
<1> DEFINE e == it.node
           stack == it.stack
           n == kid[e]["right"]
<1>1. /\ Nodes = sub[Shape.root] /\ Shape.kid = kid /\ Nodes \subseteq Keys /\ e \in Keys /\ e \in Nodes
      /\ Nested(Shape, sub) /\ Convex(Shape, sub) /\ "right" \in Sides
  <2>1. Nodes = sub[Shape.root] /\ Shape.kid = kid
    BY ShapeFacts
  <2>2. Nodes \subseteq Keys
    BY DEF Nodes
  <2> QED BY <2>1, <2>2 DEF Tree
<1>2. /\ Falling(stack)
      /\ \A a \in Keys : Holds(stack, a) <=> a \in Nodes /\ e < a /\ e \in sub[a]
  BY PendingFacts
<1>3. /\ \A x \in sub[n] : x \in sub[e] /\ e < x
      /\ \A x \in sub[e] : e < x => x \in sub[n]
  BY OnTheRight
<1>4. /\ \A a \in Nodes : a \in sub[a] /\ sub[a] \subseteq Nodes /\ a \in Nat
      /\ rest \subseteq Keys /\ \A k : k \in rest <=> k \in Nodes /\ k > e
  BY <1>1, TreeFacts
<1>5. \A a \in Nodes : a \in sub[e] /\ e \in sub[a] => a = e
  BY <1>1, Apart
<1>6. \A k \in Nodes : e < k => \E a \in Nodes : e \in sub[a] /\ k \in sub[a] /\ e <= a /\ a <= k
  BY Between
<1> HIDE DEF e, stack, n
<1>7. CASE n # Nil
  <2>1. n \in Nodes /\ e \notin sub[n] /\ n \in sub[e] /\ e < n
    <3>1. n \in Nodes /\ e \notin sub[n] /\ n \in sub[n]
      BY <1>1, <1>7, TreeFacts DEF n, e
    <3> QED BY <1>3, <3>1
  <2>2. \A a \in Nodes : n \in sub[a] <=> a = n \/ e \in sub[a]
    BY <1>1, <1>7, AboveKid DEF n, e
  <2>3. ASSUME NEW a \in Nodes, e < a, e \in sub[a] PROVE a \notin sub[n] /\ n \in sub[a] /\ n < a
    <3>1. a \notin sub[n]
      BY <1>1, <2>1, <2>3 DEF Nested
    <3>2. a \notin sub[e]
      BY <1>3, <2>3, <3>1
    <3>3. n \in sub[a] /\ a # n
      BY <1>4, <2>1, <2>2, <2>3, <3>1
    <3>4. ~ (a < n)
      BY <1>1, <1>4, <2>1, <2>3, <3>2 DEF Convex
    <3> QED BY <1>4, <2>1, <3>1, <3>3, <3>4
  <2>4. ASSUME NEW a \in Nodes, a \notin sub[n], n \in sub[a], n < a PROVE e < a /\ e \in sub[a]
    <3>1. a # n
      BY <1>4, <2>4
    <3>2. e < a
      <4>1. e \in Nat /\ n \in Nat /\ a \in Nat
        BY <1>1, <1>4, <2>1
      <4> QED BY <2>1, <2>4, <4>1
    <3> QED BY <2>2, <2>4, <3>1, <3>2
  <2>5. \A a \in Keys : Holds(stack, a) <=> a \in Nodes /\ a \notin sub[n] /\ n \in sub[a] /\ n < a
    BY <1>2, <2>3, <2>4
  <2> DEFINE next == First(LeftPath(n), stack)
  <2>6. /\ Pending(Shape, sub, next) /\ next.node \in sub[n] /\ \A x \in sub[n] : next.node <= x
    BY <1>2, <2>1, <2>5, FirstPends
  <2>7. After(it) = next
    BY <1>7 DEF After, n, e, stack
  <2> HIDE DEF next
  <2>8. next.node \in rest
    BY <1>3, <1>4, <2>1, <2>6
  <2>9. ASSUME NEW k \in rest PROVE next.node <= k
    <3>1. k \in Nodes /\ e < k /\ next.node \in Nodes /\ next.node \in sub[e]
      BY <1>1, <1>3, <1>4, <2>6, <2>8
    <3>2. ASSUME k < next.node PROVE FALSE
      <4>1. k \in sub[e]
        <5>1. e \in sub[e]
          BY <1>1, <1>4
        <5> QED BY <1>1, <3>1, <3>2, <5>1 DEF Convex
      <4>2. k \in sub[n]
        BY <1>3, <3>1, <4>1
      <4> QED BY <1>4, <2>6, <3>1, <3>2, <4>2
    <3> QED BY <1>4, <3>1, <3>2
  <2>10. next.node = Lowest(rest)
    BY <1>4, <2>8, <2>9, MinFacts DEF Lowest
  <2> QED BY <1>4, <2>6, <2>7, <2>8, <2>10
<1>8. CASE n = Nil
  <2>1. \A x \in sub[e] : ~ (e < x)
    BY <1>3, <1>8 DEF Tree, Grown
  <2>2. ASSUME NEW k \in rest PROVE \E a \in Keys : Holds(stack, a) /\ a <= k
    <3>1. PICK a \in Nodes : e \in sub[a] /\ k \in sub[a] /\ e <= a /\ a <= k
      BY <1>1, <1>4, <1>6, <2>2
    <3>2. a # e
      BY <1>1, <1>4, <2>1, <2>2, <3>1
    <3>3. e < a
      <4>1. e \in Nat /\ a \in Nat
        BY <1>1, <1>4
      <4> QED BY <3>1, <3>2, <4>1
    <3> QED BY <1>1, <1>2, <3>1, <3>3
  <2>3. CASE stack = <<>>
    <3>1. After(it) = NoIter
      BY <1>8, <2>3 DEF After, n, e, stack
    <3>2. \A a : ~ Holds(stack, a)
      BY <2>3 DEF Holds
    <3>3. rest = {}
      BY <2>2, <3>2
    <3> QED BY <3>1, <3>3 DEF NoIter, Lowest
  <2>4. CASE stack # <<>>
    <3> DEFINE m == EndOf(stack)
               front == SubSeq(stack, 1, Len(stack) - 1)
               next == [node |-> m, stack |-> front]
    <3>1. After(it) = next
      BY <1>8, <2>4 DEF After, n, e, stack
    <3>2. /\ Falling(front) /\ Holds(stack, m) /\ m \in Keys
          /\ \A a \in Keys : Holds(front, a) <=> Holds(stack, a) /\ a # m
          /\ \A a \in Keys : Holds(stack, a) => m <= a
      BY <1>2, <2>4, FrontFacts
    <3>3. next.node = m /\ next.stack = front
      OBVIOUS
    <3> HIDE DEF m, front, next
    <3>4. m \in Nodes /\ e < m /\ e \in sub[m] /\ m \in rest
      BY <1>1, <1>2, <1>4, <3>2
    <3>5. m = Lowest(rest)
      <4>1. \A k \in rest : m <= k
        <5> SUFFICES ASSUME NEW k \in rest PROVE m <= k
          OBVIOUS
        <5>1. PICK a \in Keys : Holds(stack, a) /\ a <= k
          BY <2>2
        <5>2. m <= a /\ m \in Nat /\ a \in Nat /\ k \in Nat
          BY <1>4, <3>2, <5>1
        <5> QED BY <5>1, <5>2
      <4> QED BY <1>4, <3>4, <4>1, MinFacts DEF Lowest
    <3>6. ASSUME NEW a \in Keys, Holds(front, a) PROVE a \in Nodes /\ m < a /\ m \in sub[a]
      <4>1. a \in Nodes /\ e < a /\ e \in sub[a] /\ m <= a /\ a # m
        BY <1>2, <3>2, <3>6
      <4>2. m < a
        <5>1. m \in Nat /\ a \in Nat
          BY <1>4, <3>4, <4>1
        <5> QED BY <4>1, <5>1
      <4>3. a \notin sub[m]
        <5>1. ASSUME a \in sub[m] PROVE FALSE
          <6>1. a \in sub[kid[m]["right"]]
            BY <3>4, <4>2, <5>1, OnTheRight
          <6>2. kid[m]["right"] # Nil
            BY <6>1 DEF Tree, Grown
          <6>3. kid[m]["right"] \in Nodes
            BY <1>1, <3>4, <6>2, TreeFacts
          <6>4. e \in sub[kid[m]["right"]]
            BY <1>1, <4>1, <6>1, <6>3 DEF Nested
          <6>5. m < e
            BY <3>4, <6>4, OnTheRight
          <6>6. e \in Nat /\ m \in Nat
            BY <1>1, <1>4, <3>4
          <6> QED BY <3>4, <6>5, <6>6
        <5> QED BY <5>1
      <4>4. m \in sub[a]
        BY <1>1, <3>4, <4>1, <4>3 DEF Nested
      <4> QED BY <4>1, <4>2, <4>4
    <3>7. ASSUME NEW a \in Nodes, m < a, m \in sub[a] PROVE Holds(front, a)
      <4>1. e \in sub[a]
        BY <1>1, <3>4, <3>7 DEF Nested
      <4>2. e < a /\ a # m
        BY <1>1, <1>4, <3>2, <3>4, <3>7
      <4> QED BY <1>1, <1>2, <3>2, <4>1, <4>2
    <3>8. \A a \in Keys : Holds(next.stack, a) <=> a \in Nodes /\ next.node < a /\ next.node \in sub[a]
      BY <3>3, <3>6, <3>7
    <3>9. Pending(Shape, sub, next)
      BY <3>2, <3>3, <3>8, PendingFacts
    <3> QED BY <3>1, <3>3, <3>4, <3>5, <3>9
  <2> QED BY <2>3, <2>4
<1> QED BY <1>7, <1>8

(* axk_rbtree_begin goes to the first node. *)
LEMMA FirstOfAll ==
  ASSUME NEW sub, Tree(Shape, sub), root # Nil
  PROVE  /\ First(LeftPath(root), <<>>).node = Lowest(Nodes) /\ First(LeftPath(root), <<>>).node \in Nodes
         /\ Pending(Shape, sub, First(LeftPath(root), <<>>))
<1> DEFINE it == First(LeftPath(root), <<>>)
<1>1. Nodes = sub[root] /\ root \in Nodes /\ Nodes \subseteq Keys
  <2>1. Nodes = sub[root] /\ Shape.root = root /\ Nodes \subseteq Keys
    BY ShapeFacts DEF Nodes
  <2> QED BY <2>1, TreeFacts
<1>2. /\ Falling(<<>>)
      /\ \A a \in Keys : Holds(<<>>, a) <=> a \in Nodes /\ a \notin sub[root] /\ root \in sub[a] /\ root < a
  BY <1>1, EmptySeq DEF Falling, Holds
<1>3. Pending(Shape, sub, it) /\ it.node \in Nodes /\ \A x \in Nodes : it.node <= x
  BY <1>1, <1>2, FirstPends
<1> HIDE DEF it
<1>4. it.node = Lowest(Nodes)
  BY <1>1, <1>3, MinFacts DEF Lowest
<1> QED BY <1>3, <1>4 DEF it

(* axk_rbtree_begin and axk_rbtree_next keep the invariant.                 *)
LEMMA IterStep ==
  ASSUME NEW sub, NEW black, TreeOK(sub, black), IterBegin \/ IterNext
  PROVE  TreeKept'
<1> USE KeyFacts
<1>1. /\ treeCall.fn = "none" /\ treeCall' = treeCall /\ pos' = pos /\ UNCHANGED treeFields
  BY DEF IterBegin, IterNext, Usable, TreeIdle
<1>2. Nodes' = Nodes /\ Shape' = Shape /\ root' = root
  BY <1>1 DEF Nodes, Shape, treeFields
<1>3. Tree(Shape, sub) /\ CallOK(sub) /\ IterOK(sub)
  BY PaintedNow
<1>4. CallOK(sub)'
  BY <1>1, <1>3 DEF CallOK
<1>5. IterOK(sub)'
  <2>1. CASE IterBegin
    <3>1. iter' = First(LeftPath(root), <<>>) /\ root # Nil
      BY <2>1 DEF IterBegin
    <3>2. iter'.node \in Nodes /\ Pending(Shape, sub, iter')
      BY <1>3, <3>1, FirstOfAll
    <3> QED BY <1>1, <1>2, <3>2 DEF IterOK
  <2>2. CASE IterNext
    <3>1. iter' = After(iter) /\ iter.node \in Nodes /\ origin' = origin
      BY <2>2 DEF IterNext, Usable
    <3>2. CASE origin = "begin"
      <4>1. Pending(Shape, sub, iter)
        BY <1>3, <3>1, <3>2 DEF IterOK, Nodes
      <4>2. After(iter).node # Nil => After(iter).node \in Nodes /\ Pending(Shape, sub, After(iter))
        BY <1>3, <3>1, <4>1, AfterPends
      <4> QED BY <1>1, <1>2, <3>1, <4>2 DEF IterOK
    <3>3. CASE origin # "begin"
      BY <3>1, <3>3 DEF IterOK
    <3> QED BY <3>2, <3>3
  <2> QED BY <2>1, <2>2
<1> QED BY <1>1, <1>4, <1>5, TreeRests

(* A step that leaves all variables alone.                                  *)
LEMMA StillStep ==
  ASSUME NEW sub, NEW black, TreeOK(sub, black), UNCHANGED treeVars
  PROVE  TreeKept'
<1>1. /\ Nodes' = Nodes /\ Shape' = Shape /\ treeCall' = treeCall /\ pos' = pos /\ red' = red
      /\ leftmost' = leftmost /\ treeCount' = treeCount /\ iter' = iter /\ origin' = origin
      /\ root' = root
  BY DEF treeVars, treeFields, Nodes, Shape
<1>2. CallOK(sub)' /\ IterOK(sub)'
  <2>1. CallOK(sub) /\ IterOK(sub)
    BY DEF TreeOK
  <2>2. Belongs(sub)' <=> Belongs(sub)
    BY <1>1 DEF Belongs
  <2> QED BY <1>1, <2>1, <2>2 DEF CallOK, IterOK
<1>3. TreeOK(sub, black)'
  BY <1>1, <1>2 DEF TreeOK
<1> QED BY <1>3 DEF TreeKept

(* Every step keeps the invariant.                                          *)
LEMMA TreeStep ==
  ASSUME NEW sub, NEW black, TreeOK(sub, black), [TreeNext]_treeVars
  PROVE  TreeKept'
<1>1. ASSUME NEW fn, NEW key \in Keys, BeginTree(fn, key) PROVE TreeKept'
  BY <1>1, BeginStep
<1>2. ASSUME Descend PROVE TreeKept'
  BY <1>2, DescendStep
<1>3. ASSUME Found \/ NotFound PROVE TreeKept'
  BY <1>3, FoundStep
<1>4. ASSUME Attach PROVE TreeKept'
  BY <1>4, AttachStep
<1>5. ASSUME Mend PROVE TreeKept'
  BY <1>5, MendKeeps
<1>6. ASSUME EraseKey \/ IterErase PROVE TreeKept'
  BY <1>6, EraseStep
<1>7. ASSUME Balance PROVE TreeKept'
  BY <1>7, BalanceKeeps
<1>8. ASSUME EraseKeyBreaks \/ BalanceBreaks \/ IterBreaks \/ CopyBreaks PROVE TreeKept'
  BY <1>8, BreakStep DEF EraseKeyBreaks, BalanceBreaks, IterBreaks, CopyBreaks
<1>9. ASSUME IterBegin \/ IterNext PROVE TreeKept'
  BY <1>9, IterStep
<1>10. ASSUME ClearTree PROVE TreeKept'
  BY <1>10, ClearStep
<1>11. ASSUME UNCHANGED treeVars PROVE TreeKept'
  BY <1>11, StillStep
<1> QED BY <1>1, <1>2, <1>3, <1>4, <1>5, <1>6, <1>7, <1>8, <1>9, <1>10, <1>11 DEF TreeNext

(* What holds of the tree in every state: its order, its balance, and how far  *)
(* each function and the iterator have got (rbtree.c).                        *)
THEOREM TreeInvariant == TreeSpec => []TreeKept
<1>1. TreeInit => TreeKept
  BY TreeStarts
<1>2. TreeKept /\ [TreeNext]_treeVars => TreeKept'
  BY TreeStep DEF TreeKept
<1> QED BY <1>1, <1>2, PTL DEF TreeSpec

(* The invariant implies the order of the iterator.                         *)
LEMMA KeptIter ==
  ASSUME NEW sub, NEW black, TreeOK(sub, black)
  PROVE  IteratorInOrder
<1> SUFFICES ASSUME TreeIdle PROVE
      /\ root # Nil => First(LeftPath(root), <<>>).node = leftmost
      /\ origin = "begin" /\ iter.node # Nil =>
           LET rest == {k \in Nodes : k > iter.node}
           IN  IF rest = {} THEN After(iter).node \in {Nil, iter.node}
               ELSE After(iter).node = Min(rest)
  BY DEF IteratorInOrder
<1>1. Tree(Shape, sub) /\ leftmost = Lowest(Nodes) /\ IterOK(sub)
  BY PaintedNow
<1>2. root # Nil => First(LeftPath(root), <<>>).node = leftmost
  BY <1>1, FirstOfAll
<1>3. ASSUME origin = "begin", iter.node # Nil, NEW rest, rest = {k \in Nodes : k > iter.node}
      PROVE  IF rest = {} THEN After(iter).node \in {Nil, iter.node}
             ELSE After(iter).node = Min(rest)
  <2>1. iter.node \in Nodes /\ Pending(Shape, sub, iter)
    BY <1>1, <1>3 DEF IterOK
  <2> QED BY <1>1, <1>3, <2>1, AfterPends DEF Lowest
<1> QED BY <1>2, <1>3

(* An iterator that axk_rbtree_begin set up goes through the nodes in the order of  *)
(* the keys, from the first to the last, over every sequence of inserts and erases *)
(* that leaves it in use.  Iterators set up by a search or moved by an erase are    *)
(* not meant, nor is whether its node is cleared after the last one.               *)
THEOREM IteratorStaysInOrder == TreeSpec => []IteratorInOrder
<1>1. TreeKept => IteratorInOrder
  BY KeptIter DEF TreeKept
<1> QED BY <1>1, TreeInvariant, PTL

-----------------------------------------------------------------------------
(* The ways down from the root. *)

Onto(key, n) == IF n \in {key, Nil} THEN n ELSE kid[n][SideFor(key, n)]

Steps == Cardinality(Keys)

(* The ways are well defined, and stay among the nodes.                     *)
LEMMA WayFacts ==
  ASSUME NEW sub, Tree(Shape, sub), NEW key \in Keys
  PROVE  \E way : /\ Way(key) = {way[i] : i \in 0 .. Steps} \ {Nil}
                  /\ way[0] = root /\ \A i \in 1 .. Steps : way[i] = Onto(key, way[i - 1])
                  /\ \A i \in 0 .. Steps : way[i] \in Nodes \union {Nil}
<1> USE KeyFacts
<1> DEFINE U == Nodes \union {Nil}
           V == [i \in 0 .. Steps |-> U]
           F == [i \in 1 .. Steps |-> [p \in U |-> Onto(key, p)]]
           Eq(g) == g = [i \in 0 .. Steps |-> IF i = 0 THEN root ELSE Onto(key, g[i - 1])]
           way == CHOOSE g : Eq(g)
<1>0. Nodes = sub[root] /\ Shape.root = root /\ Shape.kid = kid
  BY ShapeFacts
<1>1. Steps \in Nat /\ root \in U
  <2>1. Steps \in Nat
    BY FS_CardinalityType DEF Steps
  <2> QED BY <1>0, <2>1, TreeFacts
<1>2. ASSUME NEW p \in U PROVE Onto(key, p) \in U
  <2>1. CASE p \in {key, Nil}
    BY <2>1 DEF Onto
  <2>2. CASE p \notin {key, Nil}
    <3>1. p \in Nodes /\ SideFor(key, p) \in Sides
      BY <2>2 DEF SideFor
    <3>2. kid[p][SideFor(key, p)] # Nil => kid[p][SideFor(key, p)] \in Nodes
      BY <1>0, <3>1, TreeFacts
    <3> QED BY <2>2, <3>2 DEF Onto
  <2> QED BY <2>1, <2>2
<1> HIDE DEF U
<1>3. \A i \in 1 .. Steps : V[i - 1] = U /\ V[i] = U /\ V[0] = U
  BY <1>1
<1>4. V[0] = U
  BY <1>1
<1>5. \E g : Eq(g)
  <2>2. \A i \in 1 .. Steps : \A p \in U : F[i][p] = Onto(key, p)
    OBVIOUS
  <2> HIDE DEF F, V
  <2>1. \A i \in 1 .. Steps : \A p \in V[i - 1] : F[i][p] \in V[i]
    <3> SUFFICES ASSUME NEW i \in 1 .. Steps, NEW p \in V[i - 1] PROVE F[i][p] \in V[i]
      OBVIOUS
    <3>1. p \in U /\ V[i] = U
      BY <1>3
    <3>2. F[i][p] = Onto(key, p)
      BY <2>2, <3>1
    <3> QED BY <1>2, <3>1, <3>2
  <2>3. PICK g : Chained(g, Steps, root, V, F)
    <3>1. Chainable(Steps, root, V, F)
      BY <1>1, <1>4, <2>1 DEF Chainable
    <3> QED BY <3>1, Chains
  <2>4. ASSUME NEW i \in 1 .. Steps PROVE F[i][g[i - 1]] = Onto(key, g[i - 1])
    <3>1. g[i - 1] \in V[i - 1]
      BY <1>1, <2>3 DEF Chained
    <3> QED BY <1>3, <2>2, <3>1
  <2>5. \A i \in 0 .. Steps : (IF i = 0 THEN root ELSE F[i][g[i - 1]])
                            = (IF i = 0 THEN root ELSE Onto(key, g[i - 1]))
    BY <1>1, <2>4
  <2>6. Eq(g)
    BY <2>3, <2>5 DEF Chained
  <2> QED BY <2>6
<1>6. Eq(way)
  BY <1>5
<1>7. Way(key) = {way[i] : i \in 0 .. Steps} \ {Nil}
  BY DEF Way, Onto, Steps
<1> HIDE DEF way, V, F
<1>8. way[0] = root /\ \A i \in 1 .. Steps : way[i] = Onto(key, way[i - 1])
  <2>1. \A i \in 0 .. Steps : way[i] = IF i = 0 THEN root ELSE Onto(key, way[i - 1])
    BY <1>6
  <2> QED BY <1>1, <2>1
<1> DEFINE W == [i \in 0 .. Steps |-> U]
<1>9. \A i \in 0 .. Steps : way[i] \in W[i]
  <2>1. way[0] \in W[0]
    BY <1>1, <1>8
  <2>2. \A i \in 1 .. Steps : way[i - 1] \in W[i - 1] => way[i] \in W[i]
    <3> SUFFICES ASSUME NEW i \in 1 .. Steps, way[i - 1] \in W[i - 1] PROVE way[i] \in W[i]
      OBVIOUS
    <3>1. i \in 0 .. Steps /\ i - 1 \in 0 .. Steps
      BY <1>1
    <3> QED BY <1>2, <1>8, <3>1
  <2> HIDE DEF W
  <2> QED BY <1>1, <2>1, <2>2, ChainHolds
<1>10. \A i \in 0 .. Steps : way[i] \in U
  BY <1>9
<1> QED BY <1>7, <1>8, <1>10 DEF U

(* One step on the way to a node. *)
LEMMA WayOn ==
  ASSUME NEW sub, Tree(Shape, sub), NEW n \in Nodes, NEW key \in Nodes, key \in sub[n], key # n,
         NEW c, c = kid[n][SideFor(key, n)]
  PROVE  /\ c \in Nodes /\ key \in sub[c] /\ Cardinality(sub[c]) < Cardinality(sub[n])
         /\ \A a \in Nodes : a \in sub[n] /\ key \in sub[a] /\ a # n => a \in sub[c]
<1> USE KeyFacts
<1>0. /\ Nodes = sub[Shape.root] /\ Shape.root = root /\ Shape.kid = kid
      /\ NodeOK(Shape, sub, n) /\ Nested(Shape, sub)
  BY ShapeFacts DEF Tree
<1>1. ASSUME NEW a \in Nodes, a \in sub[n], key \in sub[a], a # n
      PROVE  a \in sub[c] /\ c # Nil /\ key \in sub[c]
  <2>1. a \in Keys /\ key \in Keys
    BY DEF Nodes
  <2>2. PICK d \in Sides : a \in sub[kid[n][d]]
    BY <1>0, <1>1, <2>1 DEF NodeOK
  <2>3. kid[n][d] # Nil
    BY <2>2 DEF Tree, Grown
  <2>4. kid[n][d] \in Nodes
    BY <1>0, <2>3, TreeFacts
  <2>5. key \in sub[kid[n][d]]
    BY <1>0, <1>1, <2>2, <2>4 DEF Nested
  <2>6. SideFor(key, n) = d
    BY <1>0, <2>1, <2>5 DEF NodeOK
  <2> QED BY <2>2, <2>3, <2>5, <2>6
<1>2. key \in sub[key]
  BY <1>0, TreeFacts
<1>3. key \in sub[c] /\ c # Nil
  BY <1>1, <1>2
<1>4. SideFor(key, n) \in Sides
  BY DEF SideFor
<1>5. c \in Nodes /\ sub[c] \subseteq sub[n] /\ n \notin sub[c]
  BY <1>0, <1>3, <1>4, TreeFacts
<1>6. Cardinality(sub[c]) < Cardinality(sub[n])
  BY <1>0, <1>5, SizeFacts
<1> QED BY <1>1, <1>3, <1>5, <1>6

(* The way to a node goes through the nodes that it hangs from. *)
LEMMA WayOfNode ==
  ASSUME NEW sub, Tree(Shape, sub), NEW key \in Nodes
  PROVE  Way(key) = {a \in Nodes : key \in sub[a]}
<1> USE KeyFacts
<1>0. /\ Nodes = sub[Shape.root] /\ Shape.root = root /\ Shape.kid = kid /\ key \in Keys
      /\ Nodes \subseteq Keys /\ Nested(Shape, sub)
  BY ShapeFacts DEF Tree, Nodes
<1>1. PICK way : /\ Way(key) = {way[i] : i \in 0 .. Steps} \ {Nil}
                 /\ way[0] = root /\ \A i \in 1 .. Steps : way[i] = Onto(key, way[i - 1])
                 /\ \A i \in 0 .. Steps : way[i] \in Nodes \union {Nil}
  BY <1>0, WayFacts
<1>2. /\ Steps \in Nat
      /\ \A k \in Nodes : Cardinality(sub[k]) \in Nat /\ Cardinality(sub[k]) > 0 /\ Cardinality(sub[k]) <= Steps
  BY <1>0, SizeFacts DEF Steps
<1>3. /\ root \in Nodes /\ key \in sub[root] /\ key \in sub[key]
      /\ \A a \in Nodes : a \in sub[a]
  <2>1. root # Nil
    BY <1>0 DEF Tree, Grown
  <2> QED BY <1>0, <2>1, TreeFacts
<1> DEFINE Near(x, i) == x \in Nodes /\ key \in sub[x] /\ (x = key \/ Cardinality(sub[x]) + i <= Steps)
           V == [i \in 0 .. Steps |-> {x \in Nodes : Near(x, i)}]
<1>10. \A i \in 0 .. Steps : \A x : x \in V[i] <=> Near(x, i)
  OBVIOUS
<1> HIDE DEF V
<1>4. \A i \in 0 .. Steps : way[i] \in V[i]
  <2>1. way[0] \in V[0]
    BY <1>1, <1>2, <1>3, <1>10
  <2>2. ASSUME NEW i \in 1 .. Steps, way[i - 1] \in V[i - 1] PROVE way[i] \in V[i]
    <3> DEFINE x == way[i - 1]
               c == kid[x][SideFor(key, x)]
    <3>1. i \in 0 .. Steps /\ i - 1 \in 0 .. Steps /\ i \in Nat
      BY <1>2
    <3>2. x \in Nodes /\ key \in sub[x] /\ (x = key \/ Cardinality(sub[x]) + (i - 1) <= Steps)
      BY <1>10, <2>2, <3>1
    <3>3. way[i] = IF x = key THEN x ELSE c
      <4>1. way[i] = Onto(key, x) /\ x # Nil
        BY <1>0, <1>1, <3>2
      <4> QED BY <4>1 DEF Onto
    <3> HIDE DEF x, c
    <3>4. CASE x = key
      BY <1>10, <3>1, <3>2, <3>3, <3>4
    <3>5. CASE x # key
      <4>1. c \in Nodes /\ key \in sub[c] /\ Cardinality(sub[c]) < Cardinality(sub[x])
        BY <3>2, <3>5, WayOn DEF c
      <4>2. Cardinality(sub[c]) \in Nat /\ Cardinality(sub[x]) \in Nat
        BY <1>2, <3>2, <4>1
      <4>3. Cardinality(sub[c]) + i <= Steps
        BY <1>2, <3>1, <3>2, <3>5, <4>1, <4>2
      <4> QED BY <1>10, <3>1, <3>3, <3>5, <4>1, <4>3
    <3> QED BY <3>4, <3>5
  <2>3. \A i \in 1 .. Steps : way[i - 1] \in V[i - 1] => way[i] \in V[i]
    BY <2>2
  <2> QED BY <1>2, <2>1, <2>3, ChainHolds
<1>5. \A i \in 0 .. Steps : way[i] \in Nodes /\ key \in sub[way[i]]
  BY <1>4, <1>10
<1>6. way[Steps] = key
  <2>1. /\ way[Steps] \in Nodes
        /\ way[Steps] = key \/ Cardinality(sub[way[Steps]]) + Steps <= Steps
    BY <1>2, <1>4, <1>10
  <2> QED BY <1>2, <2>1
<1>7. ASSUME NEW a \in Nodes, key \in sub[a] PROVE \E i \in 0 .. Steps : way[i] = a
  <2> SUFFICES ASSUME \A i \in 0 .. Steps : way[i] # a PROVE FALSE
    OBVIOUS
  <2> DEFINE W == [i \in 0 .. Steps |-> {x \in Nodes : a \in sub[x]}]
  <2>1. \A i \in 0 .. Steps : way[i] \in W[i]
    <3>1. way[0] \in W[0]
      BY <1>0, <1>1, <1>2, <1>3
    <3>2. ASSUME NEW i \in 1 .. Steps, way[i - 1] \in W[i - 1] PROVE way[i] \in W[i]
      <4> DEFINE x == way[i - 1]
                 c == kid[x][SideFor(key, x)]
      <4>1. i \in 0 .. Steps /\ i - 1 \in 0 .. Steps
        BY <1>2
      <4>2. x \in Nodes /\ a \in sub[x] /\ a # x /\ key \in sub[x]
        BY <1>5, <3>2, <4>1
      <4>3. way[i] = IF x = key THEN x ELSE c
        <5>1. way[i] = Onto(key, x) /\ x # Nil
          BY <1>0, <1>1, <4>2
        <5> QED BY <5>1 DEF Onto
      <4> HIDE DEF x, c
      <4>4. CASE x = key
        BY <4>1, <4>2, <4>3, <4>4
      <4>5. CASE x # key
        <5>1. c \in Nodes /\ a \in sub[c]
          BY <1>7, <4>2, <4>5, WayOn DEF c
        <5> QED BY <4>1, <4>3, <4>5, <5>1
      <4> QED BY <4>4, <4>5
    <3> HIDE DEF W
    <3>3. \A i \in 1 .. Steps : way[i - 1] \in W[i - 1] => way[i] \in W[i]
      BY <3>2
    <3> QED BY <1>2, <3>1, <3>3, ChainHolds
  <2>2. Steps \in 0 .. Steps
    BY <1>2
  <2>3. a \in sub[key] /\ a # key
    BY <1>6, <2>1, <2>2
  <2> QED BY <1>0, <1>7, <2>3, Apart
<1>8. \A x : x \in Way(key) <=> x # Nil /\ \E i \in 0 .. Steps : way[i] = x
  BY <1>1
<1>9. Nil \notin Nodes
  BY <1>0
<1> QED BY <1>5, <1>7, <1>8, <1>9

(* The nodes that a node hangs from. *)
Above(sub, n) == {a \in Nodes : n \in sub[a]}

(* The black nodes above a node and those below it are those below the      *)
(* root.                                                                    *)
LEMMA AboveBlack ==
  ASSUME NEW sub, Tree(Shape, sub), red \subseteq Keys, NEW black, NEW any,
         Balanced(Shape, Nodes, red, black, Nil, any)
  PROVE  \A n \in Nodes : Cardinality(Above(sub, n) \ red) + black[n] = black[root] + Weight(red, n)
<1> USE KeyFacts
<1> DEFINE Even(n) == Cardinality(Above(sub, n) \ red) + black[n] = black[root] + Weight(red, n)
           Far == {n \in Nodes : ~ Even(n)}
<1>0. /\ Nodes = sub[Shape.root] /\ Shape.root = root /\ Shape.kid = kid /\ Shape.up = up
      /\ Nodes \subseteq Keys /\ IsFiniteSet(Nodes) /\ Nil \notin Nodes
  <2>1. Nodes \subseteq Keys /\ IsFiniteSet(Nodes) /\ Nil \notin Nodes
    BY FS_Subset DEF Nodes
  <2> QED BY <2>1, ShapeFacts
<1>1. /\ \A n \in Nodes : black[n] \in Nat /\ Weight(red, n) \in Nat
      /\ \A n \in Nodes, d \in Sides : black[n] = black[kid[n][d]] + Weight(red, n)
  <2>1. ASSUME NEW n \in Nodes PROVE black[n] \in Nat /\ Weight(red, n) \in Nat
    BY <1>0 DEF Balanced, Weight
  <2>2. ASSUME NEW n \in Nodes, NEW d \in Sides PROVE black[n] = black[kid[n][d]] + Weight(red, n)
    <3>1. n # Nil
      BY <1>0
    <3>2. black[n] = black[kid[n][d]] + Weight(red, n) + 0
      BY <1>0, <3>1 DEF Balanced
    <3>3. kid[n][d] \in Places
      BY <1>0, TreeFacts
    <3>4. black[kid[n][d]] \in Nat
      BY <3>3 DEF Balanced
    <3> QED BY <2>1, <3>2, <3>4
  <2> QED BY <2>1, <2>2
<1>2. ASSUME NEW n \in Nodes PROVE IsFiniteSet(Above(sub, n) \ red) /\ Cardinality(Above(sub, n) \ red) \in Nat
  <2>1. Above(sub, n) \ red \subseteq Nodes
    BY DEF Above
  <2> QED BY <1>0, <2>1, FS_Subset, FS_CardinalityType
<1>3. ASSUME NEW n \in Nodes, NEW A, IsFiniteSet(A \ red), n \notin A, Above(sub, n) = A \union {n}
      PROVE  Cardinality(Above(sub, n) \ red) = Cardinality(A \ red) + Weight(red, n)
  <2>1. CASE n \in red
    <3>1. Above(sub, n) \ red = A \ red /\ Weight(red, n) = 0
      BY <1>3, <2>1 DEF Weight
    <3>2. Cardinality(A \ red) \in Nat
      BY <1>3, FS_CardinalityType
    <3> QED BY <3>1, <3>2
  <2>2. CASE n \notin red
    <3>1. Above(sub, n) \ red = (A \ red) \union {n} /\ n \notin A \ red /\ Weight(red, n) = 1
      BY <1>3, <2>2 DEF Weight
    <3> QED BY <1>3, <3>1, FS_AddElement
  <2> QED BY <2>1, <2>2
<1>4. ASSUME NEW n \in Nodes, n = root PROVE Even(n)
  <2>1. Above(sub, n) = {} \union {n}
    <3>1. \A a \in Nodes : n \in sub[a] => a = n
      <4>1. \A a \in Nodes : a \in sub[n]
        BY <1>0, <1>4
      <4> QED BY <1>0, <4>1, Apart
    <3>2. n \in sub[n]
      BY <1>0, TreeFacts
    <3> QED BY <3>1, <3>2 DEF Above
  <2>2. {} \ red = {} /\ IsFiniteSet({}) /\ Cardinality({}) = 0
    BY FS_EmptySet
  <2>3. Cardinality(Above(sub, n) \ red) = Cardinality({} \ red) + Weight(red, n)
    BY <1>3, <2>1, <2>2
  <2> QED BY <1>1, <1>4, <2>2, <2>3
<1>5. ASSUME NEW n \in Nodes, n # root PROVE up[n] \in Nodes /\ (Even(up[n]) => Even(n))
                                            /\ Cardinality(sub[n]) < Cardinality(sub[up[n]])
  <2> DEFINE p == up[n]
  <2>1. n \in Keys /\ p # Nil /\ NodeOK(Shape, sub, n)
    BY <1>0, <1>5 DEF Tree, Grown
  <2>2. p \in Nodes
    BY <1>0, <2>1, TreeFacts
  <2>3. PICK d \in Sides : kid[p][d] = n
    BY <1>0, <2>1 DEF NodeOK
  <2> HIDE DEF p
  <2>4. n # Nil /\ sub[n] \subseteq sub[p] /\ p \notin sub[n] /\ n \in sub[n]
    <3>1. n # Nil
      BY <1>0
    <3> QED BY <1>0, <2>2, <2>3, <3>1, TreeFacts
  <2>5. Cardinality(sub[n]) < Cardinality(sub[p])
    BY <1>0, <2>2, <2>4, SizeFacts
  <2>6. \A a \in Nodes : n \in sub[a] <=> a = n \/ p \in sub[a]
    BY <1>0, <2>2, <2>3, <2>4, AboveKid
  <2>7. Above(sub, n) = Above(sub, p) \union {n} /\ n \notin Above(sub, p)
    BY <2>4, <2>6 DEF Above
  <2>8. Cardinality(Above(sub, n) \ red) = Cardinality(Above(sub, p) \ red) + Weight(red, n)
    BY <1>2, <1>3, <2>2, <2>7
  <2>9. black[p] = black[n] + Weight(red, p)
    BY <1>1, <2>2, <2>3
  <2>10. /\ black[p] \in Nat /\ black[n] \in Nat /\ Weight(red, p) \in Nat /\ Weight(red, n) \in Nat
         /\ Cardinality(Above(sub, p) \ red) \in Nat
    BY <1>1, <1>2, <2>2
  <2>11. black[root] \in Nat
    <3>1. root \in Nodes
      <4>1. root # Nil
        BY <1>0 DEF Tree, Grown
      <4> QED BY <1>0, <4>1, TreeFacts
    <3> QED BY <1>1, <3>1
  <2>12. Even(p) => Even(n)
    BY <2>8, <2>9, <2>10, <2>11
  <2> QED BY <2>2, <2>5, <2>12 DEF p
<1>6. Far = {}
  <2> SUFFICES ASSUME Far # {} PROVE FALSE
    OBVIOUS
  <2> DEFINE T == {Steps - Cardinality(sub[n]) : n \in Far}
  <2>1. Steps \in Nat /\ \A n \in Nodes : Cardinality(sub[n]) \in Nat /\ Cardinality(sub[n]) <= Steps
    BY <1>0, SizeFacts DEF Steps
  <2>2. Far \subseteq Nodes /\ \A n \in Nodes : n \notin Far => Even(n)
    OBVIOUS
  <2> HIDE DEF Even
  <2>3. T \subseteq Nat /\ T # {}
    <3> HIDE DEF Far
    <3> QED BY <2>1, <2>2
  <2>4. \E s \in T : \A x \in T : s <= x
    <3> HIDE DEF T
    <3> QED BY <2>3, NatLeast
  <2>5. PICK n \in Far : \A m \in Far : Steps - Cardinality(sub[n]) <= Steps - Cardinality(sub[m])
    BY <2>4
  <2>6. n \in Nodes /\ ~ Even(n)
    BY <2>5
  <2>7. n # root
    BY <1>4, <2>6
  <2>8. up[n] \in Nodes /\ (Even(up[n]) => Even(n)) /\ Cardinality(sub[n]) < Cardinality(sub[up[n]])
    BY <1>5, <2>6, <2>7
  <2>9. up[n] \in Far
    BY <2>6, <2>8
  <2>10. Steps - Cardinality(sub[n]) <= Steps - Cardinality(sub[up[n]])
    BY <2>5, <2>9
  <2> QED BY <2>1, <2>6, <2>8, <2>10
<1> QED BY <1>6

(* The invariant implies that the tree is sound.                            *)
LEMMA KeptSound ==
  ASSUME NEW sub, NEW black, TreeOK(sub, black)
  PROVE  TreeSound
<1> USE KeyFacts
<1>0. /\ Tree(Shape, sub) /\ Nodes = sub[Shape.root] /\ Shape.root = root /\ Shape.kid = kid /\ Shape.up = up
      /\ red \subseteq Keys /\ Nodes \subseteq Keys /\ leftmost = Lowest(Nodes)
      /\ treeCount >= Cardinality(Nodes)
  BY PaintedNow, ShapeFacts
<1>1. ASSUME NEW key \in Keys PROVE key \in Way(key) <=> key \in Nodes
  <2>1. CASE key \in Nodes
    <3>1. Way(key) = {a \in Nodes : key \in sub[a]}
      BY <1>0, <2>1, WayOfNode
    <3>2. key \in sub[key]
      BY <1>0, <2>1, TreeFacts
    <3> QED BY <2>1, <3>1, <3>2
  <2>2. CASE key \notin Nodes
    <3>1. PICK way : /\ Way(key) = {way[i] : i \in 0 .. Steps} \ {Nil}
                     /\ \A i \in 0 .. Steps : way[i] \in Nodes \union {Nil}
      BY <1>0, WayFacts
    <3> QED BY <2>2, <3>1
  <2> QED BY <2>1, <2>2
<1>2. ASSUME NEW n \in Nodes, NEW side \in Sides, kid[n][side] # Nil PROVE up[kid[n][side]] = n
  BY <1>0, <1>2 DEF Tree, NodeOK
<1>3. leftmost = (IF Nodes = {} THEN Nil ELSE Min(Nodes))
  BY <1>0 DEF Lowest
<1>4. Searchable
  BY <1>1, <1>2, <1>3 DEF Searchable
<1>5. ASSUME TreeIdle PROVE Coloured
  <2>1. Balanced(Shape, Nodes, red, black, Nil, treeCall.key) /\ Calm(Shape, Nodes, red, Nil)
    BY <1>5 DEF TreeOK, TreeIdle
  <2>2. ASSUME NEW n \in Nodes \cap red, NEW side \in Sides PROVE Black(kid[n][side])
    BY <1>0, <2>1 DEF Calm, Black
  <2>3. ASSUME NEW n \in Bottom PROVE Cardinality(Way(n) \ red) = black[root]
    <3>1. PICK side \in Sides : n \in Nodes /\ kid[n][side] = Nil
      BY DEF Bottom
    <3>2. n \in Keys /\ n # Nil
      BY <1>0, <3>1
    <3>3. black[n] = 0 + Weight(red, n) + 0
      BY <1>0, <2>1, <3>1, <3>2 DEF Balanced
    <3>4. Way(n) = Above(sub, n)
      BY <1>0, <3>1, WayOfNode DEF Above
    <3>5. Cardinality(Above(sub, n) \ red) + black[n] = black[root] + Weight(red, n)
      BY <1>0, <2>1, <3>1, AboveBlack
    <3>6. Cardinality(Above(sub, n) \ red) \in Nat /\ black[root] \in Nat /\ Weight(red, n) \in Nat
      <4>1. Above(sub, n) \ red \subseteq Keys
        BY <1>0 DEF Above
      <4>2. root \in Places
        BY <1>0, TreeFacts
      <4> QED BY <2>1, <4>1, <4>2, FS_Subset, FS_CardinalityType DEF Balanced, Weight
    <3> QED BY <3>3, <3>4, <3>5, <3>6
  <2> DEFINE Values == {Cardinality(Way(n) \ red) : n \in Bottom}
  <2>4. Values \subseteq {black[root]}
    BY <2>3
  <2>5. Cardinality(Values) <= 1
    <3> HIDE DEF Values
    <3>1. IsFiniteSet({black[root]}) /\ Cardinality({black[root]}) = 1
      BY FS_Singleton
    <3> QED BY <2>4, <3>1, FS_Subset
  <2> QED BY <2>2, <2>5 DEF Coloured
<1> QED BY <1>0, <1>4, <1>5 DEF TreeSound

(* A search finds what is in the tree and nothing else, in every step of every   *)
(* insert, and of every erase but those that end the model: of a root with two   *)
(* children or a node whose successor is its right child (rbtree.c 216-257), and *)
(* one that comes to a red sibling (347); between the calls the tree is balanced. *)
THEOREM TreeStaysSound == TreeSpec => []TreeSound
<1>1. TreeKept => TreeSound
  BY KeptSound DEF TreeKept
<1> QED BY <1>1, TreeInvariant, PTL
=============================================================================
