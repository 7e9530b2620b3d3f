-------------------------------- MODULE RBTree --------------------------------
(***************************************************************************)
(* The red-black tree of axon/source_old/library/rbtree.c, with one tree    *)
(* and one iterator.  A node is named by its key: a tree has no two nodes   *)
(* of a key, and an erase moves nodes and not keys.  The loops run one      *)
(* iteration per step; the element of a node is left out.                   *)
(***************************************************************************)
EXTENDS Integers, Sequences, FiniteSetsExt

CONSTANTS
  Keys,      \* positive numbers
  MaxNodes   \* bound: the count goes no higher

ASSUME KeysAssumption == Keys \subseteq Nat \ {0} /\ IsFiniteSet(Keys)

Nil == 0

VARIABLES
  root, leftmost, treeCount,  \* axk_rbtree_t
  red, up, kid,               \* color, parent and child[] of the nodes
  treeCall,                   \* the function under way, and its key
  pos,                        \* the node that its loop has reached, n or pos
  iter,                       \* axk_rbtree_iterator_t: node and stack
  origin                      \* history: where iter comes from

treeFields == <<root, leftmost, treeCount, red, up, kid>>
treeVars   == <<treeFields, treeCall, pos, iter, origin>>

Sides == {"left", "right"}

Other(side) == IF side = "left" THEN "right" ELSE "left"

Idle == [fn |-> "none", key |-> Nil]

NoIter == [node |-> Nil, stack |-> <<>>]

TreeInit ==
  /\ root = Nil /\ leftmost = Nil /\ treeCount = 0
  /\ red = {}
  /\ up = [k \in Keys |-> Nil]
  /\ kid = [k \in Keys |-> [side \in Sides |-> Nil]]
  /\ treeCall = Idle /\ pos = Nil
  /\ iter = NoIter /\ origin = "none"

Nodes == {k \in Keys : k = root \/ up[k] # Nil}

SideOf(n) == IF n = kid[up[n]]["right"] THEN "right" ELSE "left"

SideFor(key, n) == IF key < n THEN "left" ELSE "right"

Black(n) == n = Nil \/ n \notin red

TreeIdle == treeCall.fn = "none"

-----------------------------------------------------------------------------
(* Rotations, on the shape of a tree: its root, parents and children. *)

Shape == [root |-> root, up |-> up, kid |-> kid]

(* Mutant: a new root is not noted. *)
LinkRootless(shape, g, p, s) ==
  LET side == IF p = shape.kid[g]["right"] THEN "right" ELSE "left"
  IN  [root |-> shape.root,
       up   |-> shape.up,
       kid  |-> [k \in Keys |-> [d \in Sides |->
                   IF k = g /\ d = side THEN s ELSE shape.kid[k][d]]]]

(* Where p hangs, at the node g or as the root, s hangs now. *)
Link(shape, g, p, s) ==
  LET side == IF p = shape.kid[g]["right"] THEN "right" ELSE "left"
  IN  [root |-> IF g = Nil THEN s ELSE shape.root,
       up   |-> shape.up,
       kid  |-> [k \in Keys |-> [d \in Sides |->
                   IF k = g /\ d = side THEN s ELSE shape.kid[k][d]]]]

(* The three nodes after the rotation but for what hangs above them. *)
Turned(shape, p, dir, s, c) ==
  [k \in Keys |-> [d \in Sides |->
     IF k = p /\ d = Other(dir) THEN c ELSE IF k = s /\ d = dir THEN p ELSE shape.kid[k][d]]]

(* tree_rotate: p goes down to the side dir, its child of the other side up. *)
Rotate(shape, p, dir) ==
  LET s == shape.kid[p][Other(dir)]
      c == shape.kid[s][dir]
      g == shape.up[p]
      parent(k) == IF k = c THEN p ELSE IF k = p THEN s ELSE IF k = s THEN g ELSE shape.up[k]
  IN  Link([root |-> shape.root, up |-> [k \in Keys |-> parent(k)],
            kid |-> Turned(shape, p, dir, s, c)], g, p, s)

Becomes(shape) ==
  /\ root' = shape.root /\ up' = shape.up /\ kid' = shape.kid

Recolour(reds, blacks) == red' = (red \ blacks) \union reds

-----------------------------------------------------------------------------
(* The iterator is the caller's: it is not used any more after an insert or *)
(* an erase by key.                                                         *)
DropIter == iter' = NoIter /\ origin' = "none"

(* The way down, which all functions with a key begin with. *)

BeginTree(fn, key) ==
  /\ TreeIdle
  /\ fn \in {"insert", "search", "erase_key"}
  /\ fn \in {"search", "erase_key"} => root # Nil
  /\ treeCall' = [fn |-> fn, key |-> key] /\ pos' = root
  /\ DropIter
  /\ UNCHANGED treeFields

Going == treeCall.fn \in {"insert", "search", "erase_key"} /\ pos # Nil

Onward(n) == kid[n][SideFor(treeCall.key, n)]

(* Search puts the node on the iterator's stack, whichever way it goes on.  *)
Descend ==
  /\ Going /\ treeCall.key # pos /\ Onward(pos) # Nil
  /\ pos' = Onward(pos)
  /\ iter' = IF treeCall.fn = "search" THEN [iter EXCEPT !.stack = Append(@, pos)] ELSE iter
  /\ UNCHANGED <<treeFields, treeCall, origin>>

(* The key is there: insert returns NULL and the two that update leave the  *)
(* tree as it is.                                                           *)
Found ==
  /\ Going /\ treeCall.key = pos /\ treeCall.fn # "erase_key"
  /\ IF treeCall.fn = "search"
     THEN iter' = [iter EXCEPT !.node = pos] /\ origin' = "search"
     ELSE UNCHANGED <<iter, origin>>
  /\ treeCall' = Idle /\ pos' = Nil
  /\ UNCHANGED treeFields

NotFound ==
  /\ Going /\ treeCall.key # pos /\ Onward(pos) = Nil /\ treeCall.fn # "insert"
  /\ treeCall' = Idle /\ pos' = Nil /\ DropIter
  /\ UNCHANGED treeFields

-----------------------------------------------------------------------------
(* The new node, red, under the last node of the way; then tree_insert_node *)
(* mends upwards.                                                           *)
Attach ==
  /\ treeCall.fn = "insert" /\ treeCount < MaxNodes
  /\ pos # Nil => treeCall.key # pos /\ Onward(pos) = Nil
  /\ red' = red \union {treeCall.key}
  /\ up' = [up EXCEPT ![treeCall.key] = pos]
  /\ IF pos = Nil THEN root' = treeCall.key /\ UNCHANGED kid
     ELSE kid' = [kid EXCEPT ![pos][SideFor(treeCall.key, pos)] = treeCall.key] /\ UNCHANGED root
  /\ treeCount' = treeCount + 1
  /\ leftmost' = IF leftmost = Nil \/ treeCall.key < leftmost THEN treeCall.key ELSE leftmost
  /\ treeCall' = [treeCall EXCEPT !.fn = "mend"] /\ pos' = treeCall.key
  /\ UNCHANGED <<iter, origin>>

Done == treeCall' = Idle /\ pos' = Nil

Mend ==
  /\ treeCall.fn = "mend"
  /\ LET n == pos
         p == up[n]
         g == up[p]
     IN  \/ /\ p = Nil \/ Black(p)
            /\ Done /\ UNCHANGED <<root, red, up, kid>>
         \/ /\ p # Nil /\ ~ Black(p) /\ g = Nil
            /\ Recolour({}, {p})
            /\ Done /\ UNCHANGED <<root, up, kid>>
         \/ /\ p # Nil /\ ~ Black(p) /\ g # Nil
            /\ LET dir == SideOf(p)
                   u   == kid[g][Other(dir)]
                   inner == n = kid[p][Other(dir)]
                   outer == IF inner THEN Rotate(Shape, p, dir) ELSE Shape
               IN  IF Black(u)
                   THEN /\ Becomes(Rotate(outer, g, Other(dir)))
                        /\ Recolour({g}, {IF inner THEN n ELSE p})
                        /\ Done
                   ELSE /\ Recolour({g}, {p, u})
                        /\ pos' = g
                        /\ UNCHANGED <<treeCall, root, up, kid>>
  /\ UNCHANGED <<leftmost, treeCount, iter, origin>>

-----------------------------------------------------------------------------
(* tree_delete. *)

EndOf(path) == path[Len(path)]

(* The way down on the left from a node.                                    *)
LeftPath(n) ==
  LET path[i \in 0 .. Cardinality(Keys)] ==
        IF i = 0 THEN <<n>>
        ELSE LET before == path[i - 1]
                 next   == kid[EndOf(before)]["left"]
             IN  IF next = Nil THEN before ELSE Append(before, next)
  IN  path[Cardinality(Keys)]

(* The lowest node on the right, which takes the place of a node with two   *)
(* children.                                                                *)
MinRight(n) == EndOf(LeftPath(kid[n]["right"]))

TwoChildren(n) == \A side \in Sides : kid[n][side] # Nil

(* The swap writes to the parent of the node, which a root does not have,   *)
(* and makes the two nodes their own children when one is the other's.      *)
SwapBreaks(n) == TwoChildren(n) /\ (n = root \/ MinRight(n) = kid[n]["right"])

(* The two nodes exchange places and colours. *)
Swapped(n, m) ==
  LET Name(k) == IF k = n THEN m ELSE IF k = m THEN n ELSE k
  IN  [root |-> root,
       up   |-> [k \in Keys |-> Name(up[Name(k)])],
       kid  |-> [k \in Keys |-> [side \in Sides |-> Name(kid[Name(k)][side])]]]

SwappedReds(n, m) ==
  {k \in Keys : IF k = n THEN m \in red ELSE IF k = m THEN n \in red ELSE k \in red}

(* n is taken out of the shape, and c, a child of it or none, takes its place. *)
Without(shape, n, c) ==
  LET p == shape.up[n]
      linked == Link(shape, p, n, c)
  IN  [root |-> linked.root,
       up   |-> [k \in Keys |-> IF k = n THEN Nil ELSE IF k = c THEN p ELSE shape.up[k]],
       kid  |-> [k \in Keys |-> [side \in Sides |->
                   IF k = n THEN Nil ELSE linked.kid[k][side]]]]

(* axk_rbtree_erase and axk_rbtree_erase_key walk to the left after the     *)
(* delete, and end at the smallest node as long as the tree is searchable.  *)
LeftmostWithout(n) ==
  IF leftmost # n THEN leftmost
  ELSE IF Nodes = {n} THEN Nil ELSE Min(Nodes \ {n})

(* The black node without children is taken out, then the tree is balanced  *)
(* upwards from its parent; in this case the count is not changed.          *)
Delete(n) ==
  /\ ~ SwapBreaks(n)
  /\ leftmost' = LeftmostWithout(n)
  /\ LET m     == MinRight(n)
         shape == IF TwoChildren(n) THEN Swapped(n, m) ELSE Shape
         reds  == IF TwoChildren(n) THEN SwappedReds(n, m) ELSE red
         c     == IF shape.kid[n]["left"] # Nil THEN shape.kid[n]["left"]
                  ELSE shape.kid[n]["right"]
         dir   == IF n = shape.kid[shape.up[n]]["right"] THEN "right" ELSE "left"
     IN  /\ Becomes(Without(shape, n, IF n \in reds THEN Nil ELSE c))
         /\ red' = reds \ {n, c}
         /\ IF Nodes = {n} \/ n \in reds \/ c # Nil
            THEN /\ treeCount' = IF Nodes = {n} THEN 0 ELSE treeCount - 1
                 /\ Done
            ELSE /\ treeCall' = [fn |-> "balance", key |-> dir]
                 /\ pos' = shape.up[n]
                 /\ UNCHANGED treeCount

(* The memory is no longer a tree: the model stops. *)
BreakTree ==
  /\ treeCall' = [fn |-> "broken", key |-> Nil] /\ pos' = Nil
  /\ UNCHANGED <<treeFields, iter, origin>>

EraseKey ==
  /\ treeCall.fn = "erase_key" /\ treeCall.key = pos
  /\ UNCHANGED <<iter, origin>>
  /\ Delete(pos)

EraseKeyBreaks ==
  /\ treeCall.fn = "erase_key" /\ treeCall.key = pos /\ SwapBreaks(pos)
  /\ BreakTree

(* An iteration of the loop at line 307: the side call.key of pos is a      *)
(* black node short.                                                        *)
Balance ==
  /\ treeCall.fn = "balance"
  /\ LET p   == pos
         dir == treeCall.key
         s   == kid[p][Other(dir)]
         d   == kid[s][Other(dir)]
         c   == kid[s][dir]
     IN  /\ Black(s)
         /\ \/ /\ ~ Black(d)                        \* delete_6
               /\ Becomes(Rotate(Shape, p, dir))
               /\ red' = {k \in red \union {s} : k \notin {p, d} /\ (k = s => p \in red)}
               /\ Done
            \/ /\ Black(d) /\ ~ Black(c)            \* delete_5
               /\ Becomes(Rotate(Rotate(Shape, s, Other(dir)), p, dir))
               /\ red' = {k \in red : k \notin {p, s} /\ (k = c => p \in red)}
               /\ Done
            \/ /\ Black(d) /\ Black(c) /\ ~ Black(p)  \* delete_4
               /\ Recolour({s}, {p})
               /\ Done /\ UNCHANGED <<root, up, kid>>
            \/ /\ Black(d) /\ Black(c) /\ Black(p)
               /\ Recolour({s}, {})
               /\ IF up[p] = Nil THEN Done
                  ELSE pos' = up[p] /\ treeCall' = [treeCall EXCEPT !.key = SideOf(p)]
               /\ UNCHANGED <<root, up, kid>>
  /\ UNCHANGED <<leftmost, treeCount, iter, origin>>

(* delete_3 goes on with a nephew that this pass has not read. *)
BalanceBreaks ==
  /\ treeCall.fn = "balance" /\ ~ Black(kid[pos][Other(treeCall.key)])
  /\ BreakTree

-----------------------------------------------------------------------------
(* Iteration. *)

First(path, stack) ==
  [node |-> EndOf(path), stack |-> stack \o SubSeq(path, 1, Len(path) - 1)]

IterBegin ==
  /\ TreeIdle /\ root # Nil
  /\ iter' = First(LeftPath(root), <<>>)
  /\ origin' = "begin"
  /\ UNCHANGED <<treeFields, treeCall, pos>>

(* Mutant: the node itself stays on the stack. *)
AfterUnpopped(it) ==
  IF kid[it.node]["right"] # Nil
  THEN LET path == LeftPath(kid[it.node]["right"])
       IN  [node |-> EndOf(path), stack |-> it.stack \o path]
  ELSE IF it.stack = <<>> THEN NoIter
  ELSE [node |-> EndOf(it.stack), stack |-> SubSeq(it.stack, 1, Len(it.stack) - 1)]

(* axk_rbtree_next. *)
After(it) ==
  IF kid[it.node]["right"] # Nil THEN First(LeftPath(kid[it.node]["right"]), it.stack)
  ELSE IF it.stack = <<>> THEN NoIter
  ELSE [node |-> EndOf(it.stack), stack |-> SubSeq(it.stack, 1, Len(it.stack) - 1)]

Usable == TreeIdle /\ iter.node \in Nodes

IterNext ==
  /\ Usable
  /\ iter' = After(iter)
  /\ UNCHANGED <<treeFields, treeCall, pos, origin>>

(* axk_rbtree_erase: the iterator goes on to the next node, and then the    *)
(* node is deleted and the tree balanced.                                   *)
IterErase ==
  /\ Usable
  /\ iter' = After(iter) /\ origin' = "erase"
  /\ Delete(iter.node)

(* The swap breaks the tree, or the iterator, whose stack is older than the  *)
(* tree, has brought the caller back to a node that it had erased.          *)
IterBreaks ==
  /\ TreeIdle /\ iter.node # Nil
  /\ iter.node \in Nodes => SwapBreaks(iter.node)
  /\ BreakTree

(* axk_rbtree_clear: every node is freed, from the leaves up. *)
ClearTree ==
  /\ TreeIdle /\ root # Nil
  /\ root' = Nil /\ leftmost' = Nil /\ treeCount' = 0 /\ red' = {}
  /\ up' = [k \in Keys |-> Nil]
  /\ kid' = [k \in Keys |-> [side \in Sides |-> Nil]]
  /\ DropIter
  /\ UNCHANGED <<treeCall, pos>>

(* axk_rbtree_copy reads the places on its stack as nodes once it has to go *)
(* back up, and the root of an empty tree; otherwise there are one or two   *)
(* nodes, which it copies.                                                  *)
CopyBreaks ==
  /\ TreeIdle
  /\ root # Nil => kid[root]["left"] # Nil
  /\ BreakTree

TreeNext ==
  \/ \E fn \in {"insert", "search", "erase_key"}, key \in Keys : BeginTree(fn, key)
  \/ Descend \/ Found \/ NotFound
  \/ Attach \/ Mend
  \/ EraseKey \/ EraseKeyBreaks \/ Balance \/ BalanceBreaks
  \/ IterBegin \/ IterNext \/ IterErase \/ IterBreaks
  \/ ClearTree \/ CopyBreaks

TreeSpec == TreeInit /\ [][TreeNext]_treeVars

-----------------------------------------------------------------------------
(* The nodes from the root to where a key belongs. *)
Way(key) ==
  LET way[i \in 0 .. Cardinality(Keys)] ==
        IF i = 0 THEN root
        ELSE LET n == way[i - 1]
             IN  IF n \in {key, Nil} THEN n ELSE kid[n][SideFor(key, n)]
  IN  {way[i] : i \in 0 .. Cardinality(Keys)} \ {Nil}

(* The nodes where a way down ends. *)
Bottom == {n \in Nodes : \E side \in Sides : kid[n][side] = Nil}

(* A search finds a key exactly if it is in the tree, parents and children     *)
(* agree, and the leftmost node is known.                                     *)
Searchable ==
  /\ \A key \in Keys : key \in Way(key) <=> key \in Nodes
  /\ \A n \in Nodes, side \in Sides : kid[n][side] # Nil => up[kid[n][side]] = n
  /\ leftmost = (IF Nodes = {} THEN Nil ELSE Min(Nodes))

(* No way down is more than twice as long as another: no red node has a red    *)
(* child, and all ways have as many black ones.                               *)
Coloured ==
  /\ \A n \in Nodes \cap red, side \in Sides : Black(kid[n][side])
  /\ Cardinality({Cardinality(Way(n) \ red) : n \in Bottom}) <= 1

(* The tree is searchable in every step, balanced between the calls, and the   *)
(* count is not too small.  Of the erases that break the tree (EraseKeyBreaks, *)
(* IterBreaks, BalanceBreaks) nothing is said: the model ends there.           *)
TreeSound ==
  /\ Searchable
  /\ TreeIdle => Coloured
  /\ treeCount >= Cardinality(Nodes)

(* An iterator that axk_rbtree_begin set up, and that no erase has moved, goes  *)
(* from each node to the next one in the order of the keys, leaving none out,   *)
(* and after the last to no other node.  axk_rbtree_next clears its node there, *)
(* which rbtree.h:213 says it does not; nothing is said of iterators that come  *)
(* from a search, which have no stack, or from an erase, whose stack is old.    *)
IteratorInOrder ==
  TreeIdle =>
    /\ root # Nil => First(LeftPath(root), <<>>).node = leftmost
    /\ origin = "begin" /\ iter.node # Nil =>
         LET rest == {k \in Nodes : k > iter.node}
         IN  IF rest = {} THEN After(iter).node \in {Nil, iter.node}
             ELSE After(iter).node = Min(rest)
=============================================================================
