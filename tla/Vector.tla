-------------------------------- MODULE Vector --------------------------------
(***************************************************************************)
(* The vector container of axon/source_old/library/vector.c: its buffer,    *)
(* the part of it that holds elements, and the calls of the copy and the    *)
(* finalize function that come with the elements.  A handle that is not     *)
(* alive is only created again, or filled by a copy or a move.              *)
(***************************************************************************)
EXTENDS Integers, Sequences, FiniteSets

CONSTANTS
  Handles,
  Values,      \* elements
  Zero,        \* an element of zero bytes
  Growth,      \* growth_factor, from the size of an element
  Requests,    \* capacities asked of create_with_capacity and reserve
  MaxCount     \* bound: no vector gets more elements

ASSUME VectorAssumption ==
  /\ IsFiniteSet(Handles) /\ Zero \notin Values
  /\ Growth \in Nat /\ Requests \subseteq Nat /\ MaxCount \in Nat

VARIABLES
  vec,         \* axk_vector_t of each handle; elem_capacity is Len(cells)
  owned,       \* history: calls of the copy less calls of the finalize function
  promised,    \* history: the sequence that the callers asked for, Zero where a
               \* resize added an element
  overrun      \* memory outside the buffer was written

vectorVars == <<vec, owned, promised, overrun>>

NoVector == [cells |-> <<>>, count |-> 0, plain |-> TRUE]

VectorInit ==
  /\ vec = [h \in Handles |-> NoVector]
  /\ owned = [x \in Values |-> 0]
  /\ promised = [h \in Handles |-> <<>>]
  /\ overrun = FALSE

Clamp(n, lo, hi) == IF n < lo THEN lo ELSE IF n > hi THEN hi ELSE n

(* MIN_CAPACITY. *)
AtLeastTwo(n) == IF n < 2 THEN 2 ELSE n

(* calculate_capacity. *)
Capacity(n) == AtLeastTwo(Clamp(n \div 10, 5, 1024) * Clamp(Growth \div 6, 1, 10) + n)

Zeroes(n) == [i \in 1 .. n |-> Zero]

Alive(h) == vec[h].cells # <<>>

ContentsOf(v) == SubSeq(v.cells, 1, v.count)

Contents(h) == ContentsOf(vec[h])

(* memmove of n cells, memcpy of the elements s. *)
Shifted(cells, from, to, n) ==
  [i \in DOMAIN cells |-> IF i \in to .. to + n - 1 THEN cells[i - to + from] ELSE cells[i]]

Filled(cells, at, s) ==
  [i \in DOMAIN cells |-> IF i \in at .. at + Len(s) - 1 THEN s[i - at + 1] ELSE cells[i]]

(* The old elements in a new buffer, of which count are then used. *)
Into(v, capacity, count) ==
  [cells |-> Filled(Zeroes(capacity), 1, ContentsOf(v)), count |-> count, plain |-> v.plain]

Expand(v, addtl, count) == Into(v, Capacity(addtl + v.count), count)

Occurs(x, s) == Cardinality({i \in DOMAIN s : s[i] = x})

(* The finalize or the copy function runs on all of s. *)
Finalized(counts, plain, s) ==
  IF plain THEN counts ELSE [x \in Values |-> counts[x] - Occurs(x, s)]

Copied(counts, plain, s) ==
  IF plain THEN counts ELSE [x \in Values |-> counts[x] + Occurs(x, s)]

Discarded(h) == Finalized(owned, vec[h].plain, Contents(h))

-----------------------------------------------------------------------------
(* Both create functions: a vector that the handle had is destroyed. *)
Create(h, capacity, plain) ==
  /\ vec' = [vec EXCEPT ![h] = [cells |-> Zeroes(capacity), count |-> 0, plain |-> plain]]
  /\ owned' = Discarded(h)
  /\ promised' = [promised EXCEPT ![h] = <<>>]

Destroy(h) ==
  /\ vec' = [vec EXCEPT ![h] = NoVector]
  /\ owned' = Discarded(h)
  /\ promised' = [promised EXCEPT ![h] = <<>>]

(* A copy to the vector itself destroys it, and finds nothing to copy. *)
CopyTo(dest, source) ==
  \/ (dest = source \/ ~ Alive(source)) /\ Destroy(dest)
  \/ /\ dest # source /\ Alive(source)
     /\ vec' = [vec EXCEPT ![dest] =
                  Into(vec[source], Len(vec[source].cells), vec[source].count)]
     /\ owned' = Copied(Discarded(dest), vec[source].plain, Contents(source))
     /\ promised' = [promised EXCEPT ![dest] = promised[source]]

MoveTo(dest, source) ==
  \/ (dest = source \/ ~ Alive(source)) /\ Destroy(dest)
  \/ /\ dest # source /\ Alive(source)
     /\ vec' = [vec EXCEPT ![dest] = vec[source], ![source] = NoVector]
     /\ owned' = Discarded(dest)
     /\ promised' = [promised EXCEPT ![dest] = promised[source], ![source] = <<>>]

Clear(h) ==
  /\ vec' = [vec EXCEPT ![h] =
               [cells |-> Zeroes(Capacity(0)), count |-> 0, plain |-> vec[h].plain]]
  /\ owned' = Discarded(h)
  /\ promised' = [promised EXCEPT ![h] = <<>>]

(* A full buffer is expanded; one that is not full is not, even when the    *)
(* range does not fit into what is left of it.                              *)
Room(v, n) == IF v.count >= Len(v.cells) THEN Expand(v, n, v.count) ELSE v

Insert(h, index, s) ==
  LET v == Room(vec[h], Len(s))
      shifted == Shifted(v.cells, index + 1, index + 1 + Len(s), v.count - index)
  IN  /\ index <= v.count /\ v.count + Len(s) <= MaxCount
      /\ v.count + Len(s) <= Len(v.cells)
      /\ vec' = [vec EXCEPT ![h] = [cells |-> Filled(shifted, index + 1, s),
                                    count |-> v.count + Len(s), plain |-> v.plain]]
      /\ owned' = Copied(owned, v.plain, s)
      /\ promised' = [promised EXCEPT
           ![h] = SubSeq(promised[h], 1, index) \o s
                    \o SubSeq(promised[h], index + 1, Len(promised[h]))]

InsertPast(h, n) ==
  /\ Room(vec[h], n).count + n > Len(Room(vec[h], n).cells)
  /\ overrun' = TRUE
  /\ UNCHANGED <<vec, owned, promised>>

(* Without a finalize function the erased elements are zeroed. *)
Erase(h, index, n) ==
  LET v    == vec[h]
      zero == IF v.plain THEN Filled(v.cells, index + 1, Zeroes(n)) ELSE v.cells
  IN  /\ n > 0 /\ index + n <= v.count
      /\ vec' = [vec EXCEPT ![h] =
           [cells |-> Shifted(zero, index + n + 1, index + 1, v.count - (index + n)),
            count |-> v.count - n, plain |-> v.plain]]
      /\ owned' = Finalized(owned, v.plain, SubSeq(v.cells, index + 1, index + n))
      /\ promised' = [promised EXCEPT
           ![h] = SubSeq(promised[h], 1, index)
                    \o SubSeq(promised[h], index + n + 1, Len(promised[h]))]

(* axk_vector_pop_back of an empty vector: the index is -1, and the test     *)
(* -1 + 1 > elem_count lets it through.                                     *)
PopEmpty(h) ==
  /\ vec[h].count = 0
  /\ overrun' = TRUE
  /\ UNCHANGED <<vec, owned, promised>>

(* Mutant: a buffer with room enough is not replaced. *)
GrownInPlace(v, n) ==
  IF n > Len(v.cells) THEN Expand(v, n - v.count, n) ELSE [v EXCEPT !.count = n]

Grown(v, n) == Expand(v, n - v.count, n)

Resize(h, n) ==
  LET v == vec[h] IN
  \/ n = 0 /\ Clear(h)
  \/ n > 0 /\ n < v.count /\ Erase(h, n, v.count - n)
  \/ /\ n > v.count
     /\ vec' = [vec EXCEPT ![h] = Grown(v, n)]
     /\ promised' = [promised EXCEPT ![h] = promised[h] \o Zeroes(n - v.count)]
     /\ UNCHANGED owned

Shrink(h) ==
  LET v == vec[h]
      capacity == Capacity(v.count)
  IN  /\ Len(v.cells) > 2 /\ 2 * capacity <= Len(v.cells)
      /\ vec' = [vec EXCEPT ![h] = Into(v, capacity, v.count)]
      /\ UNCHANGED <<owned, promised>>

(* What is added to the count is the request less the capacity. *)
Reserve(h, capacity) ==
  LET v == vec[h] IN
  /\ capacity > Len(v.cells)
  /\ vec' = [vec EXCEPT ![h] = Expand(v, capacity - Len(v.cells), v.count)]
  /\ UNCHANGED <<owned, promised>>

Ranges == {<<x>> : x \in Values} \union {<<x, y>> : x \in Values, y \in Values}

VectorNext ==
  /\ ~ overrun
  /\ \E h \in Handles :
       \/ \E plain \in BOOLEAN, c \in {Capacity(0)} \union {AtLeastTwo(n) : n \in Requests} :
            Create(h, c, plain) /\ UNCHANGED overrun
       \/ \E source \in Handles : (CopyTo(h, source) \/ MoveTo(h, source)) /\ UNCHANGED overrun
       \/ /\ Alive(h)
          /\ \/ \/ Destroy(h) \/ Clear(h) \/ Shrink(h)
                \/ \E index \in 0 .. MaxCount, s \in Ranges : Insert(h, index, s)
                \/ \E index \in 0 .. MaxCount, n \in 1 .. 2 : Erase(h, index, n)
                \/ \E n \in 0 .. MaxCount : Resize(h, n)
                \/ \E capacity \in Requests : Reserve(h, capacity)
             /\ UNCHANGED overrun
       \/ Alive(h) /\ (PopEmpty(h) \/ \E n \in 1 .. 2 : InsertPast(h, n))

VectorSpec == VectorInit /\ [][VectorNext]_vectorVars

-----------------------------------------------------------------------------
(* A vector holds the elements that its callers put there, each at its       *)
(* place, and as many more as its callers made it longer by a resize.  What  *)
(* those are is not promised: vector.h:178 says that they are not zero       *)
(* filled, and vector.c:357 that they are (Zero stands for them here).       *)
ContentsPromised ==
  \A h \in Handles :
    /\ Len(Contents(h)) = Len(promised[h])
    /\ \A i \in 1 .. Len(promised[h]) :
         promised[h][i] # Zero => Contents(h)[i] = promised[h][i]

(* The places at which the vectors of f hold copies of x. *)
Copies(f, x) ==
  {p \in Handles \X (1 .. MaxCount) :
     ~ f[p[1]].plain /\ p[2] <= f[p[1]].count /\ f[p[1]].cells[p[2]] = x}

(* An element that was copied in is finalized once, when it leaves the last *)
(* vector that has it.                                                     *)
CopiesCounted == \A x \in Values : owned[x] = Cardinality(Copies(vec, x))

(* The two together.  A range too long for the buffer and a pop of an empty *)
(* vector end the model.                                                   *)
VectorHolds == ContentsPromised /\ CopiesCounted
=============================================================================
