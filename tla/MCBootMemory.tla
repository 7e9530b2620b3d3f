----------------------------- MODULE MCBootMemory -----------------------------
(* Twenty pages in seven pieces: two below the startup page, that page, one  *)
(* above it, the kernel's image and two above that.                          *)
EXTENDS BootMemory

Piece(first, count, types) ==
  {[type |-> t, first |-> first, count |-> count] : t \in types}

Absent == [type |-> "none", first |-> 0, count |-> 0]

MCImage == 13 .. 14

(* Behind all memory, where the map has no entry.                            *)
MCFramebuffer == 22 .. 23

Memories ==
  (Piece(0, 4, {"Conventional", "RuntimeServicesCode"}) \union {Absent})
    \X (Piece(4, 4, {"Conventional", "BootServicesData"}) \union {Absent})
    \X Piece(8, 1, {"Conventional", "LoaderCode"})
    \X (Piece(9, 4, {"Conventional", "LoaderData"}) \union {Absent})
    \X Piece(13, 2, {"LoaderData"})
    \X (Piece(15, 3, {"Conventional", "ACPIReclaim"}) \union {Absent})
    \X Piece(18, 2, {"BootServicesData", "MappedIO"})

(* The firmware lists them in this order, or another.                        *)
Orders == {<<1, 2, 3, 4, 5, 6, 7>>, <<7, 6, 5, 4, 3, 2, 1>>,
           <<4, 5, 6, 7, 1, 2, 3>>, <<6, 7, 3, 4, 5, 1, 2>>}

Listed(m, order) ==
  SelectSeq([k \in 1 .. 7 |-> m[order[k]]], LAMBDA d : d # Absent)

AllLayouts == {Listed(m, order) : m \in Memories, order \in Orders}

(* A map in small pieces.                                                    *)
Crumbs ==
  [k \in 1 .. 20 |->
     [type  |-> CASE k - 1 \in 13 .. 14 -> "LoaderData"
                  [] k - 1 = 8         -> "LoaderCode"
                  [] k - 1 >= 18       -> "MappedIOPortSpace"
                  [] k % 2 = 0         -> "BootServicesCode"
                  [] OTHER             -> "Conventional",
      first |-> k - 1, count |-> 1]]

(* The pool's memory is clear, or not in the first or the third entry.       *)
MCLeftovers ==
  {[k \in 1 .. 20 |-> IF k = dirty THEN 3 ELSE 0] : dirty \in {0, 1, 3}}

Clear == {[k \in 1 .. 20 |-> 0]}

MCLayouts == {map \in AllLayouts \union {Crumbs} : WellFormed(map)}
============================================================================
