----------------------------- MODULE RowidRanges -----------------------------
(***************************************************************************)
(* How a table is cut into ranges of row ids (cRowidRanges::szInStmt_).    *)
(* A table's segment is a set of extents; an extent is a run of blocks in  *)
(* one file: [fid, bid, blocks].  The extents are laid end to end, in the  *)
(* order of file and block, and cut into n chunks of equal length; a range *)
(* is the rows between its first and its last block in that order.         *)
(***************************************************************************)
EXTENDS Integers, FiniteSets, FiniteSetsExt

(* The order of row ids, of the blocks <<file, block>> they are in.        *)
NotAfter(a, b) == a[1] < b[1] \/ (a[1] = b[1] /\ a[2] <= b[2])

Bgn(x) == <<x.fid, x.bid>>
End(x) == <<x.fid, x.bid + x.blocks - 1>>

NumBlocks(E) == MapThenSumSet(LAMBDA x : x.blocks, E)

Before(E, x) == {y \in E : y # x /\ NotAfter(Bgn(y), Bgn(x))}

(* chunks1, and sum2 without the extent itself.                            *)
Chunk(E, n) == NumBlocks(E) \div n
Offset(E, x) == NumBlocks(Before(E, x))

(* range1 and range2: the chunks of an extent's first and last block.      *)
Range1(E, n, x) == Offset(E, x) \div Chunk(E, n)
Range2(E, n, x) == (Offset(E, x) + x.blocks - 1) \div Chunk(E, n)

(* Fault: a chunk's last block is taken to be the first of the next.       *)
PieceEndsLate(E, n, x, rn) ==
  IF Range2(E, n, x) > Range1(E, n, x)
  THEN LET first == x.bid + (rn - Range1(E, n, x)) * Chunk(E, n)
       IN  [bgn |-> <<x.fid, first>>, end |-> <<x.fid, first + Chunk(E, n)>>]
  ELSE [bgn |-> Bgn(x), end |-> End(x)]

(* The part of an extent that range rn begins or ends with: the whole of   *)
(* it, or a chunk counted from the first block of the extent.              *)
Piece(E, n, x, rn) ==
  IF Range2(E, n, x) > Range1(E, n, x)
  THEN LET first == x.bid + (rn - Range1(E, n, x)) * Chunk(E, n)
       IN  [bgn |-> <<x.fid, first>>, end |-> <<x.fid, first + Chunk(E, n) - 1>>]
  ELSE [bgn |-> Bgn(x), end |-> End(x)]

ExtentsOf(E, n, rn) == {x \in E : rn \in Range1(E, n, x)..Range2(E, n, x)}

(* first_value and last_value over the extents of a range.                 *)
RowidRange(E, n, rn) ==
  LET X == ExtentsOf(E, n, rn)
      first == CHOOSE x \in X : \A y \in X : NotAfter(Bgn(x), Bgn(y))
      last == CHOOSE x \in X : \A y \in X : NotAfter(Bgn(y), Bgn(x))
  IN  [rn |-> rn + 1, bgn |-> Piece(E, n, first, rn).bgn, end |-> Piece(E, n, last, rn).end]

(* The query: E are the extents of a segment, total is the number of       *)
(* blocks of all segments it looks at.                                     *)
Ranges(E, n, total) ==
  IF total > n /\ Chunk(E, n) > 0
  THEN {RowidRange(E, n, rn) : rn \in {k \in 0..n - 1 : ExtentsOf(E, n, k) # {}}}
  ELSE {}

(* "rowid between predb and prede"                                         *)
InRange(r, block) == NotAfter(r.bgn, block) /\ NotAfter(block, r.end)

(* --- The defects of the cut -------------------------------------------- *)

Blocks(E) == UNION {{<<x.fid, b>> : b \in x.bid..x.bid + x.blocks - 1} : x \in E}

(* The number of blocks in front of a block of the table.                  *)
Position(E, block) == Cardinality({b \in Blocks(E) : b # block /\ NotAfter(b, block)})

(* The chunks have equal lengths: what the division leaves over belongs to *)
(* no chunk.                                                               *)
IsLeftOver(E, n, block) == Position(E, block) >= n * Chunk(E, n)

(* A range that ends with an extent which began inside a chunk is counted  *)
(* from the extent's first block, so it ends behind the extent by as much. *)
IsOverrun(E, n, block) ==
  \E x \in E :
    LET r == Offset(E, x) % Chunk(E, n)
    IN  /\ x.fid = block[1]
        /\ (Offset(E, x) + x.blocks) % Chunk(E, n) = 0
        /\ block[2] > x.bid + x.blocks - 1
        /\ block[2] <= x.bid + x.blocks - 1 + r
=============================================================================
