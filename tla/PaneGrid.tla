------------------------------- MODULE PaneGrid -------------------------------
(***************************************************************************)
(* _calculateGrid of packages/tui/src/components/pane-manager.ts: where    *)
(* the panes go in the region r = [x, y, width, height] of the screen.     *)
(***************************************************************************)
EXTENDS Integers, Sequences

Rect(x, y, w, h) == [x |-> x, y |-> y, width |-> w, height |-> h]

(* Math.ceil(Math.sqrt(n)) *)
CeilSqrt(n) == CHOOSE c \in 1 .. n : c * c >= n /\ (c - 1) * (c - 1) < n

CeilDiv(a, b) == (a + b - 1) \div b

(* Mutant: the last column is made wider by the width of one cell. *)
WideCell(r, cols, rows, i) ==
    LET col == i % cols
        row == i \div cols
        cellW == r.width \div cols
        cellH == r.height \div rows
    IN  Rect(r.x + col * cellW, r.y + row * cellH,
             IF col = cols - 1 THEN r.width - (col - 1) * cellW ELSE cellW,
             IF row = rows - 1 THEN r.height - row * cellH ELSE cellH)

(* The rectangle of pane i (from 0) in a grid: the last column and the     *)
(* last row take what the division leaves over.                            *)
Cell(r, cols, rows, i) ==
    LET col == i % cols
        row == i \div cols
        cellW == r.width \div cols
        cellH == r.height \div rows
    IN  Rect(r.x + col * cellW, r.y + row * cellH,
             IF col = cols - 1 THEN r.width - col * cellW ELSE cellW,
             IF row = rows - 1 THEN r.height - row * cellH ELSE cellH)

calculateGrid(r, n) ==
    LET half == r.width \div 2
        halfH == r.height \div 2
        cols == CeilSqrt(n)
        rows == CeilDiv(n, cols)
    IN  CASE n = 1 -> <<r>>
          [] n = 2 -> << Rect(r.x, r.y, half, r.height),
                         Rect(r.x + half, r.y, r.width - half, r.height) >>
          [] n = 3 -> << Rect(r.x, r.y, half, r.height),
                         Rect(r.x + half, r.y, r.width - half, halfH),
                         Rect(r.x + half, r.y + halfH, r.width - half, r.height - halfH) >>
          [] OTHER -> [i \in 1 .. n |-> Cell(r, cols, rows, i - 1)]

-----------------------------------------------------------------------------

Inside(a, r) ==
    /\ r.x <= a.x /\ a.x + a.width <= r.x + r.width
    /\ r.y <= a.y /\ a.y + a.height <= r.y + r.height

Apart(a, b) ==
    \/ a.x + a.width <= b.x \/ b.x + b.width <= a.x
    \/ a.y + a.height <= b.y \/ b.y + b.height <= a.y

Holds(a, x, y) == x \in a.x .. a.x + a.width - 1 /\ y \in a.y .. a.y + a.height - 1

(* Panes never vanish, overlap or leave the region, and when their number  *)
(* fills the grid they cover it: between two edges all places are alike,   *)
(* so those next to an edge are looked at.                                 *)
Tiles(r, n) ==
    LET pane == calculateGrid(r, n)
        Right == {pane[i].x + pane[i].width : i \in 1 .. n} \ {r.x + r.width}
        Below == {pane[i].y + pane[i].height : i \in 1 .. n} \ {r.y + r.height}
    IN  /\ \A i \in 1 .. n : Inside(pane[i], r) /\ pane[i].width > 0 /\ pane[i].height > 0
        /\ \A i, j \in 1 .. n : i < j => Apart(pane[i], pane[j])
        /\ n \in {1, 2, 3} \/ n % CeilSqrt(n) = 0 =>
               \A x \in Right \cup {r.x}, y \in Below \cup {r.y} :
                   \E i \in 1 .. n : Holds(pane[i], x, y)

=============================================================================
