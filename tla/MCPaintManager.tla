--------------------------- MODULE MCPaintManager ---------------------------
(* Instance of PaintManager for TLC: two rows of two labels, so that the mouse *)
(* can leave a label without leaving its row, and a row can be removed while   *)
(* another one is in the list.                                                 *)
EXTENDS PaintManager, TLC

CONSTANTS r1, r2, a, b

TwoRows   == {r1, r2}
TwoLabels == {a, b}
OneLabel  == {a}

\* What the list, its message and the operations depend on: nothing of it reads
\* which control the mouse hovers over, which gets the keys, or which rows wait
\* for a leave.
ListView == <<rows, async, operation, click, captured, pushed, focus>>

Symmetry == Permutations(Row) \cup Permutations(Worker)
=============================================================================
