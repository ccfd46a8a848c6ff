------------------------------- MODULE MCUi -------------------------------
(* Instance of Ui for TLC: thread slots and list items are model values.    *)
EXTENDS Ui, TLC

Symmetry == Permutations(Worker) \cup Permutations(Item)
=============================================================================
