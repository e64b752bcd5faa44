--------------------------- MODULE MC_Circulation ---------------------------
(* One copy of one book, fought over by two writers while it is counted. *)
EXTENDS Circulation, TLC

MCBookIds   == {1}
MCBookOf    == 1 :> 1
MCPageSizes == {0}
MCTokens    == {None}
Symmetry    == Permutations(Workers)
=============================================================================
