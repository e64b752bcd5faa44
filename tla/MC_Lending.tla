---------------------------- MODULE MC_Lending ----------------------------
(* Lending on one book; the copies and the loans are few enough to be fought *)
(* over.  The clock has two ticks to the day and a loan lasts one tick.      *)
EXTENDS Lending, TLC

MCBookOf == [c \in CopyIds |-> CHOOSE b \in BookIds : TRUE]

Symmetry == Permutations(Workers) \cup Permutations(MemberIds)
              \cup Permutations(Emails) \cup Permutations(LoanIds)
=============================================================================
