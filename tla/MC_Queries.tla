----------------------------- MODULE MC_Queries -----------------------------
EXTENDS Queries, TLC

MCBookIds == {1, 2}
MCBookOf == 1 :> 1 @@ 2 :> 1
MCPageSizes == {-1, 2}
MCTokens == {None, 1}
=============================================================================
