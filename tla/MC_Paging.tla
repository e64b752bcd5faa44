----------------------------- MODULE MC_Paging -----------------------------
EXTENDS Paging

MCRowIds == 1 .. 5
MCPageSizes == {-1, 0, 1, 3}
=============================================================================
