----------------------------- MODULE MC_Startup -----------------------------
EXTENDS Startup

MCCopies == <<2, 1, 0>>   \* two books and a member
MCLabels == {<<1, 1>>}    \* the barcode of the first copy of the first sample row
NoLabels == {}
=============================================================================
