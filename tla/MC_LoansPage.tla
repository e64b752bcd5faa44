---------------------------- MODULE MC_LoansPage ----------------------------
EXTENDS LoansPage

MCLoanIds == 1 .. 2
MCThreeLoans == 1 .. 3
=============================================================================
