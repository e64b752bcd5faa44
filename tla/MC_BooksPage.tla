---------------------------- MODULE MC_BooksPage ----------------------------
EXTENDS BooksPage

MCBookIds == 1 .. 3
=============================================================================
