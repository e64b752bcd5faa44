---------------------------- MODULE MC_Catalog ----------------------------
(* Two rows and two keys: enough for two rows to want one key, and each the *)
(* key of the other.                                                        *)
EXTENDS Catalog
=============================================================================
