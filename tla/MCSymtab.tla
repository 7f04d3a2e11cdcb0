------------------------------ MODULE MCSymtab ------------------------------
(***************************************************************************)
(* Four names in a table that starts with one entry: two growths, and a    *)
(* ceiling that the fourth name reaches.                                   *)
(***************************************************************************)
EXTENDS Symtab
=============================================================================
