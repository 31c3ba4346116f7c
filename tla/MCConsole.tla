----------------------------- MODULE MCConsole ------------------------------
(***************************************************************************)
(* Console for TLC: a screen of 2 rows of 5 columns (not a multiple of the *)
(* tab's 4, so that tabs wrap at every offset), one printing character     *)
(* besides the blank.                                                      *)
(***************************************************************************)
EXTENDS Console
=============================================================================
