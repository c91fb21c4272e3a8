---------------------------- MODULE MC_FsSyscalls ----------------------------
(* Model-checking instance of FsSyscalls: two names, so a directory can   *)
(* hold a file before a subdirectory, and files of zero or one data       *)
(* sector.                                                                 *)
EXTENDS FsSyscalls

CONSTANTS a, b

TwoNames == {a, b}
FileSizes == {0, 1}
=============================================================================
