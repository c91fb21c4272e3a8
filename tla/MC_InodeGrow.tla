---------------------------- MODULE MC_InodeGrow ----------------------------
(* Model-checking instance of InodeGrow: one direct pointer and pointer   *)
(* blocks of two entries give a seven-block file whose growth crosses the *)
(* direct, indirect and doubly-indirect regions.                          *)
EXTENDS InodeGrow

\* every offset + size from one byte to past the largest file (14 bytes)
GrowSizes == 1..(MaxBlk * 2 + 1)
\* a fresh malloc'd array holds either zeros or a stale sector number
Garbage == {0, 5}
====
