------------------------- MODULE MC_OpenInodeTable -------------------------
(* Model-checking instance of OpenInodeTable.                              *)
EXTENDS OpenInodeTable

CONSTANTS t1, t2, s1, s2, r1, r2, r3

OneThread == {t1}
TwoThreads == {t1, t2}
OneSector == {s1}
TwoSectors == {s1, s2}
\* Heap blocks: enough for one record per thread plus a recycled one.
ThreeRecs == {r1, r2, r3}
TwoRecs == {r1, r2}
=============================================================================
