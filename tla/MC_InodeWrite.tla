---------------------------- MODULE MC_InodeWrite ---------------------------
(* Model-checking instance of InodeWrite: two-byte sectors, writes that   *)
(* start inside or past the end of the file and cross a sector boundary.  *)
EXTENDS InodeWrite

CONSTANTS t1, t2

OneThread == {t1}
TwoThreads == {t1, t2}
\* offset + size never exceeds three sectors of data
WriteReqs == {<<0, 1>>, <<1, 2>>, <<3, 2>>}
====
