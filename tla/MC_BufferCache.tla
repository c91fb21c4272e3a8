--------------------------- MODULE MC_BufferCache ---------------------------
(* Model-checking instance of BufferCache: small caches and devices in     *)
(* which eviction is forced (more sectors than slots).                      *)
EXTENDS BufferCache

CONSTANTS t1, t2

\* One kernel thread: the sequential behaviour of the cache.
OneThread == {t1}
\* Two kernel threads sharing the cache.
TwoThreads == {t1, t2}
\* Every thread may use every sector.
SharedSectors == [t \in Threads |-> Sectors]
\* Each thread works on sectors of its own (different files), so the
\* threads meet only in the slots, the clock hand and the locks.
OwnSectors == [t \in Threads |-> IF t = t1 THEN {0, 1} ELSE {2}]
=============================================================================
