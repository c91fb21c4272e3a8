----------------------------- MODULE BufferCache -----------------------------
(***************************************************************************)
(* The write-back buffer cache of src/src/filesys/inode.c (lines 15-179):  *)
(* NUM_BLOCKS slots, each with sector/data/free/dirty/accessed and a slot  *)
(* lock, one global buffer_cache_lock, and a clock hand for eviction.      *)
(*                                                                         *)
(* Kernel threads call buffer_read, buffer_write and buffer_flush          *)
(* concurrently.  Every C statement that touches shared state is one step, *)
(* so the interleavings the Pintos preemptive scheduler allows between     *)
(* them are all explored.  A sector's 512 bytes are abstracted to the byte *)
(* positions Offs, and byte values to the small set Vals.                  *)
(*                                                                         *)
(* Ghost state: mem[s] is what a reader of sector s must see, i.e. the     *)
(* effect of every completed write in the order their copies happened;     *)
(* readOk records whether every read so far returned mem.                  *)
(***************************************************************************)
EXTENDS Naturals, FiniteSets
LOCAL INSTANCE FiniteSetsExt

CONSTANTS
    Threads,        \* kernel threads calling into the cache
    NumBlocks,      \* NUM_BLOCKS, the number of cache slots
    NumSectors,     \* sectors of the device are 0..NumSectors-1
    SectorSize,     \* BLOCK_SECTOR_SIZE, abstracted to a few byte positions
    WriteVals,      \* byte values callers write
    InitByte,       \* the byte every sector holds on disk initially
    PartialWrites,  \* whether callers write less than a whole sector
    MaxOps,         \* bound on the operations each thread performs
    Kinds,          \* which of read, write, flush the threads call
    SectorsOf,      \* SectorsOf[t]: the sectors thread t reads and writes
    NONE            \* no lock holder

ASSUME NumBlocks \in Nat \ {0} /\ SectorSize \in Nat \ {0}
ASSUME PartialWrites \in BOOLEAN /\ MaxOps \in Nat
ASSUME Kinds \subseteq {"read", "write", "flush"}

Slots   == 0..(NumBlocks - 1)
Sectors == 0..(NumSectors - 1)
Offs    == 0..(SectorSize - 1)
Vals    == {0, InitByte} \cup WriteVals
Zero    == [o \in Offs |-> 0]

(* The (offset, size) pairs buffer_write is called with.  inode_write_at  *)
(* writes a chunk that may start and end anywhere in a sector; growth and *)
(* inode records always write the whole sector (offset 0, full size).     *)
WriteShapes ==
    IF PartialWrites
    THEN {<<o, n>> \in Offs \X (1..SectorSize) : o + n <= SectorSize}
    ELSE {<<0, SectorSize>>}

Requests ==
    [kind : {"read"}, sec : Sectors]
    \cup [kind : {"write"}, sec : Sectors, ofs : Offs, size : 1..SectorSize, val : WriteVals]
    \cup [kind : {"flush"}]

NoReq == [kind |-> "none"]

VARIABLES
    free, sector, dirty, accessed, data,  \* buffer_cache[i] fields
    clockHand,                            \* clock_hand
    cacheLock,                            \* holder of buffer_cache_lock
    slotLock,                             \* holder of buffer_cache[i].lock
    disk,                                 \* contents of the block device
    pc, req, idx, inBuf, fi, ops,         \* per-thread control and locals
    mem, readOk                           \* ghost: expected contents

cacheVars  == <<free, sector, dirty, accessed, data, clockHand>>
lockVars   == <<cacheLock, slotLock>>
threadVars == <<pc, req, idx, inBuf, fi, ops>>
ghostVars  == <<mem, readOk>>
vars == <<cacheVars, lockVars, disk, threadVars, ghostVars>>

PCs == {"idle", "r_lock", "r_slot", "r_fill", "r_mark", "r_copy",
        "w_lock", "w_claim", "w_slot", "w_copy",
        "ev_scan", "ev_wb", "ev_reset", "f_lock", "f_scan", "f_clear"}

-----------------------------------------------------------------------------
(* Helpers translated from the search functions.                           *)

\* buffer_search: the first non-free slot holding sector s, or -1.
BufferSearch(s) ==
    LET hits == {i \in Slots : sector[i] = s /\ ~free[i]}
    IN  IF hits = {} THEN -1 ELSE Min(hits)

\* The loop of buffer_search_free; an empty result means it calls buffer_evict.
FreeSlots == {i \in Slots : free[i]}

\* The bytes of a sector after buffer_write's memcpy of r.val at r.ofs.
Written(old, r) ==
    [o \in Offs |-> IF r.ofs <= o /\ o < r.ofs + r.size THEN r.val ELSE old[o]]

\* Pick a slot after a miss: the first free slot, or run the eviction loop.
\* ret is the state the caller continues in once a slot index is known.
MissTo(t, ret) ==
    IF FreeSlots # {}
    THEN /\ idx' = [idx EXCEPT ![t] = Min(FreeSlots)]
         /\ pc' = [pc EXCEPT ![t] = ret]
    ELSE /\ pc' = [pc EXCEPT ![t] = "ev_scan"]
         /\ UNCHANGED idx

-----------------------------------------------------------------------------
Init ==
    /\ free = [i \in Slots |-> TRUE]
    /\ sector = [i \in Slots |-> 0]
    /\ dirty = [i \in Slots |-> FALSE]
    /\ accessed = [i \in Slots |-> FALSE]
    /\ data = [i \in Slots |-> Zero]
    /\ clockHand = 0
    /\ cacheLock = NONE
    /\ slotLock = [i \in Slots |-> NONE]
    /\ disk = [s \in Sectors |-> [o \in Offs |-> InitByte]]
    /\ pc = [t \in Threads |-> "idle"]
    /\ req = [t \in Threads |-> NoReq]
    /\ idx = [t \in Threads |-> 0]
    /\ inBuf = [t \in Threads |-> FALSE]
    /\ fi = [t \in Threads |-> 0]
    /\ ops = [t \in Threads |-> 0]
    /\ mem = disk
    /\ readOk = TRUE

\* A thread enters buffer_read, buffer_write or buffer_flush.
Call(t) ==
    /\ pc[t] = "idle"
    /\ ops[t] < MaxOps
    /\ \E r \in Requests :
         /\ r.kind \in Kinds
         /\ r.kind # "flush" => r.sec \in SectorsOf[t]
         /\ r.kind = "write" => <<r.ofs, r.size>> \in WriteShapes
         /\ req' = [req EXCEPT ![t] = r]
         /\ pc' = [pc EXCEPT ![t] = CASE r.kind = "read"  -> "r_lock"
                                      [] r.kind = "write" -> "w_lock"
                                      [] r.kind = "flush" -> "f_lock"]
    /\ ops' = [ops EXCEPT ![t] = @ + 1]
    /\ UNCHANGED <<cacheVars, lockVars, disk, idx, inBuf, fi, ghostVars>>

-----------------------------------------------------------------------------
(* buffer_read, lines 94-135.                                              *)

\* Mutant: the hit branch forgets to set in_buffer, so a hit re-reads the
\* sector from disk over the cached copy.
ReadLookupNoHitFlag(t) ==
    /\ pc[t] = "r_lock"
    /\ cacheLock = NONE
    /\ LET s == req[t].sec IN
       IF BufferSearch(s) >= 0
       THEN /\ idx' = [idx EXCEPT ![t] = BufferSearch(s)]
            /\ inBuf' = [inBuf EXCEPT ![t] = FALSE]
            /\ pc' = [pc EXCEPT ![t] = "r_slot"]
            /\ UNCHANGED cacheLock
       ELSE /\ inBuf' = [inBuf EXCEPT ![t] = FALSE]
            /\ MissTo(t, "r_slot")
            /\ cacheLock' = IF FreeSlots # {} THEN NONE ELSE t
    /\ UNCHANGED <<cacheVars, slotLock, disk, req, fi, ops, ghostVars>>

\* Lines 100-114: take the cache lock, count the access, search; on a hit
\* (or a miss served by a free slot) release the cache lock.
ReadLookup(t) ==
    /\ pc[t] = "r_lock"
    /\ cacheLock = NONE
    /\ LET s == req[t].sec IN
       IF BufferSearch(s) >= 0
       THEN /\ idx' = [idx EXCEPT ![t] = BufferSearch(s)]
            /\ inBuf' = [inBuf EXCEPT ![t] = TRUE]
            /\ pc' = [pc EXCEPT ![t] = "r_slot"]
            /\ UNCHANGED cacheLock
       ELSE /\ inBuf' = [inBuf EXCEPT ![t] = FALSE]
            /\ MissTo(t, "r_slot")
            /\ cacheLock' = IF FreeSlots # {} THEN NONE ELSE t
    /\ UNCHANGED <<cacheVars, slotLock, disk, req, fi, ops, ghostVars>>

\* Mutant: the miss branch of the re-validation tests the free flag the
\* wrong way round, so a reader that missed never gets past it.
ReadSlotInverted(t) ==
    /\ pc[t] = "r_slot"
    /\ slotLock[idx[t]] = NONE
    /\ LET i == idx[t]
           ok == \/ ~inBuf[t] /\ ~free[i]
                 \/ sector[i] = req[t].sec /\ ~free[i]
       IN  /\ slotLock' = IF ok THEN [slotLock EXCEPT ![i] = t] ELSE slotLock
           /\ pc' = [pc EXCEPT ![t] = IF ~ok THEN "r_lock"
                                       ELSE IF inBuf[t] THEN "r_copy" ELSE "r_fill"]
    /\ UNCHANGED <<cacheVars, cacheLock, disk, req, idx, inBuf, fi, ops, ghostVars>>

\* Lines 115-120: take the slot lock and re-validate the chosen slot; if
\* another thread changed it meanwhile, release it and retry from the top.
ReadSlot(t) ==
    /\ pc[t] = "r_slot"
    /\ slotLock[idx[t]] = NONE
    /\ LET i == idx[t]
           ok == \/ ~inBuf[t] /\ free[i]
                 \/ sector[i] = req[t].sec /\ ~free[i]
       IN  /\ slotLock' = IF ok THEN [slotLock EXCEPT ![i] = t] ELSE slotLock
           /\ pc' = [pc EXCEPT ![t] = IF ~ok THEN "r_lock"
                                       ELSE IF inBuf[t] THEN "r_copy" ELSE "r_fill"]
    /\ UNCHANGED <<cacheVars, cacheLock, disk, req, idx, inBuf, fi, ops, ghostVars>>

\* Line 126: block_read of the sector into the slot's buffer.
ReadFill(t) ==
    /\ pc[t] = "r_fill"
    /\ data' = [data EXCEPT ![idx[t]] = disk[req[t].sec]]
    /\ pc' = [pc EXCEPT ![t] = "r_mark"]
    /\ UNCHANGED <<free, sector, dirty, accessed, clockHand, lockVars, disk,
                   req, idx, inBuf, fi, ops, ghostVars>>

\* Lines 127-128: the slot now holds the sector.
ReadMark(t) ==
    /\ pc[t] = "r_mark"
    /\ free' = [free EXCEPT ![idx[t]] = FALSE]
    /\ sector' = [sector EXCEPT ![idx[t]] = req[t].sec]
    /\ pc' = [pc EXCEPT ![t] = "r_copy"]
    /\ UNCHANGED <<dirty, accessed, data, clockHand, lockVars, disk,
                   req, idx, inBuf, fi, ops, ghostVars>>

\* Lines 131-134: copy out, set the reference bit, release the slot lock.
ReadCopy(t) ==
    /\ pc[t] = "r_copy"
    /\ accessed' = [accessed EXCEPT ![idx[t]] = TRUE]
    /\ slotLock' = [slotLock EXCEPT ![idx[t]] = NONE]
    /\ readOk' = (readOk /\ data[idx[t]] = mem[req[t].sec])
    /\ pc' = [pc EXCEPT ![t] = "idle"]
    /\ UNCHANGED <<free, sector, dirty, data, clockHand, cacheLock, disk,
                   req, idx, inBuf, fi, ops, mem>>

-----------------------------------------------------------------------------
(* buffer_write, lines 139-161.                                            *)

\* Lines 140-146: take the cache lock, count the access, search.
WriteLookup(t) ==
    /\ pc[t] = "w_lock"
    /\ cacheLock = NONE
    /\ cacheLock' = t
    /\ LET s == req[t].sec IN
       IF BufferSearch(s) >= 0
       THEN /\ idx' = [idx EXCEPT ![t] = BufferSearch(s)]
            /\ pc' = [pc EXCEPT ![t] = "w_slot"]
       ELSE MissTo(t, "w_claim")
    /\ UNCHANGED <<cacheVars, slotLock, disk, req, inBuf, fi, ops, ghostVars>>

\* Lines 147-148: claim the slot for the sector (no block_read on a miss).
WriteClaim(t) ==
    /\ pc[t] = "w_claim"
    /\ free' = [free EXCEPT ![idx[t]] = FALSE]
    /\ sector' = [sector EXCEPT ![idx[t]] = req[t].sec]
    /\ pc' = [pc EXCEPT ![t] = "w_slot"]
    /\ UNCHANGED <<dirty, accessed, data, clockHand, lockVars, disk,
                   req, idx, inBuf, fi, ops, ghostVars>>

\* Lines 153-154: take the slot lock while holding the cache lock, then
\* release the cache lock.
WriteSlot(t) ==
    /\ pc[t] = "w_slot"
    /\ slotLock[idx[t]] = NONE
    /\ slotLock' = [slotLock EXCEPT ![idx[t]] = t]
    /\ cacheLock' = NONE
    /\ pc' = [pc EXCEPT ![t] = "w_copy"]
    /\ UNCHANGED <<cacheVars, disk, req, idx, inBuf, fi, ops, ghostVars>>

\* Lines 157-160: copy in, mark dirty and referenced, release the slot lock.
WriteCopy(t) ==
    /\ pc[t] = "w_copy"
    /\ data' = [data EXCEPT ![idx[t]] = Written(@, req[t])]
    /\ dirty' = [dirty EXCEPT ![idx[t]] = TRUE]
    /\ accessed' = [accessed EXCEPT ![idx[t]] = TRUE]
    /\ slotLock' = [slotLock EXCEPT ![idx[t]] = NONE]
    /\ mem' = [mem EXCEPT ![req[t].sec] = Written(@, req[t])]
    /\ pc' = [pc EXCEPT ![t] = "idle"]
    /\ UNCHANGED <<free, sector, clockHand, cacheLock, disk,
                   req, idx, inBuf, fi, ops, readOk>>

-----------------------------------------------------------------------------
(* buffer_evict, lines 54-70, run under the cache lock by a reader or a    *)
(* writer that found no free slot.  It takes no slot lock.                 *)

\* Mutant: the clock hand advances without wrapping around.
EvictScanNoWrap(t) ==
    /\ pc[t] = "ev_scan"
    /\ IF accessed[clockHand]
       THEN /\ accessed' = [accessed EXCEPT ![clockHand] = FALSE]
            /\ clockHand' = clockHand + 1
            /\ UNCHANGED pc
       ELSE /\ pc' = [pc EXCEPT ![t] = "ev_wb"]
            /\ UNCHANGED <<accessed, clockHand>>
    /\ UNCHANGED <<free, sector, dirty, data, lockVars, disk,
                   req, idx, inBuf, fi, ops, ghostVars>>

\* Lines 55-60: clear reference bits and advance until an unreferenced slot.
EvictScan(t) ==
    /\ pc[t] = "ev_scan"
    /\ IF accessed[clockHand]
       THEN /\ accessed' = [accessed EXCEPT ![clockHand] = FALSE]
            /\ clockHand' = (clockHand + 1) % NumBlocks
            /\ UNCHANGED pc
       ELSE /\ pc' = [pc EXCEPT ![t] = "ev_wb"]
            /\ UNCHANGED <<accessed, clockHand>>
    /\ UNCHANGED <<free, sector, dirty, data, lockVars, disk,
                   req, idx, inBuf, fi, ops, ghostVars>>

\* Mutant: the victim is dropped without being written back.
EvictWriteBackSkipped(t) ==
    /\ pc[t] = "ev_wb"
    /\ pc' = [pc EXCEPT ![t] = "ev_reset"]
    /\ UNCHANGED <<cacheVars, lockVars, disk, req, idx, inBuf, fi, ops, ghostVars>>

\* Lines 63-64: write the victim back if it is dirty.
EvictWriteBack(t) ==
    /\ pc[t] = "ev_wb"
    /\ disk' = IF dirty[clockHand]
               THEN [disk EXCEPT ![sector[clockHand]] = data[clockHand]]
               ELSE disk
    /\ pc' = [pc EXCEPT ![t] = "ev_reset"]
    /\ UNCHANGED <<cacheVars, lockVars, req, idx, inBuf, fi, ops, ghostVars>>

\* Lines 65-69, and the caller's use of the returned index: the reader
\* releases the cache lock (line 114), the writer claims the slot (147).
EvictReset(t) ==
    /\ pc[t] = "ev_reset"
    /\ free' = [free EXCEPT ![clockHand] = TRUE]
    /\ sector' = [sector EXCEPT ![clockHand] = 0]
    /\ dirty' = [dirty EXCEPT ![clockHand] = FALSE]
    /\ data' = [data EXCEPT ![clockHand] = Zero]
    /\ idx' = [idx EXCEPT ![t] = clockHand]
    /\ IF req[t].kind = "read"
       THEN /\ pc' = [pc EXCEPT ![t] = "r_slot"]
            /\ cacheLock' = NONE
       ELSE /\ pc' = [pc EXCEPT ![t] = "w_claim"]
            /\ UNCHANGED cacheLock
    /\ UNCHANGED <<accessed, clockHand, slotLock, disk, req, inBuf, fi, ops, ghostVars>>

-----------------------------------------------------------------------------
(* buffer_flush, lines 164-173: under the cache lock only.                 *)

FlushLock(t) ==
    /\ pc[t] = "f_lock"
    /\ cacheLock = NONE
    /\ cacheLock' = t
    /\ fi' = [fi EXCEPT ![t] = 0]
    /\ pc' = [pc EXCEPT ![t] = "f_scan"]
    /\ UNCHANGED <<cacheVars, slotLock, disk, req, idx, inBuf, ops, ghostVars>>

\* Lines 166-168: for each slot, write it back if dirty; after the last
\* slot release the cache lock (line 172).
FlushScan(t) ==
    /\ pc[t] = "f_scan"
    /\ LET i == fi[t] IN
       IF i = NumBlocks
       THEN /\ cacheLock' = NONE
            /\ pc' = [pc EXCEPT ![t] = "idle"]
            /\ UNCHANGED <<disk, fi>>
       ELSE IF dirty[i]
       THEN /\ disk' = [disk EXCEPT ![sector[i]] = data[i]]
            /\ pc' = [pc EXCEPT ![t] = "f_clear"]
            /\ UNCHANGED <<cacheLock, fi>>
       ELSE /\ fi' = [fi EXCEPT ![t] = i + 1]
            /\ UNCHANGED <<cacheLock, disk, pc>>
    /\ UNCHANGED <<cacheVars, slotLock, req, idx, inBuf, ops, ghostVars>>

\* Line 169: clear the dirty bit of the slot just written.
FlushClear(t) ==
    /\ pc[t] = "f_clear"
    /\ dirty' = [dirty EXCEPT ![fi[t]] = FALSE]
    /\ fi' = [fi EXCEPT ![t] = @ + 1]
    /\ pc' = [pc EXCEPT ![t] = "f_scan"]
    /\ UNCHANGED <<free, sector, accessed, data, clockHand, lockVars, disk,
                   req, idx, inBuf, ops, ghostVars>>

-----------------------------------------------------------------------------
Thread(t) ==
    \/ Call(t)
    \/ ReadLookup(t) \/ ReadSlot(t) \/ ReadFill(t) \/ ReadMark(t) \/ ReadCopy(t)
    \/ WriteLookup(t) \/ WriteClaim(t) \/ WriteSlot(t) \/ WriteCopy(t)
    \/ EvictScan(t) \/ EvictWriteBack(t) \/ EvictReset(t)
    \/ FlushLock(t) \/ FlushScan(t) \/ FlushClear(t)

\* Every thread has used up its operations and is back outside the cache.
Finished == \A t \in Threads : pc[t] = "idle" /\ ops[t] = MaxOps

Next ==
    \/ \E t \in Threads : Thread(t)
    \/ Finished /\ UNCHANGED vars

\* The Pintos scheduler preempts and resumes every ready thread, so a
\* thread that can take a step eventually does.
Spec == Init /\ [][Next]_vars /\ \A t \in Threads : WF_vars(Thread(t))

-----------------------------------------------------------------------------
(* Properties.                                                             *)

TypeOK ==
    /\ free \in [Slots -> BOOLEAN]
    /\ sector \in [Slots -> Sectors]
    /\ dirty \in [Slots -> BOOLEAN]
    /\ accessed \in [Slots -> BOOLEAN]
    /\ data \in [Slots -> [Offs -> Vals]]
    /\ clockHand \in Slots
    /\ cacheLock \in Threads \cup {NONE}
    /\ slotLock \in [Slots -> Threads \cup {NONE}]
    /\ disk \in [Sectors -> [Offs -> Vals]]
    /\ pc \in [Threads -> PCs]
    /\ req \in [Threads -> Requests \cup {NoReq}]
    /\ idx \in [Threads -> Slots]
    /\ fi \in [Threads -> 0..NumBlocks]
    /\ ops \in [Threads -> 0..MaxOps]

\* No thread is inside the cache.
Quiescent == \A t \in Threads : pc[t] = "idle"

\* The contents a reader of sector s would get: the cached copy if the
\* sector is resident, the disk otherwise.
View(s) ==
    IF BufferSearch(s) >= 0 THEN data[BufferSearch(s)] ELSE disk[s]

\* Spec 8.1 (cache coherence): every buffer_read returns the bytes of the
\* last buffer_write to that sector, however the reads, writes, evictions
\* and write-backs of all threads interleaved.
ReadsSeeLastWrite == readOk

\* Spec 8.3 (write-back): when no thread is inside the cache, every sector
\* reads as the last writes left it: no dirty slot was dropped by eviction
\* and no write-back put stale bytes on disk under a resident copy.
NoLostWrite == Quiescent => \A s \in Sectors : View(s) = mem[s]

\* Every call into the cache returns: the re-validation retry loop of
\* buffer_read and the lock waits do not starve a thread forever.
CallsReturn == \A t \in Threads : pc[t] # "idle" ~> pc[t] = "idle"
=============================================================================
