--------------------------- MODULE OpenInodeTable ---------------------------
(***************************************************************************)
(* The open-inode table of src/src/filesys/inode.c: the list open_inodes   *)
(* under open_inodes_lock, and per-record open_cnt, deny_write_cnt and     *)
(* removed under the record's inode_lock.  Operations: inode_open,         *)
(* inode_reopen, inode_close, inode_remove, inode_deny_write and           *)
(* inode_allow_write, called by concurrent kernel threads that each keep   *)
(* a few handles (the struct inode pointers held by files and dirs).       *)
(*                                                                         *)
(* A record is a block of kernel heap: malloc hands out a block of Recs    *)
(* that is not in use, and its fields hold whatever the block held before  *)
(* they are assigned (the build either poisons freed blocks or leaves old  *)
(* contents), so an unassigned field is a nondeterministic Garbage value.  *)
(* Releasing an inode's sectors to the free map is counted per home        *)
(* sector in released.                                                     *)
(***************************************************************************)
EXTENDS Naturals, Integers, Sequences, FiniteSets

CONSTANTS
    Threads,      \* kernel threads
    Sectors,      \* home sectors of existing inodes
    Recs,         \* heap blocks a struct inode can occupy
    HSlots,       \* handles a thread can hold at once
    MaxOps,       \* bound on the operations each thread performs
    JUNK,         \* a sector field holding no valid sector number
    NONE          \* no lock holder / empty handle slot

ASSUME MaxOps \in Nat

\* Values an unassigned field of a freshly malloc'd record can hold.
Garbage ==
    [sector : Sectors \cup {JUNK}, cnt : {0, 1}, deny : {0}, removed : BOOLEAN]

VARIABLES
    openList,   \* open_inodes, front first
    rec,        \* the struct inode fields of each heap block
    alive,      \* heap blocks currently allocated to a struct inode
    listLock,   \* holder of open_inodes_lock
    inodeLock,  \* holder of each record's inode_lock
    released,   \* free_map_release calls per home sector
    unlinked,   \* sectors whose directory entry is gone (no new opens)
    pc, cur, sec, slot, hnd, denied, ops

vars == <<openList, rec, alive, listLock, inodeLock, released, unlinked,
          pc, cur, sec, slot, hnd, denied, ops>>

PCs == {"idle", "o_lock", "o_reopen", "o_new", "o_init_sector", "o_init_rest",
        "reopen", "c_allow", "c_lock", "c_list", "c_free", "c_done",
        "remove", "deny", "allow"}

-----------------------------------------------------------------------------
\* The record a handle of t refers to, by slot.
Held(t) == {k \in HSlots : hnd[t][k] # NONE}
FreeSlots(t) == {k \in HSlots : hnd[t][k] = NONE}

\* The first record of open_inodes whose sector field equals s (lines 512-514).
Lookup(s) ==
    LET hits == {i \in 1..Len(openList) : rec[openList[i]].sector = s}
    IN  IF hits = {} THEN NONE
        ELSE openList[CHOOSE i \in hits : \A j \in hits : i <= j]

Goto(t, where) == pc' = [pc EXCEPT ![t] = where]

\* Store record r into handle slot slot[t] of thread t.
Give(t, r) == hnd' = [hnd EXCEPT ![t][slot[t]] = r]

-----------------------------------------------------------------------------
\* inode_init, lines 234-237: an empty table; every inode's home sector is
\* allocated on disk.
Init ==
    /\ openList = <<>>
    /\ rec = [r \in Recs |-> [sector |-> JUNK, cnt |-> 0, deny |-> 0, removed |-> FALSE]]
    /\ alive = {}
    /\ listLock = NONE
    /\ inodeLock = [r \in Recs |-> NONE]
    /\ released = [s \in Sectors |-> 0]
    /\ unlinked = {}
    /\ pc = [t \in Threads |-> "idle"]
    /\ cur = [t \in Threads |-> NONE]
    /\ sec = [t \in Threads |-> CHOOSE s \in Sectors : TRUE]
    /\ slot = [t \in Threads |-> CHOOSE k \in HSlots : TRUE]
    /\ hnd = [t \in Threads |-> [k \in HSlots |-> NONE]]
    /\ denied = [t \in Threads |-> [k \in HSlots |-> FALSE]]
    /\ ops = [t \in Threads |-> 0]

\* A thread starts one operation: open a sector into a free handle slot, or
\* reopen, close, remove, deny or allow writes through a handle it holds.
\* Only a sector a directory still names can be opened anew.
\* file_close allows writes first if the handle denied them.
Call(t) ==
    /\ pc[t] = "idle"
    /\ ops[t] < MaxOps
    /\ ops' = [ops EXCEPT ![t] = @ + 1]
    /\ \/ \E s \in Sectors \ unlinked, k \in FreeSlots(t) :
            /\ sec' = [sec EXCEPT ![t] = s]
            /\ slot' = [slot EXCEPT ![t] = k]
            /\ Goto(t, "o_lock")
            /\ UNCHANGED cur
       \/ \E k \in Held(t) :
            /\ slot' = [slot EXCEPT ![t] = k]
            /\ cur' = [cur EXCEPT ![t] = hnd[t][k]]
            /\ \/ FreeSlots(t) # {} /\ Goto(t, "reopen")
               \/ Goto(t, IF denied[t][k] THEN "c_allow" ELSE "c_lock")
               \/ Goto(t, "remove")
               \/ ~denied[t][k] /\ Goto(t, "deny")
               \/ denied[t][k] /\ Goto(t, "allow")
            /\ UNCHANGED sec
    /\ UNCHANGED <<openList, rec, alive, listLock, inodeLock, released, unlinked, hnd, denied>>

-----------------------------------------------------------------------------
(* inode_open, lines 506-537.                                              *)

\* Lines 511-519: take the table lock and scan for the sector.
OpenScan(t) ==
    /\ pc[t] = "o_lock"
    /\ listLock = NONE
    /\ listLock' = t
    /\ cur' = [cur EXCEPT ![t] = Lookup(sec[t])]
    /\ Goto(t, IF Lookup(sec[t]) # NONE THEN "o_reopen" ELSE "o_new")
    /\ UNCHANGED <<openList, rec, alive, inodeLock, released, unlinked, sec, slot, hnd, denied, ops>>

\* Mutant: the record found is returned without inode_reopen.
OpenReopenNoCount(t) ==
    /\ pc[t] = "o_reopen"
    /\ inodeLock[cur[t]] = NONE
    /\ listLock' = NONE
    /\ Give(t, cur[t])
    /\ Goto(t, "idle")
    /\ UNCHANGED <<openList, rec, alive, inodeLock, released, unlinked, cur, sec, slot, denied, ops>>

\* Lines 515-517: inode_reopen on the record found (taking its inode_lock
\* while holding the table lock), then release the table lock.
OpenReopen(t) ==
    /\ pc[t] = "o_reopen"
    /\ inodeLock[cur[t]] = NONE
    /\ rec' = [rec EXCEPT ![cur[t]].cnt = @ + 1]
    /\ listLock' = NONE
    /\ Give(t, cur[t])
    /\ Goto(t, "idle")
    /\ UNCHANGED <<openList, alive, inodeLock, released, unlinked, cur, sec, slot, denied, ops>>

\* Lines 522-531: malloc a record (its fields are garbage), or fail with
\* NULL; push it on the front of the list and release the table lock.
OpenInsert(t) ==
    /\ pc[t] = "o_new"
    /\ IF Recs \ alive = {}
       THEN /\ Goto(t, "idle")
            /\ UNCHANGED <<openList, rec, alive, cur>>
       ELSE \E r \in Recs \ alive, g \in Garbage :
            /\ rec' = [rec EXCEPT ![r] = g]
            /\ alive' = alive \cup {r}
            /\ openList' = <<r>> \o openList
            /\ cur' = [cur EXCEPT ![t] = r]
            /\ Goto(t, "o_init_sector")
    /\ listLock' = NONE
    /\ UNCHANGED <<inodeLock, released, unlinked, sec, slot, hnd, denied, ops>>

\* Line 532: the sector field is set, after the record is already visible.
OpenInitSector(t) ==
    /\ pc[t] = "o_init_sector"
    /\ rec' = [rec EXCEPT ![cur[t]].sector = sec[t]]
    /\ Goto(t, "o_init_rest")
    /\ UNCHANGED <<openList, alive, listLock, inodeLock, released, unlinked, cur, sec, slot, hnd, denied, ops>>

\* Lines 533-536: the counters and flag are set, and the record returned.
OpenInitRest(t) ==
    /\ pc[t] = "o_init_rest"
    /\ rec' = [rec EXCEPT ![cur[t]].cnt = 1, ![cur[t]].deny = 0, ![cur[t]].removed = FALSE]
    /\ Give(t, cur[t])
    /\ Goto(t, "idle")
    /\ UNCHANGED <<openList, alive, listLock, inodeLock, released, unlinked, cur, sec, slot, denied, ops>>

-----------------------------------------------------------------------------
\* inode_reopen, lines 540-547: open_cnt++ under the inode lock; the
\* reopened reference goes into another handle slot.
Reopen(t) ==
    /\ pc[t] = "reopen"
    /\ inodeLock[cur[t]] = NONE
    /\ rec' = [rec EXCEPT ![cur[t]].cnt = @ + 1]
    /\ \E k \in FreeSlots(t) : hnd' = [hnd EXCEPT ![t][k] = cur[t]]
    /\ Goto(t, "idle")
    /\ UNCHANGED <<openList, alive, listLock, inodeLock, released, unlinked, cur, sec, slot, denied, ops>>

-----------------------------------------------------------------------------
(* inode_close, lines 555-582.                                             *)

\* Mutant: the last-opener test is off by one.
CloseLockOffByOne(t) ==
    /\ pc[t] = "c_lock"
    /\ inodeLock[cur[t]] = NONE
    /\ rec' = [rec EXCEPT ![cur[t]].cnt = @ - 1]
    /\ hnd' = [hnd EXCEPT ![t][slot[t]] = NONE]
    /\ IF rec[cur[t]].cnt - 1 <= 1
       THEN /\ inodeLock' = [inodeLock EXCEPT ![cur[t]] = t]
            /\ Goto(t, "c_list")
       ELSE /\ Goto(t, "idle")
            /\ UNCHANGED inodeLock
    /\ UNCHANGED <<openList, alive, listLock, released, unlinked, cur, sec, slot, denied, ops>>

\* Lines 561-562: take the inode lock and decrement; if other openers
\* remain, release it (line 580) and return.
CloseLock(t) ==
    /\ pc[t] = "c_lock"
    /\ inodeLock[cur[t]] = NONE
    /\ rec' = [rec EXCEPT ![cur[t]].cnt = @ - 1]
    /\ hnd' = [hnd EXCEPT ![t][slot[t]] = NONE]
    /\ IF rec[cur[t]].cnt - 1 = 0
       THEN /\ inodeLock' = [inodeLock EXCEPT ![cur[t]] = t]
            /\ Goto(t, "c_list")
       ELSE /\ Goto(t, "idle")
            /\ UNCHANGED inodeLock
    /\ UNCHANGED <<openList, alive, listLock, released, unlinked, cur, sec, slot, denied, ops>>

\* Mutant: the removed flag is not consulted, so no close releases sectors.
CloseUnlinkNoRelease(t) ==
    /\ pc[t] = "c_list"
    /\ listLock = NONE
    /\ openList' = SelectSeq(openList, LAMBDA r : r # cur[t])
    /\ Goto(t, "c_done")
    /\ UNCHANGED <<rec, alive, listLock, inodeLock, released, unlinked, cur, sec, slot, hnd, denied, ops>>

\* Lines 564-566: with the inode lock held, take the table lock and unlink.
CloseUnlink(t) ==
    /\ pc[t] = "c_list"
    /\ listLock = NONE
    /\ openList' = SelectSeq(openList, LAMBDA r : r # cur[t])
    /\ Goto(t, IF rec[cur[t]].removed THEN "c_free" ELSE "c_done")
    /\ UNCHANGED <<rec, alive, listLock, inodeLock, released, unlinked, cur, sec, slot, hnd, denied, ops>>

\* Lines 569-575: a removed inode releases its data and home sectors.
CloseRelease(t) ==
    /\ pc[t] = "c_free"
    /\ released' = [released EXCEPT ![rec[cur[t]].sector] = @ + 1]
    /\ Goto(t, "c_done")
    /\ UNCHANGED <<openList, rec, alive, listLock, inodeLock, unlinked, cur, sec, slot, hnd, denied, ops>>

\* Lines 576-578: release the inode lock and free the record.
CloseFree(t) ==
    /\ pc[t] = "c_done"
    /\ inodeLock' = [inodeLock EXCEPT ![cur[t]] = NONE]
    /\ alive' = alive \ {cur[t]}
    /\ Goto(t, "idle")
    /\ UNCHANGED <<openList, rec, listLock, released, unlinked, cur, sec, slot, hnd, denied, ops>>

-----------------------------------------------------------------------------
\* inode_remove, lines 586-591: mark the inode removed under its lock.
\* Its caller, dir_remove, has already erased the directory entry.
Remove(t) ==
    /\ pc[t] = "remove"
    /\ inodeLock[cur[t]] = NONE
    /\ rec' = [rec EXCEPT ![cur[t]].removed = TRUE]
    /\ unlinked' = unlinked \cup {rec[cur[t]].sector}
    /\ Goto(t, "idle")
    /\ UNCHANGED <<openList, alive, listLock, inodeLock, released, cur, sec, slot, hnd, denied, ops>>

\* inode_deny_write, lines 689-694.
DenyWrite(t) ==
    /\ pc[t] = "deny"
    /\ inodeLock[cur[t]] = NONE
    /\ rec' = [rec EXCEPT ![cur[t]].deny = @ + 1]
    /\ denied' = [denied EXCEPT ![t][slot[t]] = TRUE]
    /\ Goto(t, "idle")
    /\ UNCHANGED <<openList, alive, listLock, inodeLock, released, unlinked, cur, sec, slot, hnd, ops>>

\* Mutant: allow-write forgets to decrement deny_write_cnt.
AllowWriteNoDecrement(t) ==
    /\ pc[t] \in {"allow", "c_allow"}
    /\ inodeLock[cur[t]] = NONE
    /\ denied' = [denied EXCEPT ![t][slot[t]] = FALSE]
    /\ Goto(t, IF pc[t] = "allow" THEN "idle" ELSE "c_lock")
    /\ UNCHANGED <<openList, rec, alive, listLock, inodeLock, released, unlinked, cur, sec, slot, hnd, ops>>

\* inode_allow_write, lines 699-705, on its own or as the first step of
\* closing a handle that denied writes.
AllowWrite(t) ==
    /\ pc[t] \in {"allow", "c_allow"}
    /\ inodeLock[cur[t]] = NONE
    /\ rec' = [rec EXCEPT ![cur[t]].deny = @ - 1]
    /\ denied' = [denied EXCEPT ![t][slot[t]] = FALSE]
    /\ Goto(t, IF pc[t] = "allow" THEN "idle" ELSE "c_lock")
    /\ UNCHANGED <<openList, alive, listLock, inodeLock, released, unlinked, cur, sec, slot, hnd, ops>>

-----------------------------------------------------------------------------
Thread(t) ==
    \/ Call(t)
    \/ OpenScan(t) \/ OpenReopen(t) \/ OpenInsert(t) \/ OpenInitSector(t) \/ OpenInitRest(t)
    \/ Reopen(t)
    \/ CloseLock(t) \/ CloseUnlink(t) \/ CloseRelease(t) \/ CloseFree(t)
    \/ Remove(t) \/ DenyWrite(t) \/ AllowWrite(t)

\* Every thread has used its operations and is outside the inode layer.
Finished == \A t \in Threads : pc[t] = "idle" /\ ops[t] = MaxOps

Next ==
    \/ \E t \in Threads : Thread(t)
    \/ Finished /\ UNCHANGED vars

Spec == Init /\ [][Next]_vars /\ \A t \in Threads : WF_vars(Thread(t))

-----------------------------------------------------------------------------
(* Properties.                                                             *)

TypeOK ==
    /\ openList \in Seq(Recs)
    /\ rec \in [Recs -> [sector : Sectors \cup {JUNK}, cnt : Nat, deny : Nat, removed : BOOLEAN]]
    /\ alive \subseteq Recs
    /\ listLock \in Threads \cup {NONE}
    /\ inodeLock \in [Recs -> Threads \cup {NONE}]
    /\ released \in [Sectors -> Nat]
    /\ pc \in [Threads -> PCs]
    /\ hnd \in [Threads -> [HSlots -> Recs \cup {NONE}]]
    /\ denied \in [Threads -> [HSlots -> BOOLEAN]]

\* Number of handles, over all threads, that refer to record r.
Holders(r) == Cardinality({<<t, k>> \in Threads \X HSlots : hnd[t][k] = r})

\* Records some handle refers to.
HeldRecs == {hnd[t][k] : t \in Threads, k \in HSlots} \ {NONE}

\* Spec 8.6 (open-inode uniqueness): two handles on the same inode refer
\* to the same record, however concurrent inode_open calls interleave with
\* the initialisation of a record that is already on the list.
OpenInodeUnique ==
    \A r1, r2 \in HeldRecs : rec[r1].sector = rec[r2].sector => r1 = r2

\* Spec 8.6 (reference count): when no thread is inside the inode layer,
\* every record's open_cnt equals the number of handles that refer to it.
OpenCountMatchesHandles ==
    (\A t \in Threads : pc[t] = "idle") =>
        \A r \in alive : rec[r].cnt = Holders(r)

\* Spec 8.7 / free_map_release's assertion: a removed inode's sectors are
\* released at most once, and only when no handle refers to the inode.
ReleasedOnceWhenUnused ==
    \A s \in Sectors :
        /\ released[s] <= 1
        /\ released[s] = 1 => \A r \in HeldRecs : rec[r].sector # s

\* The assertion of inode_deny_write and inode_allow_write (lines 692,
\* 701-702): 0 <= deny_write_cnt <= open_cnt on every record in use.
DenyWithinOpen ==
    \A r \in HeldRecs : 0 <= rec[r].deny /\ rec[r].deny <= rec[r].cnt

\* The lock a thread is blocked on in its current step, if any.
Wants(t) ==
    CASE pc[t] = "o_lock" -> "list"
      [] pc[t] = "c_list" -> "list"
      [] pc[t] \in {"o_reopen", "reopen", "c_lock", "c_allow", "remove", "deny", "allow"}
            -> cur[t]
      [] OTHER -> NONE
Holds(t, l) ==
    IF l = "list" THEN listLock = t ELSE l \in Recs /\ inodeLock[l] = t

\* No two threads each wait for a lock the other holds: inode_open takes
\* inode_lock under open_inodes_lock, inode_close takes them the other way.
NoCircularWait ==
    \A t1, t2 \in Threads :
        ~(t1 # t2 /\ Wants(t1) # NONE /\ Wants(t2) # NONE
          /\ Holds(t2, Wants(t1)) /\ Holds(t1, Wants(t2)))
-----------------------------------------------------------------------------
(* Refinement.  The table implements OpenFiles: a handle slot names the   *)
(* home sector of the record it points to, and unlinked and released are *)
(* the same variables.  Every step of the table is a step of OpenFiles or *)
(* leaves that view unchanged: OpenReopen and OpenInitRest are its Open,  *)
(* Reopen its Reopen, CloseLock its Close, Remove its Remove and          *)
(* CloseRelease its Release.                                               *)
HandleSectors ==
    [t \in Threads |-> [k \in HSlots |->
        IF hnd[t][k] = NONE THEN NONE ELSE rec[hnd[t][k]].sector]]

Abstract == INSTANCE OpenFiles WITH handle <- HandleSectors

(* inode_open, inode_reopen, inode_close and inode_remove together keep   *)
(* the promise of OpenFiles: opens only of linked inodes, and every       *)
(* removed inode's sectors released exactly once, after its last close,   *)
(* and eventually.                                                        *)
OpenFilesSpec == Abstract!Spec
=============================================================================
