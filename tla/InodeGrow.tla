----------------------------- MODULE InodeGrow -----------------------------
(***************************************************************************)
(* Growth of a file and the rollback walk of a failed growth               *)
(* (src/src/filesys/inode.c: inode_grow_file, inode_release, and the       *)
(* growth block of inode_write_at).                                        *)
(*                                                                         *)
(* The index geometry keeps the code's shape with scaled constants: ND     *)
(* direct pointers (123 in the code), one indirect block of NP pointers    *)
(* (128), and one doubly-indirect block of NP indirect blocks.  Every      *)
(* literal of the code is written in terms of them: 122 = ND-1,            *)
(* 123 = ND, 122+128 = ND+NP-1, 123+128 = ND+NP, 123+128+128*128 = MaxBlk.  *)
(*                                                                         *)
(* Growth runs under free_map_lock (inode.c:649), so one caller at a time  *)
(* is modelled and every loop iteration is one step.  The buffer cache is  *)
(* abstracted to the sector store `content' it implements (BufferCache     *)
(* checks that layer); a sector is seen as an array of NP sector numbers.  *)
(* The free map (free-map.c, not in this tree) is the set `used' of        *)
(* allocated sectors with first-fit allocation, as the spec describes it.  *)
(***************************************************************************)
EXTENDS Naturals, FiniteSets
LOCAL INSTANCE FiniteSetsExt

CONSTANTS
    ND,           \* number of direct pointers in inode_disk
    NP,           \* sector numbers per pointer block
    NumSectors,   \* sectors of the device
    BlockSize,    \* BLOCK_SECTOR_SIZE, in model bytes
    HOME,         \* home sector of the file being grown
    Sizes,        \* offset + size values a write may ask for
    GarbageVals,  \* values a fresh malloc'd pointer array may hold
    MaxOps        \* writes per behaviour

FREE_MAP_SECTOR == 0
Sectors == 0..(NumSectors - 1)
MaxBlk == ND + NP + NP * NP
Ptrs == [0..(NP - 1) -> Sectors]
ZeroBlock == [i \in 0..(NP - 1) |-> 0]
Inodes == [length : Nat, direct : [0..(ND - 1) -> Sectors],
           indirect : Sectors, doubly : Sectors]

ASSUME HOME \in Sectors \ {FREE_MAP_SECTOR} /\ GarbageVals \subseteq Sectors

\* bytes_to_sectors (inode.c:183)
BytesToSectors(size) == (size + BlockSize - 1) \div BlockSize

VARIABLES
    used,      \* free map: sectors whose bit is set
    content,   \* on-disk (cached) contents of every sector, as pointers
    inode,     \* the inode_disk record at HOME
    pc,
    loc,       \* the caller's malloc'd copy of inode_disk
    want,      \* offset + size
    start, endb, cur, darr, iarr, idx, off,   \* inode_grow_file locals
    rend, rcur, rdarr, riarr, ridx, roff,     \* inode_release locals
    before,    \* ghost: free map at entry to the write
    result, failed,    \* ghost: outcome of the last growth
    ops

growVars == <<start, endb, cur, darr, iarr, idx, off>>
relVars == <<rend, rcur, rdarr, riarr, ridx, roff>>
vars == <<used, content, inode, pc, loc, want, growVars, relVars,
          before, result, failed, ops>>

(* free_map_allocate(1, &p) with the bitmap's first-fit scan. *)
NoSpace == Sectors \subseteq used
FirstFree == Min(Sectors \ used)

(* free_map_release(s, 1). *)
Release(s) == used' = used \ {s}

(* The call inode_release(inode_disk, starting_block, cur_block). *)
CallRelease == /\ pc' = "r_start"
               /\ rend' = cur
               /\ UNCHANGED <<used, content, inode, loc, want, growVars,
                              rcur, rdarr, riarr, ridx, roff,
                              before, result, failed, ops>>

Init ==
    \* the state inode_create(HOME, 0, false) leaves on a formatted disk
    /\ used = {FREE_MAP_SECTOR, HOME}
    /\ content = [s \in Sectors |-> ZeroBlock]
    /\ inode = [length |-> 0, direct |-> [i \in 0..(ND - 1) |-> 0],
                indirect |-> 0, doubly |-> 0]
    /\ pc = "idle"
    /\ loc = inode
    /\ want = 0
    /\ start = 0 /\ endb = 0 /\ cur = 0 /\ darr = ZeroBlock
    /\ iarr = ZeroBlock /\ idx = 0 /\ off = 0
    /\ rend = 0 /\ rcur = 0 /\ rdarr = ZeroBlock /\ riarr = ZeroBlock
    /\ ridx = 0 /\ roff = 0
    /\ before = used
    /\ result = "none"
    /\ failed = FALSE
    /\ ops = 0

(* inode_write_at, lines 643-650: read inode_disk; grow when the write    *)
(* ends past its length.                                                  *)
WriteAt ==
    /\ pc = "idle" /\ ops < MaxOps
    /\ \E n \in Sizes :
         /\ n > inode.length
         /\ want' = n
    /\ loc' = inode
    /\ before' = used
    /\ ops' = ops + 1
    /\ pc' = "g_start"
    /\ UNCHANGED <<used, content, inode, growVars, relVars, result, failed>>

(* Line 647 false: the write fits and no growth is attempted. *)
WriteAtFits ==
    /\ pc = "idle" /\ ops < MaxOps
    /\ \E n \in Sizes : n <= inode.length
    /\ ops' = ops + 1
    /\ UNCHANGED <<used, content, inode, pc, loc, want, growVars, relVars,
                   before, result, failed>>

(* inode_grow_file, lines 332-342. *)
GrowStart ==
    /\ pc = "g_start"
    /\ LET s == BytesToSectors(loc.length)
           e == BytesToSectors(want)
       IN /\ start' = s /\ endb' = e /\ cur' = s
          /\ pc' = CASE s = e      -> "g_ok"
                     [] e > MaxBlk -> "g_fail"
                     [] OTHER      -> "g_direct"
    /\ UNCHANGED <<used, content, inode, loc, want, darr, iarr, idx, off,
                   relVars, before, result, failed, ops>>

(* Lines 344-359: one direct pointer, zero-filled through the cache. *)
GrowDirect ==
    /\ pc = "g_direct" /\ cur <= ND - 1
    /\ \/ NoSpace /\ CallRelease
       \/ /\ ~NoSpace
          /\ LET s == FirstFree IN
               /\ used' = used \cup {s}
               /\ loc' = [loc EXCEPT !.direct[cur] = s]
               /\ content' = [content EXCEPT ![s] = ZeroBlock]
          /\ cur' = cur + 1
          /\ pc' = IF cur + 1 = endb THEN "g_ok" ELSE "g_direct"
          /\ UNCHANGED <<inode, want, start, endb, darr, iarr, idx, off,
                         relVars, before, result, failed, ops>>

(* Lines 362-370: the pointer array is malloc'd; a missing indirect block *)
(* is allocated (its sector is not written), else the array is read.      *)
GrowIndirectAlloc ==
    /\ pc = "g_direct" /\ cur > ND - 1
    /\ \/ loc.indirect = 0 /\ NoSpace /\ CallRelease
       \/ /\ loc.indirect = 0 /\ ~NoSpace
          /\ used' = used \cup {FirstFree}
          /\ loc' = [loc EXCEPT !.indirect = FirstFree]
          /\ darr' \in [0..(NP - 1) -> GarbageVals]
          /\ pc' = "g_ind"
          /\ UNCHANGED <<content, inode, want, start, endb, cur, iarr, idx,
                         off, relVars, before, result, failed, ops>>
       \/ /\ loc.indirect # 0
          /\ darr' = content[loc.indirect]
          /\ pc' = "g_ind"
          /\ UNCHANGED <<used, content, inode, loc, want, start, endb, cur,
                         iarr, idx, off, relVars, before, result, failed, ops>>

(* Mutant: the indirect block is not written back when growth ends in it. *)
GrowIndirectNoWriteBack ==
    /\ pc = "g_ind" /\ cur <= ND + NP - 1
    /\ \/ NoSpace /\ CallRelease
       \/ /\ ~NoSpace
          /\ used' = used \cup {FirstFree}
          /\ darr' = [darr EXCEPT ![cur - ND] = FirstFree]
          /\ content' = [content EXCEPT ![FirstFree] = ZeroBlock]
          /\ cur' = cur + 1
          /\ pc' = IF cur + 1 = endb THEN "g_ok" ELSE "g_ind"
          /\ UNCHANGED <<inode, loc, want, start, endb, iarr, idx, off,
                         relVars, before, result, failed, ops>>

(* Lines 372-389: one pointer of the indirect block; the block is written *)
(* back when growth ends inside it.                                       *)
GrowIndirect ==
    /\ pc = "g_ind" /\ cur <= ND + NP - 1
    /\ \/ NoSpace /\ CallRelease
       \/ /\ ~NoSpace
          /\ LET s == FirstFree
                 d == [darr EXCEPT ![cur - ND] = s]
             IN /\ used' = used \cup {s}
                /\ darr' = d
                /\ content' = IF cur + 1 = endb
                               THEN [content EXCEPT ![s] = ZeroBlock,
                                                    ![loc.indirect] = d]
                               ELSE [content EXCEPT ![s] = ZeroBlock]
          /\ cur' = cur + 1
          /\ pc' = IF cur + 1 = endb THEN "g_ok" ELSE "g_ind"
          /\ UNCHANGED <<inode, loc, want, start, endb, iarr, idx, off,
                         relVars, before, result, failed, ops>>

(* Lines 391-406: the full indirect block is written back; the doubly-    *)
(* indirect array is malloc'd, then allocated (unwritten) or read.        *)
(* Lines 405-406: position of cur_block inside the doubly-indirect tree. *)
DoublyPos == /\ idx' = (cur - ND - NP) \div NP
             /\ off' = (cur - ND - NP) % NP
             /\ pc' = "g_dbl_outer"

GrowDoublyAlloc ==
    /\ pc = "g_ind" /\ cur > ND + NP - 1
    /\ content' = [content EXCEPT ![loc.indirect] = darr]
    /\ \/ /\ loc.doubly = 0 /\ NoSpace
          /\ pc' = "r_start" /\ rend' = cur
          /\ UNCHANGED <<used, loc, iarr, idx, off,
                         rcur, rdarr, riarr, ridx, roff>>
       \/ /\ loc.doubly = 0 /\ ~NoSpace
          /\ used' = used \cup {FirstFree}
          /\ loc' = [loc EXCEPT !.doubly = FirstFree]
          /\ iarr' \in [0..(NP - 1) -> GarbageVals]
          /\ DoublyPos
          /\ UNCHANGED relVars
       \/ /\ loc.doubly # 0
          /\ iarr' = content[loc.doubly]
          /\ DoublyPos
          /\ UNCHANGED <<used, loc, relVars>>
    /\ UNCHANGED <<inode, want, start, endb, cur, darr, before,
                   result, failed, ops>>

(* Lines 408-419: the pointer array of indirect block idx is malloc'd;    *)
(* the block is allocated (unwritten) if growth started at or before it,  *)
(* else read.  The failure return leaves both arrays unfreed.             *)
GrowDoublyOuter ==
    /\ pc = "g_dbl_outer" /\ cur <= MaxBlk - 1
    /\ \/ /\ start <= ND + NP + idx * NP /\ NoSpace
          /\ CallRelease
       \/ /\ start <= ND + NP + idx * NP /\ ~NoSpace
          /\ used' = used \cup {FirstFree}
          /\ iarr' = [iarr EXCEPT ![idx] = FirstFree]
          /\ darr' \in [0..(NP - 1) -> GarbageVals]
          /\ pc' = "g_dbl_inner"
          /\ UNCHANGED <<content, inode, loc, want, start, endb, cur, idx,
                         off, relVars, before, result, failed, ops>>
       \/ /\ start > ND + NP + idx * NP
          /\ darr' = content[iarr[idx]]
          /\ pc' = "g_dbl_inner"
          /\ UNCHANGED <<used, content, inode, loc, want, start, endb, cur,
                         iarr, idx, off, relVars, before, result, failed, ops>>

(* Lines 421-442: one data pointer of indirect block idx; when growth     *)
(* ends here both the indirect block and the doubly-indirect block are    *)
(* written back.                                                          *)
GrowDoublyInner ==
    /\ pc = "g_dbl_inner" /\ off < NP
    /\ \/ NoSpace /\ CallRelease
       \/ /\ ~NoSpace
          /\ LET s == FirstFree
                 d == [darr EXCEPT ![off] = s]
             IN /\ used' = used \cup {s}
                /\ darr' = d
                /\ content' = IF cur + 1 = endb
                               THEN [content EXCEPT ![s] = ZeroBlock,
                                                    ![iarr[idx]] = d,
                                                    ![loc.doubly] = iarr]
                               ELSE [content EXCEPT ![s] = ZeroBlock]
          /\ cur' = cur + 1
          /\ off' = off + 1
          /\ pc' = IF cur + 1 = endb THEN "g_ok" ELSE "g_dbl_inner"
          /\ UNCHANGED <<inode, loc, want, start, endb, iarr, idx,
                         relVars, before, result, failed, ops>>

(* Lines 444-448: a full indirect block is written back. *)
GrowDoublyNext ==
    /\ pc = "g_dbl_inner" /\ off >= NP
    /\ content' = [content EXCEPT ![iarr[idx]] = darr]
    /\ idx' = idx + 1
    /\ off' = 0
    /\ pc' = "g_dbl_outer"
    /\ UNCHANGED <<used, inode, loc, want, start, endb, cur, darr, iarr,
                   relVars, before, result, failed, ops>>

(* inode_release, lines 252-255: nothing to undo when no block was added. *)
ReleaseStart ==
    /\ pc = "r_start"
    /\ IF rend = start THEN pc' = "g_fail" /\ UNCHANGED rcur
                       ELSE pc' = "r_direct" /\ rcur' = start
    /\ UNCHANGED <<used, content, inode, loc, want, growVars, rend, rdarr,
                   riarr, ridx, roff, before, result, failed, ops>>

(* Mutant: the walk does not advance cur_block. *)
ReleaseDirectNoAdvance ==
    /\ pc = "r_direct" /\ rcur <= ND - 1
    /\ Release(loc.direct[rcur])
    /\ pc' = IF rcur + 1 = rend THEN "g_fail" ELSE "r_direct"
    /\ UNCHANGED <<content, inode, loc, want, growVars, rend, rcur, rdarr,
                   riarr, ridx, roff, before, result, failed, ops>>

(* Lines 258-264: release one direct pointer of the caller's copy. *)
ReleaseDirect ==
    /\ pc = "r_direct" /\ rcur <= ND - 1
    /\ Release(loc.direct[rcur])
    /\ rcur' = rcur + 1
    /\ pc' = IF rcur + 1 = rend THEN "g_fail" ELSE "r_direct"
    /\ UNCHANGED <<content, inode, loc, want, growVars, rend, rdarr, riarr,
                   ridx, roff, before, result, failed, ops>>

(* Lines 267-273: the indirect block is read from the device, and itself *)
(* released when the growth started in the direct region.                *)
ReleaseIndirectRead ==
    /\ pc = "r_direct" /\ rcur > ND - 1
    /\ rdarr' = content[loc.indirect]
    /\ IF start <= ND THEN Release(loc.indirect) ELSE UNCHANGED used
    /\ pc' = "r_ind"
    /\ UNCHANGED <<content, inode, loc, want, growVars, rend, rcur, riarr,
                   ridx, roff, before, result, failed, ops>>

(* Lines 275-284: release one pointer of the indirect block as read. *)
ReleaseIndirect ==
    /\ pc = "r_ind" /\ rcur <= ND + NP - 1
    /\ Release(rdarr[rcur - ND])
    /\ rcur' = rcur + 1
    /\ pc' = IF rcur + 1 = rend THEN "g_fail" ELSE "r_ind"
    /\ UNCHANGED <<content, inode, loc, want, growVars, rend, rdarr, riarr,
                   ridx, roff, before, result, failed, ops>>

(* Lines 287-296: the doubly-indirect block is read, and released when   *)
(* the growth started before it.                                         *)
ReleaseDoublyRead ==
    /\ pc = "r_ind" /\ rcur > ND + NP - 1
    /\ riarr' = content[loc.doubly]
    /\ IF start <= ND + NP THEN Release(loc.doubly)
                            ELSE UNCHANGED used
    /\ ridx' = (rcur - ND - NP) \div NP
    /\ roff' = (rcur - ND - NP) % NP
    /\ pc' = "r_dbl_outer"
    /\ UNCHANGED <<content, inode, loc, want, growVars, rend, rcur, rdarr,
                   before, result, failed, ops>>

(* Lines 298-305 (and 325 when the tree is exhausted): read indirect     *)
(* block ridx, releasing it when the growth started at or before it.     *)
ReleaseDoublyOuter ==
    /\ pc = "r_dbl_outer"
    /\ rdarr' = content[riarr[ridx]]
    /\ IF start <= ND + NP + ridx * NP THEN Release(riarr[ridx])
                                        ELSE UNCHANGED used
    /\ pc' = IF rcur <= MaxBlk - 1 THEN "r_dbl_inner" ELSE "g_fail"
    /\ UNCHANGED <<content, inode, loc, want, growVars, rend, rcur, riarr,
                   ridx, roff, before, result, failed, ops>>

(* Lines 307-319: release one data pointer of indirect block ridx. *)
ReleaseDoublyInner ==
    /\ pc = "r_dbl_inner" /\ roff < NP
    /\ Release(rdarr[roff])
    /\ rcur' = rcur + 1
    /\ roff' = roff + 1
    /\ pc' = IF rcur + 1 = rend THEN "g_fail" ELSE "r_dbl_inner"
    /\ UNCHANGED <<content, inode, loc, want, growVars, rend, rdarr, riarr,
                   ridx, before, result, failed, ops>>

(* Lines 321-323: on to the next indirect block. *)
ReleaseDoublyNext ==
    /\ pc = "r_dbl_inner" /\ roff >= NP
    /\ ridx' = ridx + 1
    /\ roff' = 0
    /\ pc' = "r_dbl_outer"
    /\ UNCHANGED <<used, content, inode, loc, want, growVars, rend, rcur,
                   rdarr, riarr, before, result, failed, ops>>

(* inode_write_at, lines 650-658: on success the length is advanced and   *)
(* the copy written back to HOME; on failure the copy is dropped.         *)
WriteAtReturn ==
    /\ pc \in {"g_ok", "g_fail"}
    /\ \/ pc = "g_ok"
          /\ inode' = [loc EXCEPT !.length = want]
          /\ result' = "ok"
          /\ UNCHANGED failed
       \/ pc = "g_fail"
          /\ UNCHANGED inode
          /\ result' = "fail"
          /\ failed' = TRUE
    /\ pc' = "idle"
    /\ UNCHANGED <<used, content, loc, want, growVars, relVars, before,
                   ops>>

Step ==
    \/ WriteAt \/ WriteAtFits \/ GrowStart \/ GrowDirect \/ GrowIndirectAlloc
    \/ GrowIndirect \/ GrowDoublyAlloc \/ GrowDoublyOuter
    \/ GrowDoublyInner \/ GrowDoublyNext
    \/ ReleaseStart \/ ReleaseDirect \/ ReleaseIndirectRead
    \/ ReleaseIndirect \/ ReleaseDoublyRead \/ ReleaseDoublyOuter
    \/ ReleaseDoublyInner \/ ReleaseDoublyNext \/ WriteAtReturn

Finished == pc = "idle" /\ ops = MaxOps

Next == Step \/ (Finished /\ UNCHANGED vars)

Spec == Init /\ [][Next]_vars /\ WF_vars(Step)

(* byte_to_sector, lines 189-226: the sector holding byte POS of the      *)
(* file whose inode_disk is D, read through the device contents C.        *)
ByteToSector(D, C, pos) ==
    LET t == BytesToSectors(pos + 1)
        i == (t - ND - NP - 1) \div NP
        o == (t - ND - NP - 1) % NP
    IN CASE t <= ND      -> D.direct[t - 1]
         [] t <= ND + NP -> C[D.indirect][t - ND - 1]
         [] OTHER        -> C[C[D.doubly][i]][o]

-----------------------------------------------------------------------------
TypeOK ==
    /\ used \subseteq Sectors
    /\ content \in [Sectors -> Ptrs]
    /\ inode \in Inodes /\ loc \in Inodes
    /\ darr \in Ptrs /\ iarr \in Ptrs /\ rdarr \in Ptrs /\ riarr \in Ptrs

(* The sectors of the file's data blocks, and of the index blocks that    *)
(* lead to them, as byte_to_sector would find them on disk.               *)
NBlocks == BytesToSectors(inode.length)
DataSectors == {ByteToSector(inode, content, k * BlockSize) : k \in 0..(NBlocks - 1)}
IndexSectors ==
    (IF NBlocks > ND THEN {inode.indirect} ELSE {})
    \cup (IF NBlocks > ND + NP
          THEN {inode.doubly}
               \cup {content[inode.doubly][i] :
                     i \in 0..((NBlocks - ND - NP - 1) \div NP)}
          ELSE {})

(* Between writes, as long as every growth so far has succeeded,          *)
(* byte_to_sector maps every block of the file to its own allocated       *)
(* sector, and the free map holds exactly the free-map sector, the home   *)
(* sector, the data and the index blocks: nothing inode_grow_file         *)
(* allocated is leaked or shared, and nothing it wrote is lost.  (After a *)
(* failure the rollback's leaks break this; GrowthAtomic is about them.)  *)
FileMapped ==
    pc = "idle" /\ ~failed =>
        /\ Cardinality(DataSectors) = NBlocks
        /\ DataSectors \cap (IndexSectors \cup {FREE_MAP_SECTOR, HOME}) = {}
        /\ used = {FREE_MAP_SECTOR, HOME} \cup DataSectors \cup IndexSectors

(* Spec 8.4: after a failed growth the free map is as it was before the   *)
(* call: inode_release gives back exactly what inode_grow_file took.      *)
GrowthAtomic ==
    pc = "idle" /\ result = "fail" => used = before

(* Every write that starts a growth returns, through the rollback walk   *)
(* when allocation fails: its loops end at cur_block == end_block.       *)
WritesReturn == pc # "idle" ~> pc = "idle"

====
