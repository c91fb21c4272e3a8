----------------------------- MODULE InodeWrite -----------------------------
(***************************************************************************)
(* Concurrent inode_write_at calls on one file (src/src/filesys/inode.c,   *)
(* lines 625-685, with byte_to_sector and inode_length).                   *)
(*                                                                         *)
(* Each thread checks deny_write_cnt, reads the on-disk inode into a       *)
(* private copy without any lock (line 646), grows the copy under          *)
(* free_map_lock and writes it back, then writes its bytes chunk by chunk, *)
(* locating each chunk through the inode on disk as it is at that moment.  *)
(*                                                                         *)
(* Growth is one step: it runs entirely under free_map_lock, and its       *)
(* inner walk is InodeGrow's subject.  It is taken here as that walk       *)
(* promises: first-fit allocation of the missing blocks, each zero-filled, *)
(* or nothing allocated when space runs out.  The index tree is flattened  *)
(* to the sequence `blocks' of data sectors, which is what byte_to_sector  *)
(* resolves.  The buffer cache is taken as the sector store it implements. *)
(***************************************************************************)
EXTENDS Integers, Sequences, FiniteSets
LOCAL INSTANCE SequencesExt

CONSTANTS
    Threads,     \* kernel threads writing the file
    NumSectors,  \* sectors of the device
    BlockSize,   \* BLOCK_SECTOR_SIZE, in model bytes
    HOME,        \* the file's inode sector
    Reqs,        \* <<offset, size>> pairs a write may ask for
    STALE,       \* contents a free sector still holds from earlier use
    MaxOps,      \* writes per thread
    NONE

FREE_MAP_SECTOR == 0
Sectors == 0..(NumSectors - 1)
Bytes == 0..(BlockSize - 1)
MaxLen == 2 * BlockSize * NumSectors
Vals == Threads \cup {0, STALE}
ZeroSector == [b \in Bytes |-> 0]

\* bytes_to_sectors (line 183)
BytesToSectors(size) == (size + BlockSize - 1) \div BlockSize

VARIABLES
    inode,   \* the inode_disk at HOME: [length, blocks]
    used,    \* free map
    data,    \* device (cached) contents of every sector
    deny,    \* deny_write_cnt of the open inode
    pc, off, sz, loc, sidx, chunk, ops,   \* per-thread locals
    mem,     \* ghost: what each byte of the file must hold
    rdOk     \* ghost: every byte a read copied out was the file's byte

vars == <<inode, used, data, deny, pc, off, sz, loc, sidx, chunk, ops, mem, rdOk>>

NoInode == [length |-> 0, blocks |-> << >>]

(* byte_to_sector: the sector holding byte POS of a file whose data       *)
(* sectors are ino.blocks; a position past them reads a zero pointer.     *)
ByteToSector(ino, pos) ==
    LET t == BytesToSectors(pos + 1)
    IN IF t <= Len(ino.blocks) THEN ino.blocks[t] ELSE 0

(* The first K free sectors in bitmap order, as K calls of first-fit      *)
(* free_map_allocate return them.                                         *)
FirstFree(k) ==
    LET free == Sectors \ used
    IN {s \in free : Cardinality({x \in free : x < s}) < k}

Min2(a, b) == IF a < b THEN a ELSE b

Init ==
    /\ inode = NoInode
    /\ used = {FREE_MAP_SECTOR, HOME}
    /\ data = [s \in Sectors |-> [b \in Bytes |-> STALE]]
    /\ deny = 0
    /\ pc = [t \in Threads |-> "idle"]
    /\ off = [t \in Threads |-> 0]
    /\ sz = [t \in Threads |-> 0]
    /\ loc = [t \in Threads |-> NoInode]
    /\ sidx = [t \in Threads |-> 0]
    /\ chunk = [t \in Threads |-> 0]
    /\ ops = [t \in Threads |-> 0]
    /\ mem = [p \in 0..(MaxLen - 1) |-> 0]
    /\ rdOk = TRUE

Goto(t, l) == pc' = [pc EXCEPT ![t] = l]

(* A thread calls inode_write_at or inode_read_at(inode, buf, size,      *)
(* offset).                                                               *)
Call(t) ==
    /\ pc[t] = "idle" /\ ops[t] < MaxOps
    /\ \E r \in Reqs :
         /\ off' = [off EXCEPT ![t] = r[1]]
         /\ sz' = [sz EXCEPT ![t] = r[2]]
    /\ ops' = [ops EXCEPT ![t] = ops[t] + 1]
    /\ \E l \in {"w_deny", "r_locate"} : Goto(t, l)
    /\ UNCHANGED <<inode, used, data, deny, loc, sidx, chunk, mem, rdOk>>

(* Lines 634-639: under inode_lock, a denied write returns 0. *)
WriteDenyCheck(t) ==
    /\ pc[t] = "w_deny"
    /\ Goto(t, IF deny > 0 THEN "idle" ELSE "w_read")
    /\ UNCHANGED <<inode, used, data, deny, off, sz, loc, sidx, chunk, ops, mem, rdOk>>

(* Lines 645-647: buffer_read of the inode into a private copy, with no   *)
(* lock held, and the test whether the write ends past its length.        *)
WriteReadInode(t) ==
    /\ pc[t] = "w_read"
    /\ loc' = [loc EXCEPT ![t] = inode]
    /\ Goto(t, IF off[t] + sz[t] > inode.length THEN "w_grow" ELSE "w_locate")
    /\ UNCHANGED <<inode, used, data, deny, off, sz, sidx, chunk, ops, mem, rdOk>>

(* Mutant: new sectors are not zero-filled. *)
WriteGrowNoZero(t) ==
    /\ pc[t] = "w_grow"
    /\ LET c == loc[t]
           want == off[t] + sz[t]
           k == BytesToSectors(want) - BytesToSectors(c.length)
       IN \/ /\ Cardinality(Sectors \ used) < k
             /\ Goto(t, "idle")
             /\ UNCHANGED <<inode, used, data>>
          \/ /\ Cardinality(Sectors \ used) >= k
             /\ used' = used \cup FirstFree(k)
             /\ inode' = [length |-> want,
                          blocks |-> c.blocks \o SetToSortSeq(FirstFree(k), <)]
             /\ Goto(t, "w_locate")
             /\ UNCHANGED data
    /\ UNCHANGED <<deny, off, sz, loc, sidx, chunk, ops, mem, rdOk>>

(* Lines 649-658: under free_map_lock, grow the copy to offset + size;    *)
(* on success set its length and write it back to HOME, else return 0.    *)
WriteGrow(t) ==
    /\ pc[t] = "w_grow"
    /\ LET c == loc[t]
           want == off[t] + sz[t]
           k == BytesToSectors(want) - BytesToSectors(c.length)
           new == FirstFree(k)
       IN \/ /\ Cardinality(Sectors \ used) < k
             /\ Goto(t, "idle")
             /\ UNCHANGED <<inode, used, data>>
          \/ /\ Cardinality(Sectors \ used) >= k
             /\ used' = used \cup new
             /\ data' = [s \in Sectors |-> IF s \in new THEN ZeroSector ELSE data[s]]
             /\ inode' = [length |-> want,
                          blocks |-> c.blocks \o SetToSortSeq(new, <)]
             /\ Goto(t, "w_locate")
    /\ UNCHANGED <<deny, off, sz, loc, sidx, chunk, ops, mem, rdOk>>

(* Line 665: byte_to_sector reads the inode on disk as it is now. *)
WriteLocate(t) ==
    /\ pc[t] = "w_locate"
    /\ sidx' = [sidx EXCEPT ![t] = ByteToSector(inode, off[t])]
    /\ Goto(t, "w_length")
    /\ UNCHANGED <<inode, used, data, deny, off, sz, loc, chunk, ops, mem, rdOk>>

(* Lines 666-676: inode_length reads the inode again; the chunk is the    *)
(* least of what is left of the request, the file and the sector.         *)
WriteLength(t) ==
    /\ pc[t] = "w_length"
    /\ LET c == Min2(sz[t], Min2(inode.length - off[t],
                                 BlockSize - (off[t] % BlockSize)))
       IN /\ chunk' = [chunk EXCEPT ![t] = c]
          /\ Goto(t, IF c <= 0 THEN "idle" ELSE "w_chunk")
    /\ UNCHANGED <<inode, used, data, deny, off, sz, loc, sidx, ops, mem, rdOk>>

(* Lines 677-682: buffer_write of the chunk into the located sector, and  *)
(* the loop advances; it ends when the request is used up.                *)
WriteChunk(t) ==
    /\ pc[t] = "w_chunk"
    /\ LET o == off[t] % BlockSize
           c == chunk[t]
       IN /\ data' = [data EXCEPT ![sidx[t]] =
                        [b \in Bytes |-> IF o <= b /\ b < o + c THEN t
                                         ELSE data[sidx[t]][b]]]
          /\ mem' = [p \in DOMAIN mem |->
                        IF off[t] <= p /\ p < off[t] + c THEN t ELSE mem[p]]
          /\ off' = [off EXCEPT ![t] = off[t] + c]
          /\ sz' = [sz EXCEPT ![t] = sz[t] - c]
          /\ Goto(t, IF sz[t] - c > 0 THEN "w_locate" ELSE "idle")
    /\ UNCHANGED <<inode, used, deny, loc, sidx, chunk, ops, rdOk>>

-----------------------------------------------------------------------------
(* inode_read_at, lines 595-622: the same loop as the write's, with no    *)
(* lock and no growth.                                                    *)

(* Line 602: byte_to_sector reads the inode on disk as it is now; past    *)
(* the last data sector it finds a zero pointer, i.e. sector 0.           *)
ReadLocate(t) ==
    /\ pc[t] = "r_locate"
    /\ sidx' = [sidx EXCEPT ![t] = ByteToSector(inode, off[t])]
    /\ Goto(t, "r_length")
    /\ UNCHANGED <<inode, used, data, deny, off, sz, loc, chunk, ops, mem, rdOk>>

(* Mutant: the bytes left in the inode are not counted, so a read runs    *)
(* past the end of the file.                                              *)
ReadLengthNoClamp(t) ==
    /\ pc[t] = "r_length"
    /\ LET c == Min2(sz[t], BlockSize - (off[t] % BlockSize))
       IN /\ chunk' = [chunk EXCEPT ![t] = c]
          /\ Goto(t, IF c <= 0 THEN "idle" ELSE "r_chunk")
    /\ UNCHANGED <<inode, used, data, deny, off, sz, loc, sidx, ops, mem, rdOk>>

(* Lines 604-611: inode_length reads the inode again, and the chunk is    *)
(* the least of what is left of the request, the file and the sector; a   *)
(* chunk of zero or less ends the read (end of file).                     *)
ReadLength(t) ==
    /\ pc[t] = "r_length"
    /\ LET c == Min2(sz[t], Min2(inode.length - off[t],
                                 BlockSize - (off[t] % BlockSize)))
       IN /\ chunk' = [chunk EXCEPT ![t] = c]
          /\ Goto(t, IF c <= 0 THEN "idle" ELSE "r_chunk")
    /\ UNCHANGED <<inode, used, data, deny, off, sz, loc, sidx, ops, mem, rdOk>>

(* Lines 613-619: buffer_read of the chunk out of the located sector, and *)
(* the loop advances.  rdOk records whether each byte copied out is the   *)
(* file's byte at that position at this moment.                           *)
ReadChunk(t) ==
    /\ pc[t] = "r_chunk"
    /\ LET o == off[t] % BlockSize
           c == chunk[t]
       IN /\ rdOk' = (rdOk /\ \A k \in 0..(c - 1) :
                                data[sidx[t]][o + k] = mem[off[t] + k])
          /\ off' = [off EXCEPT ![t] = off[t] + c]
          /\ sz' = [sz EXCEPT ![t] = sz[t] - c]
          /\ Goto(t, IF sz[t] - c > 0 THEN "r_locate" ELSE "idle")
    /\ UNCHANGED <<inode, used, data, deny, loc, sidx, chunk, ops, mem>>

-----------------------------------------------------------------------------
(* Another opener of the file calls inode_deny_write or inode_allow_write *)
(* (lines 689-705), as process loading does for a running executable.     *)
DenyToggle ==
    /\ deny' = 1 - deny
    /\ UNCHANGED <<inode, used, data, pc, off, sz, loc, sidx, chunk, ops, mem, rdOk>>

Thread(t) ==
    \/ Call(t) \/ WriteDenyCheck(t) \/ WriteReadInode(t) \/ WriteGrow(t)
    \/ WriteLocate(t) \/ WriteLength(t) \/ WriteChunk(t)
    \/ ReadLocate(t) \/ ReadLength(t) \/ ReadChunk(t)

Finished == \A t \in Threads : pc[t] = "idle" /\ ops[t] = MaxOps

Next == (\E t \in Threads : Thread(t)) \/ DenyToggle
        \/ (Finished /\ UNCHANGED vars)

Spec == Init /\ [][Next]_vars /\ \A t \in Threads : WF_vars(Thread(t))

-----------------------------------------------------------------------------
Quiescent == \A t \in Threads : pc[t] = "idle"

(* The byte at position p of the file, read the way inode_read_at finds it. *)
FileByte(p) == data[ByteToSector(inode, p)][p % BlockSize]

(* Spec 8.5 and the last-writer-wins rule: once no write is in progress,  *)
(* every byte of the file holds the last value a completed chunk wrote    *)
(* there, and zero where nothing was written after growth.                *)
WritesLand ==
    Quiescent => \A p \in 0..(inode.length - 1) : FileByte(p) = mem[p]

(* Growth is serialised by free_map_lock: once no write is in progress,   *)
(* the allocated sectors are exactly the free-map sector, the home sector *)
(* and the file's data sectors, so no growth's sectors are leaked.        *)
NoLeakedSectors ==
    Quiescent => used = {FREE_MAP_SECTOR, HOME} \cup Range(inode.blocks)

(* Spec 8.5 and the zero-filled extension rule (spec 8, item 5): every    *)
(* byte inode_read_at copies out is the file's byte at that position when *)
(* it is copied: what the last write left there, or zero after growth;    *)
(* never another sector's contents.                                       *)
ReadsSeeFileBytes == rdOk

====
