----------------------------- MODULE FsSyscalls -----------------------------
(***************************************************************************)
(* The file-system system calls of one user process (src/src/userprog/    *)
(* syscall.c) over the facade of src/src/filesys/filesys.c, as far as     *)
(* they change directories, the free map, open counts and the process's   *)
(* file-descriptor table and working directory.                           *)
(*                                                                         *)
(* A process is one thread, so its system calls run one after another;    *)
(* each call is one action.  Reference counting is what the model follows: *)
(* get_dir_path, dir_lookup, dir_open_root and filesys_open each hand back *)
(* one open reference, dir_close, file_close and inode_close give one     *)
(* back, and a removed inode's sectors return to the free map when its    *)
(* count reaches zero (inode.c 569-576).  directory.c is not in this tree: *)
(* lookup, add, remove and readdir are modelled from spec 4.5, with       *)
(* dir_lookup opening the inode it finds and setting NULL when it finds   *)
(* none.  A path is a base directory (the root or the working directory)  *)
(* and one last component; the parent always resolves.                    *)
(***************************************************************************)
EXTENDS Naturals, FiniteSets
LOCAL INSTANCE FiniteSetsExt

CONSTANTS
    Names,       \* last path components
    NumSectors,  \* sectors of the device
    Sizes,       \* initial sizes of created files, in sectors
    MaxOps,      \* system calls of the process
    Counts,      \* byte counts of read and write calls, in sectors
    SeekPos,     \* positions seek calls ask for, in sectors
    NONE

FREE_MAP_SECTOR == 0
ROOT_DIR_SECTOR == 1
Sectors == 0..(NumSectors - 1)
Slots == 1..Cardinality(Names)
Empty == [name |-> NONE, sec |-> 0]
Paths == [base : {"root", "cwd"}, name : Names]

VARIABLES
    used,     \* free map: allocated sectors
    isdir,    \* inode type of each sector's inode
    data,     \* data sectors of each inode
    dirent,   \* entry slots of each directory
    refs,     \* open_cnt of each inode's open record
    removed,  \* removed flag of each inode's open record
    fdt,      \* the process's fd table: rows [fd, sec, dir, pos]
    nextFd,   \* next_aval_fd
    cwd,      \* sector of thread_current()->cwd
    ops

vars == <<used, isdir, data, dirent, refs, removed, fdt, nextFd, cwd, ops>>

-----------------------------------------------------------------------------
(* Directory layer (directory.c, spec 4.5) *)

\* dir_lookup: the sector named N in directory D, or 0.
Lookup(d, n) ==
    IF \E i \in Slots : dirent[d][i].name = n
    THEN (CHOOSE e \in {dirent[d][i] : i \in Slots} : e.name = n).sec
    ELSE 0

InUse(d) == {i \in Slots : dirent[d][i] # Empty}

\* dir_readdir from cursor POS: the next in-use slot, or 0.
NextEntry(d, pos) ==
    IF \E i \in InUse(d) : i > pos THEN Min({i \in InUse(d) : i > pos}) ELSE 0

\* dir_add of a name not yet present: the first slot not in use.
DirAdd(d, n, s) ==
    [dirent EXCEPT ![d][Min(Slots \ InUse(d))] = [name |-> n, sec |-> s]]

\* dir_remove refuses a missing name and a directory that has entries.
CanRemove(d, n) ==
    LET u == Lookup(d, n)
    IN u # 0 /\ ~(isdir[u] /\ InUse(u) # {})

DirRemoveEntries(d, n) ==
    [dirent EXCEPT ![d] = [i \in Slots |-> IF dirent[d][i].name = n THEN Empty
                                          ELSE dirent[d][i]]]

-----------------------------------------------------------------------------
(* Open counts (inode.c 555-592) *)

\* The handles the process holds on S: fd rows and its working directory.
Holders(s) == Cardinality({r \in fdt : r.sec = s}) + (IF cwd = s THEN 1 ELSE 0)

(* The open counts after a call are R and the removed flags RM: every     *)
(* removed inode whose count is zero has its home and data sectors        *)
(* released, as the last inode_close of a removed inode does, and its     *)
(* in-memory record, removed flag included, is freed.                     *)
Settle(r, rm) ==
    LET gone == {s \in used \ {FREE_MAP_SECTOR, ROOT_DIR_SECTOR} :
                    rm[s] /\ r[s] = 0}
    IN /\ refs' = r
       /\ removed' = [s \in Sectors |-> rm[s] /\ s \notin gone]
       /\ used' = used \ UNION {{s} \cup data[s] : s \in gone}

\* The K smallest sectors of the set S, as K first-fit allocations take them.
Smallest(S, k) == {s \in S : Cardinality({x \in S : x < s}) < k}

\* get_dir_path: the parent directory of path P, opened.
Parent(p) == IF p.base = "root" THEN ROOT_DIR_SECTOR ELSE cwd

Init ==
    /\ used = {FREE_MAP_SECTOR, ROOT_DIR_SECTOR}
    /\ isdir = [s \in Sectors |-> s = ROOT_DIR_SECTOR]
    /\ data = [s \in Sectors |-> {}]
    /\ dirent = [s \in Sectors |-> [i \in Slots |-> Empty]]
    /\ refs = [s \in Sectors |-> IF s \in {FREE_MAP_SECTOR, ROOT_DIR_SECTOR}
                                 THEN 1 ELSE 0]
    /\ removed = [s \in Sectors |-> FALSE]
    /\ fdt = {}
    /\ nextFd = 2
    /\ cwd = ROOT_DIR_SECTOR
    /\ ops = 0

Call == ops < MaxOps /\ ops' = ops + 1

-----------------------------------------------------------------------------
(* Mutant: the home sector is released whether or not the create        *)
(* succeeded (line 80 without !success).                                   *)
FilesysCreateReleaseAlways(p, k, dir) ==
    LET d == Parent(p)
        free == Sectors \ used
        h == Min(free)
        rest == free \ {h}
        new == Smallest(rest, k)
    IN /\ Call
       /\ \/ /\ free = {}
             /\ UNCHANGED <<used, isdir, data, dirent, removed>>
          \/ /\ free # {} /\ Cardinality(rest) < k
             /\ UNCHANGED <<used, isdir, data, dirent, removed>>
          \/ /\ free # {} /\ Cardinality(rest) >= k /\ Lookup(d, p.name) # 0
             /\ used' = used \cup new
             /\ UNCHANGED <<isdir, data, dirent, removed>>
          \/ /\ free # {} /\ Cardinality(rest) >= k /\ Lookup(d, p.name) = 0
             /\ used' = used \cup new
             /\ isdir' = [isdir EXCEPT ![h] = dir]
             /\ removed' = [removed EXCEPT ![h] = FALSE]
             /\ data' = [data EXCEPT ![h] = new]
             /\ dirent' = [DirAdd(d, p.name, h) EXCEPT ![h] = [i \in Slots |-> Empty]]
       /\ UNCHANGED <<refs, fdt, nextFd, cwd>>

(* SYS_CREATE and SYS_MKDIR: filesys_create(name, K sectors, DIR)          *)
(* (filesys.c 49-85).  The home sector comes first-fit from the free map,  *)
(* inode_create takes K more or none, and dir_add refuses a name already   *)
(* present.  On failure only the home sector is released (line 80).  The  *)
(* parent's open (get_dir_path) and close (line 82) cancel out; so do the  *)
(* lookup and dir_close of the new directory (lines 71-76).                *)
FilesysCreate(p, k, dir) ==
    LET d == Parent(p)
        free == Sectors \ used
        h == Min(free)
        rest == free \ {h}
        new == Smallest(rest, k)
    IN /\ Call
       /\ \/ /\ free = {}
             /\ UNCHANGED <<used, isdir, data, dirent, removed>>
          \/ /\ free # {} /\ Cardinality(rest) < k
             /\ UNCHANGED <<used, isdir, data, dirent, removed>>
          \/ /\ free # {} /\ Cardinality(rest) >= k /\ Lookup(d, p.name) # 0
             /\ used' = used \cup new
             /\ UNCHANGED <<isdir, data, dirent, removed>>
          \/ /\ free # {} /\ Cardinality(rest) >= k /\ Lookup(d, p.name) = 0
             /\ used' = used \cup {h} \cup new
             /\ isdir' = [isdir EXCEPT ![h] = dir]
             /\ removed' = [removed EXCEPT ![h] = FALSE]
             /\ data' = [data EXCEPT ![h] = new]
             /\ dirent' = [DirAdd(d, p.name, h) EXCEPT ![h] = [i \in Slots |-> Empty]]
       /\ UNCHANGED <<refs, fdt, nextFd, cwd>>

SysCreate(p, k) == FilesysCreate(p, k, FALSE)
\* inode_create (inode.c 479-481) sizes a directory to two dir_entry
\* records, which fit in one data sector.
DirSectors == 1
SysMkdir(p) == FilesysCreate(p, DirSectors, TRUE)

(* filesys_remove (filesys.c 106-111): dir_remove, then dir_close of the *)
(* parent, whose opening the caller did.                                  *)
FilesysRemove(d, n) ==
    \/ /\ CanRemove(d, n)
       /\ dirent' = DirRemoveEntries(d, n)
       /\ Settle(refs, [removed EXCEPT ![Lookup(d, n)] = TRUE])
    \/ /\ ~CanRemove(d, n)
       /\ UNCHANGED <<dirent, refs, removed, used>>

(* SYS_REMOVE (syscall.c 99-134).  When the name is a directory the code  *)
(* calls dir_readdir(last_dir, last_part), which overwrites last_part with *)
(* the parent's first entry, tests file_dir_count of a fresh struct dir    *)
(* (a field directory.c may leave unset: either outcome), and removes     *)
(* whatever entry readdir named; last_dir is never closed.  Otherwise      *)
(* filesys_remove removes the name and closes last_dir.  inode_close of   *)
(* the lookup's reference ends both branches.                              *)
SysRemove(p) ==
    LET d == Parent(p)
        t == Lookup(d, p.name)
    IN /\ Call
       /\ \/ /\ t # 0 /\ isdir[t]
             /\ LET n == dirent[d][NextEntry(d, 0)].name
                    leak == [refs EXCEPT ![d] = @ + 1]
                IN \/ /\ UNCHANGED dirent   \* file_dir_count != 0
                      /\ Settle(leak, removed)
                   \/ /\ CanRemove(d, n)
                      /\ dirent' = DirRemoveEntries(d, n)
                      /\ Settle(leak, [removed EXCEPT ![Lookup(d, n)] = TRUE])
          \/ /\ ~(t # 0 /\ isdir[t])
             /\ FilesysRemove(d, p.name)
       /\ UNCHANGED <<isdir, data, fdt, nextFd, cwd>>

\* A new row of the fd table, numbered next_aval_fd.
Row(s, dir) == [fd |-> nextFd, sec |-> s, dir |-> dir, pos |-> 0]

(* SYS_OPEN (syscall.c 136-180).  A directory is opened from the lookup in *)
(* the test at line 155, and the parent from get_dir_path is never closed. *)
(* A regular file is looked up there too, and again by filesys_open (lines *)
(* 92-100), which closes the parent; only the second reference goes into  *)
(* the row.  A missing name returns -1.                                    *)
SysOpen(p) ==
    LET d == Parent(p)
        t == Lookup(d, p.name)
    IN /\ Call
       /\ \/ /\ t # 0 /\ isdir[t]
             /\ refs' = [refs EXCEPT ![d] = @ + 1, ![t] = @ + 1]
             /\ fdt' = fdt \cup {Row(t, TRUE)}
             /\ nextFd' = nextFd + 1
          \/ /\ t # 0 /\ ~isdir[t]
             /\ refs' = [refs EXCEPT ![t] = @ + 2]
             /\ fdt' = fdt \cup {Row(t, FALSE)}
             /\ nextFd' = nextFd + 1
          \/ /\ t = 0
             /\ UNCHANGED <<refs, fdt, nextFd>>
       /\ UNCHANGED <<used, isdir, data, dirent, removed, cwd>>

(* SYS_CLOSE (syscall.c 327-353) of a descriptor >= 2: dir_close or       *)
(* file_close of the row's handle, and the row leaves the table; an fd    *)
(* not in the table is ignored.                                            *)
SysClose(f) ==
    /\ Call
    /\ \/ \E r \in fdt :
            /\ r.fd = f
            /\ fdt' = fdt \ {r}
            /\ Settle([refs EXCEPT ![r.sec] = @ - 1], removed)
       \/ /\ \A r \in fdt : r.fd # f
          /\ UNCHANGED <<fdt, refs, removed, used>>
    /\ UNCHANGED <<isdir, data, dirent, nextFd, cwd>>

(* SYS_READDIR (syscall.c 376-399): dir_readdir advances the cursor of a  *)
(* directory row to the next entry in use; a file row returns false.      *)
SysReaddir(f) ==
    /\ Call
    /\ \/ \E r \in fdt :
            /\ r.fd = f /\ r.dir /\ NextEntry(r.sec, r.pos) # 0
            /\ fdt' = (fdt \ {r}) \cup {[r EXCEPT !.pos = NextEntry(r.sec, r.pos)]}
       \/ /\ \A r \in fdt : r.fd = f => (~r.dir \/ NextEntry(r.sec, r.pos) = 0)
          /\ UNCHANGED fdt
    /\ UNCHANGED <<used, isdir, data, dirent, refs, removed, nextFd, cwd>>

(* Mutant: the new working directory is closed instead of the old one. *)
SysChdirCloseNew(p) ==
    LET d == Parent(p)
        t == Lookup(d, p.name)
    IN /\ Call
       /\ \/ /\ t # 0 /\ isdir[t]
             /\ cwd' = t
             /\ Settle([refs EXCEPT ![d] = @ + 1], removed)
          \/ /\ t # 0 /\ ~isdir[t]
             /\ refs' = [refs EXCEPT ![t] = @ + 1]
             /\ UNCHANGED <<cwd, used, removed>>
          \/ /\ t = 0
             /\ UNCHANGED <<cwd, refs, used, removed>>
       /\ UNCHANGED <<isdir, data, dirent, fdt, nextFd>>

(* SYS_CHDIR (syscall.c 430-446).  On a directory it closes the old       *)
(* working directory and keeps the lookup's reference as the new one, but *)
(* never closes last_dir.  Otherwise it closes last_dir, and a regular    *)
(* file's lookup reference is never closed.                                *)
SysChdir(p) ==
    LET d == Parent(p)
        t == Lookup(d, p.name)
    IN /\ Call
       /\ \/ /\ t # 0 /\ isdir[t]
             /\ cwd' = t
             /\ Settle([refs EXCEPT ![d] = @ + 1, ![t] = @ + 1, ![cwd] = @ - 1],
                       removed)
          \/ /\ t # 0 /\ ~isdir[t]
             /\ refs' = [refs EXCEPT ![t] = @ + 1]
             /\ UNCHANGED <<cwd, used, removed>>
          \/ /\ t = 0
             /\ UNCHANGED <<cwd, refs, used, removed>>
       /\ UNCHANGED <<isdir, data, dirent, fdt, nextFd>>

(* file_write and file_read (file.c, spec 4.6) go through inode_write_at *)
(* and inode_read_at at the row's position and advance it by the count    *)
(* done.  Lengths are in sectors here: a file's length is the number of   *)
(* its data sectors, as inode_create and growth leave it.                 *)
Len(s) == Cardinality(data[s])

\* The row of the process's table numbered F, if it is a file's.
FileRows(f) == {r \in fdt : r.fd = f /\ ~r.dir}

(* Mutant: growth takes its sectors without marking them in the free map. *)
SysWriteNoMark(f, n) ==
    /\ Call
    /\ \/ \E r \in FileRows(f) :
          LET need == r.pos + n
              k == need - Len(r.sec)
              new == Smallest(Sectors \ used, k)
          IN \/ /\ k > 0 /\ Cardinality(Sectors \ used) < k
                /\ UNCHANGED <<fdt, data, used>>
             \/ /\ k > 0 /\ Cardinality(Sectors \ used) >= k
                /\ data' = [data EXCEPT ![r.sec] = @ \cup new]
                /\ fdt' = (fdt \ {r}) \cup {[r EXCEPT !.pos = need]}
                /\ UNCHANGED used
             \/ /\ k <= 0
                /\ fdt' = (fdt \ {r}) \cup {[r EXCEPT !.pos = need]}
                /\ UNCHANGED <<data, used>>
       \/ /\ FileRows(f) = {}
          /\ UNCHANGED <<fdt, data, used>>
    /\ UNCHANGED <<isdir, dirent, refs, removed, nextFd, cwd>>

(* SYS_WRITE (syscall.c 240-280) to a descriptor >= 2: a directory row or *)
(* a missing fd returns -1; a file row's write grows the file when it     *)
(* ends past its length, taking the missing sectors first-fit and zero-   *)
(* filling them (inode.c 643-660), or returns 0 with nothing taken when   *)
(* the free map runs short; then every byte is written and the position   *)
(* advances.                                                              *)
SysWrite(f, n) ==
    /\ Call
    /\ \/ \E r \in FileRows(f) :
          LET need == r.pos + n
              k == need - Len(r.sec)
              new == Smallest(Sectors \ used, k)
          IN \/ /\ k > 0 /\ Cardinality(Sectors \ used) < k
                /\ UNCHANGED <<fdt, data, used>>
             \/ /\ k > 0 /\ Cardinality(Sectors \ used) >= k
                /\ data' = [data EXCEPT ![r.sec] = @ \cup new]
                /\ used' = used \cup new
                /\ fdt' = (fdt \ {r}) \cup {[r EXCEPT !.pos = need]}
             \/ /\ k <= 0
                /\ fdt' = (fdt \ {r}) \cup {[r EXCEPT !.pos = need]}
                /\ UNCHANGED <<data, used>>
       \/ /\ FileRows(f) = {}
          /\ UNCHANGED <<fdt, data, used>>
    /\ UNCHANGED <<isdir, dirent, refs, removed, nextFd, cwd>>

(* SYS_READ (syscall.c 204-238) from a descriptor >= 2: a file row's read *)
(* returns what is left of the file past the position, at most N, and    *)
(* advances the position by that; other rows return -1.                   *)
SysRead(f, n) ==
    /\ Call
    /\ \/ \E r \in FileRows(f) :
          LET got == IF Len(r.sec) > r.pos THEN Min({n, Len(r.sec) - r.pos}) ELSE 0
          IN fdt' = (fdt \ {r}) \cup {[r EXCEPT !.pos = r.pos + got]}
       \/ /\ FileRows(f) = {}
          /\ UNCHANGED fdt
    /\ UNCHANGED <<used, isdir, data, dirent, refs, removed, nextFd, cwd>>

(* SYS_SEEK (syscall.c 282-303): file_seek sets a file row's position,   *)
(* which may lie past the end of the file; other rows return -1.          *)
SysSeek(f, q) ==
    /\ Call
    /\ \/ \E r \in FileRows(f) : fdt' = (fdt \ {r}) \cup {[r EXCEPT !.pos = q]}
       \/ /\ FileRows(f) = {}
          /\ UNCHANGED fdt
    /\ UNCHANGED <<used, isdir, data, dirent, refs, removed, nextFd, cwd>>

Fds == 2..(nextFd)

Next ==
    \/ \E p \in Paths :
          \/ \E k \in Sizes : SysCreate(p, k)
          \/ SysMkdir(p) \/ SysRemove(p) \/ SysOpen(p) \/ SysChdir(p)
    \/ \E f \in Fds : SysClose(f) \/ SysReaddir(f)
    \/ \E f \in Fds, n \in Counts : SysWrite(f, n) \/ SysRead(f, n)
    \/ \E f \in Fds, q \in SeekPos : SysSeek(f, q)
    \/ (ops = MaxOps /\ UNCHANGED vars)

Spec == Init /\ [][Next]_vars

-----------------------------------------------------------------------------
TypeOK ==
    /\ used \subseteq Sectors
    /\ refs \in [Sectors -> Nat]
    /\ cwd \in Sectors
    /\ fdt \subseteq [fd : Nat, sec : Sectors, dir : BOOLEAN, pos : Nat]

(* No handle outlives its inode: every inode an fd row or the working      *)
(* directory refers to is still allocated, and its open count is at least *)
(* the number of such handles, across any sequence of open, close, chdir, *)
(* remove and create calls.                                                *)
HandlesValid ==
    \A s \in {r.sec : r \in fdt} \cup {cwd} :
        s \in used /\ refs[s] >= Holders(s)

(* Directories never name a freed or removed inode: every entry of a      *)
(* directory still in use refers to an allocated inode not marked removed, *)
(* whatever failures create meets and whatever remove takes out.          *)
EntriesLive ==
    \A d \in used :
        (isdir[d] /\ ~removed[d]) =>
            \A i \in InUse(d) : dirent[d][i].sec \in used /\ ~removed[dirent[d][i].sec]

(* Spec 8.7 and scenario E4: once a removed inode is held by no handle,   *)
(* its sectors are free again.                                             *)
RemovedReleased ==
    \A s \in Sectors \ {FREE_MAP_SECTOR, ROOT_DIR_SECTOR} :
        removed[s] /\ Holders(s) = 0 => s \notin used
(* The inodes the file system can still reach: the free-map and root     *)
(* inodes, every inode some open reference keeps, and every entry of a    *)
(* directory still in use.                                                 *)
Reachable ==
    {FREE_MAP_SECTOR, ROOT_DIR_SECTOR} \cup {s \in Sectors : refs[s] > 0}
    \cup UNION {{dirent[d][i].sec : i \in InUse(d)} :
                d \in {x \in used : isdir[x] /\ ~removed[x]}}

Extent(s) == {s} \cup data[s]

(* No sector belongs to two inodes, and every sector an inode uses is     *)
(* allocated: creates, growing writes, removes and last closes, in any    *)
(* order, never hand a sector still in use to another inode.              *)
SectorsExclusive ==
    \A x, y \in Reachable :
        /\ Extent(x) \subseteq used
        /\ x # y => Extent(x) \cap Extent(y) = {}
====
