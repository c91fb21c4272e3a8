# TLA+ models of the Pintos file system core

This directory holds TLA+ models of the file-system core in `src/src/filesys/inode.c`, with TLC configurations to check them. `spec.md` describes that core. Each model is translated from the C source, one step per statement or loop iteration that touches shared state. `PROJECT.json` maps every definition to the lines it models, lists the runs and their mutants, and records findings and hazards.

## The system

| Part | Source | State | Operations |
|---|---|---|---|
| Buffer cache | inode.c 15-179 | 64 slots (sector, data, free, dirty, accessed, slot lock), `buffer_cache_lock`, clock hand | `buffer_init`, `buffer_read` (lookup, re-validate and retry, fill), `buffer_write`, `buffer_evict` (clock), `buffer_flush` |
| Inode index and growth | inode.c 181-456 | `inode_disk`: 123 direct, 1 indirect, 1 doubly-indirect pointer; pointer blocks of 128 | `byte_to_sector`, `inode_grow_file`, `inode_release` (rollback) |
| Inode creation | inode.c 458-501 | | `inode_create` grows a zeroed `inode_disk` under `free_map_lock` |
| Open-inode table | inode.c 228-237, 503-591, 686-705 | `open_inodes` list, `open_inodes_lock`, per-inode `inode_lock`, `open_cnt`, `deny_write_cnt`, `removed` | open, reopen, close (release on last close if removed), remove, deny and allow write |
| Data path | inode.c 593-685 | | `inode_read_at`, `inode_write_at` (deny check, growth under `free_map_lock`, chunked cache writes) |
| Free map | `free-map.c`, not in this tree | bitmap of allocated sectors | allocate (first fit), release (asserts the bit is set) |
| File-system facade | filesys.c | the process's working directory | create, open and remove through directories, with rollback of the home sector |
| Directories | `directory.c` and `get_dir_path`, not in this tree | entry slots | lookup, add, remove, readdir; path resolution |
| System calls | userprog/syscall.c | fd table (`fdt`, `next_aval_fd`), `cwd` | create, mkdir, remove, open, close, readdir, chdir, write, read, seek, and calls that only read state (tell, filesize, isdir, inumber); the file's merge-conflict markers differ only in whitespace |

The parts call each other top-down. A system call resolves its path through the directory layer, which opens and closes inodes in the open-inode table. A write goes from the directory layer to the inode layer, then to the buffer cache, then to the device. Growth consults the free map under `free_map_lock`. The open-inode table decides when a removed inode's sectors go back to the free map.

## Modules

**BufferCache** (`MC_BufferCache`) models the whole cache. Each thread has a `pc`, and each C statement that touches shared state is one action. Take a read miss as an example: `ReadLookup` takes the cache lock and searches. `ReadSlot` takes the slot lock and re-validates. `ReadFill` does the `block_read`, `ReadMark` updates the slot and `ReadCopy` does the copy. Locks are holder variables, and acquiring one is a guard. `buffer_evict` is three steps that the caller's `pc` runs through: clock scan, write-back and reset.

- A sector's bytes are abstracted to `SectorSize` positions, and values to a few constants.
- Ghost `mem` holds what a read must return.
- Ghost `readOk` records that every read so far returned it.

**OpenInodeTable** (`MC_OpenInodeTable`) models the list of open records, the list lock and the per-inode locks.

- A malloc'd record starts with garbage fields, because `inode_open` publishes the record before initialising it. The garbage values are a nondeterministic choice.
- Threads hold handles in `hnd` and act only through handles they hold.
- `released` counts the `free_map_release` calls for each sector.
- `unlinked` holds the sectors no directory names any more, so they are never opened again.

**InodeGrow** (`MC_InodeGrow`) models `inode_grow_file` and `inode_release`, one action per loop iteration. It also models the growth block of `inode_write_at`.

- The geometry keeps the code's shape with scaled constants: `ND` direct pointers, blocks of `NP` pointers, and `MaxBlk = ND + NP + NP*NP`. Every literal of the code (122, 123, 122+128, ...) is written in terms of these.
- Growth runs under `free_map_lock`, so a single caller is modelled.
- The buffer cache is abstracted to the sector store `content` that it implements.
- Freshly malloc'd pointer arrays hold nondeterministic garbage.
- The free map is a set of allocated sectors. Allocation is first fit. This part is modelled from the spec.
- `ByteToSector` is `byte_to_sector` as a pure operator.

**InodeWrite** (`MC_InodeWrite`) models concurrent `inode_write_at` and `inode_read_at` calls on one file (lines 593-685), with `byte_to_sector` and `inode_length`. Each call of a thread is a read or a write, and it runs through one action per step:

- `WriteDenyCheck` tests `deny_write_cnt` under the inode lock.
- `WriteReadInode` is the unlocked read of `inode_disk` at line 646 into a private copy, together with the length test.
- `WriteGrow` is the growth under `free_map_lock` and the write-back. It is taken as one step, as `InodeGrow`'s walk promises when it works: first-fit allocation of the missing blocks, each zero-filled, or nothing.
- `WriteLocate` and `WriteLength` re-read the inode on disk for each chunk.
- `WriteChunk` does the `buffer_write`.
- A read has no lock and no growth. `ReadLocate` is `byte_to_sector` (line 602), `ReadLength` is `inode_length` and the chunk computation (lines 605-613), and `ReadChunk` is the `buffer_read` (line 615). Each of the first two reads the inode on disk as it is at that moment.

`DenyToggle` stands for another opener's `inode_deny_write` and `inode_allow_write`. The index tree is flattened to the sequence of data sectors that `byte_to_sector` resolves. The ghost `mem` holds what each byte of the file must contain. The ghost `rdOk` records whether every byte a read copied out was `mem`'s byte at that moment. Sector 0, the free map, holds `STALE`, the same as a sector the file never owned.

**OpenFiles** is the abstract specification of the open-inode layer, with no table, records or locks. It has handle slots that name sectors, the set of unlinked sectors, and release counts. A handle is opened only on a sector not unlinked, or copied from one already held. Removal unlinks. An unlinked sector that no handle names is released once, and weak fairness on that release says it eventually happens. `OpenInodeTable` instantiates it with `INSTANCE OpenFiles WITH handle <- HandleSectors`: a handle slot maps to the sector field of the record it points to, and `unlinked` and `released` are shared as they are. `OpenReopen` and `OpenInitRest` are its `Open`, `Reopen` its `Reopen`, `CloseLock` its `Close`, `Remove` its `Remove`, and `CloseRelease` its `Release`. Every other step leaves the abstract state unchanged. The property `OpenFilesSpec` is `Abstract!Spec`.

**FsSyscalls** (`MC_FsSyscalls`) models the file-system system calls of one user process over `filesys.c`. A Pintos user process is a single thread, so its calls run one after another, and each call is one action. The actions are `SysCreate`, `SysMkdir` (both through `FilesysCreate`), `SysRemove` (through `FilesysRemove` on its file branch), `SysOpen`, `SysClose`, `SysReaddir`, `SysChdir`, `SysWrite`, `SysRead` and `SysSeek`.

- The model follows open references. `get_dir_path`, `dir_lookup` and `filesys_open` each take one. `dir_close`, `file_close` and `inode_close` each give one back.
- `SysMkdir` creates with `DirSectors` = 1 data sector, because `inode_create` sizes a directory to two `dir_entry` records (inode.c 479-481). So a duplicate `mkdir` leaks that sector as well as a duplicate create does its data sectors.
- `Settle` is the last `inode_close` of a removed inode: its home and data sectors go back to the free map, and its in-memory record, with its `removed` flag, is freed.
- Lengths are counted in sectors. A file's length is the number of its data sectors. `file_write`, `file_read` and `file_seek` (`file.c`, not in this tree) act at the fd row's position and advance it. A write that ends past the length grows the file first-fit, or returns 0 with nothing taken when space runs short.
- `directory.c` and `get_dir_path` are not in this tree, so the directory operations are modelled from spec 4.5 and marked so in the map:
  - `dir_lookup` opens the inode it finds, or sets NULL when it finds none.
  - `dir_add` takes the first free slot.
  - `dir_remove` refuses non-empty directories and marks the target removed.
  - `dir_readdir` returns the next slot in use.
- A path is the root or the working directory plus one name, so the parent always resolves.
- `SYS_REMOVE` of a directory reads `file_dir_count` of a freshly opened `struct dir`. `directory.c` may leave that field unset, so either outcome is allowed.
- Inode growth is taken as `InodeGrow` promises it: a file of `k` sectors takes `k` free sectors first-fit, or none.

## Runs

| Run | Expect | What it shows |
|---|---|---|
| `BufferCacheSeq` | pass | One thread, 2 slots, 3 sectors, 5 operations (reads, writes, flushes). Reads see the last write (`ReadsSeeLastWrite`), nothing is lost once idle (`NoLostWrite`), and calls return (`CallsReturn`). |
| `BufferCacheRace` | violation | Two threads on sectors of their own (`OwnSectors`): a writer claims the slot a missing reader is filling, and the written bytes end up under the reader's sector. |
| `OpenInodeSeq` | pass | One thread, 2 sectors, 2 handles, 6 calls. Open counts match handles, a removed inode is released once after its last close, and deny counts stay within open counts. The table implements the abstract `OpenFiles` specification (`OpenFilesSpec`), including its eventual release of an unlinked, unheld inode. |
| `OpenInodeDeadlock` | violation | `inode_open` and `inode_close` take the two locks in opposite orders. |
| `OpenInodePublishRace` | violation | A record is published before its sector is set, so a second record is inserted for the same sector. |
| `InodeGrowScarce` | pass | While every growth has succeeded, growth through all three regions maps every block to its own sector and leaks nothing (`FileMapped`). The device fills in every region, and every write returns through the rollback walk (`WritesReturn`). |
| `InodeGrowAtomic` | violation | A failed growth into the doubly-indirect region leaves the free map changed. Spec 8.4 says it must not. |
| `InodeWriteSeq` | pass | One thread, with reads and writes inside, across and past the end of the file, some writes running out of space. Written bytes land in the file and new sectors read as zeros (`WritesLand`). Reads copy out exactly the file's bytes and stop at its end (`ReadsSeeFileBytes`). |
| `InodeWriteNoLeakedSectors` | violation | Two writers grow the file from the same stale inode, and the second write-back drops the first one's sectors. |
| `InodeWriteReadRace` | violation | A read at the end of an empty file locates sector 0. A writer then grows the file, the read's length test passes, and it copies out the free-map sector. |
| `FsSyscallsSeq` | pass | Seven calls of one process on six sectors. No fd row or working directory outlives its inode, and open counts never fall below the handles (`HandlesValid`). No live directory names a freed or removed inode (`EntriesLive`). No sector belongs to two reachable inodes, and every sector of one is allocated (`SectorsExclusive`); this covers writes that grow a removed file still open. |
| `FsSyscallsRelease` | violation | Create `a`, `chdir a`, remove `a`: the removed file is held by nothing, yet its sectors are never released. |

Each property of a passing run has a mutant in `PROJECT.json`: a plausible bug in one mapped action that TLC shows violates it.

### Findings

1. `buffer_read` / `buffer_write`, lines 126-128 and 146-148: a reader that missed marks its chosen slot as taken only after `block_read`. Until then `buffer_write`'s miss, which claims the first free slot under the cache lock alone, can claim the same slot. This happens even between threads on different sectors: the reader then relabels the slot with its own sector and the writer copies into it. A later read of the reader's sector returns the other sector's bytes, and the write is lost. `BufferCacheRace` gives each thread its own sectors to show this. When both threads use the same sector, the same unreserved slot makes the miss re-validation (line 118) accept the writer's claim, and the reader reads the disk over the write. That re-validation does not search again either, so a sector can end up in two slots (spec 8.2).
2. `inode_open` and `inode_close`, lines 511/542 and 561/564: the two lock orders are opposite, so they can deadlock.
3. `inode_open`, lines 530-535: the record is published before it is initialised. This allows duplicate records, lost counts, and an early release when garbage `removed` is true.
4. `inode_release` during a failed growth, lines 268/288/300: it reads index blocks that `inode_grow_file` has not yet written back (lines 385, 436-438). It releases what those unwritten blocks hold instead of the new sectors, and leaks the new sectors. In the model a sector that was never written holds zeros, so the walk releases sector 0, the free-map inode. In the code the walk reads whatever the sector holds; for the doubly-indirect pointer that is the first word of the free-map inode (line 309), whose layout is in `inode.h`, which is not in this tree. Either way the free map does not return to its state before the growth.
5. `inode_write_at`, line 646: the inode is read and its length tested before `free_map_lock` is taken. Two writers that both see the old length both grow from it. The second write-back replaces the first's pointers and length, so the first's sectors leak and the file gets shorter. The first writer's bytes then land in a sector the file no longer maps (line 665).
6. `SYS_CHDIR`, lines 436-444: chdir to a regular file opens the file's inode through the lookup and never closes it. `SYS_OPEN` of a regular file does the same with the lookup in its test (line 155). A removed file is then never released after its last close, against spec 8.6, 8.7 and scenario E4.
7. `inode_read_at`, lines 602-615: the sector is located before the length is read, each through a separate read of the inode. A read at or past the end finds a zero pointer, sector 0. If a concurrent write grows the file in between, the length test passes and the read returns the free map's bytes. Spec 8 item 5 says an extension reads as zeros, and 4.3 that reading out of range returns nothing.

Other defects seen while modelling, which no run shows:

- `buffer_write`, lines 145-148: a miss does not read the sector, so a partial write loses the rest of it. A sequential test that evicts the sector first reaches it. The sequential cache run writes whole sectors.
- `SYS_REMOVE` of a directory, lines 112-118: `dir_readdir(last_dir, last_part)` overwrites the requested name with the parent's first entry, and that entry is removed instead. So `rmdir` of an empty directory can delete a sibling file. `FsSyscallsSeq` runs through this. Its properties still hold, because the sibling is removed properly.
- `SYS_REMOVE`, line 128: after `filesys_remove` has closed `last_dir`, the code writes `last_dir->file_dir_count`, which is a use after free. Line 133 closes an uninitialised `inode` when `get_dir_path` fails.
- `SYS_OPEN` of a directory, `SYS_CHDIR` that succeeds, and `SYS_REMOVE` of a directory never close the parent that `get_dir_path` opened.
- `filesys_create`, line 80: when `dir_add` fails, only the home sector is released, and a nonzero initial size leaks the data sectors. Spec 4.6 prescribes exactly this rollback.

## Bounds

- **BufferCache.** Two slots and three sectors force eviction, including eviction of dirty slots. Two threads with two operations each cover every pair of read, write and flush. `SectorsOf` says which sectors each thread reads and writes: every sector in the sequential run (`SharedSectors`), and sectors of its own in the race run (`OwnSectors`), so that the race is shown between threads on different files. The sequential run's five operations fill the cache and evict around the clock twice.
- **OpenInodeTable.** Two sectors and two handle slots per thread allow reopen, remove while open, and deny/allow pairs. Three records are enough for every record the two-thread races allocate.
- **InodeGrow.** With `ND = 1` and `NP = 2`, a 7-block file crosses all three regions and two doubly-indirect children. A block is 2 bytes, so growth within one block (start equals end) happens. Sizes go up to one past the largest file, so the too-large early return happens. The sector counts are chosen for different purposes:
  - 12 sectors hold every file but the largest. So growth succeeds through two doubly-indirect children, and it also fails in every region, including after the second child. Every branch of the rollback walk runs.
  - 9 sectors reach the first violating trace quickly.
- **InodeWrite.** A sector is 2 bytes. Reads and writes use the same requests: `<<0,1>>`, `<<1,2>>` and `<<3,2>>`. They cover a write inside one sector, a write crossing a sector boundary, and writes past the end that grow the file by one or two sectors, including growth that leaves a hole of zeros. The sequential run has 4 sectors, so a growth of two blocks can fail and take the failure path. The two-thread runs have 5 sectors and one call each, which is all the stale-inode race and the read race need.
- **FsSyscalls.** Two names let a directory hold a file before a subdirectory, which the `rmdir` path needs. Writes and reads move one sector, and seeks go to 0 or to 2, past the end of a small file, so a write can grow a file by a gap. The sequential run has six sectors and seven calls. That reaches, for example, create, open, remove while open, create of another file in the freed name, a growing write to the removed file, and close, so that sectors are reused after a release. Both creation and growth run out of space. The release run keeps five calls on five sectors, which its three-call trace needs.

## Fairness

Pintos preempts kernel threads round-robin on timer ticks, and a thread blocked on a lock is woken when the lock is released. So every thread that can take a step eventually does: weak fairness per thread (`WF_vars(Thread(t))`). In InodeGrow a single caller runs, with `WF_vars(Step)`. FsSyscalls checks only invariants, so it states no fairness. `OpenFiles` puts weak fairness on each sector's release; the table meets it because the thread that closes the last handle of a removed inode runs on to `CloseRelease` under its own weak fairness. The models stop after the operation budget (`MaxOps`) through an explicit stuttering step, so deadlock checking stays on except in the deadlock run. That run states the deadlock as the invariant `NoCircularWait`.

No run uses symmetry, because every run with two threads checks an invariant whose counterexample is short.

## Not modelled, and the plan

- **Other system calls.** Tell, filesize, isdir, inumber and the buffer counters only read state. A bad descriptor's `terminate(-1)` ends the process, and that belongs to `process.c`, which is not in this tree. Exec, wait, exit and halt belong to process management. Several processes calling at once are not modelled, because the directory layer's locking is in `directory.c`.
- **Double release.** This is a consequence of finding 5. Its trace is the one that run already shows, so no run of its own checks it.
- **Further abstract specifications.** A linearisable sector store that the cache refines, and growth as one atomic allocate-or-nothing step that `InodeGrow` refines when no failure occurs. The first fails through finding 1 whenever two threads run.
- **The buffer retry loop with two threads.** `CallsReturn` holds in `BufferCacheSeq`, but with one thread the re-validation never fails, so no run checks that the retry loop ends under contention. A run that could check it needs a reader and a writer at the same time, and every such instance hits finding 1, whether the threads share sectors or not.
- **`buffer_evict` racing a reader** (lines 63-69). Eviction writes back and resets a slot holding only the cache lock. A reader that has filled the slot but not yet copied out still holds the slot lock, and its reference bit is still clear, so the clock can pick that slot. The reader then copies out the zeroed buffer. This needs no writer: `MC_BufferCache` with two threads, `Kinds = {"read"}` and `MaxOps = 3` violates `ReadsSeeLastWrite` in 17 steps. It is a second code bug, independent of finding 1. No run of its own checks it: `BufferCacheRace` shows finding 1, and the one-thread run cannot interleave an eviction with a copy.
- **`buffer_flush` racing a writer** (lines 166-169). The flush writes a dirty slot back and clears the dirty bit in two steps, holding only the cache lock. A `buffer_write` in between is then marked clean. With a writer thread and a thread that only flushes, `NoLostWrite` is violated after four operations, once the slot is evicted. `buffer_flush` is called only from `filesys_done` at shutdown, and whether a writer can still run then depends on `threads/`, so no run checks it.
- **`free_map_release` from `inode_close` without `free_map_lock`** (line 572). Whether it can lose an update depends on `bitmap.c`'s word operations, and `free-map.c` and `bitmap.c` are not in this tree.
- **Paths of several components and failing `get_dir_path`.** These would need `directory.c`'s traversal.
- **Not modelled at all:** the buffer hit and access counters, and the device driver.
