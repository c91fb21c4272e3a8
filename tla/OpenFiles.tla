----------------------------- MODULE OpenFiles ------------------------------
(***************************************************************************)
(* What the open-inode layer promises its callers (spec 4.4, 8.6, 8.7),    *)
(* with no table, no records and no locks: each thread keeps handles in    *)
(* slots, a handle names an inode by its home sector, and                  *)
(*   - a handle is opened only on an inode no directory has unlinked,      *)
(*     or copied from a handle already held (reopen);                      *)
(*   - removal unlinks the inode a handle names;                           *)
(*   - an unlinked inode's sectors go back to the free map once, and only  *)
(*     when no handle names it, and that does eventually happen.           *)
(* Deny-write counts are not part of this view.                            *)
(***************************************************************************)
EXTENDS Naturals

CONSTANTS Threads, Sectors, HSlots, NONE

VARIABLES
    handle,     \* handle[t][k]: the sector slot k of thread t names, or NONE
    unlinked,   \* sectors whose inode has been removed
    released    \* released[s]: times sector s's inode went back to the free map

avars == <<handle, unlinked, released>>

\* Some handle of some thread names sector s.
Named(s) == \E t \in Threads, k \in HSlots : handle[t][k] = s

Init ==
    /\ handle = [t \in Threads |-> [k \in HSlots |-> NONE]]
    /\ unlinked = {}
    /\ released = [s \in Sectors |-> 0]

Open(t, k, s) ==
    /\ handle[t][k] = NONE
    /\ s \notin unlinked
    /\ handle' = [handle EXCEPT ![t][k] = s]
    /\ UNCHANGED <<unlinked, released>>

Reopen(t, k, j) ==
    /\ handle[t][k] # NONE /\ handle[t][j] = NONE
    /\ handle' = [handle EXCEPT ![t][j] = handle[t][k]]
    /\ UNCHANGED <<unlinked, released>>

Close(t, k) ==
    /\ handle[t][k] # NONE
    /\ handle' = [handle EXCEPT ![t][k] = NONE]
    /\ UNCHANGED <<unlinked, released>>

Remove(t, k) ==
    /\ handle[t][k] # NONE
    /\ unlinked' = unlinked \cup {handle[t][k]}
    /\ UNCHANGED <<handle, released>>

Release(s) ==
    /\ s \in unlinked /\ ~Named(s) /\ released[s] = 0
    /\ released' = [released EXCEPT ![s] = 1]
    /\ UNCHANGED <<handle, unlinked>>

Next ==
    \/ \E t \in Threads, k \in HSlots :
          \/ \E s \in Sectors : Open(t, k, s)
          \/ \E j \in HSlots : Reopen(t, k, j)
          \/ Close(t, k)
          \/ Remove(t, k)
    \/ \E s \in Sectors : Release(s)

Spec == Init /\ [][Next]_avars /\ \A s \in Sectors : WF_avars(Release(s))
=============================================================================
