---------------------------- MODULE DiskManager ----------------------------
(***************************************************************************)
(* The hot cache on one node's disk: bare repositories under repos/, the   *)
(* persistent LRU index, reservations with their scratch directories and   *)
(* markers, and the repository locks that forbid eviction.                 *)
(*                                                                         *)
(* The state mutex is modelled by reserving.pc: reserve() is the only      *)
(* operation that holds it over several steps, everything else that takes  *)
(* the mutex is one step guarded by MutexFree.  note_repo_access and the   *)
(* first half of a flush take only the pending-accesses mutex.  Sizes are  *)
(* counted in units; index, marker and empty-repository bytes round to 0.  *)
(*                                                                         *)
(* File operations fail.  write_json is fs::write, which truncates first:  *)
(* a write that fails or is cut off half-way leaves a file no later read   *)
(* can parse.  A failed operation that changes nothing is no step.         *)
(***************************************************************************)
EXTENDS Integers, FiniteSets, Functions

CONSTANTS
    Repos,
    Ids,               \* ids of reservations and of trash directories
    MaxUsable,         \* quota_bytes - min_free_bytes
    MaxReserve,        \* bound: the largest reservation
    MaxLocks,          \* bound: locks at which no more are taken
    MaxBuffered,       \* bound: accesses buffered, those a flush has taken included
    MaxFailed,         \* bound: ids a process fails to clean up after
    MaxTime            \* bound: the last instant of the clock

ASSUME DiskAssumption ==
    /\ IsFiniteSet(Repos) /\ IsFiniteSet(Ids)
    /\ MaxUsable \in Nat /\ MaxReserve \in Nat \ {0}
    /\ MaxLocks \in Nat /\ MaxBuffered \in Nat /\ MaxFailed \in Nat /\ MaxTime \in Nat \ {0}

VARIABLES
    repoDirs,          \* the repositories that have a directory
    size,              \* their bytes
    index,             \* index/repo-index.json, at = 0 when there is no entry
    readable,          \* load_index can parse the file (or finds none)
    marker,            \* reservations/<id>.json: the bytes, 0 when absent
    torn,              \* the ids whose marker file was left half-written
    tmpDirs,           \* the directories under tmp/
    tmpBytes,          \* their bytes
    active,            \* active_reservations: the bytes, 0 when absent
    locks,             \* repo_locks
    pending,           \* pending_accesses, 0 when absent
    taken,             \* the map a flush took from pending and has not applied
    reserving,         \* the reserve() call that holds the state mutex
    stage,             \* how far the owner of an id is with it
    failed,            \* ids some of whose files this process failed to delete
    left,              \* bytes of a reservation its holder has yet to write
    access,            \* last access of a repository that the manager was told of,
                       \* without those a crash or a truncated index lost
    up, clock

tmpVars == <<tmpDirs, tmpBytes, marker, torn>>
indexVars == <<index, readable>>
diskVars == <<repoDirs, size, tmpVars, indexVars>>
memVars == <<active, locks, pending, taken, reserving, stage, failed, left>>
vars == <<diskVars, memVars, access, up, clock>>

Time == 0 .. MaxTime
Entry == [at : Time, protected : BOOLEAN]
NoEntry == [at |-> 0, protected |-> FALSE]
NoTimes == [r \in Repos |-> 0]
NoBytes == [i \in Ids |-> 0]
Stages == {"none", "held", "unmarked", "removed", "trash"}

Reserving ==
    [pc : {"none", "evict", "grant"},
     bytes : 0 .. MaxReserve,
     index : [Repos -> Entry]]         \* the index as eviction sees it

NoEntries == [r \in Repos |-> NoEntry]
NotReserving == [pc |-> "none", bytes |-> 0, index |-> NoEntries]

DiskTypeOK ==
    /\ repoDirs \subseteq Repos
    /\ size \in [Repos -> Nat]
    /\ index \in [Repos -> Entry]
    /\ readable \in BOOLEAN
    /\ torn \subseteq Ids
    /\ failed \subseteq Ids
    /\ marker \in [Ids -> 0 .. MaxReserve]
    /\ tmpDirs \subseteq Ids
    /\ tmpBytes \in [Ids -> Nat]
    /\ active \in [Ids -> 0 .. MaxReserve]
    /\ locks \in [Repos -> 0 .. MaxLocks]
    /\ pending \in [Repos -> Time]
    /\ taken \in [Repos -> Time]
    /\ reserving \in Reserving
    /\ stage \in [Ids -> Stages]
    /\ left \in [Ids -> 0 .. MaxReserve]
    /\ access \in [Repos -> Time]
    /\ up \in BOOLEAN
    /\ clock \in Time

NothingInMemory ==
    /\ active' = NoBytes
    /\ locks' = NoTimes
    /\ pending' = NoTimes
    /\ taken' = NoTimes
    /\ reserving' = NotReserving
    /\ stage' = [i \in Ids |-> "none"]
    /\ failed' = {}
    /\ left' = NoBytes

DiskInit ==
    /\ repoDirs = {}
    /\ size = NoTimes
    /\ index = NoEntries /\ readable = TRUE
    /\ marker = NoBytes /\ torn = {} /\ tmpDirs = {} /\ tmpBytes = NoBytes
    /\ active = NoBytes
    /\ locks = NoTimes
    /\ pending = NoTimes /\ taken = NoTimes
    /\ reserving = NotReserving
    /\ stage = [i \in Ids |-> "none"] /\ failed = {}
    /\ left = NoBytes
    /\ access = NoTimes
    /\ up = TRUE
    /\ clock = 1

-----------------------------------------------------------------------------
MutexFree == up /\ reserving.pc = "none"

Later(s, t) == IF s > t THEN s ELSE t

OnDisk(i) == i \in tmpDirs \/ marker[i] # 0 \/ i \in torn

FreshId(i) == stage[i] = "none" /\ ~OnDisk(i)

\* write_index failed, before it touched the file or after.
IndexUnwritten ==
    \/ UNCHANGED indexVars
    \/ readable /\ index' = NoEntries /\ readable' = FALSE

\* What is known of accesses then: if the file was truncated, those buffered.
StillKnown ==
    IF readable' = readable THEN access
    ELSE [r \in Repos |-> IF r \in repoDirs THEN Later(pending[r], taken[r]) ELSE 0]

\* Files of an id stay behind because an operation on them failed.
LeftBehind(i) ==
    /\ Cardinality(failed \cup {i}) <= MaxFailed
    /\ failed' = failed \cup {i}

\* remove_dir_all(tmp/<id>), which may fail with some of the bytes still there.
RemoveTemp(i) ==
    \/ /\ tmpDirs' = tmpDirs \ {i}
       /\ tmpBytes' = [tmpBytes EXCEPT ![i] = 0]
       /\ UNCHANGED failed
    \/ /\ \E kept \in 0 .. tmpBytes[i] : tmpBytes' = [tmpBytes EXCEPT ![i] = kept]
       /\ LeftBehind(i)
       /\ UNCHANGED tmpDirs

UsedBytes == SumFunction(size) + SumFunction(tmpBytes)

\* Markers on disk and reservations in memory, each id once.
ReservedBytes == SumFunction([i \in Ids |-> Later(marker[i], active[i])])

\* Mutant of Fits: outstanding reservations are not counted.
FitsUnreserved(bytes) == UsedBytes + bytes <= MaxUsable

Fits(bytes) == UsedBytes + ReservedBytes + bytes <= MaxUsable

\* sync_repo_index_locked: exactly the repositories on disk; one without an
\* entry counts as accessed now.
SyncedIndex ==
    [r \in Repos |->
        IF r \notin repoDirs THEN NoEntry
        ELSE IF index[r].at = 0 THEN [at |-> clock, protected |-> FALSE]
        ELSE index[r]]

SyncedAccess ==
    [r \in Repos |-> IF r \in repoDirs /\ index[r].at = 0 THEN clock ELSE access[r]]

-----------------------------------------------------------------------------
(* reserve                                                                 *)

\* Take the mutex, sync the index and overlay the accesses not flushed yet.
ReserveBegin ==
    /\ MutexFree /\ readable
    /\ index' = SyncedIndex
    /\ access' = SyncedAccess
    /\ \E bytes \in 1 .. MaxReserve :
        reserving' = [pc |-> "evict", bytes |-> bytes,
            index |-> [r \in Repos |->
                IF SyncedIndex[r].at = 0 THEN NoEntry
                ELSE [SyncedIndex[r] EXCEPT !.at = Later(@, pending[r])]]]
    /\ UNCHANGED <<repoDirs, size, tmpVars, readable, active, locks, pending, taken, stage,
                   failed, left, up, clock>>

Evictable == {r \in Repos : reserving.index[r].at # 0
                            /\ ~reserving.index[r].protected /\ locks[r] = 0}

\* Mutant of LruEvictableRepo: locks are not consulted.
LruIgnoringLocks(v) ==
    LET candidates == {r \in Repos : reserving.index[r].at # 0 /\ ~reserving.index[r].protected} IN
    v \in candidates /\ \A r \in candidates : reserving.index[v].at <= reserving.index[r].at

LruEvictableRepo(v) ==
    v \in Evictable /\ \A r \in Evictable : reserving.index[v].at <= reserving.index[r].at

\* accounting_locked parses every marker.
Accountable == torn = {}

\* One turn of evict_until_available_locked.  The index it writes back is the
\* overlaid one.
EvictVictim ==
    /\ reserving.pc = "evict" /\ Accountable
    /\ ~Fits(reserving.bytes)
    /\ \E v \in Repos :
        LET rest == [reserving.index EXCEPT ![v] = NoEntry] IN
        /\ LruEvictableRepo(v)
        /\ repoDirs' = repoDirs \ {v}
        /\ size' = [size EXCEPT ![v] = 0]
        /\ access' = [access EXCEPT ![v] = 0]
        /\ index' = rest
        /\ reserving' = [reserving EXCEPT !.index = rest]
    /\ UNCHANGED <<tmpVars, readable, active, locks, pending, taken, stage, failed, left,
                   up, clock>>

\* The victim is deleted in part, or deleted and the index then not written;
\* reserve returns the error.
EvictFail ==
    /\ reserving.pc = "evict" /\ Accountable
    /\ ~Fits(reserving.bytes)
    /\ \E v \in Repos :
        /\ LruEvictableRepo(v)
        /\ \/ /\ \E kept \in 0 .. size[v] : size' = [size EXCEPT ![v] = kept]
              /\ UNCHANGED <<repoDirs, indexVars, access>>
           \/ /\ repoDirs' = repoDirs \ {v}
              /\ size' = [size EXCEPT ![v] = 0]
              /\ IndexUnwritten
              /\ access' = [StillKnown EXCEPT ![v] = 0]
    /\ reserving' = NotReserving
    /\ UNCHANGED <<tmpVars, active, locks, pending, taken, stage, failed, left, up, clock>>

\* Nothing can be evicted, or usage cannot be measured.
ReserveFull ==
    /\ reserving.pc = "evict"
    /\ Accountable => ~Fits(reserving.bytes) /\ Evictable = {}
    /\ reserving' = NotReserving
    /\ UNCHANGED <<diskVars, active, locks, pending, taken, stage, failed, left, access, up, clock>>

EvictedEnough ==
    /\ reserving.pc = "evict" /\ Accountable
    /\ Fits(reserving.bytes)
    /\ reserving' = [reserving EXCEPT !.pc = "grant"]
    /\ UNCHANGED <<diskVars, active, locks, pending, taken, stage, failed, left, access, up, clock>>

\* Usage is measured again: a holder may have written in the meantime.
ReserveGrant ==
    /\ reserving.pc = "grant"
    /\ IF Accountable /\ Fits(reserving.bytes)
       THEN \E i \in Ids :
            /\ FreshId(i)
            /\ tmpDirs' = tmpDirs \cup {i}
            /\ marker' = [marker EXCEPT ![i] = reserving.bytes]
            /\ active' = [active EXCEPT ![i] = reserving.bytes]
            /\ stage' = [stage EXCEPT ![i] = "held"]
            /\ left' = [left EXCEPT ![i] = reserving.bytes]
       ELSE UNCHANGED <<tmpDirs, marker, active, stage, left>>
    /\ reserving' = NotReserving
    /\ UNCHANGED <<repoDirs, size, tmpBytes, torn, indexVars, locks, pending, taken, failed,
                   access, up, clock>>

\* The directory exists but its marker could not be written, or only in part:
\* reserve returns the error and nobody owns the directory.
ReserveUnmarked ==
    /\ reserving.pc = "grant" /\ Accountable /\ Fits(reserving.bytes)
    /\ \E i \in Ids :
        /\ FreshId(i)
        /\ tmpDirs' = tmpDirs \cup {i}
        /\ torn' \in {torn, torn \cup {i}}
        /\ LeftBehind(i)
    /\ reserving' = NotReserving
    /\ UNCHANGED <<repoDirs, size, tmpBytes, marker, indexVars, active, locks, pending, taken,
                   stage, left, access, up, clock>>

-----------------------------------------------------------------------------
(* What the holder of a reservation does with it.                          *)

\* A pack is downloaded into the scratch directory.
Download(i) ==
    /\ stage[i] = "held" /\ left[i] > 0
    /\ tmpBytes' = [tmpBytes EXCEPT ![i] = @ + 1]
    /\ left' = [left EXCEPT ![i] = @ - 1]
    /\ UNCHANGED <<repoDirs, size, tmpDirs, marker, torn, indexVars, active, locks, pending,
                   taken, reserving, stage, failed, access, up, clock>>

\* hydrate_generation renames it into the repository, which it has locked.
Install(i, r) ==
    /\ stage[i] = "held" /\ tmpBytes[i] > 0
    /\ r \in repoDirs /\ locks[r] > 0
    /\ size' = [size EXCEPT ![r] = @ + tmpBytes[i]]
    /\ tmpBytes' = [tmpBytes EXCEPT ![i] = 0]
    /\ UNCHANGED <<repoDirs, tmpDirs, marker, torn, indexVars, memVars, access, up, clock>>

\* Reservation::drop, without the mutex until the last step.  The results of
\* both deletions are ignored.
DropMarker(i) ==
    /\ stage[i] = "held"
    /\ \/ marker' = [marker EXCEPT ![i] = 0] /\ UNCHANGED failed
       \/ LeftBehind(i) /\ UNCHANGED marker
    /\ stage' = [stage EXCEPT ![i] = "unmarked"]
    /\ left' = [left EXCEPT ![i] = 0]
    /\ UNCHANGED <<repoDirs, size, tmpDirs, tmpBytes, torn, indexVars, active, locks, pending,
                   taken, reserving, access, up, clock>>

DropTemp(i) ==
    /\ stage[i] = "unmarked"
    /\ RemoveTemp(i)
    /\ stage' = [stage EXCEPT ![i] = "removed"]
    /\ UNCHANGED <<repoDirs, size, marker, torn, indexVars, active, locks, pending, taken,
                   reserving, left, access, up, clock>>

DropActive(i) ==
    /\ stage[i] = "removed"
    /\ MutexFree
    /\ active' = [active EXCEPT ![i] = 0]
    /\ stage' = [stage EXCEPT ![i] = "none"]
    /\ UNCHANGED <<diskVars, locks, pending, taken, reserving, failed, left, access, up, clock>>

-----------------------------------------------------------------------------
(* Repositories: creation, locks, accesses, protection, invalidation.      *)

\* git init --bare, which the cold path of ensure_repo_dir runs.  An access
\* that was recorded while there was no directory still counts.
InitRepo(r) ==
    /\ up /\ r \notin repoDirs
    /\ repoDirs' = repoDirs \cup {r}
    /\ access' = [access EXCEPT ![r] = Later(index[r].at, Later(pending[r], taken[r]))]
    /\ UNCHANGED <<size, tmpVars, indexVars, memVars, up, clock>>

LockRepo(r) ==
    /\ MutexFree /\ \A q \in Repos : locks[q] < MaxLocks
    /\ locks' = [locks EXCEPT ![r] = @ + 1]
    /\ UNCHANGED <<diskVars, active, pending, taken, reserving, stage, failed, left, access, up, clock>>

\* Mutant of UnlockRepo: the count is not kept from going below zero.
UnlockTwice(r) ==
    /\ MutexFree
    /\ locks' = [locks EXCEPT ![r] = @ - 1]
    /\ UNCHANGED <<diskVars, active, pending, taken, reserving, stage, failed, left, access, up, clock>>

UnlockRepo(r) ==
    /\ MutexFree /\ locks[r] > 0
    /\ locks' = [locks EXCEPT ![r] = @ - 1]
    /\ UNCHANGED <<diskVars, active, pending, taken, reserving, stage, failed, left, access, up, clock>>

\* record_repo_access, and touch_repo_access, which differs only in the size
\* it records.
RecordRepoAccess(r) ==
    /\ MutexFree /\ readable
    /\ index' = [index EXCEPT ![r] = [at |-> clock, protected |-> @.protected]]
    /\ access' = IF r \in repoDirs THEN [access EXCEPT ![r] = clock] ELSE access
    /\ UNCHANGED <<repoDirs, size, tmpVars, readable, memVars, up, clock>>

SetRepoProtected(r, protected) ==
    /\ MutexFree /\ readable
    /\ index' = [index EXCEPT ![r] =
            [at |-> IF @.at = 0 THEN clock ELSE @.at, protected |-> protected]]
    /\ access' = IF r \in repoDirs /\ index[r].at = 0 THEN [access EXCEPT ![r] = clock]
                 ELSE access
    /\ UNCHANGED <<repoDirs, size, tmpVars, readable, memVars, up, clock>>

\* status and repo_index
SyncRepoIndex ==
    /\ MutexFree /\ readable
    /\ index' = SyncedIndex
    /\ access' = SyncedAccess
    /\ UNCHANGED <<repoDirs, size, tmpVars, readable, memVars, up, clock>>

\* Any of these, and reserve, fails in the write of the index.
IndexWriteFails ==
    /\ MutexFree /\ readable
    /\ index' = NoEntries
    /\ readable' = FALSE
    /\ access' = StillKnown
    /\ UNCHANGED <<repoDirs, size, tmpVars, memVars, up, clock>>

RenameToTrash(r, i) ==
    /\ FreshId(i)
    /\ tmpDirs' = tmpDirs \cup {i}
    /\ tmpBytes' = [tmpBytes EXCEPT ![i] = size[r]]
    /\ repoDirs' = repoDirs \ {r}
    /\ size' = [size EXCEPT ![r] = 0]

\* The directory is renamed into tmp/ and deleted later, outside the mutex.
InvalidateRepo(r) ==
    /\ MutexFree /\ locks[r] = 0 /\ readable
    /\ IF r \in repoDirs
       THEN \E i \in Ids : RenameToTrash(r, i) /\ stage' = [stage EXCEPT ![i] = "trash"]
       ELSE UNCHANGED <<repoDirs, size, tmpDirs, tmpBytes, stage>>
    /\ index' = [index EXCEPT ![r] = NoEntry]
    /\ pending' = [pending EXCEPT ![r] = 0]
    /\ access' = [access EXCEPT ![r] = 0]
    /\ UNCHANGED <<marker, torn, readable, active, locks, taken, reserving, failed, left,
                   up, clock>>

\* After the rename the index could not be read or written: the error is
\* returned and the renamed directory stays.
InvalidateFail(r) ==
    /\ MutexFree /\ locks[r] = 0 /\ r \in repoDirs
    /\ \E i \in Ids : RenameToTrash(r, i) /\ LeftBehind(i)
    /\ IndexUnwritten
    /\ access' = [StillKnown EXCEPT ![r] = 0]
    /\ UNCHANGED <<marker, torn, active, locks, pending, taken, reserving, stage, left,
                   up, clock>>

DeleteTrash(i) ==
    /\ stage[i] = "trash"
    /\ RemoveTemp(i)
    /\ stage' = [stage EXCEPT ![i] = "none"]
    /\ UNCHANGED <<repoDirs, size, marker, torn, indexVars, active, locks, pending, taken,
                   reserving, left, access, up, clock>>

-----------------------------------------------------------------------------
(* Buffered accesses                                                       *)

Buffered(times) == Cardinality({q \in Repos : times[q] # 0})

NoteRepoAccess(r) ==
    /\ up
    /\ Buffered([pending EXCEPT ![r] = clock]) + Buffered(taken) <= MaxBuffered
    /\ pending' = [pending EXCEPT ![r] = clock]
    /\ access' = IF r \in repoDirs THEN [access EXCEPT ![r] = clock] ELSE access
    /\ UNCHANGED <<diskVars, active, locks, taken, reserving, stage, failed, left, up, clock>>

Flushing == taken # NoTimes

\* flush_repo_accesses takes the map; the state mutex is not held.
FlushTake ==
    /\ up /\ ~Flushing /\ pending # NoTimes
    /\ taken' = pending
    /\ pending' = NoTimes
    /\ UNCHANGED <<diskVars, active, locks, reserving, stage, failed, left, access, up, clock>>

\* apply_pending_accesses
FlushApply ==
    /\ MutexFree /\ Flushing /\ readable
    /\ index' = [r \in Repos |->
            IF taken[r] = 0 THEN index[r]
            ELSE IF index[r].at # 0 THEN [index[r] EXCEPT !.at = Later(@, taken[r])]
            ELSE IF r \in repoDirs THEN [at |-> taken[r], protected |-> FALSE]
            ELSE NoEntry]
    /\ taken' = NoTimes
    /\ UNCHANGED <<repoDirs, size, tmpVars, readable, active, locks, pending, reserving, stage,
                   failed, left, access, up, clock>>

\* Mutant of FlushFail: the entries taken are not merged back.
FlushFailForgets ==
    /\ MutexFree /\ Flushing
    /\ IndexUnwritten
    /\ access' = StillKnown
    /\ taken' = NoTimes
    /\ UNCHANGED <<repoDirs, size, tmpVars, active, locks, pending, reserving, stage, failed,
                   left, up, clock>>

\* The index could not be read or written: the entries are merged back.
FlushFail ==
    /\ MutexFree /\ Flushing
    /\ IndexUnwritten
    /\ access' = StillKnown
    /\ pending' = [r \in Repos |-> Later(pending[r], taken[r])]
    /\ taken' = NoTimes
    /\ UNCHANGED <<repoDirs, size, tmpVars, active, locks, reserving, stage, failed, left,
                   up, clock>>

-----------------------------------------------------------------------------
(* Crash and restart                                                       *)

\* It may cut off a write of the index.
Crash ==
    /\ up
    /\ up' = FALSE
    /\ IndexUnwritten
    /\ NothingInMemory
    /\ access' = [r \in Repos |-> IF r \in repoDirs THEN index'[r].at ELSE 0]
    /\ UNCHANGED <<repoDirs, size, tmpVars, clock>>

\* Mutant of Start: only directories that have a marker are removed.
StartByMarkers ==
    /\ ~up
    /\ up' = TRUE
    /\ marker' = NoBytes /\ torn' = {}
    /\ tmpDirs' = {i \in tmpDirs : marker[i] = 0 /\ i \notin torn}
    /\ tmpBytes' = [i \in Ids |-> IF marker[i] = 0 /\ i \notin torn THEN tmpBytes[i] ELSE 0]
    /\ UNCHANGED <<repoDirs, size, indexVars, memVars, access, clock>>

\* cleanup_stale_temps(ZERO): whatever is under tmp/ and reservations/ and is
\* not an active reservation goes, markers by their name.
Start ==
    /\ ~up
    /\ up' = TRUE
    /\ marker' = [i \in Ids |-> IF active[i] # 0 THEN marker[i] ELSE 0]
    /\ torn' = {i \in torn : active[i] # 0}
    /\ tmpDirs' = {i \in tmpDirs : active[i] # 0}
    /\ tmpBytes' = [i \in Ids |-> IF active[i] # 0 THEN tmpBytes[i] ELSE 0]
    /\ UNCHANGED <<repoDirs, size, indexVars, memVars, access, clock>>

\* One deletion of a cleanup that goes no further: the process does not start.
\* A marker goes after its directory.
StartFail(i) ==
    /\ ~up
    /\ \/ /\ i \in tmpDirs
          /\ tmpDirs' = tmpDirs \ {i}
          /\ tmpBytes' = [tmpBytes EXCEPT ![i] = 0]
          /\ UNCHANGED <<marker, torn>>
       \/ /\ i \notin tmpDirs
          /\ marker' = [marker EXCEPT ![i] = 0]
          /\ torn' = torn \ {i}
          /\ UNCHANGED <<tmpDirs, tmpBytes>>
    /\ UNCHANGED <<repoDirs, size, indexVars, memVars, access, up, clock>>

DiskTick ==
    /\ clock < MaxTime
    /\ clock' = clock + 1
    /\ UNCHANGED <<diskVars, memVars, access, up>>

DiskNext ==
    \/ ReserveBegin \/ EvictVictim \/ EvictFail \/ ReserveFull \/ EvictedEnough
    \/ ReserveGrant \/ ReserveUnmarked
    \/ \E i \in Ids :
        \/ Download(i) \/ DropMarker(i) \/ DropTemp(i) \/ DropActive(i)
        \/ DeleteTrash(i) \/ StartFail(i)
    \/ \E i \in Ids, r \in Repos : Install(i, r)
    \/ \E r \in Repos :
        \/ InitRepo(r) \/ LockRepo(r) \/ UnlockRepo(r) \/ RecordRepoAccess(r)
        \/ SetRepoProtected(r, TRUE) \/ SetRepoProtected(r, FALSE)
        \/ InvalidateRepo(r) \/ InvalidateFail(r) \/ NoteRepoAccess(r)
    \/ SyncRepoIndex \/ IndexWriteFails \/ FlushTake \/ FlushApply \/ FlushFail
    \/ Crash \/ Start \/ DiskTick

DiskSpec == DiskInit /\ [][DiskNext]_vars

-----------------------------------------------------------------------------
(* Properties                                                              *)

\* "Reservations cannot over-allocate": what is on disk together with what the
\* holders of granted reservations may still write never exceeds the usable
\* bytes, through evictions, invalidations, the unlocked steps of
\* Reservation::drop, crashes and restarts.
NoOverAllocation == UsedBytes + SumFunction(left) <= MaxUsable

\* The directory of a repository that someone has locked never disappears, and
\* eviction leaves protected repositories alone.
PinnedKept ==
    [][\A r \in repoDirs :
        locks[r] > 0 \/ (reserving.pc # "none" /\ index[r].protected) => r \in repoDirs']_vars

\* No access a live process was told of is lost before it reaches the index:
\* it is there, or pending, or held by the flush in progress, whatever fails.
\* Only a truncated index loses accesses, those flushed to it and not since
\* noted again; what is still buffered then is kept through every failing flush.
AccessesKept ==
    up => \A r \in repoDirs :
        access[r] <= Later(index[r].at, Later(pending[r], taken[r]))

\* What an earlier process left under tmp/ and reservations/ does not outlive
\* the next start, wherever that process crashed and whatever cleanups failed
\* before: what is there has an owner, or this process failed to delete it.
NoOrphanScratch == up => \A i \in Ids : OnDisk(i) => stage[i] # "none" \/ i \in failed

=============================================================================
