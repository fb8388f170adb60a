---------------------- MODULE UpdateCoordinator_proofs ----------------------
(***************************************************************************)
(* Proofs about module UpdateCoordinator, for any number of callers, keys, *)
(* repositories and updates, with callers that go away at any point.       *)
(***************************************************************************)
EXTENDS UpdateCoordinator, TLAPS

\* The key of a spawned task is a real one; entries not handed out are empty.
EntriesFilled ==
    /\ \A e \in EntryIds : entries[e].task # "none" => entries[e].key \in UpdateKeys
    /\ \A e \in EntryIds : e >= nextEntry => entries[e].task = "none"

\* A task that is alive is the one the in-flight map names for its key.
AliveInMap == \A e \in Alive : inflight[entries[e].key] = e

\* An owner has an entry, and it removes it only after the task ended.
OwnersOrdered ==
    \A c \in Callers :
        /\ calls[c].pc \in {"owner", "remove"} => entries[calls[c].entry].task # "none"
        /\ calls[c].pc \in {"owner", "remove", "joined"} => calls[c].entry \in EntryIds
        /\ calls[c].pc = "remove" => entries[calls[c].entry].task = "done"

\* The inductive invariant.
CoordinatorInv ==
    /\ CoordinatorTypeOK
    /\ EntriesFilled
    /\ AliveInMap
    /\ OwnersOrdered
    /\ LeaseHeldByTask

-----------------------------------------------------------------------------
\* The initial state: an empty map and no task.
LEMMA CoordinatorInitInv == CoordinatorInit => CoordinatorInv
<1> SUFFICES ASSUME CoordinatorInit PROVE CoordinatorInv
  OBVIOUS
<1>1. CoordinatorTypeOK
  BY CoordinatorAssumption
  DEF CoordinatorInit, CoordinatorTypeOK, EntryOrNone, EntryIds, NoUpdate, UpdateEntry, NoCall, Call
<1>2. \A e \in EntryIds : entries[e].task = "none"
  BY DEF CoordinatorInit, NoUpdate
<1>3. Alive = {} /\ Leased = {}
  BY <1>2 DEF Alive, Leased
<1>4. EntriesFilled /\ AliveInMap
  BY <1>2, <1>3 DEF EntriesFilled, AliveInMap
<1>5. OwnersOrdered
  BY DEF CoordinatorInit, OwnersOrdered, NoCall
<1>6. LeaseHeldByTask
  BY <1>3 DEF LeaseHeldByTask, CoordinatorInit
<1> QED
  BY <1>1, <1>4, <1>5, <1>6 DEF CoordinatorInv

\* A step that leaves entries and leases alone keeps what is said of them.
LEMMA EntriesUnchanged ==
    ASSUME CoordinatorInv, UNCHANGED <<entries, held>>
    PROVE  /\ Alive' = Alive /\ Leased' = Leased
           /\ LeaseHeldByTask'
           /\ nextEntry' = nextEntry => EntriesFilled'
BY DEF CoordinatorInv, Alive, Leased, LeaseHeldByTask, EntriesFilled

\* Every step of a call keeps the invariant: an owner removes a key from the map
\* only when the task of its entry has ended.
LEMMA CallInv ==
    ASSUME CoordinatorInv, NEW c \in Callers,
           CallStep(c) \/ Cancel(c) \/ (\E k \in UpdateKeys : Join(c, k))
    PROVE  CoordinatorInv'
<1>1. CASE Publish(c)
  <2> DEFINE e == calls[c].entry
  <2>1. e \in EntryIds /\ entries[e] \in UpdateEntry
    BY <1>1 DEF CoordinatorInv, OwnersOrdered, Publish, CoordinatorTypeOK
  <2>2. entries' = [entries EXCEPT ![e] = [entries[e] EXCEPT !.result = entries[e].outcome]]
    BY <1>1 DEF Publish
  <2>3. [entries[e] EXCEPT !.result = entries[e].outcome] \in UpdateEntry
    BY <2>1 DEF UpdateEntry
  <2>4. calls' \in [Callers -> Call]
    BY <1>1 DEF Publish, CoordinatorInv, CoordinatorTypeOK, Call
  <2>5. CoordinatorTypeOK'
    BY <1>1, <2>1, <2>2, <2>3, <2>4 DEF Publish, CoordinatorInv, CoordinatorTypeOK
  <2>6. \A d \in EntryIds : entries'[d].task = entries[d].task /\ entries'[d].key = entries[d].key
    BY <2>1, <2>2 DEF CoordinatorInv, CoordinatorTypeOK, UpdateEntry
  <2>7. Alive' = Alive /\ Leased' = Leased
    BY <2>6 DEF Alive, Leased
  <2>8. EntriesFilled' /\ AliveInMap'
    BY <1>1, <2>6, <2>7 DEF Publish, CoordinatorInv, EntriesFilled, AliveInMap, Alive
  <2>9. LeaseHeldByTask'
    BY <1>1, <2>6, <2>7 DEF Publish, CoordinatorInv, LeaseHeldByTask, Leased
  <2>10. OwnersOrdered'
    BY <1>1, <2>1, <2>6 DEF Publish, CoordinatorInv, OwnersOrdered, CoordinatorTypeOK, Call
  <2> QED
    BY <2>5, <2>8, <2>9, <2>10 DEF CoordinatorInv
<1>2. CASE RemoveInflight(c)
  <2> DEFINE e == calls[c].entry
             k == entries[e].key
  <2>1. e \in EntryIds /\ entries[e].task = "done" /\ k \in UpdateKeys
    BY <1>2 DEF CoordinatorInv, OwnersOrdered, EntriesFilled, RemoveInflight
  <2>2. /\ UNCHANGED <<entries, held, nextEntry>>
        /\ inflight' = IF inflight[k] = e THEN [inflight EXCEPT ![k] = 0] ELSE inflight
        /\ calls' = [calls EXCEPT ![c] = NoCall]
    BY <1>2 DEF RemoveInflight
  <2>3. CoordinatorTypeOK'
    BY <2>1, <2>2, CoordinatorAssumption
    DEF CoordinatorInv, CoordinatorTypeOK, NoCall, Call, EntryOrNone
  <2>4. AliveInMap'
    BY <2>1, <2>2, EntriesUnchanged
    DEF CoordinatorInv, CoordinatorTypeOK, AliveInMap, Alive
  <2>5. OwnersOrdered'
    BY <2>2 DEF CoordinatorInv, CoordinatorTypeOK, OwnersOrdered, NoCall
  <2> QED
    BY <2>2, <2>3, <2>4, <2>5, EntriesUnchanged DEF CoordinatorInv
<1>3. CASE Wait(c) \/ Cancel(c)
  <2>1. PICK after \in Call :
           /\ UNCHANGED <<inflight, entries, held, nextEntry>>
           /\ calls' = [calls EXCEPT ![c] = after]
           /\ after.pc \in {"idle", "gone"}
    <3>1. NoCall \in Call /\ NoCall.pc = "idle"
      BY CoordinatorAssumption DEF NoCall, Call, EntryOrNone
    <3>2. [calls[c] EXCEPT !.pc = "gone"] \in Call /\ [calls[c] EXCEPT !.pc = "gone"].pc = "gone"
      BY DEF CoordinatorInv, CoordinatorTypeOK, Call
    <3> QED
      BY <1>3, <3>1, <3>2 DEF Wait, Cancel
  <2>2. CoordinatorTypeOK'
    BY <2>1 DEF CoordinatorInv, CoordinatorTypeOK
  <2>3. AliveInMap' /\ OwnersOrdered'
    BY <2>1, EntriesUnchanged DEF CoordinatorInv, CoordinatorTypeOK, AliveInMap, OwnersOrdered
  <2> QED
    BY <2>1, <2>2, <2>3, EntriesUnchanged DEF CoordinatorInv
<1>4. CASE \E k \in UpdateKeys : Join(c, k)
  <2>1. PICK k \in UpdateKeys : Join(c, k)
    BY <1>4
  <2>2. /\ UNCHANGED <<inflight, entries, held, nextEntry>>
        /\ calls' = [calls EXCEPT ![c] = [pc |-> "joined", entry |-> inflight[k]]]
        /\ inflight[k] \in EntryIds
    BY <2>1, CoordinatorAssumption
    DEF Join, CoordinatorInv, CoordinatorTypeOK, EntryOrNone, EntryIds
  <2>3. CoordinatorTypeOK'
    BY <2>2 DEF CoordinatorInv, CoordinatorTypeOK, Call
  <2>4. AliveInMap' /\ OwnersOrdered'
    BY <2>2, EntriesUnchanged DEF CoordinatorInv, CoordinatorTypeOK, AliveInMap, OwnersOrdered
  <2> QED
    BY <2>2, <2>3, <2>4, EntriesUnchanged DEF CoordinatorInv
<1> QED
  BY <1>1, <1>2, <1>3, <1>4 DEF CallStep

\* Starting an update keeps the invariant: the key had no entry, so no task for
\* it is alive.
LEMMA OwnInv ==
    ASSUME CoordinatorInv, NEW c \in Callers, NEW k \in UpdateKeys, Own(c, k)
    PROVE  CoordinatorInv'
<1> DEFINE new == [NoUpdate EXCEPT !.key = k, !.task = "acquire"]
<1>1. nextEntry \in EntryIds
  BY CoordinatorAssumption DEF Own, CoordinatorInv, CoordinatorTypeOK, EntryIds
<1>2. /\ new \in UpdateEntry /\ new.key = k /\ new.task = "acquire"
  BY DEF NoUpdate, UpdateEntry
<1>3. /\ inflight[k] = 0
      /\ inflight' = [inflight EXCEPT ![k] = nextEntry]
      /\ entries' = [entries EXCEPT ![nextEntry] = new]
      /\ calls' = [calls EXCEPT ![c] = [pc |-> "owner", entry |-> nextEntry]]
      /\ nextEntry' = nextEntry + 1
      /\ held' = held
  BY DEF Own
<1>4. CoordinatorTypeOK'
  BY <1>1, <1>2, <1>3, CoordinatorAssumption
  DEF CoordinatorInv, CoordinatorTypeOK, EntryOrNone, EntryIds, Call
<1>5. entries[nextEntry].task = "none"
  BY <1>1 DEF CoordinatorInv, EntriesFilled, EntryIds
<1>6. \A e \in EntryIds : e # nextEntry => entries'[e] = entries[e]
  BY <1>3 DEF CoordinatorInv, CoordinatorTypeOK
<1>7. entries'[nextEntry] = new
  BY <1>1, <1>3 DEF CoordinatorInv, CoordinatorTypeOK
<1>8. EntriesFilled'
  BY <1>1, <1>2, <1>3, <1>6, <1>7 DEF CoordinatorInv, EntriesFilled, EntryIds
<1>9. Leased' = Leased /\ Alive' = Alive \cup {nextEntry} /\ nextEntry \notin Alive
  BY <1>1, <1>2, <1>5, <1>6, <1>7 DEF Leased, Alive
<1>10. AliveInMap'
  <2>1. ASSUME NEW e \in Alive PROVE inflight'[entries'[e].key] = e
    <3>1. e \in EntryIds /\ e # nextEntry /\ entries'[e] = entries[e]
      BY <1>6, <1>9 DEF Alive
    <3>2. inflight[entries[e].key] = e /\ e # 0 /\ entries[e].key \in UpdateKeys
      BY <3>1 DEF CoordinatorInv, AliveInMap, EntryIds, EntriesFilled, Alive
    <3> QED
      BY <1>3, <3>1, <3>2 DEF CoordinatorInv, CoordinatorTypeOK
  <2>2. inflight'[entries'[nextEntry].key] = nextEntry
    <3>1. entries'[nextEntry].key = k
      BY <1>2, <1>7
    <3>2. inflight'[k] = nextEntry
      BY <1>3 DEF CoordinatorInv, CoordinatorTypeOK
    <3> QED
      BY <3>1, <3>2
  <2> QED
    BY <1>9, <2>1, <2>2 DEF AliveInMap
<1>11. OwnersOrdered'
  BY <1>1, <1>2, <1>3, <1>5, <1>6, <1>7 DEF CoordinatorInv, CoordinatorTypeOK, OwnersOrdered
<1>12. LeaseHeldByTask'
  BY <1>3, <1>5, <1>6, <1>9 DEF CoordinatorInv, LeaseHeldByTask, Leased
<1> QED
  BY <1>4, <1>8, <1>10, <1>11, <1>12 DEF CoordinatorInv

\* Every step of a task keeps the invariant: the lease is taken when free, and
\* given back on every way out.
LEMMA TaskInv ==
    ASSUME CoordinatorInv, NEW e \in EntryIds, TaskStep(e)
    PROVE  CoordinatorInv'
<1> DEFINE k == entries[e].key
           repo == RepoOfKey[k]
<1>1. /\ e \in Alive /\ entries[e] \in UpdateEntry
      /\ k \in UpdateKeys /\ repo \in LeaseRepos
      /\ UNCHANGED <<inflight, calls, nextEntry>>
  BY CoordinatorAssumption, SMTT(60)
  DEF TaskStep, AcquireLease, Execute, ReleaseLease, ExecutorPanics, Alive, CoordinatorInv,
      CoordinatorTypeOK, EntriesFilled
<1>2. PICK t \in {"run", "release", "done"}, o \in Results \cup {"none"} :
         /\ entries' = [entries EXCEPT ![e] = [entries[e] EXCEPT !.task = t, !.outcome = o]]
         /\ \/ entries[e].task = "acquire" /\ t = "done" /\ held' = held
            \/ entries[e].task = "acquire" /\ t = "run" /\ repo \notin held /\ held' = held \cup {repo}
            \/ entries[e].task = "run" /\ t = "release" /\ held' = held
            \/ entries[e].task \in {"run", "release"} /\ t = "done" /\ held' = held \ {repo}
  <2>1. CASE AcquireLease(e)
    <3>1. CASE repo \notin held /\ entries' = [entries EXCEPT ![e].task = "run"]
                  /\ held' = held \cup {repo}
      BY <1>1, <2>1, <3>1 DEF AcquireLease, UpdateEntry, CoordinatorInv, CoordinatorTypeOK
    <3>2. CASE \E o \in {"error", "busy"} :
                  entries' = [entries EXCEPT ![e].task = "done", ![e].outcome = o] /\ held' = held
      <4>1. PICK o \in {"error", "busy"} :
               entries' = [entries EXCEPT ![e].task = "done", ![e].outcome = o] /\ held' = held
        BY <3>2
      <4>2. entries' = [entries EXCEPT ![e] = [entries[e] EXCEPT !.task = "done", !.outcome = o]]
        BY <1>1, <4>1 DEF UpdateEntry, CoordinatorInv, CoordinatorTypeOK
      <4>3. entries[e].task = "acquire" /\ o \in Results
        BY <2>1 DEF AcquireLease, Results
      <4> QED
        BY <4>1, <4>2, <4>3
    <3> QED
      BY <2>1, <3>1, <3>2 DEF AcquireLease
  <2>2. CASE Execute(e)
    BY <1>1, <2>2 DEF Execute, Results, UpdateEntry, CoordinatorInv, CoordinatorTypeOK
  <2>3. CASE ReleaseLease(e)
    BY <1>1, <2>3 DEF ReleaseLease, Results, UpdateEntry, CoordinatorInv, CoordinatorTypeOK
  <2>4. CASE ExecutorPanics(e)
    BY <1>1, <2>4 DEF ExecutorPanics, Results, UpdateEntry, CoordinatorInv, CoordinatorTypeOK
  <2> QED
    BY <2>1, <2>2, <2>3, <2>4 DEF TaskStep
<1>3. \A d \in EntryIds : entries'[d].key = entries[d].key /\ (d # e => entries'[d] = entries[d])
  BY <1>1, <1>2 DEF CoordinatorInv, CoordinatorTypeOK, UpdateEntry
<1>4. entries'[e].task = t /\ entries[e].task \in {"acquire", "run", "release"}
  BY <1>1, <1>2 DEF CoordinatorInv, CoordinatorTypeOK, UpdateEntry, Alive
<1>5. CoordinatorTypeOK'
  <2>1. [entries[e] EXCEPT !.task = t, !.outcome = o] \in UpdateEntry
    BY <1>1, <1>2 DEF UpdateEntry
  <2>2. entries' \in [EntryIds -> UpdateEntry]
    BY <1>2, <2>1 DEF CoordinatorInv, CoordinatorTypeOK
  <2>3. held' \subseteq LeaseRepos
    BY <1>1, <1>2 DEF CoordinatorInv, CoordinatorTypeOK
  <2> QED
    BY <1>1, <2>2, <2>3 DEF CoordinatorInv, CoordinatorTypeOK
<1>6. EntriesFilled'
  BY <1>1, <1>3, <1>4 DEF CoordinatorInv, EntriesFilled
<1>7. AliveInMap'
  BY <1>1, <1>3 DEF CoordinatorInv, AliveInMap, Alive
<1>8. OwnersOrdered'
  BY <1>1, <1>2, <1>3, <1>4 DEF CoordinatorInv, OwnersOrdered
<1>9. LeaseHeldByTask'
  <2>0. /\ held = {RepoOfKey[entries[d].key] : d \in Leased}
        /\ \A d, f \in Leased : RepoOfKey[entries[d].key] = RepoOfKey[entries[f].key] => d = f
    BY DEF CoordinatorInv, LeaseHeldByTask
  <2>1. CASE t = "run"
    <3>1. Leased' = Leased \cup {e} /\ repo \notin held /\ held' = held \cup {repo}
      BY <1>2, <1>3, <1>4, <2>1 DEF Leased
    <3> QED
      BY <1>3, <2>0, <3>1 DEF LeaseHeldByTask, Leased
  <2>2. CASE t = "release"
    <3>1. Leased' = Leased /\ held' = held
      BY <1>2, <1>3, <1>4, <2>2 DEF Leased
    <3> QED
      BY <1>3, <2>0, <3>1 DEF LeaseHeldByTask, Leased
  <2>3. CASE t = "done" /\ entries[e].task = "acquire"
    <3>1. Leased' = Leased /\ held' = held
      BY <1>2, <1>3, <1>4, <2>3 DEF Leased
    <3> QED
      BY <1>3, <2>0, <3>1 DEF LeaseHeldByTask, Leased
  <2>4. CASE t = "done" /\ entries[e].task # "acquire"
    <3>1. e \in Leased /\ Leased' = Leased \ {e} /\ held' = held \ {repo}
      BY <1>2, <1>3, <1>4, <2>4 DEF Leased
    <3> QED
      BY <1>3, <2>0, <3>1 DEF LeaseHeldByTask, Leased
  <2> QED
    BY <1>2, <2>1, <2>2, <2>3, <2>4
<1> QED
  BY <1>5, <1>6, <1>7, <1>8, <1>9 DEF CoordinatorInv

\* Every step of the coordinator keeps the invariant.
LEMMA CoordinatorNextInv == CoordinatorInv /\ [CoordinatorNext]_vars => CoordinatorInv'
<1> SUFFICES ASSUME CoordinatorInv, [CoordinatorNext]_vars PROVE CoordinatorInv'
  OBVIOUS
<1>1. CASE CoordinatorNext
  BY <1>1, CallInv, OwnInv, TaskInv DEF CoordinatorNext
<1>2. CASE UNCHANGED vars
  BY <1>2 DEF vars, CoordinatorInv, CoordinatorTypeOK, EntriesFilled, AliveInMap, OwnersOrdered,
     LeaseHeldByTask, Alive, Leased
<1> QED
  BY <1>1, <1>2

-----------------------------------------------------------------------------
\* Entries, tasks and calls keep their shape: no call waits on an entry the map
\* never handed out.
THEOREM CoordinatorTypeCorrect == CoordinatorSpec => []CoordinatorTypeOK
<1>1. CoordinatorInv => CoordinatorTypeOK
  BY DEF CoordinatorInv
<1> QED
  BY <1>1, CoordinatorInitInv, CoordinatorNextInv, PTL DEF CoordinatorSpec

\* execute_with_lease: for one repository the executor runs at most once at a
\* time, and a held lease always has a task that gives it back.
THEOREM LeasesExclusive == CoordinatorSpec => []LeaseHeldByTask
<1>1. CoordinatorInv => LeaseHeldByTask
  BY DEF CoordinatorInv
<1> QED
  BY <1>1, CoordinatorInitInv, CoordinatorNextInv, PTL DEF CoordinatorSpec

\* inflight_for and remove_inflight: requests for one key never run two updates
\* at a time, even when owners are cancelled.
THEOREM UpdatesCoalesce == CoordinatorSpec => []OneUpdatePerKey
<1>1. CoordinatorInv => OneUpdatePerKey
  BY DEF CoordinatorInv, AliveInMap, OneUpdatePerKey
<1> QED
  BY <1>1, CoordinatorInitInv, CoordinatorNextInv, PTL DEF CoordinatorSpec

=============================================================================
