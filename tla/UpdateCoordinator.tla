------------------------- MODULE UpdateCoordinator -------------------------
(***************************************************************************)
(* The worker's update coordinator: concurrent requests for one            *)
(* (repository, target) key share one in-flight update, and one lease per  *)
(* repository keeps updates of different targets apart.                    *)
(*                                                                         *)
(* A call is the future a caller awaits; the update itself runs in a task  *)
(* of its own.  Dropping the future of a call (a client that disconnects)  *)
(* does not stop the task.  Entries are numbered in the order in which     *)
(* inflight_for creates them.                                              *)
(***************************************************************************)
EXTENDS Integers, FiniteSets

CONSTANTS
    Callers,
    UpdateKeys,        \* (repository, target)
    LeaseRepos,        \* the repositories
    RepoOfKey,         \* the repository of a key
    MaxEntries         \* bound: updates started

ASSUME CoordinatorAssumption ==
    /\ RepoOfKey \in [UpdateKeys -> LeaseRepos]
    /\ MaxEntries \in Nat

VARIABLES
    inflight,          \* inflight[k]: the entry a request for k joins, 0 for none
    entries,           \* entries[e]: key, task state and published result
    held,              \* the repositories whose lease is held
    calls,             \* calls[c]: what caller c awaits
    nextEntry

vars == <<inflight, entries, held, calls, nextEntry>>

EntryIds == 1 .. MaxEntries
EntryOrNone == 0 .. MaxEntries
Results == {"updated", "busy", "error"}

UpdateEntry ==
    [key : UpdateKeys \cup {"none"},
     task : {"none", "acquire", "run", "release", "done"},
     outcome : Results \cup {"none"},      \* what the task returns
     result : Results \cup {"none"}]       \* what the watch channel holds

Call == [pc : {"idle", "owner", "remove", "joined", "gone"}, entry : EntryOrNone]

NoUpdate == [key |-> "none", task |-> "none", outcome |-> "none", result |-> "none"]
NoCall == [pc |-> "idle", entry |-> 0]

CoordinatorTypeOK ==
    /\ inflight \in [UpdateKeys -> EntryOrNone]
    /\ entries \in [EntryIds -> UpdateEntry]
    /\ held \subseteq LeaseRepos
    /\ calls \in [Callers -> Call]
    /\ nextEntry \in 1 .. (MaxEntries + 1)

CoordinatorInit ==
    /\ inflight = [k \in UpdateKeys |-> 0]
    /\ entries = [e \in EntryIds |-> NoUpdate]
    /\ held = {}
    /\ calls = [c \in Callers |-> NoCall]
    /\ nextEntry = 1

-----------------------------------------------------------------------------
(* update                                                                  *)

\* Mutant of Join: the joiner keeps the key and not the entry.
JoinKey(c, k) ==
    /\ calls[c].pc = "idle"
    /\ inflight[k] # 0
    /\ calls' = [calls EXCEPT ![c] = [pc |-> "joined", entry |-> k]]
    /\ UNCHANGED <<inflight, entries, held, nextEntry>>

\* inflight_for finds an entry: the caller waits for its result.
Join(c, k) ==
    /\ calls[c].pc = "idle"
    /\ inflight[k] # 0
    /\ calls' = [calls EXCEPT ![c] = [pc |-> "joined", entry |-> inflight[k]]]
    /\ UNCHANGED <<inflight, entries, held, nextEntry>>

\* Mutant of Own: an update starts although one for the key is in flight.
OwnAlways(c, k) ==
    /\ calls[c].pc = "idle"
    /\ nextEntry <= MaxEntries
    /\ inflight' = [inflight EXCEPT ![k] = nextEntry]
    /\ entries' = [entries EXCEPT ![nextEntry] = [NoUpdate EXCEPT !.key = k, !.task = "acquire"]]
    /\ calls' = [calls EXCEPT ![c] = [pc |-> "owner", entry |-> nextEntry]]
    /\ nextEntry' = nextEntry + 1
    /\ UNCHANGED held

\* It finds none: the caller inserts one, spawns the task and awaits it.
Own(c, k) ==
    /\ calls[c].pc = "idle"
    /\ inflight[k] = 0
    /\ nextEntry <= MaxEntries
    /\ inflight' = [inflight EXCEPT ![k] = nextEntry]
    /\ entries' = [entries EXCEPT ![nextEntry] = [NoUpdate EXCEPT !.key = k, !.task = "acquire"]]
    /\ calls' = [calls EXCEPT ![c] = [pc |-> "owner", entry |-> nextEntry]]
    /\ nextEntry' = nextEntry + 1
    /\ UNCHANGED held

\* Mutant of Publish: the owner returns without publishing an error.
PublishSuccessOnly(c) ==
    LET e == calls[c].entry IN
    /\ calls[c].pc = "owner"
    /\ entries[e].task = "done"
    /\ entries' = [entries EXCEPT ![e].result =
            IF entries[e].outcome = "error" THEN "none" ELSE entries[e].outcome]
    /\ calls' = [calls EXCEPT ![c].pc = "remove"]
    /\ UNCHANGED <<inflight, held, nextEntry>>

\* The task ended: its result, or the error a panic becomes, goes to the
\* joiners; the next await is the one for the map's mutex.
Publish(c) ==
    LET e == calls[c].entry IN
    /\ calls[c].pc = "owner"
    /\ entries[e].task = "done"
    /\ entries' = [entries EXCEPT ![e].result = entries[e].outcome]
    /\ calls' = [calls EXCEPT ![c].pc = "remove"]
    /\ UNCHANGED <<inflight, held, nextEntry>>

\* Mutant of RemoveInflight: the entry stays in the map.
KeepInflight(c) ==
    /\ calls[c].pc = "remove"
    /\ calls' = [calls EXCEPT ![c] = NoCall]
    /\ UNCHANGED <<inflight, entries, held, nextEntry>>

\* remove_inflight, unless the key has another entry by now.
RemoveInflight(c) ==
    LET e == calls[c].entry  k == entries[e].key IN
    /\ calls[c].pc = "remove"
    /\ inflight' = IF inflight[k] = e THEN [inflight EXCEPT ![k] = 0] ELSE inflight
    /\ calls' = [calls EXCEPT ![c] = NoCall]
    /\ UNCHANGED <<entries, held, nextEntry>>

\* InflightUpdate::wait returns once the channel holds a result.  It never sees
\* the channel closed: the entry the joiner holds owns the sender.
Wait(c) ==
    /\ calls[c].pc = "joined"
    /\ entries[calls[c].entry].result # "none"
    /\ calls' = [calls EXCEPT ![c] = NoCall]
    /\ UNCHANGED <<inflight, entries, held, nextEntry>>

\* The caller drops the future; nothing runs in its place.  A caller that owned
\* an update is gone for good, one that only waited may call again.
Cancel(c) ==
    /\ calls[c].pc \in {"owner", "remove", "joined"}
    /\ calls' = [calls EXCEPT ![c] =
            IF calls[c].pc = "joined" THEN NoCall ELSE [calls[c] EXCEPT !.pc = "gone"]]
    /\ UNCHANGED <<inflight, entries, held, nextEntry>>

-----------------------------------------------------------------------------
(* execute_with_lease, the spawned task                                    *)

\* The lease is granted, or the task ends: another update holds it, or the lease
\* manager fails.
AcquireLease(e) ==
    LET repo == RepoOfKey[entries[e].key] IN
    /\ entries[e].task = "acquire"
    /\ \/ /\ repo \notin held
          /\ entries' = [entries EXCEPT ![e].task = "run"]
          /\ held' = held \cup {repo}
       \/ /\ \E outcome \in {"error"} \cup (IF repo \in held THEN {"busy"} ELSE {}) :
               entries' = [entries EXCEPT ![e].task = "done", ![e].outcome = outcome]
          /\ UNCHANGED held
    /\ UNCHANGED <<inflight, calls, nextEntry>>

\* executor.update returns.
Execute(e) ==
    /\ entries[e].task = "run"
    /\ \E outcome \in {"updated", "error"} :
        entries' = [entries EXCEPT ![e].task = "release", ![e].outcome = outcome]
    /\ UNCHANGED <<inflight, held, calls, nextEntry>>

ReleaseLease(e) ==
    /\ entries[e].task = "release"
    /\ held' = held \ {RepoOfKey[entries[e].key]}
    /\ entries' = [entries EXCEPT ![e].task = "done"]
    /\ UNCHANGED <<inflight, calls, nextEntry>>

\* Mutant of ExecutorPanics: the lease is not released when it is dropped.
PanicKeepsLease(e) ==
    /\ entries[e].task = "run"
    /\ entries' = [entries EXCEPT ![e].task = "done", ![e].outcome = "error"]
    /\ UNCHANGED <<inflight, held, calls, nextEntry>>

\* A panic unwinds the task; dropping the lease releases it.
ExecutorPanics(e) ==
    /\ entries[e].task = "run"
    /\ held' = held \ {RepoOfKey[entries[e].key]}
    /\ entries' = [entries EXCEPT ![e].task = "done", ![e].outcome = "error"]
    /\ UNCHANGED <<inflight, calls, nextEntry>>

-----------------------------------------------------------------------------
TaskStep(e) == AcquireLease(e) \/ Execute(e) \/ ReleaseLease(e) \/ ExecutorPanics(e)

CallStep(c) == Publish(c) \/ RemoveInflight(c) \/ Wait(c)

CoordinatorNext ==
    \/ \E c \in Callers, k \in UpdateKeys : Join(c, k) \/ Own(c, k)
    \/ \E c \in Callers : CallStep(c) \/ Cancel(c)
    \/ \E e \in EntryIds : TaskStep(e)

CoordinatorSpec == CoordinatorInit /\ [][CoordinatorNext]_vars

\* The runtime polls every task and every awaited future that can make
\* progress, and the executor's Git commands have timeouts.
FairCoordinatorSpec ==
    /\ CoordinatorSpec
    /\ \A c \in Callers : WF_vars(CallStep(c))
    /\ \A e \in EntryIds : WF_vars(TaskStep(e))

-----------------------------------------------------------------------------
(* Properties                                                              *)

\* The updates whose task has not ended, and those that hold the lease.
Alive == {e \in EntryIds : entries[e].task \in {"acquire", "run", "release"}}
Leased == {e \in EntryIds : entries[e].task \in {"run", "release"}}

\* The executor never runs twice at a time for one repository, and a lease that
\* is held belongs to a task that will release it, through panics and callers
\* that go away.
LeaseHeldByTask ==
    /\ held = {RepoOfKey[entries[e].key] : e \in Leased}
    /\ \A d, e \in Leased : RepoOfKey[entries[d].key] = RepoOfKey[entries[e].key] => d = e

\* Requests for one key share one update: two tasks for the same key are never
\* alive together, however calls are cancelled.
OneUpdatePerKey == \A d, e \in Alive : entries[d].key = entries[e].key => d = e

\* Every caller that waits for somebody else's update gets an answer.
JoinersAnswered == \A c \in Callers : (calls[c].pc = "joined") ~> (calls[c].pc = "idle")

\* The call that started the update of entry e was dropped.
Abandoned(e) == \E c \in Callers : calls[c] = [pc |-> "gone", entry |-> e]

\* They do unless the call that started the update was dropped: errors, a busy
\* lease and panics are all published (update, InflightUpdate::complete).
JoinersAnsweredUnlessAbandoned ==
    \A c \in Callers :
        (calls[c].pc = "joined") ~> (calls[c].pc = "idle" \/ Abandoned(calls[c].entry))

\* Unless that call was dropped, the entry leaves the in-flight map, so whoever
\* asks after the update gets a new one (remove_inflight).
KeysFreedUnlessAbandoned ==
    \A k \in UpdateKeys :
        (inflight[k] # 0) ~> (inflight[k] = 0 \/ Abandoned(inflight[k]))

=============================================================================
