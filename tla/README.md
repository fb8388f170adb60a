# TLA+ models of git-mirror-cache

git-mirror-cache serves Git repositories from a cache: API nodes fetch branches
and commits from an upstream host into bare repositories on their disks, publish
what they fetched as *generations* (packs plus manifests) to a shared object
store, and hydrate from there when their own disk is cold. This directory holds
TLA+ models of the parts of it where interleaving, crashes and limits make
testing hard, the TLC configurations that check them, and TLAPS proofs.

Paths below are relative to `src/crates/`; `materializer/` stands for
`git-cache-domain/src/materializer/`.

## 1. Inventory

| Component | State | Operations | Talks to |
|---|---|---|---|
| Object store layout (`git-cache-objectstore`, `git-cache-core/src/manifest.rs`) | pack objects, generation, commit and branch manifests, one head object per repository | put, put-if-absent, compare-and-swap by version, skip-if-present upload, delete, list | every node |
| Branch materialization (`materializer/planning.rs` 692-1131) | per-request locals; the node's bare repository and its refs | `ensure_branch`, fetch, `record_verified_branch_refs`, `ensure_branch_manifests` | upstream Git, publish |
| Generation publish (`materializer/generations.rs` 236-624) | per-request locals | pack, upload, manifests, head CAS with bounded retries | store, disk manager |
| Compaction and retention sweep (`generations.rs` 626-1026) | per-run locals | repack the head's chain into one pack, repoint manifests, delete superseded generations and orphan packs | store, own scratch disk |
| Exact-commit materialization, hydration (`planning.rs` 386-690, `generations.rs` 30-234) | bare repository | hydrate a generation, index a commit from a known generation, fall back to upstream | store, disk manager |
| Disk manager (`git-cache-disk`) | repositories on disk, LRU index file, reservations with markers and scratch directories, lock counts, buffered accesses | reserve with eviction, lock, note/flush/record access, protect, invalidate, clean up at start | every request on the node |
| Repository locks (`materializer/repo.rs` 599-704) | per-repository mutation mutex, RepoLock counts, Git lock files | lock, clear stale lock files | all mutations |
| Update coordinator (`git-cache-worker`) | in-flight map, leases | coalesced update, lease, cron loop, event intake | the materializer through an executor |
| Direct Git and read-through (`direct_git.rs`) | the bare repository with Git's shallow file, the partial-hydration and the incomplete-closure marker; in-flight sets of fsck and repack | decide what can be served locally, hydrate or fetch the rest, verify closures, start upload-pack, repack | upstream Git, store, upload-pack |
| Proxy tee, import, warm jobs (`proxy_tee.rs`, `git-cache-api/src/lib.rs`) | per response: demultiplexer, queue, spool with reservations; per node: import permits, job set | copy an upstream response to the client and to the cache, import it or warm the repository, publish what was served | upstream, disk, materializer |
| Git subprocess layer (`git-cache-git`) | none | run Git, parse its output | the bare repository |
| LFS batch and download (`git-cache-api/src/lib.rs`) | objects by oid, written once | batch, download, cache fill | upstream, store |
| API, configuration, authentication, CLI | configuration, proof cache, rate limiter | routing, parsing | all of the above |

What is hard here:

* *Many publishers, one head.* Publishers hold no distributed lock; a
  compare-and-swap on one object orders them, and every publish is incremental
  on top of a head that may have been replaced since it was read.
* *Several pieces of state per publish*, written one by one: a crash may leave
  any prefix, and readers see any prefix.
* *Deletion beside publication.* The sweep decides from timestamps and a listing
  what nobody needs any more while publishers go on.
* *A shared bare repository.* Requests on one node move its refs; only part of
  a request runs under the mutation lock.
* *Space accounting without one lock.* Holders of reservations write, and
  release them, outside the disk manager's mutex.
* *Files that speak for the repository.* Whether a clone can be served is told
  from the shallow file and two marker files, read without the lock under which
  other requests change them, and written after the fetch they describe.
* *A response with two readers.* The client and the spool read one stream; it may
  end by itself, by an error, at a limit or because the client goes away, and what
  follows must happen once, whatever the writer task is doing.
* *Coalescing with cancellation.* Callers wait for an update that somebody
  else's future finishes.

Every hazard is listed in `PROJECT.json` with its line and the properties that
would catch it; those without a property say why.

## 2. Modules

### GenerationStore and Publish

`GenerationStore` is the durable layer of one repository. A Git object closure
is a set of commits, `Anc[c]` being the history of `c`; a pack is
content-addressed and therefore *is* its content. `packAt`, `gens`, `commitGen`,
`refGen` and `head` are the five kinds of objects below `repos/<repo>/`. The
version token of the head is a digest of its content, so the content stands for
it.

`Publish` adds nodes (`objs`, `refs`: the bare repository), workers (`req`: one
in-flight request each, its `pc` and its locals) and upstream. One action is one
step between two awaits that another actor can observe:

| Actions | Code |
|---|---|
| `ResolveTip`, `CheckLocal`, `RecordVerifiedBranchRefs`, `EnsureBranchManifests`, `FetchBranch` | `ensure_branch`, `ensure_branch_from_verified_tip`, `record_verified_branch_refs`, `ensure_branch_manifests` |
| `CheckExisting`, `ReadHead`, `PackIncremental`, `PackFull`, `LocalGitFails`, `SnapshotRefs` | `publish_generation_with_parent_mode` |
| `UploadPack`, `WriteGenerationManifest`, `WriteCommitManifest`, `WriteRefManifest` | `publish_pack_files`, `write_publish_manifests` |
| `ReadHeadVersion`, `CasHead` | `finish_generation_publish` |
| `UpstreamPush`, `Tick`, `Evict`, `Fail` | environment |

Abstractions: only the refs below `refs/cache/upstream/heads` exist; the default
ref (`HEAD` manifest, `put_default_manifest`) is left out; a head and the
manifest it names are read in one step; the refs for the manifest and the scan
for commits without a manifest are one step; `created_at` is read in the step
that packs, which follows it in the code with nothing but a ref listing between;
the incremental pack may fail for any reason; the fetch is one step under the
mutation lock and takes the path of a complete (not shallow, not partial)
repository; the disk reservation of a publish always succeeds.

### Compaction

Extends `Publish` with runs of `compact_generation_chain` (compaction, then the
sweep). `CompactHydrate` is `hydrate_generation` followed by the repack;
`RepointManifest` is one turn of `repoint_manifests_after_compaction`, its read
and write merged. The sweep's listing and its reads of the manifests are one
step. `TimelyTick` lets time pass only while no operation in flight is older
than `OpDeadline`: the retention window (a day by default) is compared with
operations of seconds or minutes.

### ExactCommit and DurableCache

`ExactCommit` extends `Publish` with the requests for an exact and for a short
commit (`ensure_exact_commit`, `ensure_short_commit`), which run beside branch
requests and end in the same publish: `ReadCommitManifest` and
`FetchShortCommit` begin a request, `CheckExactLocal` decides what comes next,
`HydratePacks`, `ApplyRefSnapshot` and `HydrateUnavailable` are
`hydrate_generation`, `FetchAllRefs` goes to upstream. `IndexReadHead`,
`IndexFromHead`, `IndexListRefs` and `IndexFromRef` are
`index_local_commit_from_known_generation`: the head, the manifests of its tips one
by one, the refs that contain the commit and the manifests of those one by one, with
steps of other nodes in between, until a generation is found to hold the commit and
`IndexLocalCommit` overwrites its manifest. The manifest of a tip and what the node
answers about that tip are one step, and tips are looked at in any order. A request
of `Publish` carries `exact` (which caller continues when its publish is over),
`parent` (whether the publish may build on the head) and `from` (who asked for the
index) for it. `answered`, the commits
whose request returned success, is a ghost.

`DurableCache` is what the cache promises of one repository: a set `durable`
that only grows, answers for durable commits only, and a head whose tips are
durable. `Durable` maps it to the store: the commits whose manifest names a
generation that can be restored and holds their history.
`ImplementsDurableCache` is the refinement, a `PROPERTY` of run `exact`.

### DirectGit

One repository on one node, as clones and fetches use it. A commit stands for
itself with its trees, its blobs are one object of their own; `repo` has the
objects, the refs, the shallow file and the two markers. A client's intent
(wants, blob wants, filter, depth, deepen-from, and the ref proof it came with)
passes through

| Actions | Code |
|---|---|
| `Begin`, `PrepareFromCache`, `PrepareWants` | the decision of `git_repo_post`, `prepare_upload_pack_from_cache` |
| `Proxy`, `TeeIndex`, `TeeMark`, `TeeMarkFails` | a cold miss proxied to upstream, and what the import of its pack does here, or undoes |
| `EnsureRepoDir`, `LockRepo`, `ReadMarkers`, `ReadBoundary`, `Classify` | which wants are ready (`Window`: the window algorithm) |
| `Hydrate`, `HydrateMisses`, `Evicted`, `LockMutation`, `BatchedFetch`, `FetchAllHeads`, `PrepareFetched`, `Retry`, `Mark` | the hydration from generations and from upstream, with its fallbacks and its bookkeeping |
| `Finish`, `Spawn` | upload-pack (`UploadPack` is how it ends) and the background maintenance |
| `Fsck`, `StartRepack`, `FinishRepack` | maintenance tasks |
| `Evict`, `Drop`, `Restart` | the faults: eviction by the disk manager, a dropped request, a restart |

Upstream does not move during a run, but a proof may be older than the tips.
Two ghosts bound what the properties claim: `raced` marks a request under which
the repository changed between its check and its upload-pack, `untrusted` a
repository whose bookkeeping was interrupted or overtaken, or an import of which was
undone after its pack was indexed. The code protects neither, and section 5 says
so. `RefetchedWantsWhole` and `FetchedKept` exempt neither. What the repository held
before an import is taken to be in packs of its own, so that deleting the import's
pack takes away only what the import brought.

### ProxyTee

The path of a cold miss through one node. The wire is a sequence of frames of
two units (header and payload) or single units (raw pack data, flush); a chunk
takes any allowed number of units, so that it may end inside a frame. `Feed` is
the demultiplexer with its buffer limit, `TeeChunk` the bounded channel, `Writer`
the spool task with its reservations, `FollowUp` the import, the warm and the
generation task, `RunJob` the background materialize jobs with their in-flight
set. Any step of a task may fail where the code has an error path, jobs may
panic, and a stream may be dropped at any point. When the generation task cannot
read the commit manifest it warns and ends, with nothing published: that is the one
way out which `ServedWantPublished` allows beside a publish or a job in flight. What the import does to the
repository is in `DirectGit`, what a publish does in `Publish`: a job here ends
in success or failure.

### DiskManager

One process on one cache root. `reserve()` is the only operation that holds the
state mutex over several steps, so the mutex is `reserving.pc`; everything else
that takes it is one step guarded by `MutexFree`. `note_repo_access` and the
first half of a flush take only the pending-accesses mutex. Sizes are units;
`left[i]` is what the holder of reservation `i` may still write. `access`, the
last access to each repository that the manager was told of, is a ghost. Not in the
accounting, as in the code: what fetches, repacks and index files add without a
reservation.

File operations fail, and the process may crash between any two of them:

* `write_json` is a truncating `fs::write`, so a failed or interrupted write may
  leave a file nobody can parse. A torn index (`readable = FALSE`) loses what was
  in it and fails every later operation on it until someone repairs or removes the
  file (nothing in the code does); `EvictFail`, `IndexWriteFails`, `InvalidateFail`,
  `FlushFail` and `Crash` do that. A torn marker (`torn`, from `ReserveUnmarked`)
  fails the accounting, and with it every reservation, until the next start.
* `Reservation::drop` ignores failed deletions of the marker and of the scratch
  directory (`DropMarker`, `DropTemp`); `reserve` may fail after it created the
  directory (`ReserveUnmarked`), `invalidate_repo` after its rename
  (`InvalidateFail`) or in the deletion (`DeleteTrash`). `failed` is the ghost that
  names what was left in this way.
* A start may delete part of what it finds and fail (`StartFail`).

An operation that fails without having changed anything is no step.

### UpdateCoordinator and WorkerLoops

`calls[c]` is the future a caller awaits, `entries[e]` an `InflightUpdate`
together with the task spawned for it. `Cancel` drops a future: tokio runs
nothing in its place, while the spawned task continues; the owner's call is then
`"gone"` for good, and nobody will answer its joiners or free its key. The
properties about answers are therefore stated twice: `JoinersAnswered` as the
code intends it, and `JoinersAnsweredUnlessAbandoned` and
`KeysFreedUnlessAbandoned` for the entries whose owner stays. The executor is a
step that ends in success, an error or a panic, and acquiring a lease may fail. That
releasing one fails is left out: the in-memory manager does so only after a panic of
its own.

`WorkerLoops` adds the callers: the cron loop, which goes through its jobs at
every tick and ends at the first failed one; the event intake, which takes hints
from a bounded channel; the stop signal both select on; and read-through
requests, the only callers that may go away. A loop calls the coordinator by its
actions, so that every step of the loops is a step of the coordinator or leaves
it alone (theorem `LoopsCoordinate`).

## 3. Runs

| Run | Instance | Shows |
|---|---|---|
| `live` | 2 nodes with a worker each, 2 commits, 2 instants, 2 generations, one failed request or eviction, fair | types, `DurablePointers`, `HeadAdvances`, `RequestsEnd` |
| `sweep` | 1 publisher, 1 compaction job, 4 generations (2 exist at the start), clock from 3 to 6, retention 2, deadline 1, 1 failure | types, `HeadKept`, `TipsCovered`, `SnapshotsApply`, `HeadAdvancesAlways` |
| `exact` | 2 nodes with a worker each, a branch that grows from one commit to a second, 2 generations, one failed request or eviction, hydration may fail at any time | `CompleteManifests`, `TipsCovered`, `ImplementsDurableCache` |
| `direct` | 2 branches, 4 commits, 2 workers, 2 requests out of 8 kinds, 1 fault; a cold, a blobless and a shallow repository at the start | types, `FullClonesWhole`, `DepthServed`, `RefetchedWantsWhole`, `FetchedKept`, `LockHolderProceeds` |
| `proxy` | one response out of 5 kinds in chunks of 1 or 3 units, a push, an asynchronous materialize request, an import elsewhere, 1 panic, fair | types, `SpoolFaithful`, `OneFollowUp`, `FollowUpEnds`, `ReservationsReturned`, `ServedWantPublished` |
| `quota` | 2 repositories, 2 scratch ids, 2 units, 2 instants, 2 buffered accesses, 1 id that a process fails to clean up after, writes of the index torn at any time | types, `NoOverAllocation`, `NoOrphanScratch`, `AccessesKept`, `PinnedKept` |
| `updates` | cron loop, event intake and a reader that may go away, 2 targets of one repository, 1 tick, 1 hint, 1 read, 4 updates that may fail or panic, a busy or failing lease, fair | types, `LeaseHeldByTask`, `OneUpdatePerKey`, `JoinersAnsweredUnlessAbandoned`, `KeysFreedUnlessAbandoned`, `LoopsStop`, `HintsTaken` |
| `shared`, `repoint`, `stranded`, `partial`, `cancel` | as the run they vary | the disagreements of section 5 |

Bounds. Two publishers suffice for every race on the head: one to be overtaken,
one to overtake. The three commits of the compaction runs are a base, an increment and a sibling. The
compaction runs `sweep` and `repoint` start (`Warm`) in the state after two publishes, with a head of
two packs; the two remaining ids let a publish and a compaction interleave, or
two publishes follow each other around a sweep. The clock needs an instant on
each side of the cutoff for the generations of `Warm` and for one made during
the run: retention + deadline past the first new `created_at`. `stranded` starts
(`Stranded`) where a compaction of `Warm` that lost its head CAS has left the
repository, when its manifest has become older than the window. In `exact` a
commit can be an ancestor of an indexed tip and of another head, and a head can
have a tip that a node lacks, whose incremental pack then fails; the second
generation is the one that overtakes. Several branches without common history
are left to the proofs of section 4: an instance with two of them, a push and a
failure has more states than a run of five minutes allows. In `quota`, two units
that two reservations and two repositories compete for make every grant a matter
of one unit, and an eviction necessary; one failed clean-up leaves one id to go on
with, and both repositories can have an access buffered, or taken by a flush, when
the index is torn. In `direct` two requests of any kind
overlap, while the two warm states stand for what earlier requests left: a
blobless clone, and a depth-1 clone after a push on top of a full one. Its full
clones want every branch; clones of single branches are what run `partial` is
about. In `proxy` the limits (9 units of output, 4 of demultiplexer buffer, a
channel of 2 chunks) are each reached by one of the kinds, and one permit for
imports and one for jobs make the follow-up wait. In `updates` the four update
entries are one for every call that can be made, so no caller waits for the
bound; hints name only one of the two targets, the cron jobs both.

Deadlock checking is off where a bound (generation ids, update entries, scratch
ids) runs out or the system may rest. `RequestsEnd` exempts only the request that
itself waits for a generation id the model no longer has; in `live` both
requests of a race for the head have theirs.

Fairness. `FairSpec` assumes weak fairness of the steps of a request that has
begun: each is a task the runtime polls, and Git and store calls have timeouts.
Nothing is assumed of upstream, of time, of eviction or failure.
`FairCoordinatorSpec` assumes the same of spawned tasks and awaited futures, and
so does `LoopSpec`, where the loops' own steps are weakly fair and their
reaction to the stop signal strongly: `tokio::select!` polls its branches in
random order, so a signal that stays up is not passed over for ever. In
`ProxyTee` the spool writer, the follow-up and the jobs are weakly fair (spawned
tasks), taking an import permit strongly (the semaphore is first come, first
served), and an import of another repository ends. Nothing is assumed of
upstream or of the client, who may leave a response unread for ever. No fairness
is assumed for new requests, ticks, hints or a stop.

`HeadKept` needs the retention window to be about twice the longest operation:
the window is measured from the successor's `created_at`, which precedes its
head write by up to one operation, and a sweep deletes up to one operation after
it listed. The configuration accepts a retention of 0. That the *packs* of the
head are kept too (`HeadRestorable`) does not follow, see run `stranded`.

## 4. Proofs

`Publish_proofs` (for all sets of nodes, workers, branches, commits and all
bounds, from the assumptions `HistoryAssumption`, `BoundsAssumption`,
`PublishAssumption`, `NonEmptyAssumption`):

* `TypeCorrect`: `TypeOK`.
* `PointersDurable`: `DurablePointers`. The invariant alone is not inductive: it
  says nothing of requests about to write a pointer. `DurableInv` adds that a
  request past its upload has its pack, and that past its manifest write it has
  a restorable generation, and that packs inherited from a head are present.
* `HeadMonotone`: `HeadAdvances`, from the fact that a request about to swap has
  seen a head that is not newer than itself.
* `ManifestsComplete`, `TipsAlwaysCovered`, `SnapshotsAlwaysApply`:
  `CompleteManifests`, `TipsCovered`, `SnapshotsApply`, under `OneWorkerPerNode`
  (one request at a time on a node; run `shared` shows that it is needed).
  `FreshInv` keeps generation ids unused until they are handed out, `CompleteInv`
  follows a request's tips, packs and refs from the fetch to the manifest.
  Force pushes, evictions and failures are allowed.

`ExactCommit_proofs` (the same assumptions; branch, exact-commit and short-commit
requests together): `RequestsImplementDurableCache`, that `ExactSpec` implements
`DurableCache`, and `IndexedManifestsComplete`, `ExactTipsCovered`,
`ExactPointersDurable`, `ExactSnapshotsApply`, the invariants of `Publish` with the
index and hydration steps added. `ExactInv` adds to `CompleteInv`

* `UpstreamHasAll`: everything on a node, in a pack or in the store is still
  reachable upstream, so that a fetch of all heads that ends with the commit
  present has put it below the node's refs;
* `Promised`: what a request is going to announce, the tips of its head and the
  commit it answers for, has a manifest or is on the request's own list;
* `ExactReady`: a generation chosen for the index can be restored and holds the
  commit's history (`KnownGenerationHolds`: through the complete manifest of a
  descendant, whenever that was read).

The refinement then rests on `NamedDurable`, that the durable commits are those
with a manifest, and on `StepOnNamed`, what each step does to the manifests, the
head's tips and the answers. Two hypotheses: `OneWorkerPerNode`, as before, and
`~ForcePush`. Without the second one `UpstreamHasAll` fails, and with it the
theorem (section 5).

`Compaction_proofs` (any publishers, compaction jobs, retention, threshold):

* `CompactionTypeCorrect`: `CompactionTypeOK`.
* `HeadAlwaysAdvances`: `HeadAdvancesAlways`. `OrderedInv` says that the head a
  request or a run compares with is not newer than its own `created_at`, which is
  not newer than the clock.
* `HeadAlwaysKept`: `HeadKept`, under `WindowCoversOperations`
  (`2 * OpDeadline <= Retention + 1`; the default retention is a day, operations
  take minutes). `KeptInv` adds three parts. `Ledger`: a generation id is in one
  hand, as a draft, as announced with its manifest, as the head, or doomed by a
  sweep. `Timely`: operations in flight are within their deadline. `SweepsAware`:
  the head a sweep has read is still the head, or the new one was installed by an
  operation that was in flight when the sweep began. A sweep dooms a generation
  only when a newer one is older than the window; by then whoever could still make
  the doomed one the head has run out of time, so that it is in nobody's hands and
  stays so. Crashed publishes, lost CASes and any number of overlapping sweeps are
  allowed. All steps of publishers and runs are first reduced to five kinds
  (`Keeps`, `Draws`, `Announces`, `Installs`, `Deletes`).
* `HeadTipsAlwaysCovered` and `CompactedSnapshotsApply`: `TipsCovered` and
  `SnapshotsApply`, with no assumption on timing. `SupportInv` adds to `OrderedInv`
  three parts. `NodesInv`: a publisher's node holds what its refs reach, and its
  refs are behind upstream. `IdsInv`: whatever somebody refers to, the head a
  compaction has read included, is `Settled`, drawn and no longer anybody's draft,
  so that its manifest never changes but is deleted at most. `CoverInv`: packs hold
  what the refs packed with them reach (`Whole`), and the refs reach the tips
  (`Rooted`), from the pack to the manifest and the head. Three hypotheses:
  `OneWorkerPerNode`; `~ForcePush` (section 5, the tips of the old head); and
  `OwnScratch`, that compactions do not repack a publisher's repository, which
  holds of the compaction job and not of inline compaction (section 5).

`DiskManager_proofs` (any repositories, scratch ids, sizes and quota):
`DiskTypeCorrect`, `SpaceNeverOverAllocated`, `ScratchAlwaysOwned`,
`AccessesNeverLost` and the action property `PinnedAlwaysKept`. `DiskInv` joins the
properties with `MemoryInv` (what the mutex, the life of the process and the
stages of `Reservation::drop` guarantee) and `OverlayInv` (the copy of the index
eviction works on has no older access and no other protection than the file).
`ScratchAlwaysOwned` and `AccessesNeverLost` include every failure of section 2: the
first says that what has no owner is something this process itself failed to
delete, mark or index, never the rest of an earlier one; the second that whatever
fails, an access is in the index or still buffered, and that a torn index only loses
what had been flushed to it. Used and reserved
bytes are sums over finite sets, folds whose value changes by one summand at a
time; since the library's induction theorems cannot be instantiated, the lemmas
about sums go by a least counterexample.

`UpdateCoordinator_proofs`: `CoordinatorTypeCorrect`, `LeasesExclusive` and
`UpdatesCoalesce`, for any callers, keys and repositories. The inductive
invariant relates the map to the tasks: a task that is alive is the one its key's
entry in the map names, and no owner removes an entry before its task has ended.

`WorkerLoops_proofs`: `LoopsCoordinate`, that the worker's loops implement the
specification of the coordinator: the initial states are the coordinator's, and
every step of a loop is one of its steps or leaves its state alone. The invariant
it needs is that a loop only ever asks for a target that exists (`LoopInv`).
`LoopTypeCorrect`, `LoopLeasesExclusive` and `LoopUpdatesCoalesce` follow.

`DirectGit_proofs` (any finite history, tips, manifests, intents, workers and
bounds; the repositories of `Warmed` have a directory): `DirectTypeCorrect`,
`FetchedAlwaysKept` and `RefetchAlwaysWhole`. `DirectInv` says where a request holds the RepoLock and the
mutation lock (`HoldsRepo`, `HoldsMutation`), that a repository which is written to
exists, that no repack runs while a request holds the mutation lock, and that from
`PrepareFetched` on the wants of a request are present, named by refs and not among
what a running repack will drop. A repack that starts after `Mark` gave up the lock
reaches them from the refs; for that and for the types, `WindowType` and
`ReachType` are proved of the recursive walk over history, again by a least
counterexample. Steps of requests are reduced to one `Effect`: objects and refs
only grow, and the mutation lock passes between its holder and nobody.

`RefetchAlwaysWhole` is `RefetchedWantsWhole`: when a request that fetched everything
again clears the partial-hydration marker, the commits its own wants reach are there
with their blobs, up to the shallow boundary that is left. It exempts nobody: not the
request that another one overtook between its look at marker and boundary and its
lock, nor a repository whose bookkeeping was interrupted. It claims nothing of other
refs, which may stay partial though the marker is gone (disagreement 4). The
inductive invariant is `RefetchInv`. A forced refetch is unfiltered, skips the
hydration and fetches all of its wants (`Refetched`); from its fetch until its marker
(`Settling`), if it is one of the whole history (`Clears`), those wants are `Whole`.
What others do meanwhile only adds objects above the same boundary (`Adds`):
fetches, repacks and evictions wait for the locks it holds. That a refetch of the
wants, and one of all heads after a failure, brings all that they reach with its
blobs is `RefetchIsWhole` and `HeadsRefetchIsWhole`; the latter needs that a walk
from more starts reaches more (`WindowMonotone`), again by a least counterexample.
Only wants that are branch tips are claimed, since a fetch of all heads brings no
others.

`ProxyTee_proofs` (any finite set of responses, any wires, chunk sizes and limits):
`ProxyTypeCorrect`, `FollowedUpOnce`, the action property `WantsPublished`, and
`SpoolFollowsWire`.
`ProxyInv` says of every response (`Fine`) that the warm task is in the stream
exactly while it is open or has failed, that its follow-up has been spawned once
it ended, and that the generation task is at one want while it waits for a job or
looks after one; and of the jobs (`Waits`) that the one a task waits for exists,
and publishes the commit itself in the fallback. A job is only spawned for a key
that is not in flight, so nobody's job is overwritten: that is why the key has to
outlive the job. Types of the demultiplexer's loop, a recursive function, go by a
least counterexample again.

`SpoolFollowsWire` is `SpoolFaithful` under `WellFormedWires`, which is git's
pkt-line protocol as upstream speaks it (external: nothing in `src/` enforces it):
the frames of a response are whole and one after the other, only the last may be
cut; after the NAK a sideband response ends with its flush and any other is raw
pack data. Without it the property is not true, nor meant to be: `Pack` counts the
data of every band 1 frame, while the code stops teeing at the first flush and a
header in the middle of a frame means nothing to it. TLC evaluates the hypothesis
for the wires of run `proxy` (`ASSUME MCWires`). The inductive invariant is
`SpoolInv`: the demultiplexer has read up to a boundary between frames
(`Boundary`), its buffer is exactly the rest of what was received (`Reads`) and
less than one frame (`Stuck`), and spool and channel together are the pack data up
to that boundary; a cut frame carries none yet, hence the property. `Feed` empties
its buffer in a loop, a recursive function: `LoopReads` shows that each turn keeps
`Reads`, again by a least counterexample, and `Pack` is a recursive function over
the units for the same reason. The writer moves the head of the channel to the
end of the spool, which leaves their concatenation alone.

Leaves that cite `SMTT(60)` or `ZenonT(60)` are those that take a good part of the
provers' default time; every proof goes through with a fifth of it elsewhere.

Only model-checked: `FullClonesWhole` and `DepthServed` of `DirectGit`. They rest
on how the objects of a repository hang together (every parent present, or cut off
by the shallow file), which the code does not keep for all intents and manifests: a
generation may lack history, a repack drops what no ref reaches, and a fetch deeper
than `MaxLocalDepth` puts a boundary into a complete repository. What saves a
request then is its own check of the closure, whose outcome depends on the intents
at hand. TLC covers the kinds of run `direct`. `LockHolderProceeds` is about
`ENABLED`, which is out of the prover's reach, and so are the liveness properties.

## 5. Disagreements between the code and its comments

Each is a run in which TLC finds the behaviour; `PROJECT.json` quotes the lines.

1. `shared`: publish packs the refs as they are by then, without the mutation
   lock under which the commit was fetched. Another request of the node that
   records an older verified tip in between makes the publish declare a commit
   complete that its packs lack.
2. `repoint`: compaction declares the commits of every listed generation
   complete in the pack it made from the old head, also those of a publisher
   that has not reached its head write.
3. `stranded`: a compaction that loses its head CAS leaves a manifest newer than
   the head. Once that is older than the window, the head itself counts as
   superseded, and is only kept for being the head. A publish that has read it
   and is still packing inherits its packs; a compaction replaces it, and its
   sweep, which lists before the publish writes its manifest, deletes those packs.
   The publish then becomes the head, of a generation nobody can hydrate. No
   failure is involved, and every operation is within its deadline.
4. `partial`: a full refetch of the wants of one request removes the
   partial-hydration marker of the whole repository. After a blobless clone of one
   branch and a full clone of another, a full clone of the first dies on a missing
   blob.
5. `cancel`: when the owner's future is dropped, joiners are never answered; the
   error meant for them is unreachable because every joiner keeps the sender alive.

Observations, seen with TLC in variants of the runs and kept out of what the
runs claim:

* A pack left by a crashed publish is reused without a new upload and may be
  deleted by its old timestamp (`generations.rs` 756): another way to a head that
  cannot be hydrated.
* With force pushes the exact path can publish an incomplete generation: after
  `fetch_all_refs` only `commit_exists` is asked (`planning.rs` 446-452), which a
  commit satisfies that an earlier request left on the disk and that no ref reaches
  any more; the publish packs what the refs reach and declares the commit complete.
  `exact` and the theorems of `ExactCommit_proofs` leave force pushes out.
* Compaction keeps the old head's tips although a force push took their history
  out of the repack (`generations.rs` 892). `sweep` has no force push.
* Inline compaction (`generations.rs` 572) hydrates the head it read into the
  repository of the node that publishes. Between a fetch and the pack of a publish
  (two holders of the mutation lock) this moves a branch ref back, and the publish
  announces a tip that its packs lack: `TipsCovered` fails, as in `shared`. The
  runs and theorems of `Compaction` compact in a repository of their own.
* Between the two halves of a flush, eviction sees an access neither in the
  buffer nor in the index (`git-cache-disk/src/lib.rs` 253).
* The index is written in place (`git-cache-disk/src/lib.rs` 895). A write that fails
  half-way or is cut off by a crash loses the accesses and the protected flags of all
  repositories, and every reservation, flush and record then fails until the file is
  repaired or removed; the comment at 242, that entries are merged back on a failed
  write, is about those the flush took. A marker left half-written
  by `reserve` blocks all reservations until the next start.
* Directories without an owner stay under `tmp/` until the next start when their
  deletion, the write of their marker or the index update of an invalidation fails
  (705, 181, 390); their bytes count as used, but nothing evicts them.
* The early return of a publish (`generations.rs` 294) keeps the generation that
  an existing commit manifest names, also when a sweep has deleted it; the
  fallback paths of `planning.rs` 394-401, which are said to rewrite the manifest,
  end there too. Readers of such a manifest fall back to upstream
  (`planning.rs` 1138).
* A full clone of a commit that its ref proof does not name, on a shallow cache,
  is fetched raw without moving the boundary (`direct_git.rs` 350-352) and is then
  cut at it. `OldProof` of run `direct` wants what its proof names.
* The shallow file and the partial marker are read without the mutation lock
  (`direct_git.rs` 373): a request that races a depth or blobless fetch can be
  cut short. Hence `raced` in `FullClonesWhole` and `DepthServed`.
* A request dropped between a blobless fetch and its marker leaves commits
  without blobs that nothing marks (`direct_git.rs` 672). Hence `untrusted`.
* A tee import that indexes its pack and then fails to prepare the wants deletes the
  pack (`proxy_tee.rs` 284), also when a clone in between has taken its commits for
  hot. `untrusted` records this.
* A shallow clone that is hydrated from a generation without the whole history of
  its commit leaves neither a shallow boundary nor the incomplete-closure marker
  (`direct_git.rs` 509 asks for the closure of full-history wants only); a later
  full clone takes the commit for hot and dies on the missing parent. `untrusted`
  records this as well.
* A cache hit exposes its wants without the mutation lock. Below the boundary of a
  shallow cache they may be unreachable from the refs, and a repack that started
  before the ref was set drops them afterwards (`direct_git.rs` 941): the ref
  dangles. Seen with four requests; `FetchedKept` is about wants that were fetched.
* A hint that arrives while an update of its target is in flight joins it and
  causes no new fetch, although the push it announces may be newer than what that
  update fetches. `HintsTaken` says that hints are taken up, not what for.

## 6. Plan

Done: GenerationStore, Publish, Compaction, DiskManager, UpdateCoordinator,
WorkerLoops, DirectGit and ProxyTee with proofs, ExactCommit with the proof that
it refines DurableCache. Next: conditions on intents and
manifests under which `FullClonesWhole` and `DepthServed` of DirectGit are theorems.

### Not modelled

* LFS: stateless but for objects written once under their digest; nothing
  interleaves.
* The S3 client, process handling and output parsing of Git: I/O without state of
  their own. What they promise is in the actions that use them.
* Configuration, arguments, selectors, authentication: parsing of values.
* Routing, metrics, the rate limiter, graceful shutdown, the ref advertisement:
  no other part depends on their state.
* The default ref (`HEAD` manifest), stale Git lock files and the garbage
  collection of the lock map; the keys and the pruning of the proof cache.
* Command line and fuzz drivers, deployment scripts.
