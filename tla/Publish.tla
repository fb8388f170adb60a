------------------------------ MODULE Publish ------------------------------
(***************************************************************************)
(* Branch materialization: nodes that share one object store fetch a       *)
(* branch from upstream and publish what they fetched as a generation.     *)
(* Every worker is one in-flight request; workers of one node share that   *)
(* node's bare repository.  Nothing is deleted from the store here: the    *)
(* retention sweep is in module Compaction.                                *)
(***************************************************************************)
EXTENDS GenerationStore

CONSTANTS
    Nodes, Workers,
    NodeOf,               \* the node a worker runs on
    FirstCommit,          \* FirstCommit[b]: where branch b starts upstream
    ForcePush,            \* TRUE: upstream may rewrite a branch
    HeadCasMaxAttempts,   \* HEAD_CAS_MAX_ATTEMPTS
    MaxFaults             \* bound: failed requests and evictions

ASSUME PublishAssumption ==
    /\ NodeOf \in [Workers -> Nodes]
    /\ FirstCommit \in [Branches -> Commits]
    /\ ForcePush \in BOOLEAN
    /\ HeadCasMaxAttempts \in Nat \ {0}
    /\ MaxFaults \in Nat

VARIABLES
    upstream,    \* upstream[b]: the branch tip upstream
    objs,        \* objs[n]: the commits whose objects node n holds
    refs,        \* refs[n]: refs/cache/upstream/heads of node n
    req,         \* req[w]: the request worker w executes
    faults       \* failed requests and evictions so far

nodeVars == <<objs, refs>>
pubVars == <<upstream, nodeVars, req, faults>>
vars == <<store, nextGen, clock, pubVars>>

Phases ==
    {"idle", "resolved", "record", "fetch", "manifests", "publish", "readHead", "pack", "snapshot",
     "upload", "genManifest", "commitManifests", "refManifest", "headRead", "headCas"}

\* Phases of the requests in ExactCommit that end in a publish.
ExactPhases ==
    {"local", "hydrateCommit", "commitRefs", "hydrateHead", "headRefs", "index", "indexTips",
     "indexRefs", "indexWrite", "fetchAll"}

Request ==
    [pc : Phases \cup ExactPhases,
     branch : Branches,
     commit : Commits,
     exact : BOOLEAN,             \* published for itself, branch is None
     from : {"local", "hydrated", "fetched"},    \* who looks for a known generation
     parent : BOOLEAN,            \* use_previous_head
     ready : BOOLEAN,             \* local_tip_ready
     locked : BOOLEAN,            \* holds the RepoLock that forbids eviction
     gen : GenOrNone,             \* generation
     at : Time,                   \* now
     pack : Pack,                 \* new_pack
     packs : SUBSET Pack,         \* previous_manifest's packs, then packs
     tips : SUBSET Commits,       \* previous_tips, then tip_commits
     snap : RefSnapshot,          \* refs
     commits : SUBSET Commits,    \* manifest_commits
     todo : SUBSET Commits,       \* commit manifests still to write, or to read
     seen : HeadRecord,           \* the head read for the next CAS, or for an index
     attempts : 0 .. (HeadCasMaxAttempts - 1)]

Idle == [pc |-> "idle",
         branch |-> CHOOSE b \in Branches : TRUE,
         commit |-> CHOOSE c \in Commits : TRUE,
         exact |-> FALSE, from |-> "local", parent |-> TRUE, ready |-> FALSE, locked |-> FALSE,
         gen |-> 0, at |-> 0,
         pack |-> {}, packs |-> {}, tips |-> {}, snap |-> NoRefs,
         commits |-> {}, todo |-> {}, seen |-> NoHead, attempts |-> 0]

ASSUME NonEmptyAssumption == Branches # {} /\ Commits # {}

TypeOK ==
    /\ StoreTypeOK
    /\ upstream \in [Branches -> Commits]
    /\ objs \in [Nodes -> SUBSET Commits]
    /\ refs \in [Nodes -> RefSnapshot]
    /\ req \in [Workers -> Request]
    /\ faults \in 0 .. MaxFaults

Init ==
    /\ StoreInit
    /\ upstream = FirstCommit
    /\ objs = [n \in Nodes |-> {}]
    /\ refs = [n \in Nodes |-> NoRefs]
    /\ req = [w \in Workers |-> Idle]
    /\ faults = 0

-----------------------------------------------------------------------------
(* The environment: upstream, time, eviction, failure.                     *)

\* A push upstream; a rewrite of history only when ForcePush.
UpstreamPush ==
    /\ \E b \in Branches, c \in Commits :
        /\ c # upstream[b]
        /\ ForcePush \/ upstream[b] \in Anc[c]
        /\ upstream' = [upstream EXCEPT ![b] = c]
    /\ UNCHANGED <<store, nextGen, clock, nodeVars, req, faults>>

Tick ==
    /\ clock < MaxTime
    /\ clock' = clock + 1
    /\ UNCHANGED <<store, nextGen, pubVars>>

\* The disk manager removes the bare repository of a node that no request
\* holds a RepoLock on.
Evict(n) ==
    /\ objs[n] # {} \/ refs[n] # NoRefs
    /\ \A w \in Workers : NodeOf[w] = n => ~req[w].locked
    /\ faults < MaxFaults
    /\ faults' = faults + 1
    /\ objs' = [objs EXCEPT ![n] = {}]
    /\ refs' = [refs EXCEPT ![n] = NoRefs]
    /\ UNCHANGED <<store, nextGen, clock, upstream, req>>

\* A request ends early: the client went away, a call returned an error, or
\* the process crashed.  What it had written stays.
Fail(w) ==
    /\ req[w].pc # "idle"
    /\ faults < MaxFaults
    /\ faults' = faults + 1
    /\ req' = [req EXCEPT ![w] = Idle]
    /\ UNCHANGED <<store, nextGen, clock, upstream, nodeVars>>

-----------------------------------------------------------------------------
(* ensure_branch                                                           *)

RefTips(n) == {refs[n][b] : b \in Branches} \ {NoCommit}

Become(w, r) == req' = [req EXCEPT ![w] = r]

Goto(w, pc) == Become(w, [req[w] EXCEPT !.pc = pc])

\* ls_remote_branch resolves the tip the rest of the request is about.
ResolveTip(w) ==
    /\ req[w].pc = "idle"
    /\ \E b \in Branches :
        Become(w, [Idle EXCEPT !.pc = "resolved", !.branch = b,
                               !.commit = upstream[b]])
    /\ UNCHANGED <<store, nextGen, clock, upstream, nodeVars, faults>>

\* branch_tip_closure_attested
Attested(c) ==
    /\ commitGen[c] # 0
    /\ GenPresent(commitGen[c])
    /\ gens[commitGen[c]].packs # {}

LocalReady(n, c) ==
    /\ c \in objs[n]
    /\ Attested(c) \/ Anc[c] \subseteq objs[n]

\* Without any lock: can the node already serve the tip?
CheckLocal(w) ==
    LET n == NodeOf[w]  r == req[w] IN
    /\ r.pc = "resolved"
    /\ Become(w, [r EXCEPT
            !.pc = IF LocalReady(n, r.commit) THEN "record" ELSE "fetch",
            !.ready = r.commit \in objs[n]])
    /\ UNCHANGED <<store, nextGen, clock, upstream, nodeVars, faults>>

\* It can: the branch ref is set to the tip.  update-ref refuses a commit that
\* was evicted since the check.
RecordVerifiedBranchRefs(w) ==
    LET n == NodeOf[w]  r == req[w] IN
    /\ r.pc = "record"
    /\ IF r.commit \in objs[n]
       THEN refs' = [refs EXCEPT ![n][r.branch] = r.commit] /\ Goto(w, "manifests")
       ELSE Become(w, Idle) /\ UNCHANGED refs
    /\ UNCHANGED <<store, nextGen, clock, upstream, objs, faults>>

\* ensure_branch_manifests, up to the write: a commit with a manifest keeps it.
EnsureBranchManifests(w) ==
    LET r == req[w] IN
    /\ r.pc = "manifests"
    /\ IF commitGen[r.commit] # 0
       THEN Become(w, [r EXCEPT !.pc = "refManifest", !.gen = commitGen[r.commit]])
       ELSE Goto(w, "publish")
    /\ UNCHANGED <<store, nextGen, clock, upstream, nodeVars, faults>>

\* The objects a fetch of c adds: everything with --refetch, otherwise what the
\* refs of the node do not reach.
Fetched(n, c, refetch) == IF refetch THEN Anc[c] ELSE Anc[c] \ Closure(RefTips(n))

\* The section under the mutation lock: fetch the branch, give up when it
\* moved since ls-remote or when its closure is not complete afterwards.
FetchBranch(w) ==
    LET n == NodeOf[w]  r == req[w]  tip == upstream[r.branch]
        have == objs[n] \cup Fetched(n, tip, r.ready) IN
    /\ r.pc = "fetch"
    /\ objs' = [objs EXCEPT ![n] = have]
    /\ refs' = [refs EXCEPT ![n][r.branch] = tip]
    /\ IF tip = r.commit /\ Anc[tip] \subseteq have
       THEN Become(w, [r EXCEPT !.pc = "publish", !.locked = TRUE])
       ELSE Become(w, Idle)
    /\ UNCHANGED <<store, nextGen, clock, upstream, faults>>

-----------------------------------------------------------------------------
(* publish_generation                                                      *)

\* A commit with a complete manifest is not published again.
CheckExisting(w) ==
    LET r == req[w] IN
    /\ r.pc = "publish"
    /\ IF commitGen[r.commit] # 0
       THEN Become(w, [r EXCEPT !.pc = "refManifest", !.gen = commitGen[r.commit]])
       ELSE Goto(w, "readHead")
    /\ UNCHANGED <<store, nextGen, clock, upstream, nodeVars, faults>>

\* The previous head with its manifest; without the manifest the publish is a
\* full one, as without a head.
ReadHead(w) ==
    LET r == req[w] IN
    /\ r.pc = "readHead"
    /\ NewGeneration
    /\ Become(w, [r EXCEPT
            !.pc = "pack", !.gen = nextGen,
            !.packs = IF r.parent /\ GenPresent(head.gen) THEN gens[head.gen].packs ELSE {},
            !.tips = IF r.parent /\ GenPresent(head.gen) THEN head.tips ELSE {}])
    /\ UNCHANGED <<store, clock, upstream, nodeVars, faults>>

\* pack-objects --revs walks from the include set and fails on an object it
\* needs and does not have, or on an excluded revision it does not know.
CanPack(n, include, exclude) ==
    /\ include # {}
    /\ exclude \subseteq objs[n]
    /\ Closure(include) \ Closure(exclude) \subseteq objs[n]

PackObjectsRevs(include, exclude) == Closure(include) \ Closure(exclude)

\* Mutant of PackIncremental: the packs of the previous head are forgotten.
PackIncrementalAlone(w) ==
    LET n == NodeOf[w]  r == req[w]
        pack == PackObjectsRevs(RefTips(n), r.tips) IN
    /\ r.pc = "pack"
    /\ r.tips # {}
    /\ CanPack(n, RefTips(n), r.tips)
    /\ Become(w, [r EXCEPT
            !.pc = "snapshot", !.at = clock, !.pack = pack,
            !.packs = {pack},
            !.tips = r.tips \cup {r.commit}])
    /\ UNCHANGED <<store, nextGen, clock, upstream, nodeVars, faults>>

\* An incremental pack on top of the previous head, which keeps its packs and
\* its tips.  created_at is read just before the packing.
PackIncremental(w) ==
    LET n == NodeOf[w]  r == req[w]
        pack == PackObjectsRevs(RefTips(n), r.tips) IN
    /\ r.pc = "pack"
    /\ r.tips # {}
    /\ CanPack(n, RefTips(n), r.tips)
    /\ Become(w, [r EXCEPT
            !.pc = "snapshot", !.at = clock, !.pack = pack,
            !.packs = r.packs \cup {pack},
            !.tips = r.tips \cup {r.commit}])
    /\ UNCHANGED <<store, nextGen, clock, upstream, nodeVars, faults>>

\* Mutant of PackFull: tip_commits is not cleared on the fallback.
PackFullKeepsTips(w) ==
    LET n == NodeOf[w]  r == req[w]
        pack == PackObjectsRevs(RefTips(n), {}) IN
    /\ r.pc = "pack"
    /\ CanPack(n, RefTips(n), {})
    /\ Become(w, [r EXCEPT
            !.pc = "snapshot", !.at = clock, !.pack = pack,
            !.packs = {pack},
            !.tips = r.tips \cup {r.commit}])
    /\ UNCHANGED <<store, nextGen, clock, upstream, nodeVars, faults>>

\* A full pack: without a usable parent, or when the incremental pack failed
\* (the git subprocess may fail for any reason).
PackFull(w) ==
    LET n == NodeOf[w]  r == req[w]
        pack == PackObjectsRevs(RefTips(n), {}) IN
    /\ r.pc = "pack"
    /\ CanPack(n, RefTips(n), {})
    /\ Become(w, [r EXCEPT
            !.pc = "snapshot", !.at = clock, !.pack = pack,
            !.packs = {pack},
            !.tips = {r.commit}])
    /\ UNCHANGED <<store, nextGen, clock, upstream, nodeVars, faults>>

\* Neither pack can be made, or the repository was evicted before its refs
\* were read again: git reports an error and the request fails.
LocalGitFails(w) ==
    LET n == NodeOf[w] IN
    /\ \/ req[w].pc = "pack" /\ ~CanPack(n, RefTips(n), {})
       \/ req[w].pc = "snapshot" /\ RefTips(n) = {}
    /\ Become(w, Idle)
    /\ UNCHANGED <<store, nextGen, clock, upstream, nodeVars, faults>>

\* The refs are read again for the manifest; every branch tip that has no
\* commit manifest yet is published along with the requested commit.
SnapshotRefs(w) ==
    LET n == NodeOf[w]  r == req[w]
        commits == {r.commit} \cup {c \in RefTips(n) : commitGen[c] = 0} IN
    /\ r.pc = "snapshot"
    /\ RefTips(n) # {}
    /\ Become(w, [r EXCEPT !.pc = "upload", !.snap = refs[n],
                           !.commits = commits, !.todo = commits])
    /\ UNCHANGED <<store, nextGen, clock, upstream, nodeVars, faults>>

UploadPack(w) ==
    /\ req[w].pc = "upload"
    /\ PutPackUnlessPresent(req[w].pack)
    /\ Goto(w, "genManifest")
    /\ UNCHANGED <<gens, commitGen, refGen, head, nextGen, clock, upstream,
                   nodeVars, faults>>

WriteGenerationManifest(w) ==
    LET r == req[w] IN
    /\ r.pc = "genManifest"
    /\ gens' = [gens EXCEPT ![r.gen] =
            [at |-> r.at, packs |-> r.packs, refs |-> r.snap, commits |-> r.commits]]
    /\ Goto(w, "commitManifests")
    /\ UNCHANGED <<packAt, commitGen, refGen, head, nextGen, clock, upstream,
                   nodeVars, faults>>

\* Commit manifests are put if absent, the requested commit's first; one
\* that another publisher wrote in the meantime is a Conflict.
WriteCommitManifest(w) ==
    LET r == req[w] IN
    /\ r.pc = "commitManifests"
    /\ \E c \in r.todo :
        /\ r.commit \in r.todo => c = r.commit
        /\ IF commitGen[c] = 0
           THEN /\ commitGen' = [commitGen EXCEPT ![c] = r.gen]
                /\ Become(w, [r EXCEPT
                        !.todo = @ \ {c},
                        !.pc = IF r.todo = {c} THEN "refManifest" ELSE r.pc])
           ELSE Become(w, Idle) /\ UNCHANGED commitGen
    /\ UNCHANGED <<packAt, gens, refGen, head, nextGen, clock, upstream,
                   nodeVars, faults>>

\* Mutant of WriteRefManifest: the manifest does not record the commit.
WriteRefWithoutCommit(w) ==
    LET r == req[w] IN
    /\ r.pc = "refManifest"
    /\ refGen' = [refGen EXCEPT ![r.branch] = [gen |-> r.gen]]
    /\ IF r.packs = {} THEN Become(w, Idle) ELSE Goto(w, "headRead")
    /\ UNCHANGED <<packAt, gens, commitGen, head, nextGen, clock, upstream,
                   nodeVars, faults>>

\* The branch manifest, if there is a branch, is overwritten; a request that
\* published nothing ends here.
WriteRefManifest(w) ==
    LET r == req[w] IN
    /\ r.pc = "refManifest"
    /\ refGen' = IF r.exact THEN refGen
                 ELSE [refGen EXCEPT ![r.branch] = [commit |-> r.commit, gen |-> r.gen]]
    /\ IF r.packs = {} THEN Become(w, Idle) ELSE Goto(w, "headRead")
    /\ UNCHANGED <<packAt, gens, commitGen, head, nextGen, clock, upstream,
                   nodeVars, faults>>

-----------------------------------------------------------------------------
(* finish_generation_publish                                               *)

NewHead(r) == [gen |-> r.gen, tips |-> r.tips, at |-> r.at]

\* Mutant of ReadHeadVersion: the head is replaced without comparing its age.
ReadHeadVersionUnchecked(w) ==
    LET r == req[w] IN
    /\ r.pc = "headRead"
    /\ Become(w, [r EXCEPT !.pc = "headCas", !.seen = head])
    /\ UNCHANGED <<store, nextGen, clock, upstream, nodeVars, faults>>

\* A head that is newer than this publish is left in place.
ReadHeadVersion(w) ==
    LET r == req[w] IN
    /\ r.pc = "headRead"
    /\ IF head.at > r.at
       THEN Become(w, Idle)
       ELSE Become(w, [r EXCEPT !.pc = "headCas", !.seen = head])
    /\ UNCHANGED <<store, nextGen, clock, upstream, nodeVars, faults>>

\* Mutant of CasHead: a lost race is retried with the same version token.
CasHeadRetriesStale(w) ==
    LET r == req[w] IN
    /\ r.pc = "headCas"
    /\ WriteHeadIfVersionMatches(NewHead(r), r.seen)
    /\ Become(w, IF head = r.seen THEN Idle ELSE r)
    /\ UNCHANGED <<packAt, gens, commitGen, refGen, nextGen, clock, upstream,
                   nodeVars, faults>>

CasHead(w) ==
    LET r == req[w] IN
    /\ r.pc = "headCas"
    /\ WriteHeadIfVersionMatches(NewHead(r), r.seen)
    /\ IF head = r.seen \/ r.attempts + 1 = HeadCasMaxAttempts
       THEN Become(w, Idle)
       ELSE Become(w, [r EXCEPT !.pc = "headRead", !.attempts = @ + 1])
    /\ UNCHANGED <<packAt, gens, commitGen, refGen, nextGen, clock, upstream,
                   nodeVars, faults>>

-----------------------------------------------------------------------------
Step(w) ==
    \/ ResolveTip(w) \/ CheckLocal(w) \/ RecordVerifiedBranchRefs(w) \/ EnsureBranchManifests(w)
    \/ FetchBranch(w) \/ CheckExisting(w) \/ ReadHead(w)
    \/ PackIncremental(w) \/ PackFull(w) \/ LocalGitFails(w) \/ SnapshotRefs(w)
    \/ UploadPack(w) \/ WriteGenerationManifest(w) \/ WriteCommitManifest(w)
    \/ WriteRefManifest(w) \/ ReadHeadVersion(w) \/ CasHead(w)

Environment ==
    \/ UpstreamPush
    \/ \E n \in Nodes : Evict(n)
    \/ \E w \in Workers : Fail(w)

Next ==
    \/ \E w \in Workers : Step(w)
    \/ Environment
    \/ Tick

Spec == Init /\ [][Next]_vars

\* Every step of a request is its own task's, which the runtime keeps polling;
\* nothing is assumed of upstream, of the clock, of eviction or of failure.
FairSpec == Spec /\ \A w \in Workers : WF_vars(req[w].pc # "idle" /\ Step(w))

-----------------------------------------------------------------------------
(* Properties                                                              *)

\* Publish order (publish_pack_files, then finish_generation_publish): at every
\* instant, crashes included, each manifest and the head name a generation
\* whose manifest and packs a node with an empty cache can download.
DurablePointers ==
    /\ \A c \in Commits : commitGen[c] # 0 => Restorable(commitGen[c])
    /\ \A b \in Branches : refGen[b].gen # 0 => Restorable(refGen[b].gen)
    /\ head.gen # 0 => Restorable(head.gen)

\* A complete commit manifest names a generation that holds the whole history
\* of the commit (what branch_tip_closure_attested relies on).
CompleteManifests ==
    \A c \in Commits : commitGen[c] # 0 => Anc[c] \subseteq GenObjects(commitGen[c])

\* Incremental packs exclude everything below the tips of the previous head
\* (pack_objects_revs with previous_tips), so those histories must be in the
\* packs the head generation carries.
TipsCovered ==
    GenPresent(head.gen) => Closure(head.tips) \subseteq GenObjects(head.gen)

\* hydrate_generation applies the ref snapshot with update-ref, which refuses a
\* ref to a missing object: every snapshot points into its own packs.
SnapshotsApply ==
    \A g \in Gens : \A b \in Branches :
        gens[g].refs[b] # NoCommit => gens[g].refs[b] \in GenObjects(g)

\* The compare-and-swap of finish_generation_publish never replaces a head by
\* an older one, however publishers interleave.
HeadAdvances == [][head'.at >= head.at /\ head'.gen # 0]_head

\* The bounded retry of the head CAS and the early returns end every request,
\* but for one that the model has no generation id left for.
RequestsEnd ==
    \A w \in Workers :
        (req[w].pc # "idle") ~> (req[w].pc = "idle" \/ (req[w].pc = "readHead" /\ nextGen > MaxGen))

=============================================================================
