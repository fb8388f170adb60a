----------------------------- MODULE Compaction -----------------------------
(***************************************************************************)
(* Chain compaction and the retention sweep, run against the store while   *)
(* the publishers of module Publish keep writing to it.  A compactor is    *)
(* one run of compact_generation_chain: compact the head generation if it  *)
(* carries too many packs, then sweep, whatever the compaction did.        *)
(***************************************************************************)
EXTENDS Publish

CONSTANTS
    Compactors,
    ScratchOf,        \* the node whose bare repository a compactor repacks
    Threshold,        \* chain_depth_threshold
    Retention,        \* retention_secs
    OpDeadline        \* longest time any one operation may take

ASSUME CompactionAssumption ==
    /\ ScratchOf \in [Compactors -> Nodes]
    /\ Threshold \in Nat
    /\ Retention \in Nat
    /\ OpDeadline \in Nat
    /\ Compactors \cap Workers = {}

VARIABLES
    comp,        \* comp[k]: the run compactor k executes
    started      \* when the operation of a worker or compactor began

compVars == <<comp, started>>
allVars == <<vars, compVars>>

Keys == Commits \cup Branches

CompactorPhases ==
    {"idle", "list", "hydrate", "upload", "genManifest", "headCas", "repoint",
     "commitManifests", "sweep", "sweepList", "sweepRepoint", "sweepPacks",
     "sweepManifest", "sweepOrphans"}

Run ==
    [pc : CompactorPhases,
     seen : HeadRecord,            \* the head the run read
     old : SUBSET Gens,            \* old_generation_set, then the swept set
     commits : SUBSET Commits,     \* old_commits
     gen : GenOrNone,              \* new_generation, then the manifest being deleted
     at : Time,
     packs : SUBSET Pack,
     snap : RefSnapshot,
     keys : SUBSET Keys,           \* listed manifests still to repoint
     kept : SUBSET Pack,           \* kept_packs
     cutoff : Int]

IdleRun == [pc |-> "idle", seen |-> NoHead, old |-> {}, commits |-> {}, gen |-> 0,
            at |-> 0, packs |-> {}, snap |-> NoRefs, keys |-> {}, kept |-> {},
            cutoff |-> 0]

CompactionTypeOK ==
    /\ TypeOK
    /\ comp \in [Compactors -> Run]
    /\ started \in [Workers \cup Compactors -> Time]

CompactionInit ==
    /\ Init
    /\ comp = [k \in Compactors |-> IdleRun]
    /\ started = [a \in Workers \cup Compactors |-> 0]

RunBecomes(k, r) == comp' = [comp EXCEPT ![k] = r]

RunGoto(k, pc) == RunBecomes(k, [comp[k] EXCEPT !.pc = pc])

PresentGens == {g \in Gens : GenPresent(g)}

\* The commit and branch manifests a listing finds: those that exist by then.
\* There is one as soon as there is a head.
ListedManifests ==
    {c \in Commits : commitGen[c] # 0} \cup {b \in Branches : refGen[b].gen # 0}

\* Listings are sorted: commits/ comes before refs/.
FirstListed(key, keys) == keys \cap Commits # {} => key \in Commits

-----------------------------------------------------------------------------
(* compact_generation_chain_inner                                          *)

\* Nothing to compact, or a head with few packs: on to the sweep.
CompactReadHead(k) ==
    /\ comp[k].pc = "idle"
    /\ head.gen # 0
    /\ IF GenPresent(head.gen) /\ Cardinality(gens[head.gen].packs) > Threshold
       THEN RunBecomes(k, [IdleRun EXCEPT !.pc = "list", !.seen = head])
       ELSE RunBecomes(k, [IdleRun EXCEPT !.pc = "sweep"])
    /\ started' = [started EXCEPT ![k] = clock]
    /\ UNCHANGED vars

\* Every generation with a manifest, head or not, counts as old.
CompactList(k) ==
    /\ comp[k].pc = "list"
    /\ NewGeneration
    /\ RunBecomes(k, [comp[k] EXCEPT
            !.pc = "hydrate", !.gen = nextGen, !.old = PresentGens,
            !.commits = UNION {gens[g].commits : g \in PresentGens}])
    /\ UNCHANGED <<store, clock, pubVars, started>>

Overlay(old, new) == [b \in Branches |-> IF new[b] # NoCommit THEN new[b] ELSE old[b]]

\* hydrate_generation of the head followed by repack -a -d, under the mutation
\* lock of the compactor's node: the single pack left holds what the refs reach.
\* A missing pack, a ref to a missing object or a gap in the history ends the
\* run; what was downloaded stays.
CompactHydrate(k) ==
    LET n == ScratchOf[k]  r == comp[k]
        snap == Overlay(refs[n], gens[r.seen.gen].refs)
        have == objs[n] \cup GenObjects(r.seen.gen)
        pack == Closure({snap[b] : b \in Branches} \ {NoCommit}) IN
    /\ r.pc = "hydrate"
    /\ IF Restorable(r.seen.gen)
       THEN /\ objs' = [objs EXCEPT ![n] = IF pack \subseteq have THEN pack ELSE have]
            /\ refs' = IF \A b \in Branches : snap[b] \in have \cup {NoCommit}
                       THEN [refs EXCEPT ![n] = snap] ELSE refs
       ELSE UNCHANGED nodeVars
    /\ IF Restorable(r.seen.gen) /\ pack \subseteq have
       THEN RunBecomes(k, [r EXCEPT !.pc = "upload", !.at = clock,
                                    !.packs = {pack}, !.snap = snap])
       ELSE RunBecomes(k, IdleRun)
    /\ UNCHANGED <<store, nextGen, clock, upstream, req, faults, started>>

CompactUpload(k) ==
    /\ comp[k].pc = "upload"
    /\ \E p \in comp[k].packs : PutPackUnlessPresent(p)
    /\ RunGoto(k, "genManifest")
    /\ UNCHANGED <<gens, commitGen, refGen, head, nextGen, clock, pubVars, started>>

\* Mutant of CompactWriteGeneration: the refs are those of the head by now.
CompactWriteCurrentRefs(k) ==
    LET r == comp[k] IN
    /\ r.pc = "genManifest"
    /\ gens' = [gens EXCEPT ![r.gen] = [at |-> r.at, packs |-> r.packs,
            refs |-> gens[head.gen].refs, commits |-> r.commits]]
    /\ RunGoto(k, "headCas")
    /\ UNCHANGED <<packAt, commitGen, refGen, head, nextGen, clock, pubVars, started>>

CompactWriteGeneration(k) ==
    LET r == comp[k] IN
    /\ r.pc = "genManifest"
    /\ gens' = [gens EXCEPT ![r.gen] =
            [at |-> r.at, packs |-> r.packs, refs |-> r.snap, commits |-> r.commits]]
    /\ RunGoto(k, "headCas")
    /\ UNCHANGED <<packAt, commitGen, refGen, head, nextGen, clock, pubVars, started>>

\* Mutant of CompactCasHead: the head is put without a version check.
CompactPutHead(k) ==
    LET r == comp[k] IN
    /\ r.pc = "headCas"
    /\ head' = [gen |-> r.gen, tips |-> r.seen.tips, at |-> r.at]
    /\ RunBecomes(k, [r EXCEPT !.pc = "repoint", !.keys = ListedManifests])
    /\ UNCHANGED <<packAt, gens, commitGen, refGen, nextGen, clock, pubVars, started>>

\* Mutant of CompactCasHead: the head is read again, tips included, before the CAS.
CompactCasRereadHead(k) ==
    LET r == comp[k] IN
    /\ r.pc = "headCas"
    /\ head' = [gen |-> r.gen, tips |-> head.tips, at |-> r.at]
    /\ RunBecomes(k, [r EXCEPT !.pc = "repoint", !.keys = ListedManifests])
    /\ UNCHANGED <<packAt, gens, commitGen, refGen, nextGen, clock, pubVars, started>>

\* One attempt, against the version read at the start; the tips are kept.
CompactCasHead(k) ==
    LET r == comp[k] IN
    /\ r.pc = "headCas"
    /\ WriteHeadIfVersionMatches([gen |-> r.gen, tips |-> r.seen.tips, at |-> r.at], r.seen)
    /\ IF head = r.seen
       THEN RunBecomes(k, [r EXCEPT !.pc = "repoint", !.keys = ListedManifests])
       ELSE RunBecomes(k, [IdleRun EXCEPT !.pc = "sweep"])
    /\ UNCHANGED <<packAt, gens, commitGen, refGen, nextGen, clock, pubVars, started>>

\* Mutant of RepointManifest: a branch manifest is replaced by the generation id.
RepointLosesCommit(key, old, new) ==
    IF key \in Commits
    THEN /\ commitGen' = IF commitGen[key] \in old
                         THEN [commitGen EXCEPT ![key] = new] ELSE commitGen
         /\ UNCHANGED refGen
    ELSE /\ refGen' = IF refGen[key].gen \in old
                      THEN [refGen EXCEPT ![key] = [gen |-> new]] ELSE refGen
         /\ UNCHANGED commitGen

\* repoint_manifests_after_compaction, one manifest: it is rewritten when the
\* generation it names is among the given ones.
RepointManifest(key, old, new) ==
    IF key \in Commits
    THEN /\ commitGen' = IF commitGen[key] \in old
                         THEN [commitGen EXCEPT ![key] = new] ELSE commitGen
         /\ UNCHANGED refGen
    ELSE /\ refGen' = IF refGen[key].gen \in old
                      THEN [refGen EXCEPT ![key].gen = new] ELSE refGen
         /\ UNCHANGED commitGen

CompactRepoint(k) ==
    LET r == comp[k] IN
    /\ r.pc = "repoint"
    /\ \E key \in r.keys :
        /\ FirstListed(key, r.keys)
        /\ RepointManifest(key, r.old, r.gen)
        /\ RunBecomes(k, [r EXCEPT !.keys = @ \ {key},
                !.pc = IF r.keys = {key} THEN "commitManifests" ELSE r.pc])
    /\ UNCHANGED <<packAt, gens, head, nextGen, clock, pubVars, started>>

\* Every commit of every old generation is declared complete in the new one.
CompactWriteCommit(k) ==
    LET r == comp[k] IN
    /\ r.pc = "commitManifests"
    /\ \E c \in r.commits :
        /\ commitGen' = [commitGen EXCEPT ![c] = r.gen]
        /\ RunBecomes(k, IF r.commits = {c} THEN [IdleRun EXCEPT !.pc = "sweep"]
                         ELSE [r EXCEPT !.commits = @ \ {c}])
    /\ UNCHANGED <<packAt, gens, refGen, head, nextGen, clock, pubVars, started>>

-----------------------------------------------------------------------------
(* sweep_superseded_generations                                            *)

SweepReadHead(k) ==
    /\ comp[k].pc = "sweep"
    /\ RunBecomes(k, [comp[k] EXCEPT !.pc = "sweepList", !.seen = head])
    /\ UNCHANGED <<vars, started>>

\* Mutant of Swept: every generation older than the cutoff goes, superseded or not.
SweptByAge(g, seen, cutoff) == gens[g].at < cutoff

\* A generation other than the head is swept when the first generation
\* created after it is older than the cutoff.
Swept(g, seen, cutoff) ==
    LET later == {s \in PresentGens : gens[s].at > gens[g].at} IN
    /\ g # seen.gen
    /\ \E s \in later :
        /\ \A t \in later : gens[s].at <= gens[t].at
        /\ gens[s].at < cutoff

SweepList(k) ==
    LET r == comp[k]
        cutoff == clock - Retention
        swept == {g \in PresentGens : Swept(g, r.seen, cutoff)} IN
    /\ r.pc = "sweepList"
    /\ RunBecomes(k, [r EXCEPT
            !.pc = IF swept = {} THEN "sweepOrphans" ELSE "sweepRepoint",
            !.old = swept, !.cutoff = cutoff,
            !.keys = IF swept = {} THEN {} ELSE ListedManifests,
            !.kept = UNION {gens[g].packs : g \in PresentGens \ swept}])
    /\ UNCHANGED <<vars, started>>

SweepRepoint(k) ==
    LET r == comp[k] IN
    /\ r.pc = "sweepRepoint"
    /\ \E key \in r.keys :
        /\ FirstListed(key, r.keys)
        /\ RepointManifest(key, r.old, r.seen.gen)
        /\ RunBecomes(k, [r EXCEPT !.keys = @ \ {key},
                !.pc = IF r.keys = {key} THEN "sweepPacks" ELSE r.pc])
    /\ UNCHANGED <<packAt, gens, head, nextGen, clock, pubVars, started>>

\* Packs first, then the manifest that lists them.
SweepDeletePacks(k) ==
    LET r == comp[k] IN
    /\ r.pc = "sweepPacks"
    /\ \E g \in r.old :
        /\ packAt' = [p \in Pack |->
                IF p \in gens[g].packs \ r.kept THEN 0 ELSE packAt[p]]
        /\ RunBecomes(k, [r EXCEPT !.pc = "sweepManifest", !.gen = g])
    /\ UNCHANGED <<gens, commitGen, refGen, head, nextGen, clock, pubVars, started>>

SweepDeleteManifest(k) ==
    LET r == comp[k] IN
    /\ r.pc = "sweepManifest"
    /\ gens' = [gens EXCEPT ![r.gen] = NoManifest]
    /\ RunBecomes(k, [r EXCEPT !.old = @ \ {r.gen}, !.gen = 0,
            !.pc = IF r.old = {r.gen} THEN "sweepOrphans" ELSE "sweepPacks"])
    /\ UNCHANGED <<packAt, commitGen, refGen, head, nextGen, clock, pubVars, started>>

\* Packs that no listed manifest refers to go once their upload is old enough.
SweepOrphanPacks(k) ==
    LET r == comp[k] IN
    /\ r.pc = "sweepOrphans"
    /\ packAt' = [p \in Pack |->
            IF p \notin r.kept /\ packAt[p] < r.cutoff THEN 0 ELSE packAt[p]]
    /\ RunBecomes(k, IdleRun)
    /\ UNCHANGED <<gens, commitGen, refGen, head, nextGen, clock, pubVars, started>>

-----------------------------------------------------------------------------
RunFail(k) ==
    /\ comp[k].pc # "idle"
    /\ faults < MaxFaults
    /\ faults' = faults + 1
    /\ RunBecomes(k, IdleRun)
    /\ UNCHANGED <<store, nextGen, clock, upstream, nodeVars, req, started>>

RunStep(k) ==
    \/ CompactReadHead(k) \/ CompactList(k) \/ CompactHydrate(k) \/ CompactUpload(k)
    \/ CompactWriteGeneration(k) \/ CompactCasHead(k) \/ CompactRepoint(k)
    \/ CompactWriteCommit(k) \/ SweepReadHead(k) \/ SweepList(k) \/ SweepRepoint(k)
    \/ SweepDeletePacks(k) \/ SweepDeleteManifest(k) \/ SweepOrphanPacks(k)
    \/ RunFail(k)

PublishStep(w) ==
    /\ Step(w)
    /\ started' = IF req[w].pc = "idle" THEN [started EXCEPT ![w] = clock] ELSE started
    /\ UNCHANGED comp

Busy(a) == IF a \in Workers THEN req[a].pc # "idle" ELSE comp[a].pc # "idle"

\* Time passes as long as no operation in flight has used up its deadline.
TimelyTick ==
    /\ \A a \in Workers \cup Compactors : Busy(a) => clock < started[a] + OpDeadline
    /\ Tick
    /\ UNCHANGED compVars

CompactionNext ==
    \/ \E w \in Workers : PublishStep(w)
    \/ \E k \in Compactors : RunStep(k)
    \/ Environment /\ UNCHANGED compVars
    \/ TimelyTick

CompactionSpec == CompactionInit /\ [][CompactionNext]_allVars

-----------------------------------------------------------------------------
(* Properties                                                              *)

\* A node with an empty cache can hydrate the generation the head names: "the
\* generation the head pointer references is always kept", and with a generation
\* the sweep deletes only "the packs only they reference".
HeadRestorable == head.gen # 0 => Restorable(head.gen)

\* The manifest of the generation the head names is never deleted, even when a
\* publish that crashed left a newer generation behind (the sweep derives
\* "superseded" from created_at, not from the head).
HeadKept == head.gen # 0 => GenPresent(head.gen)

\* The head only moves to generations at least as new, compactions included.
HeadAdvancesAlways == [][head'.at >= head.at /\ head'.gen # 0]_head

=============================================================================
