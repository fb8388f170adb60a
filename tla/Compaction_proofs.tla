-------------------------- MODULE Compaction_proofs --------------------------
(***************************************************************************)
(* Proofs about module Compaction: publishers, compactions and sweeps in   *)
(* any number, on any nodes, with failures.                                *)
(***************************************************************************)
EXTENDS Compaction, Publish_proofs

-----------------------------------------------------------------------------
(* Types                                                                   *)

\* A compactor between two runs.
LEMMA IdleRunType == IdleRun \in Run
<1>1. NoHead \in HeadRecord /\ NoRefs \in RefSnapshot
  BY BoundsAssumption DEF NoHead, HeadRecord, NoRefs, RefSnapshot, GenOrNone, Time
<1>2. 0 \in GenOrNone /\ 0 \in Time
  BY BoundsAssumption DEF GenOrNone, Time
<1> QED
  BY <1>1, <1>2 DEF IdleRun, Run, CompactorPhases

\* One run moves on; the store, the nodes and the requests keep their types.
LEMMA RunBecomesType ==
    ASSUME CompactionTypeOK, TypeOK', UNCHANGED started,
           NEW k \in Compactors, NEW r \in Run, RunBecomes(k, r)
    PROVE  CompactionTypeOK'
BY DEF CompactionTypeOK, RunBecomes

\* Repointing a manifest (repoint_manifests_after_compaction) keeps the types.
LEMMA RepointType ==
    ASSUME TypeOK, NEW key \in Keys, NEW old, NEW g \in GenOrNone, RepointManifest(key, old, g)
    PROVE  commitGen' \in [Commits -> GenOrNone] /\ refGen' \in [Branches -> RefManifest]
<1>1. commitGen' \in [Commits -> GenOrNone]
  BY DEF RepointManifest, TypeOK, StoreTypeOK
<1>2. CASE key \in Commits
  BY <1>1, <1>2 DEF RepointManifest, TypeOK, StoreTypeOK
<1>3. CASE key \notin Commits
  <2>1. key \in Branches /\ refGen[key] \in RefManifest
    BY <1>3 DEF Keys, TypeOK, StoreTypeOK
  <2>2. [refGen[key] EXCEPT !.gen = g] \in RefManifest
    BY <2>1 DEF RefManifest
  <2>3. refGen' = refGen \/ refGen' = [refGen EXCEPT ![key] = [refGen[key] EXCEPT !.gen = g]]
    BY <1>3 DEF RepointManifest
  <2> QED
    BY <1>1, <2>1, <2>2, <2>3 DEF TypeOK, StoreTypeOK
<1> QED
  BY <1>2, <1>3

\* Every step of a compaction run or of its sweep keeps the types.
LEMMA RunStepTypeOK ==
    ASSUME CompactionTypeOK, NEW k \in Compactors, RunStep(k)
    PROVE  CompactionTypeOK'
<1> DEFINE r == comp[k]
           n == ScratchOf[k]
<1>0. /\ r \in Run
      /\ n \in Nodes
      /\ TypeOK
      /\ 0 \in GenOrNone
      /\ head \in HeadRecord
      /\ clock \in Time
  BY CompactionAssumption, BoundsAssumption DEF CompactionTypeOK, TypeOK, StoreTypeOK, GenOrNone
<1>1. CASE CompactReadHead(k)
  <2>1. comp' \in [Compactors -> Run]
    <3>1. /\ [IdleRun EXCEPT !.pc = "list", !.seen = head] \in Run
          /\ [IdleRun EXCEPT !.pc = "sweep"] \in Run
      BY <1>0, IdleRunType DEF Run, CompactorPhases
    <3> QED
      BY <1>1, <3>1 DEF CompactReadHead, RunBecomes, CompactionTypeOK
  <2>2. started' \in [Workers \cup Compactors -> Time]
    BY <1>0, <1>1 DEF CompactReadHead, CompactionTypeOK
  <2>3. TypeOK'
    BY <1>0, <1>1 DEF CompactReadHead, vars, store, pubVars, nodeVars, TypeOK, StoreTypeOK
  <2> QED
    BY <2>1, <2>2, <2>3 DEF CompactionTypeOK
<1>2. CASE CompactList(k)
  <2>1. nextGen \in GenOrNone /\ nextGen' \in 1 .. (MaxGen + 1)
    BY <1>0, <1>2, BoundsAssumption DEF CompactList, NewGeneration, TypeOK, StoreTypeOK, GenOrNone
  <2>2. TypeOK'
    BY <1>0, <1>2, <2>1 DEF CompactList, store, pubVars, nodeVars, TypeOK, StoreTypeOK
  <2>3. PresentGens \in SUBSET Gens
    BY DEF PresentGens
  <2>4. UNION {gens[g].commits : g \in PresentGens} \in SUBSET Commits
    BY <1>0, <2>3 DEF TypeOK, StoreTypeOK, GenManifest
  <2> DEFINE olds == PresentGens
             commits == UNION {gens[g].commits : g \in PresentGens}
  <2>5. RunBecomes(k, [r EXCEPT !.pc = "hydrate", !.gen = nextGen, !.old = olds, !.commits = commits])
        /\ UNCHANGED started
    BY <1>2, SMTT(60) DEF CompactList
  <2> HIDE DEF olds, commits
  <2>6. [r EXCEPT !.pc = "hydrate", !.gen = nextGen, !.old = olds, !.commits = commits] \in Run
    BY <1>0, <2>1, <2>3, <2>4 DEF Run, CompactorPhases, olds, commits
  <2> QED
    BY <2>2, <2>5, <2>6, RunBecomesType
<1>3. CASE CompactHydrate(k)
  <2> DEFINE snap == Overlay(refs[n], gens[r.seen.gen].refs)
             have == objs[n] \cup GenObjects(r.seen.gen)
             pack == Closure({snap[b] : b \in Branches} \ {NoCommit})
  <2>1. CASE ~Restorable(r.seen.gen)
    <3>1. TypeOK'
      BY <1>0, <1>3, <2>1 DEF CompactHydrate, store, nodeVars, TypeOK, StoreTypeOK
    <3>2. RunBecomes(k, IdleRun) /\ UNCHANGED started
      BY <1>3, <2>1 DEF CompactHydrate
    <3> QED
      BY <3>1, <3>2, IdleRunType, RunBecomesType
  <2>2. CASE Restorable(r.seen.gen)
    <3>1. gens[r.seen.gen] \in GenManifest /\ refs[n] \in RefSnapshot /\ objs[n] \in SUBSET Commits
      BY <1>0, <2>2 DEF Restorable, GenPresent, TypeOK, StoreTypeOK
    <3>2. snap \in RefSnapshot
      BY <3>1 DEF Overlay, RefSnapshot, GenManifest
    <3>3. have \in SUBSET Commits
      BY <3>1, SMTT(60) DEF GenObjects, GenManifest, Pack
    <3>4. pack \in SUBSET Commits
      BY <3>2, ClosureType, SMTT(60) DEF RefSnapshot
    <3>5. objs' = [objs EXCEPT ![n] = IF pack \subseteq have THEN pack ELSE have]
      BY <1>3, <2>2, ZenonT(60) DEF CompactHydrate
    <3>6. refs' = [refs EXCEPT ![n] = snap] \/ refs' = refs
      BY <1>3, <2>2, ZenonT(60) DEF CompactHydrate
    <3>7. RunBecomes(k, [r EXCEPT !.pc = "upload", !.at = clock, !.packs = {pack}, !.snap = snap])
          \/ RunBecomes(k, IdleRun)
      BY <1>3, <2>2, ZenonT(60) DEF CompactHydrate
    <3>8. UNCHANGED <<store, nextGen, clock, upstream, req, faults, started>>
      BY <1>3 DEF CompactHydrate
    <3> HIDE DEF snap, have, pack
    <3>9. TypeOK'
      BY <1>0, <3>2, <3>3, <3>4, <3>5, <3>6, <3>8 DEF store, TypeOK, StoreTypeOK
    <3>10. [r EXCEPT !.pc = "upload", !.at = clock, !.packs = {pack}, !.snap = snap] \in Run
      BY <1>0, <3>2, <3>4 DEF Run, CompactorPhases, Pack
    <3> QED
      BY <3>7, <3>8, <3>9, <3>10, IdleRunType, RunBecomesType
  <2> QED
    BY <2>1, <2>2
<1>4. CASE CompactUpload(k)
  <2>1. packAt' \in [Pack -> Time]
    BY <1>0, <1>4 DEF CompactUpload, PutPackUnlessPresent, TypeOK, StoreTypeOK, Run
  <2>2. TypeOK'
    BY <1>0, <1>4, <2>1 DEF CompactUpload, pubVars, nodeVars, TypeOK, StoreTypeOK
  <2>3. [r EXCEPT !.pc = "genManifest"] \in Run
    BY <1>0 DEF Run, CompactorPhases
  <2> QED
    BY <1>4, <2>2, <2>3, RunBecomesType DEF CompactUpload, RunGoto
<1>5. CASE CompactWriteGeneration(k)
  <2>1. [at |-> r.at, packs |-> r.packs, refs |-> r.snap, commits |-> r.commits] \in GenManifest
    BY <1>0 DEF Run, GenManifest
  <2>2. gens' \in [Gens -> GenManifest]
    BY <1>0, <1>5, <2>1 DEF CompactWriteGeneration, TypeOK, StoreTypeOK
  <2>3. TypeOK'
    BY <1>0, <1>5, <2>2 DEF CompactWriteGeneration, pubVars, nodeVars, TypeOK, StoreTypeOK
  <2>4. [r EXCEPT !.pc = "headCas"] \in Run
    BY <1>0 DEF Run, CompactorPhases
  <2> QED
    BY <1>5, <2>3, <2>4, RunBecomesType DEF CompactWriteGeneration, RunGoto
<1>6. CASE CompactCasHead(k)
  <2>1. [gen |-> r.gen, tips |-> r.seen.tips, at |-> r.at] \in HeadRecord
    BY <1>0 DEF Run, HeadRecord
  <2>2. TypeOK'
    BY <1>0, <1>6, <2>1
    DEF CompactCasHead, WriteHeadIfVersionMatches, pubVars, nodeVars, TypeOK, StoreTypeOK
  <2>3. ListedManifests \in SUBSET Keys
    BY DEF ListedManifests, Keys
  <2>4. [r EXCEPT !.pc = "repoint", !.keys = ListedManifests] \in Run
    BY <1>0, <2>3 DEF Run, CompactorPhases
  <2>5. [IdleRun EXCEPT !.pc = "sweep"] \in Run
    BY IdleRunType DEF Run, CompactorPhases
  <2> QED
    BY <1>6, <2>2, <2>4, <2>5, RunBecomesType DEF CompactCasHead
<1>7. CASE CompactRepoint(k)
  <2>1. PICK key \in r.keys :
           /\ RepointManifest(key, r.old, r.gen)
           /\ RunBecomes(k, [r EXCEPT !.keys = @ \ {key},
                !.pc = IF r.keys = {key} THEN "commitManifests" ELSE r.pc])
    BY <1>7 DEF CompactRepoint
  <2>2. key \in Keys /\ r.gen \in GenOrNone
    BY <1>0 DEF Run
  <2>3. commitGen' \in [Commits -> GenOrNone] /\ refGen' \in [Branches -> RefManifest]
    BY <1>0, <2>1, <2>2, RepointType
  <2>4. TypeOK'
    BY <1>0, <1>7, <2>3, SMTT(60) DEF CompactRepoint, pubVars, nodeVars, TypeOK, StoreTypeOK
  <2>5. [r EXCEPT !.keys = @ \ {key},
                  !.pc = IF r.keys = {key} THEN "commitManifests" ELSE r.pc] \in Run
    BY <1>0 DEF Run, CompactorPhases
  <2> QED
    BY <1>7, <2>1, <2>4, <2>5, RunBecomesType DEF CompactRepoint
<1>8. CASE CompactWriteCommit(k)
  <2>1. PICK c \in r.commits :
           /\ commitGen' = [commitGen EXCEPT ![c] = r.gen]
           /\ RunBecomes(k, IF r.commits = {c} THEN [IdleRun EXCEPT !.pc = "sweep"]
                            ELSE [r EXCEPT !.commits = @ \ {c}])
    BY <1>8 DEF CompactWriteCommit
  <2>2. commitGen' \in [Commits -> GenOrNone]
    BY <1>0, <2>1 DEF TypeOK, StoreTypeOK, Run
  <2>3. TypeOK'
    BY <1>0, <1>8, <2>2 DEF CompactWriteCommit, pubVars, nodeVars, TypeOK, StoreTypeOK
  <2>4. [IdleRun EXCEPT !.pc = "sweep"] \in Run /\ [r EXCEPT !.commits = @ \ {c}] \in Run
    BY <1>0, IdleRunType DEF Run, CompactorPhases
  <2> QED
    BY <1>8, <2>1, <2>3, <2>4, RunBecomesType DEF CompactWriteCommit
<1>9. CASE SweepReadHead(k)
  <2>1. TypeOK'
    BY <1>0, <1>9 DEF SweepReadHead, vars, store, pubVars, nodeVars, TypeOK, StoreTypeOK
  <2>2. [r EXCEPT !.pc = "sweepList", !.seen = head] \in Run
    BY <1>0 DEF Run, CompactorPhases
  <2> QED
    BY <1>9, <2>1, <2>2, RunBecomesType DEF SweepReadHead
<1>10. CASE SweepList(k)
  <2> DEFINE cutoff == clock - Retention
             swept == {g \in PresentGens : Swept(g, r.seen, cutoff)}
             pc == IF swept = {} THEN "sweepOrphans" ELSE "sweepRepoint"
             keys == IF swept = {} THEN {} ELSE ListedManifests
             kept == UNION {gens[g].packs : g \in PresentGens \ swept}
  <2>1. TypeOK'
    BY <1>0, <1>10 DEF SweepList, vars, store, pubVars, nodeVars, TypeOK, StoreTypeOK
  <2>2. cutoff \in Int
    BY <1>0, CompactionAssumption, BoundsAssumption DEF Time
  <2>3. swept \in SUBSET Gens /\ keys \in SUBSET Keys /\ pc \in CompactorPhases
    BY DEF PresentGens, ListedManifests, Keys, CompactorPhases
  <2>4. kept \in SUBSET Pack
    BY <1>0 DEF PresentGens, TypeOK, StoreTypeOK, GenManifest
  <2>5. RunBecomes(k, [r EXCEPT !.pc = pc, !.old = swept, !.cutoff = cutoff,
                                !.keys = keys, !.kept = kept])
        /\ UNCHANGED started
    BY <1>10 DEF SweepList
  <2> HIDE DEF cutoff, swept, pc, keys, kept
  <2>6. [r EXCEPT !.pc = pc, !.old = swept, !.cutoff = cutoff, !.keys = keys, !.kept = kept] \in Run
    BY <1>0, <2>2, <2>3, <2>4 DEF Run
  <2> QED
    BY <2>1, <2>5, <2>6, RunBecomesType
<1>11. CASE SweepRepoint(k)
  <2>1. PICK key \in r.keys :
           /\ RepointManifest(key, r.old, r.seen.gen)
           /\ RunBecomes(k, [r EXCEPT !.keys = @ \ {key},
                !.pc = IF r.keys = {key} THEN "sweepPacks" ELSE r.pc])
    BY <1>11 DEF SweepRepoint
  <2>2. key \in Keys /\ r.seen.gen \in GenOrNone
    BY <1>0 DEF Run, HeadRecord
  <2>3. commitGen' \in [Commits -> GenOrNone] /\ refGen' \in [Branches -> RefManifest]
    BY <1>0, <2>1, <2>2, RepointType
  <2>4. TypeOK'
    BY <1>0, <1>11, <2>3, SMTT(60) DEF SweepRepoint, pubVars, nodeVars, TypeOK, StoreTypeOK
  <2>5. [r EXCEPT !.keys = @ \ {key},
                  !.pc = IF r.keys = {key} THEN "sweepPacks" ELSE r.pc] \in Run
    BY <1>0 DEF Run, CompactorPhases
  <2> QED
    BY <1>11, <2>1, <2>4, <2>5, RunBecomesType DEF SweepRepoint
<1>12. CASE SweepDeletePacks(k)
  <2>1. PICK g \in r.old :
           /\ packAt' = [p \in Pack |-> IF p \in gens[g].packs \ r.kept THEN 0 ELSE packAt[p]]
           /\ RunBecomes(k, [r EXCEPT !.pc = "sweepManifest", !.gen = g])
    BY <1>12 DEF SweepDeletePacks
  <2>2. packAt' \in [Pack -> Time]
    BY <1>0, <2>1, BoundsAssumption DEF TypeOK, StoreTypeOK, Time
  <2>3. TypeOK'
    BY <1>0, <1>12, <2>2 DEF SweepDeletePacks, pubVars, nodeVars, TypeOK, StoreTypeOK
  <2>4. g \in GenOrNone
    BY <1>0, BoundsAssumption DEF Run, Gens, GenOrNone
  <2>5. [r EXCEPT !.pc = "sweepManifest", !.gen = g] \in Run
    BY <1>0, <2>4 DEF Run, CompactorPhases
  <2> QED
    BY <1>12, <2>1, <2>3, <2>5, RunBecomesType DEF SweepDeletePacks
<1>13. CASE SweepDeleteManifest(k)
  <2>1. NoManifest \in GenManifest
    BY BoundsAssumption DEF NoManifest, GenManifest, NoRefs, RefSnapshot, Time
  <2>2. TypeOK'
    BY <1>0, <1>13, <2>1 DEF SweepDeleteManifest, pubVars, nodeVars, TypeOK, StoreTypeOK
  <2>3. [r EXCEPT !.old = @ \ {r.gen}, !.gen = 0,
                  !.pc = IF r.old = {r.gen} THEN "sweepOrphans" ELSE "sweepPacks"] \in Run
    BY <1>0 DEF Run, CompactorPhases
  <2> QED
    BY <1>13, <2>2, <2>3, RunBecomesType DEF SweepDeleteManifest
<1>14. CASE SweepOrphanPacks(k)
  <2>1. packAt' \in [Pack -> Time]
    BY <1>0, <1>14, BoundsAssumption DEF SweepOrphanPacks, TypeOK, StoreTypeOK, Time
  <2>2. TypeOK'
    BY <1>0, <1>14, <2>1 DEF SweepOrphanPacks, pubVars, nodeVars, TypeOK, StoreTypeOK
  <2> QED
    BY <1>14, <2>2, IdleRunType, RunBecomesType DEF SweepOrphanPacks
<1>15. CASE RunFail(k)
  <2>1. faults' \in 0 .. MaxFaults
    BY <1>0, <1>15, PublishAssumption DEF RunFail, TypeOK
  <2>2. TypeOK'
    BY <1>0, <1>15, <2>1 DEF RunFail, store, nodeVars, TypeOK, StoreTypeOK
  <2> QED
    BY <1>15, <2>2, IdleRunType, RunBecomesType DEF RunFail
<1> QED
  BY <1>1, <1>2, <1>3, <1>4, <1>5, <1>6, <1>7, <1>8, <1>9, <1>10, <1>11, <1>12, <1>13,
     <1>14, <1>15 DEF RunStep

\* So does every step of the publishers, the environment and the clock.
LEMMA CompactionNextTypeOK ==
    CompactionTypeOK /\ [CompactionNext]_allVars => CompactionTypeOK'
<1> SUFFICES ASSUME CompactionTypeOK, [CompactionNext]_allVars PROVE CompactionTypeOK'
  OBVIOUS
<1>0. TypeOK /\ clock \in Time
  BY DEF CompactionTypeOK, TypeOK, StoreTypeOK
<1>1. ASSUME NEW w \in Workers, PublishStep(w) PROVE CompactionTypeOK'
  <2>1. TypeOK'
    BY <1>0, <1>1, StepTypeOK DEF PublishStep
  <2>2. started' \in [Workers \cup Compactors -> Time] /\ comp' = comp
    BY <1>0, <1>1 DEF PublishStep, CompactionTypeOK
  <2> QED
    BY <2>1, <2>2 DEF CompactionTypeOK
<1>2. ASSUME NEW k \in Compactors, RunStep(k) PROVE CompactionTypeOK'
  BY <1>2, RunStepTypeOK
<1>3. CASE (Environment \/ Tick) /\ UNCHANGED compVars
  <2>1. TypeOK'
    BY <1>0, <1>3, EnvironmentTypeOK
  <2> QED
    BY <1>3, <2>1 DEF CompactionTypeOK, compVars
<1>4. CASE UNCHANGED allVars
  <2>1. TypeOK'
    BY <1>0, <1>4, NextTypeOK DEF allVars
  <2> QED
    BY <1>4, <2>1 DEF CompactionTypeOK, allVars, compVars
<1> QED
  BY <1>1, <1>2, <1>3, <1>4 DEF CompactionNext, TimelyTick

\* No compaction runs initially.
LEMMA CompactionInitTypeOK == CompactionInit => CompactionTypeOK
<1>1. 0 \in Time
  BY BoundsAssumption DEF Time
<1> QED
  BY <1>1, InitTypeOK, IdleRunType DEF CompactionInit, CompactionTypeOK

\* Every variable of publishers and compactions keeps its type
\* (CompactionTypeOK): repointing, sweeping and failing runs included.
THEOREM CompactionTypeCorrect == CompactionSpec => []CompactionTypeOK
BY CompactionInitTypeOK, CompactionNextTypeOK, PTL DEF CompactionSpec

-----------------------------------------------------------------------------
(* The head only moves forward.  A publisher compares its created_at with  *)
(* the head it is about to replace; a compaction does not, and relies on    *)
(* having read the clock after the head.                                    *)

\* The phases in which a request has the id of a generation.
Numbered == Building \cup {"commitManifests", "refManifest", "headRead", "headCas"}

\* The phases in which a request has its created_at.
Stamped == {"snapshot", "upload", "genManifest", "commitManifests", "headRead", "headCas"}

RequestOrdered(r, now) ==
    /\ r.at <= now
    /\ r.pc \in Numbered => r.gen \in Gens
    /\ r.pc \in Stamped => r.at # 0
    /\ r.pc \in {"resolved", "record", "fetch", "manifests", "publish", "readHead"} => r.packs = {}
    /\ r.pc = "refManifest" /\ r.packs # {} => r.at # 0
    /\ CasOrdered(r)

RunOrdered(r, now) ==
    /\ r.at <= now
    /\ r.seen.at <= now
    /\ r.pc \in {"hydrate", "upload", "genManifest", "headCas"} => r.gen \in Gens
    /\ r.pc \in {"upload", "genManifest", "headCas"} => r.at # 0 /\ r.seen.at <= r.at

OrderedInv ==
    /\ CompactionTypeOK
    /\ clock # 0
    /\ head.at <= clock
    /\ \A w \in Workers : RequestOrdered(req[w], clock)
    /\ \A k \in Compactors : RunOrdered(comp[k], clock)

\* A request that is idle has no created_at yet.
LEMMA IdleOrdered == ASSUME NEW now \in Time PROVE RequestOrdered(Idle, now)
BY BoundsAssumption
DEF RequestOrdered, Idle, Numbered, Building, Stamped, CasOrdered, Time

\* Neither has a compactor between two runs.
LEMMA IdleRunOrdered ==
    ASSUME NEW now \in Time
    PROVE  RunOrdered(IdleRun, now) /\ RunOrdered([IdleRun EXCEPT !.pc = "sweep"], now)
BY BoundsAssumption DEF RunOrdered, IdleRun, NoHead, Time

\* Every step of publish_generation keeps the request in order.
LEMMA StepOrdered ==
    ASSUME TypeOK, clock # 0, NEW w \in Workers, RequestOrdered(req[w], clock), Step(w)
    PROVE  RequestOrdered(req'[w], clock) /\ clock' = clock
<1> DEFINE r == req[w]
<1>0. /\ r \in Request
      /\ req \in [Workers -> Request]
      /\ clock \in Time
      /\ RequestOrdered(Idle, clock)
      /\ \A r2 : Become(w, r2) => req'[w] = r2
  BY IdleOrdered, SMTT(60) DEF TypeOK, StoreTypeOK, Become
<1>c. clock' = clock
  BY DEF Step, ResolveTip, CheckLocal, RecordVerifiedBranchRefs, EnsureBranchManifests,
        FetchBranch, CheckExisting, ReadHead, PackIncremental, PackFull, LocalGitFails, SnapshotRefs,
        UploadPack, WriteGenerationManifest, WriteCommitManifest, WriteRefManifest, ReadHeadVersion,
        CasHead
<1> SUFFICES RequestOrdered(req'[w], clock)
  BY <1>c
<1>1. CASE ResolveTip(w)
  <2>1. req'[w].pc = "resolved" /\ req'[w].at = 0 /\ req'[w].packs = {}
    <3>1. PICK b \in Branches :
             req'[w] = [Idle EXCEPT !.pc = "resolved", !.branch = b, !.commit = upstream[b]]
      BY <1>0, <1>1 DEF ResolveTip
    <3> QED
      BY <3>1 DEF Idle
  <2> QED
    BY <1>0, <2>1, BoundsAssumption
    DEF RequestOrdered, Numbered, Building, Stamped, CasOrdered, Time
<1>2. CASE CheckLocal(w)
  <2> DEFINE r2 == [r EXCEPT !.pc = IF LocalReady(NodeOf[w], r.commit) THEN "record" ELSE "fetch",
                             !.ready = r.commit \in objs[NodeOf[w]]]
  <2>1. /\ r2.pc = "record" \/ r2.pc = "fetch"
        /\ r2.at = r.at /\ r2.packs = r.packs
    BY <1>0 DEF Request
  <2>2. r.packs = {} /\ req'[w] = r2
    BY <1>0, <1>2 DEF CheckLocal, RequestOrdered
  <2> HIDE DEF r2
  <2> QED
    BY <2>1, <2>2 DEF RequestOrdered, Numbered, Building, Stamped, CasOrdered
<1>3. CASE RecordVerifiedBranchRefs(w)
  BY <1>0, <1>3
  DEF RecordVerifiedBranchRefs, Goto, RequestOrdered, Request, Numbered, Building, Stamped, CasOrdered
<1>4. CASE EnsureBranchManifests(w)
  <2>1. commitGen[r.commit] # 0 => commitGen[r.commit] \in Gens
    BY <1>0, BoundsAssumption DEF TypeOK, StoreTypeOK, Request, GenOrNone, Gens
  <2> QED
    BY <1>0, <1>4, <2>1, ZenonT(60)
    DEF EnsureBranchManifests, Goto, RequestOrdered, Request, Numbered, Building, Stamped, CasOrdered
<1>5. CASE FetchBranch(w)
  <2>1. req'[w] = [r EXCEPT !.pc = "publish", !.locked = TRUE] \/ req'[w] = Idle
    BY <1>0, <1>5 DEF FetchBranch
  <2>2. r.pc = "fetch"
    BY <1>5 DEF FetchBranch
  <2> QED
    BY <1>0, <2>1, <2>2, ZenonT(60)
    DEF RequestOrdered, Request, Numbered, Building, Stamped, CasOrdered
<1>6. CASE CheckExisting(w)
  <2>1. commitGen[r.commit] # 0 => commitGen[r.commit] \in Gens
    BY <1>0, BoundsAssumption DEF TypeOK, StoreTypeOK, Request, GenOrNone, Gens
  <2> QED
    BY <1>0, <1>6, <2>1, ZenonT(60)
    DEF CheckExisting, Goto, RequestOrdered, Request, Numbered, Building, Stamped, CasOrdered
<1>7. CASE ReadHead(w)
  <2>1. nextGen \in Gens
    BY <1>7, BoundsAssumption DEF ReadHead, NewGeneration, TypeOK, StoreTypeOK, Gens
  <2>2. req'[w].pc = "pack" /\ req'[w].gen = nextGen /\ req'[w].at = r.at
    BY <1>0, <1>7, ZenonT(60) DEF ReadHead, Request
  <2> QED
    BY <2>1, <2>2 DEF RequestOrdered, Numbered, Building, Stamped, CasOrdered
<1>8. CASE PackIncremental(w) \/ PackFull(w)
  <2>1. req'[w].pc = "snapshot" /\ req'[w].at = clock /\ req'[w].gen = r.gen /\ r.pc = "pack"
    BY <1>0, <1>8, ZenonT(60) DEF PackIncremental, PackFull, Request
  <2>2. clock <= clock
    BY <1>0, BoundsAssumption DEF Time
  <2> QED
    BY <2>1, <2>2 DEF RequestOrdered, Numbered, Building, Stamped, CasOrdered
<1>9. CASE LocalGitFails(w)
  BY <1>0, <1>9 DEF LocalGitFails
<1>10. CASE SnapshotRefs(w)
  <2>1. /\ req'[w].pc = "upload" /\ r.pc = "snapshot"
        /\ req'[w].at = r.at /\ req'[w].gen = r.gen
    BY <1>0, <1>10, ZenonT(60) DEF SnapshotRefs, Request
  <2> QED
    BY <2>1 DEF RequestOrdered, Numbered, Building, Stamped, CasOrdered
<1>11. CASE UploadPack(w) \/ WriteGenerationManifest(w)
  <2>1. /\ req'[w].pc \in {"genManifest", "commitManifests"} /\ r.pc \in {"upload", "genManifest"}
        /\ req'[w].at = r.at /\ req'[w].gen = r.gen
    BY <1>0, <1>11 DEF UploadPack, WriteGenerationManifest, Goto, Request
  <2> QED
    BY <2>1 DEF RequestOrdered, Numbered, Building, Stamped, CasOrdered
<1>12. CASE WriteCommitManifest(w)
  <2>1. \/ req'[w] = Idle
        \/ /\ req'[w].pc \in {"commitManifests", "refManifest"} /\ r.pc = "commitManifests"
           /\ req'[w].at = r.at /\ req'[w].gen = r.gen
    BY <1>0, <1>12, ZenonT(60) DEF WriteCommitManifest, Request
  <2> QED
    BY <1>0, <2>1 DEF RequestOrdered, Numbered, Building, Stamped, CasOrdered
<1>13. CASE WriteRefManifest(w)
  <2>1. \/ req'[w] = Idle
        \/ /\ req'[w].pc = "headRead" /\ r.pc = "refManifest" /\ r.packs # {}
           /\ req'[w].at = r.at /\ req'[w].gen = r.gen
    BY <1>0, <1>13 DEF WriteRefManifest, Goto, Request
  <2> QED
    BY <1>0, <2>1 DEF RequestOrdered, Numbered, Building, Stamped, CasOrdered
<1>14. CASE ReadHeadVersion(w)
  <2>1. \/ req'[w] = Idle
        \/ /\ req'[w].pc = "headCas" /\ r.pc = "headRead" /\ ~(head.at > r.at)
           /\ req'[w].at = r.at /\ req'[w].gen = r.gen /\ req'[w].seen = head
    BY <1>0, <1>14 DEF ReadHeadVersion, Request
  <2>2. ~(head.at > r.at) => head.at <= r.at
    BY <1>0, BoundsAssumption DEF Request, TypeOK, StoreTypeOK, HeadRecord, Time
  <2> QED
    BY <1>0, <2>1, <2>2 DEF RequestOrdered, Numbered, Building, Stamped, CasOrdered
<1>15. CASE CasHead(w)
  <2>1. \/ req'[w] = Idle
        \/ /\ req'[w].pc = "headRead" /\ r.pc = "headCas"
           /\ req'[w].at = r.at /\ req'[w].gen = r.gen
    BY <1>0, <1>15 DEF CasHead, Request
  <2> QED
    BY <1>0, <2>1 DEF RequestOrdered, Numbered, Building, Stamped, CasOrdered
<1> QED
  BY <1>1, <1>2, <1>3, <1>4, <1>5, <1>6, <1>7, <1>8, <1>9, <1>10, <1>11, <1>12, <1>13,
     <1>14, <1>15 DEF Step


\* Every step of a compaction or a sweep keeps the run in order: created_at is
\* read after the head.
LEMMA RunStepOrdered ==
    ASSUME CompactionTypeOK, clock # 0, head.at <= clock,
           NEW k \in Compactors, RunOrdered(comp[k], clock), RunStep(k)
    PROVE  RunOrdered(comp'[k], clock) /\ clock' = clock
<1> DEFINE r == comp[k]
<1>0. /\ r \in Run
      /\ clock \in Time
      /\ RunOrdered(IdleRun, clock) /\ RunOrdered([IdleRun EXCEPT !.pc = "sweep"], clock)
      /\ \A r2 : RunBecomes(k, r2) => comp'[k] = r2
  BY IdleRunOrdered DEF CompactionTypeOK, TypeOK, StoreTypeOK, RunBecomes
<1>1. clock' = clock
  BY DEF RunStep, CompactReadHead, CompactList, CompactHydrate, CompactUpload,
         CompactWriteGeneration, CompactCasHead, CompactRepoint, CompactWriteCommit, SweepReadHead,
         SweepList, SweepRepoint, SweepDeletePacks, SweepDeleteManifest, SweepOrphanPacks, RunFail,
         vars
<1> SUFFICES RunOrdered(comp'[k], clock)
  BY <1>1
<1>2. CASE CompactReadHead(k)
  <2>1. \/ comp'[k] = [IdleRun EXCEPT !.pc = "list", !.seen = head]
        \/ comp'[k] = [IdleRun EXCEPT !.pc = "sweep"]
    BY <1>0, <1>2 DEF CompactReadHead
  <2>2. RunOrdered([IdleRun EXCEPT !.pc = "list", !.seen = head], clock)
    BY <1>0, BoundsAssumption DEF RunOrdered, IdleRun, Time
  <2> QED
    BY <1>0, <2>1, <2>2
<1>3. CASE CompactList(k)
  <2>1. nextGen \in Gens
    BY <1>3, BoundsAssumption
    DEF CompactList, NewGeneration, CompactionTypeOK, TypeOK, StoreTypeOK, Gens
  <2>2. /\ comp'[k].pc = "hydrate" /\ comp'[k].gen = nextGen
        /\ comp'[k].at = r.at /\ comp'[k].seen = r.seen
    BY <1>0, <1>3 DEF CompactList, Run
  <2> QED
    BY <2>1, <2>2 DEF RunOrdered
<1>4. CASE CompactHydrate(k)
  <2>1. \/ comp'[k] = IdleRun
        \/ /\ comp'[k].pc = "upload" /\ r.pc = "hydrate" /\ comp'[k].gen = r.gen
           /\ comp'[k].at = clock /\ comp'[k].seen = r.seen
    BY <1>0, <1>4, ZenonT(60) DEF CompactHydrate, Run
  <2>2. clock <= clock
    BY <1>0, BoundsAssumption DEF Time
  <2> QED
    BY <1>0, <2>1, <2>2 DEF RunOrdered
<1>5. CASE CompactUpload(k) \/ CompactWriteGeneration(k)
  <2>1. /\ comp'[k].pc \in {"genManifest", "headCas"} /\ r.pc \in {"upload", "genManifest"}
        /\ comp'[k].gen = r.gen /\ comp'[k].at = r.at /\ comp'[k].seen = r.seen
    BY <1>0, <1>5 DEF CompactUpload, CompactWriteGeneration, RunGoto, Run
  <2> QED
    BY <2>1 DEF RunOrdered
<1>6. CASE CompactCasHead(k) \/ CompactRepoint(k) \/ CompactWriteCommit(k)
  <2>1. \/ comp'[k] = [IdleRun EXCEPT !.pc = "sweep"]
        \/ /\ comp'[k].pc \in {"repoint", "commitManifests"}
           /\ comp'[k].at = r.at /\ comp'[k].seen = r.seen
    BY <1>0, <1>6, ZenonT(60) DEF CompactCasHead, CompactRepoint, CompactWriteCommit, Run
  <2> QED
    BY <1>0, <2>1 DEF RunOrdered
<1>7. CASE SweepReadHead(k)
  <2>1. comp'[k].pc = "sweepList" /\ comp'[k].at = r.at /\ comp'[k].seen = head
    BY <1>0, <1>7 DEF SweepReadHead, Run
  <2> QED
    BY <2>1 DEF RunOrdered
<1>8. CASE SweepList(k)
  <2> DEFINE cutoff == clock - Retention
             swept == {g \in PresentGens : Swept(g, r.seen, cutoff)}
             pc == IF swept = {} THEN "sweepOrphans" ELSE "sweepRepoint"
             keys == IF swept = {} THEN {} ELSE ListedManifests
             kept == UNION {gens[g].packs : g \in PresentGens \ swept}
  <2>1. comp'[k] = [r EXCEPT !.pc = pc, !.old = swept, !.cutoff = cutoff,
                             !.keys = keys, !.kept = kept]
    BY <1>0, <1>8 DEF SweepList
  <2>2. pc \in {"sweepOrphans", "sweepRepoint"}
    OBVIOUS
  <2> HIDE DEF cutoff, swept, pc, keys, kept
  <2>3. comp'[k].pc = pc /\ comp'[k].at = r.at /\ comp'[k].seen = r.seen
    BY <1>0, <2>1 DEF Run
  <2> QED
    BY <2>2, <2>3 DEF RunOrdered
<1>9. CASE SweepRepoint(k) \/ SweepDeletePacks(k) \/ SweepDeleteManifest(k)
  <2>1. /\ comp'[k].pc \in {"sweepRepoint", "sweepPacks", "sweepManifest", "sweepOrphans"}
        /\ comp'[k].at = r.at /\ comp'[k].seen = r.seen
    BY <1>0, <1>9, ZenonT(60) DEF SweepRepoint, SweepDeletePacks, SweepDeleteManifest, Run
  <2> QED
    BY <2>1 DEF RunOrdered
<1>10. CASE SweepOrphanPacks(k) \/ RunFail(k)
  BY <1>0, <1>10 DEF SweepOrphanPacks, RunFail
<1> QED
  BY <1>2, <1>3, <1>4, <1>5, <1>6, <1>7, <1>8, <1>9, <1>10 DEF RunStep

\* Who moves the head: a publisher or a compaction whose CAS finds the version it
\* read.
LEMMA HeadMover ==
    ASSUME [CompactionNext]_allVars, head' # head
    PROVE  \/ \E w \in Workers : CasHead(w) /\ head = req[w].seen /\ head' = NewHead(req[w])
           \/ \E k \in Compactors :
                /\ CompactCasHead(k)
                /\ head = comp[k].seen
                /\ head' = [gen |-> comp[k].gen, tips |-> comp[k].seen.tips, at |-> comp[k].at]
<1>1. \/ \E w \in Workers : CasHead(w)
      \/ \E k \in Compactors : CompactCasHead(k)
  BY ZenonT(60) DEF CompactionNext, PublishStep, RunStep, Step, Environment, UpstreamPush, Evict, Fail,
         TimelyTick, Tick, allVars, vars, store, compVars,
         ResolveTip, CheckLocal, RecordVerifiedBranchRefs, EnsureBranchManifests,
         FetchBranch, CheckExisting, ReadHead, PackIncremental, PackFull, LocalGitFails, SnapshotRefs,
         UploadPack, WriteGenerationManifest, WriteCommitManifest, WriteRefManifest, ReadHeadVersion,
         CompactReadHead, CompactList, CompactHydrate, CompactUpload, CompactWriteGeneration,
         CompactRepoint, CompactWriteCommit, SweepReadHead, SweepList, SweepRepoint,
         SweepDeletePacks, SweepDeleteManifest, SweepOrphanPacks, RunFail
<1> QED
  BY <1>1 DEF CasHead, CompactCasHead, WriteHeadIfVersionMatches

\* A head that moves does not get older, and is not from the future.
LEMMA HeadStepOrdered ==
    ASSUME OrderedInv, [CompactionNext]_allVars, head' # head
    PROVE  head'.at >= head.at /\ head'.gen # 0 /\ head'.at <= clock
<1>1. CASE \E w \in Workers : CasHead(w) /\ head = req[w].seen /\ head' = NewHead(req[w])
  <2>1. PICK w \in Workers : CasHead(w) /\ head = req[w].seen /\ head' = NewHead(req[w])
    BY <1>1
  <2>2. req[w].seen.at <= req[w].at /\ req[w].gen \in Gens /\ req[w].at <= clock
    BY <2>1 DEF OrderedInv, RequestOrdered, CasOrdered, CasHead, Numbered
  <2>3. req[w].at \in Int /\ head.at \in Int
    BY BoundsAssumption
    DEF OrderedInv, CompactionTypeOK, TypeOK, StoreTypeOK, Request, HeadRecord, Time
  <2> QED
    BY <2>1, <2>2, <2>3 DEF NewHead, Gens
<1>2. CASE \E k \in Compactors :
             /\ CompactCasHead(k)
             /\ head = comp[k].seen
             /\ head' = [gen |-> comp[k].gen, tips |-> comp[k].seen.tips, at |-> comp[k].at]
  <2>1. PICK k \in Compactors :
             /\ CompactCasHead(k)
             /\ head = comp[k].seen
             /\ head' = [gen |-> comp[k].gen, tips |-> comp[k].seen.tips, at |-> comp[k].at]
    BY <1>2
  <2>2. comp[k].seen.at <= comp[k].at /\ comp[k].gen \in Gens /\ comp[k].at <= clock
    BY <2>1 DEF OrderedInv, RunOrdered, CompactCasHead
  <2>3. comp[k].at \in Int /\ head.at \in Int
    BY BoundsAssumption
    DEF OrderedInv, CompactionTypeOK, TypeOK, StoreTypeOK, Run, HeadRecord, Time
  <2> QED
    BY <2>1, <2>2, <2>3 DEF Gens
<1> QED
  BY <1>1, <1>2, HeadMover

\* What is in order stays in order as time passes.
LEMMA OrderedLater ==
    ASSUME NEW now \in Int, NEW later \in Int, now <= later
    PROVE  /\ \A r \in Request : RequestOrdered(r, now) => RequestOrdered(r, later)
           /\ \A r \in Run : RunOrdered(r, now) => RunOrdered(r, later)
<1>1. /\ \A r \in Request : r.at \in Int
      /\ \A r \in Run : r.at \in Int /\ r.seen.at \in Int
  BY BoundsAssumption DEF Request, Run, HeadRecord, Time
<1> QED
  BY <1>1 DEF RequestOrdered, RunOrdered


\* A step of one request leaves the other requests alone.
LEMMA StepFrame ==
    ASSUME TypeOK, NEW w \in Workers, Step(w)
    PROVE  \A v \in Workers : v # w => req'[v] = req[v]
<1>1. \E r2 : Become(w, r2)
  BY ZenonT(60) DEF Step, Goto, ResolveTip, CheckLocal, RecordVerifiedBranchRefs, EnsureBranchManifests,
        FetchBranch, CheckExisting, ReadHead, PackIncremental, PackFull, LocalGitFails, SnapshotRefs,
        UploadPack, WriteGenerationManifest, WriteCommitManifest, WriteRefManifest, ReadHeadVersion,
        CasHead
<1> QED
  BY <1>1 DEF Become, TypeOK

\* A step of one run leaves the requests and the other runs alone.
LEMMA RunStepFrame ==
    ASSUME CompactionTypeOK, NEW k \in Compactors, RunStep(k)
    PROVE  req' = req /\ \A j \in Compactors : j # k => comp'[j] = comp[j]
<1>1. \E r2 : RunBecomes(k, r2)
  BY ZenonT(60) DEF RunStep, RunGoto, CompactReadHead, CompactList, CompactHydrate, CompactUpload,
         CompactWriteGeneration, CompactCasHead, CompactRepoint, CompactWriteCommit, SweepReadHead,
         SweepList, SweepRepoint, SweepDeletePacks, SweepDeleteManifest, SweepOrphanPacks, RunFail
<1>2. req' = req
  BY DEF RunStep, CompactReadHead, CompactList, CompactHydrate, CompactUpload,
         CompactWriteGeneration, CompactCasHead, CompactRepoint, CompactWriteCommit, SweepReadHead,
         SweepList, SweepRepoint, SweepDeletePacks, SweepDeleteManifest, SweepOrphanPacks, RunFail,
         vars, pubVars
<1> QED
  BY <1>1, <1>2 DEF RunBecomes, CompactionTypeOK

\* The order is an invariant.
LEMMA OrderedStep == OrderedInv /\ [CompactionNext]_allVars => OrderedInv'
<1> SUFFICES ASSUME OrderedInv, [CompactionNext]_allVars PROVE OrderedInv'
  OBVIOUS
<1>0. /\ CompactionTypeOK /\ TypeOK
      /\ CompactionTypeOK'
      /\ clock # 0 /\ clock \in Time
      /\ clock \in Int /\ head.at \in Int
      /\ head.at <= clock
      /\ req \in [Workers -> Request] /\ comp \in [Compactors -> Run]
  BY CompactionNextTypeOK, BoundsAssumption
  DEF OrderedInv, CompactionTypeOK, TypeOK, StoreTypeOK, HeadRecord, Time
<1>1. head'.at <= clock
  BY <1>0, HeadStepOrdered
<1>2. ASSUME NEW w \in Workers, PublishStep(w) PROVE OrderedInv'
  <2>1. RequestOrdered(req'[w], clock) /\ clock' = clock
    BY <1>0, <1>2, StepOrdered DEF OrderedInv, PublishStep
  <2>2. comp' = comp /\ \A v \in Workers : v # w => req'[v] = req[v]
    BY <1>0, <1>2, StepFrame DEF PublishStep
  <2> QED
    BY <1>0, <1>1, <2>1, <2>2 DEF OrderedInv
<1>3. ASSUME NEW k \in Compactors, RunStep(k) PROVE OrderedInv'
  <2>1. RunOrdered(comp'[k], clock) /\ clock' = clock
    BY <1>0, <1>3, RunStepOrdered DEF OrderedInv
  <2>2. req' = req /\ \A j \in Compactors : j # k => comp'[j] = comp[j]
    BY <1>0, <1>3, RunStepFrame
  <2> QED
    BY <1>0, <1>1, <2>1, <2>2 DEF OrderedInv
<1>4. CASE Environment /\ UNCHANGED compVars
  <2>1. clock' = clock /\ comp' = comp
    BY <1>4 DEF Environment, UpstreamPush, Evict, Fail, compVars
  <2>2. \A w \in Workers : req'[w] = req[w] \/ req'[w] = Idle
    BY <1>0, <1>4 DEF Environment, UpstreamPush, Evict, Fail
  <2> QED
    BY <1>0, <1>1, <2>1, <2>2, IdleOrdered DEF OrderedInv
<1>5. CASE TimelyTick
  <2>1. clock' = clock + 1 /\ req' = req /\ comp' = comp /\ head' = head
    BY <1>5 DEF TimelyTick, Tick, store, pubVars, compVars
  <2>2. clock' \in Int /\ clock <= clock' /\ clock' # 0
    BY <1>0, <2>1, BoundsAssumption DEF Time
  <2>3. /\ \A r \in Request : RequestOrdered(r, clock) => RequestOrdered(r, clock')
        /\ \A r \in Run : RunOrdered(r, clock) => RunOrdered(r, clock')
    BY <1>0, <2>2, OrderedLater
  <2>4. head'.at <= clock'
    BY <1>0, <2>1, <2>2
  <2> QED
    BY <1>0, <2>1, <2>2, <2>3, <2>4 DEF OrderedInv
<1>6. CASE UNCHANGED allVars
  BY <1>0, <1>6 DEF OrderedInv, allVars, vars, store, pubVars, compVars
<1> QED
  BY <1>2, <1>3, <1>4, <1>5, <1>6 DEF CompactionNext

\* It holds initially.
LEMMA OrderedInit == CompactionInit => OrderedInv
<1> SUFFICES ASSUME CompactionInit PROVE OrderedInv
  OBVIOUS
<1>1. CompactionTypeOK /\ clock = 1 /\ head = NoHead
  BY CompactionInitTypeOK DEF CompactionInit, Init, StoreInit
<1>2. /\ \A w \in Workers : req[w] = Idle
      /\ \A k \in Compactors : comp[k] = IdleRun
  BY DEF CompactionInit, Init
<1>3. clock \in Time /\ head.at <= clock /\ clock # 0
  BY <1>1 DEF CompactionTypeOK, TypeOK, StoreTypeOK, NoHead
<1> QED
  BY <1>1, <1>2, <1>3, IdleOrdered, IdleRunOrdered DEF OrderedInv

\* However publishers and compactions race for the head, it is never replaced by
\* an older one (compact_generation_chain_inner and finish_generation_publish).
THEOREM HeadAlwaysAdvances == CompactionSpec => HeadAdvancesAlways
<1>1. OrderedInv /\ [CompactionNext]_allVars => [head'.at >= head.at /\ head'.gen # 0]_head
  BY HeadStepOrdered
<1> QED
  BY <1>1, OrderedInit, OrderedStep, PTL DEF CompactionSpec, HeadAdvancesAlways


-----------------------------------------------------------------------------
(* The manifest of the head is never swept.  The sweep judges generations   *)
(* by created_at, so the argument is about time: what is about to become    *)
(* the head, or became it while a sweep was under way, is too young for the  *)
(* first generation after it to be older than the retention window.          *)

\* The retention window covers an operation that writes the head and a sweep
\* that overlaps it.
WindowCoversOperations == 2 * OpDeadline <= Retention + 1

Actors == Workers \cup Compactors

\* The id of a generation whose manifest is still to be written.
RequestDraft(r) == IF r.pc \in Building THEN r.gen ELSE 0
RunDraft(r) == IF r.pc \in {"hydrate", "upload", "genManifest"} THEN r.gen ELSE 0
Draft == [a \in Actors |-> IF a \in Workers THEN RequestDraft(req[a]) ELSE RunDraft(comp[a])]

\* The generation whose manifest is written and that may become the head.
Announcing(r) == r.pc \in {"commitManifests", "headRead", "headCas"}
                 \/ (r.pc = "refManifest" /\ r.packs # {})
RequestDone(r) == IF Announcing(r) THEN r.gen ELSE 0
RunDone(r) == IF r.pc = "headCas" THEN r.gen ELSE 0
Done == [a \in Actors |-> IF a \in Workers THEN RequestDone(req[a]) ELSE RunDone(comp[a])]

CreatedAt == [a \in Actors |-> IF a \in Workers THEN req[a].at ELSE comp[a].at]

HasCreatedAt(a) ==
    IF a \in Workers THEN req[a].pc \in Stamped \/ Announcing(req[a])
    ELSE comp[a].pc \in {"upload", "genManifest", "headCas"}

\* The generations a sweep in progress is going to delete.
Sweeping == {"sweepRepoint", "sweepPacks", "sweepManifest"}
Doomed == UNION {comp[k].old : k \in {j \in Compactors : comp[j].pc \in Sweeping}}

\* Ids are drawn once; what is announced or is the head has its manifest, with
\* its own created_at; what is doomed belongs to nobody.
Ledger ==
    /\ \A a \in Actors : Draft[a] # 0 => Draft[a] < nextGen /\ Draft[a] \notin Written
    /\ \A a, b \in Actors : a # b /\ Draft[a] # 0 => Draft[a] # Draft[b]
    /\ \A a \in Actors : Done[a] # 0 =>
            /\ Done[a] \in Written
            /\ gens[Done[a]].at = CreatedAt[a]
            /\ started[a] <= CreatedAt[a]
    /\ \A g \in Written : g < nextGen
    /\ head.gen # 0 => head.gen \in Written /\ gens[head.gen].at = head.at
    /\ \A g \in Doomed :
            g < nextGen /\ g # head.gen /\ \A a \in Actors : g # Draft[a] /\ g # Done[a]

\* Operations in flight are within their deadline and read created_at after
\* they began.
Timely ==
    /\ \A a \in Actors : Busy(a) => started[a] <= clock /\ clock <= started[a] + OpDeadline
    /\ \A a \in Actors : HasCreatedAt(a) => started[a] <= CreatedAt[a]

\* The head a sweep has read is the head still, or a new one was installed since
\* the sweep began, by an operation that was in flight then; it deletes what it
\* listed.
SweepsAware ==
    \A k \in Compactors :
        /\ comp[k].pc = "sweepList" =>
                head.gen = comp[k].seen.gen \/ started[k] <= head.at + OpDeadline
        /\ comp[k].pc = "sweepManifest" => comp[k].gen \in comp[k].old

KeptInv == OrderedInv /\ Ledger /\ Timely /\ SweepsAware

-----------------------------------------------------------------------------
(* What a step may do to the ledger.                                        *)

OthersKeep(a) ==
    \A b \in Actors : b # a =>
        /\ Draft'[b] = Draft[b] /\ Done'[b] = Done[b]
        /\ CreatedAt'[b] = CreatedAt[b] /\ started'[b] = started[b]

\* The actor goes on with what it has, or drops it.
GoesOn(a) ==
    /\ Draft'[a] = 0 \/ Draft'[a] = Draft[a]
    /\ \/ Done'[a] = 0
       \/ Done'[a] = Done[a] /\ CreatedAt'[a] = CreatedAt[a] /\ started'[a] = started[a]

Keeps(a) == UNCHANGED <<gens, head, nextGen>> /\ GoesOn(a)

Draws(a) ==
    /\ UNCHANGED <<gens, head>>
    /\ nextGen' = nextGen + 1
    /\ Draft'[a] = nextGen
    /\ Done'[a] = 0

Announces(a) ==
    /\ UNCHANGED <<head, nextGen>>
    /\ Draft[a] # 0
    /\ Draft'[a] = 0
    /\ Done'[a] = Draft[a]
    /\ gens'[Draft[a]].at = CreatedAt'[a]
    /\ CreatedAt'[a] # 0 /\ started'[a] <= CreatedAt'[a]
    /\ \A g \in Gens : g # Draft[a] => gens'[g] = gens[g]

Installs(a) ==
    /\ UNCHANGED <<gens, nextGen>>
    /\ Done[a] # 0
    /\ Draft'[a] = 0 /\ Done'[a] = 0
    /\ head'.gen = Done[a] /\ head'.at = CreatedAt[a]

Deletes(a) ==
    /\ UNCHANGED <<head, nextGen>>
    /\ GoesOn(a)
    /\ \E g \in Doomed : \A h \in Gens : h # g => gens'[h] = gens[h]

\* Generations that may be doomed: written, and in nobody's hands.
Deletable ==
    {g \in Written : g # head.gen /\ \A a \in Actors : g # Done[a]}

\* Drafts and announced generations have ids that exist.
LEMMA LedgerTypes ==
    ASSUME OrderedInv
    PROVE  /\ \A a \in Actors : Draft[a] \in Gens \cup {0} /\ Done[a] \in Gens \cup {0}
           /\ nextGen \in Int
           /\ \A g \in Written : g \in Int
<1>1. \A w \in Workers : RequestDraft(req[w]) \in Gens \cup {0} /\ RequestDone(req[w]) \in Gens \cup {0}
  BY DEF OrderedInv, RequestOrdered, RequestDraft, RequestDone, Announcing, Numbered
<1>2. \A k \in Compactors : RunDraft(comp[k]) \in Gens \cup {0} /\ RunDone(comp[k]) \in Gens \cup {0}
  BY DEF OrderedInv, RunOrdered, RunDraft, RunDone
<1>3. nextGen \in Int /\ \A g \in Written : g \in Int
  BY BoundsAssumption DEF OrderedInv, CompactionTypeOK, TypeOK, StoreTypeOK, Written, Gens
<1> QED
  BY <1>1, <1>2, <1>3 DEF Actors, Draft, Done

\* An actor that goes on keeps the ledger in order.
LEMMA KeepsLedger ==
    ASSUME OrderedInv, Ledger, NEW a \in Actors, OthersKeep(a), Keeps(a),
           Doomed' \subseteq Doomed \cup Deletable
    PROVE  Ledger'
<1>1. Written' = Written
  BY DEF Keeps, Written, GenPresent
<1>2. /\ \A b \in Actors : Draft'[b] = 0 \/ Draft'[b] = Draft[b]
      /\ \A b \in Actors : Done'[b] = 0 \/
            (Done'[b] = Done[b] /\ CreatedAt'[b] = CreatedAt[b] /\ started'[b] = started[b])
  BY DEF Keeps, GoesOn, OthersKeep
<1>3. /\ gens' = gens /\ head' = head /\ nextGen' = nextGen
  BY DEF Keeps
<1>4. \A g \in Doomed' :
         g # 0 => g < nextGen /\ g # head.gen /\ \A b \in Actors : g # Draft[b] /\ g # Done[b]
  BY DEF Ledger, Deletable
<1>5. \A g \in Doomed' : g # 0
  <2>1. Doomed' \subseteq Gens
    BY DEF OrderedInv, CompactionTypeOK, Run, Doomed, Ledger, Deletable, Written
  <2> QED
    BY <2>1 DEF Gens
<1> QED
  BY <1>1, <1>2, <1>3, <1>4, <1>5 DEF Ledger


\* GenerationId::new() draws an id nobody has.
LEMMA DrawsLedger ==
    ASSUME OrderedInv, Ledger, NEW a \in Actors, OthersKeep(a), Draws(a), Doomed' \subseteq Doomed
    PROVE  Ledger'
<1>1. Written' = Written
  BY DEF Draws, Written, GenPresent
<1>2. /\ Draft'[a] = nextGen /\ Done'[a] = 0 /\ nextGen' = nextGen + 1
      /\ gens' = gens /\ head' = head
  BY DEF Draws
<1>3. \A b \in Actors : b # a =>
         /\ Draft'[b] = Draft[b] /\ Done'[b] = Done[b]
         /\ CreatedAt'[b] = CreatedAt[b] /\ started'[b] = started[b]
  BY DEF OthersKeep
<1>4. /\ \A b \in Actors : Draft[b] \in Int /\ Done[b] \in Int
      /\ nextGen \in Int
      /\ \A g \in Written : g \in Int
  BY LedgerTypes DEF Gens
<1>5. \A b \in Actors : Draft'[b] # 0 => Draft'[b] < nextGen' /\ Draft'[b] \notin Written
  BY <1>2, <1>3, <1>4 DEF Ledger
<1>6. \A b, c \in Actors : b # c /\ Draft'[b] # 0 => Draft'[b] # Draft'[c]
  BY <1>2, <1>3, <1>4 DEF Ledger
<1>7. \A b \in Actors : Done'[b] # 0 =>
         Done'[b] \in Written /\ gens[Done'[b]].at = CreatedAt'[b] /\ started'[b] <= CreatedAt'[b]
  BY <1>2, <1>3 DEF Ledger
<1>8. \A g \in Written : g < nextGen'
  BY <1>2, <1>4 DEF Ledger
<1>9. \A g \in Doomed : g \in Int /\ g > 0
  BY DEF OrderedInv, CompactionTypeOK, Run, Doomed, Gens
<1>10. \A g \in Doomed' :
         g < nextGen' /\ g # head.gen /\ \A b \in Actors : g # Draft'[b] /\ g # Done'[b]
  BY <1>2, <1>3, <1>4, <1>9 DEF Ledger
<1> QED
  BY <1>1, <1>2, <1>5, <1>6, <1>7, <1>8, <1>10 DEF Ledger

\* publish_pack_files writes the manifest of the draft, and of nothing else.
LEMMA AnnouncesLedger ==
    ASSUME OrderedInv, Ledger, NEW a \in Actors, OthersKeep(a), Announces(a), Doomed' \subseteq Doomed
    PROVE  Ledger'
<1> DEFINE d == Draft[a]
<1>1. /\ d # 0 /\ Draft'[a] = 0 /\ Done'[a] = d /\ nextGen' = nextGen /\ head' = head
      /\ gens'[d].at = CreatedAt'[a] /\ CreatedAt'[a] # 0 /\ started'[a] <= CreatedAt'[a]
      /\ \A g \in Gens : g # d => gens'[g] = gens[g]
  BY DEF Announces
<1>2. d \in Gens /\ d < nextGen /\ d \notin Written
  BY <1>1, LedgerTypes DEF Ledger
<1>3. \A b \in Actors : b # a =>
         /\ Draft'[b] = Draft[b] /\ Done'[b] = Done[b]
         /\ CreatedAt'[b] = CreatedAt[b] /\ started'[b] = started[b]
  BY DEF OthersKeep
<1> HIDE DEF d
<1>4. Written' = Written \cup {d} /\ \A g \in Written : gens'[g] = gens[g]
  BY <1>1, <1>2 DEF Written, GenPresent
<1>5. \A b \in Actors : Draft'[b] # 0 => Draft'[b] < nextGen /\ Draft'[b] \notin Written'
  BY <1>1, <1>3, <1>4 DEF Ledger, d
<1>6. \A b, c \in Actors : b # c /\ Draft'[b] # 0 => Draft'[b] # Draft'[c]
  BY <1>1, <1>3 DEF Ledger
<1>7. \A b \in Actors : Done'[b] # 0 =>
         Done'[b] \in Written' /\ gens'[Done'[b]].at = CreatedAt'[b] /\ started'[b] <= CreatedAt'[b]
  BY <1>1, <1>3, <1>4 DEF Ledger
<1>8. \A g \in Doomed :
         g < nextGen /\ g # head.gen /\ \A b \in Actors : g # Draft'[b] /\ g # Done'[b]
  <2>1. \A g \in Doomed : g # 0 /\ g # d
    BY DEF OrderedInv, CompactionTypeOK, Run, Doomed, Gens, Ledger, d
  <2> QED
    BY <1>1, <1>3, <2>1 DEF Ledger
<1> QED
  BY <1>1, <1>2, <1>4, <1>5, <1>6, <1>7, <1>8 DEF Ledger

\* The head moves to a generation its writer has announced.
LEMMA InstallsLedger ==
    ASSUME OrderedInv, Ledger, NEW a \in Actors, OthersKeep(a), Installs(a), Doomed' \subseteq Doomed
    PROVE  Ledger'
<1>1. Written' = Written
  BY DEF Installs, Written, GenPresent
<1>2. /\ Done[a] # 0 /\ Draft'[a] = 0 /\ Done'[a] = 0 /\ gens' = gens /\ nextGen' = nextGen
      /\ head'.gen = Done[a] /\ head'.at = CreatedAt[a]
  BY DEF Installs
<1>3. \A b \in Actors : b # a =>
         /\ Draft'[b] = Draft[b] /\ Done'[b] = Done[b]
         /\ CreatedAt'[b] = CreatedAt[b] /\ started'[b] = started[b]
  BY DEF OthersKeep
<1>4. \A b \in Actors : Done'[b] # 0 =>
         Done'[b] \in Written /\ gens[Done'[b]].at = CreatedAt'[b] /\ started'[b] <= CreatedAt'[b]
  BY <1>2, <1>3 DEF Ledger
<1>5. \A g \in Doomed :
         g < nextGen /\ g # Done[a] /\ \A b \in Actors : g # Draft'[b] /\ g # Done'[b]
  <2>1. \A g \in Doomed : g # 0
    BY DEF OrderedInv, CompactionTypeOK, Run, Doomed, Gens
  <2> QED
    BY <1>2, <1>3, <2>1 DEF Ledger
<1>6. /\ \A b \in Actors : Draft'[b] # 0 => Draft'[b] < nextGen /\ Draft'[b] \notin Written
      /\ \A b, c \in Actors : b # c /\ Draft'[b] # 0 => Draft'[b] # Draft'[c]
  BY <1>2, <1>3 DEF Ledger
<1>7. Done[a] \in Written /\ gens[Done[a]].at = CreatedAt[a]
  BY <1>2 DEF Ledger
<1> QED
  BY <1>1, <1>2, <1>4, <1>5, <1>6, <1>7 DEF Ledger

\* A sweep deletes a manifest that is in nobody's hands.
LEMMA DeletesLedger ==
    ASSUME OrderedInv, Ledger, NEW a \in Actors, OthersKeep(a), Deletes(a), Doomed' \subseteq Doomed
    PROVE  Ledger'
<1>1. PICK d \in Doomed : \A g \in Gens : g # d => gens'[g] = gens[g]
  BY DEF Deletes
<1>2. /\ \A b \in Actors : Draft'[b] = 0 \/ Draft'[b] = Draft[b]
      /\ \A b \in Actors : Done'[b] = 0 \/
            (Done'[b] = Done[b] /\ CreatedAt'[b] = CreatedAt[b] /\ started'[b] = started[b])
  BY DEF Deletes, GoesOn, OthersKeep
<1>3. d # head.gen /\ d < nextGen /\ d # 0 /\ \A b \in Actors : d # Draft[b] /\ d # Done[b]
  BY DEF Ledger, OrderedInv, CompactionTypeOK, Run, Doomed, Gens
<1>4. Written' \subseteq Written \cup {d} /\ Written \subseteq Written' \cup {d}
  BY <1>1 DEF Written, GenPresent
<1>5. head' = head /\ nextGen' = nextGen
  BY DEF Deletes
<1>6. /\ \A b \in Actors : Draft'[b] # 0 => Draft'[b] < nextGen /\ Draft'[b] \notin Written'
      /\ \A b, c \in Actors : b # c /\ Draft'[b] # 0 => Draft'[b] # Draft'[c]
  BY <1>2, <1>3, <1>4 DEF Ledger
<1>7. \A b \in Actors : Done'[b] # 0 =>
         Done'[b] \in Written' /\ gens'[Done'[b]].at = CreatedAt'[b] /\ started'[b] <= CreatedAt'[b]
  <2> SUFFICES ASSUME NEW b \in Actors, Done'[b] # 0
               PROVE  /\ Done'[b] \in Written' /\ gens'[Done'[b]].at = CreatedAt'[b]
                      /\ started'[b] <= CreatedAt'[b]
    OBVIOUS
  <2>1. Done[b] # 0 /\ Done[b] # d /\ Done'[b] = Done[b] /\ CreatedAt'[b] = CreatedAt[b]
        /\ started'[b] = started[b]
    BY <1>2, <1>3
  <2>2. Done[b] \in Written /\ Done[b] \in Gens
    BY <2>1 DEF Ledger, Written
  <2> QED
    BY <1>1, <1>4, <2>1, <2>2 DEF Ledger
<1>8. head.gen # 0 => head.gen \in Written' /\ gens'[head.gen].at = head.at
  BY <1>1, <1>3, <1>4 DEF Ledger, Written
<1>9. \A g \in Doomed :
         g < nextGen /\ g # head.gen /\ \A b \in Actors : g # Draft'[b] /\ g # Done'[b]
  <2>1. \A g \in Doomed : g # 0
    BY DEF OrderedInv, CompactionTypeOK, Run, Doomed, Gens
  <2> QED
    BY <1>2, <2>1 DEF Ledger
<1> QED
  BY <1>3, <1>4, <1>5, <1>6, <1>7, <1>8, <1>9 DEF Ledger


-----------------------------------------------------------------------------
(* What each step does to the ledger.                                       *)

\* The ledger as the records of requests and runs show it.
LEMMA Views ==
    /\ \A w \in Workers :
            /\ w \in Actors
            /\ Draft[w] = RequestDraft(req[w]) /\ Draft'[w] = RequestDraft(req'[w])
            /\ Done[w] = RequestDone(req[w]) /\ Done'[w] = RequestDone(req'[w])
            /\ CreatedAt[w] = req[w].at /\ CreatedAt'[w] = req'[w].at
    /\ \A k \in Compactors :
            /\ k \in Actors /\ k \notin Workers
            /\ Draft[k] = RunDraft(comp[k]) /\ Draft'[k] = RunDraft(comp'[k])
            /\ Done[k] = RunDone(comp[k]) /\ Done'[k] = RunDone(comp'[k])
            /\ CreatedAt[k] = comp[k].at /\ CreatedAt'[k] = comp'[k].at
BY CompactionAssumption
DEF Actors, Draft, Done, CreatedAt, RequestDraft, RunDraft, RequestDone, RunDone, Announcing

\* What publish_generation does to the record of its request.
RequestKeeps(r, r2) ==
    /\ RequestDraft(r2) = 0 \/ RequestDraft(r2) = RequestDraft(r)
    /\ RequestDone(r2) = 0 \/ (RequestDone(r2) = RequestDone(r) /\ r2.at = r.at)

\* created_at is the clock or was there before.
RequestStamps(r, r2, now) ==
    r2.pc \in Stamped \/ Announcing(r2) =>
        /\ r.pc # "idle"
        /\ r2.at = now \/ (r2.at = r.at /\ (r.pc \in Stamped \/ Announcing(r)))

\* Every step of a request goes on with its generation, draws an id, writes the
\* manifest of its draft or installs what it has announced.
LEMMA RequestEffects ==
    ASSUME TypeOK, NEW w \in Workers, RequestOrdered(req[w], clock), Step(w)
    PROVE  /\ RequestStamps(req[w], req'[w], clock)
           /\ \/ UNCHANGED <<gens, head, nextGen>> /\ RequestKeeps(req[w], req'[w])
              \/ /\ UNCHANGED <<gens, head>> /\ nextGen' = nextGen + 1
                 /\ RequestDraft(req'[w]) = nextGen /\ RequestDone(req'[w]) = 0
              \/ /\ UNCHANGED <<head, nextGen>>
                 /\ req[w].pc = "genManifest" /\ req'[w].pc = "commitManifests"
                 /\ req'[w].gen = req[w].gen /\ req'[w].at = req[w].at
                 /\ \E m : m.at = req[w].at /\ gens' = [gens EXCEPT ![req[w].gen] = m]
              \/ /\ UNCHANGED <<gens, nextGen>>
                 /\ req[w].pc = "headCas" /\ req'[w] = Idle
                 /\ head' = NewHead(req[w])
<1> DEFINE r == req[w]
<1>0. /\ r \in Request
      /\ \A r2 : Become(w, r2) => req'[w] = r2
      /\ RequestDraft(Idle) = 0 /\ RequestDone(Idle) = 0
      /\ RequestStamps(r, Idle, clock) /\ RequestKeeps(r, Idle)
  BY DEF TypeOK, Become, Idle, RequestDraft, RequestDone, Announcing, Building, Stamped,
         RequestStamps, RequestKeeps
<1>1. CASE ResolveTip(w)
  <2>1. PICK b \in Branches :
           req'[w] = [Idle EXCEPT !.pc = "resolved", !.branch = b, !.commit = upstream[b]]
    BY <1>0, <1>1 DEF ResolveTip
  <2>2. req'[w].pc = "resolved"
    BY <2>1 DEF Idle
  <2>3. UNCHANGED <<gens, head, nextGen>>
    BY <1>1 DEF ResolveTip, store
  <2> QED
    BY <2>2, <2>3 DEF RequestDraft, RequestDone, Announcing, Building, Stamped, RequestStamps, RequestKeeps
<1>2. CASE CheckLocal(w) \/ RecordVerifiedBranchRefs(w) \/ EnsureBranchManifests(w)
           \/ FetchBranch(w) \/ CheckExisting(w)
  <2>1. \/ req'[w] = Idle
        \/ /\ req'[w].pc \in {"record", "fetch", "manifests", "publish", "refManifest", "readHead"}
           /\ req'[w].packs = r.packs
    BY <1>0, <1>2, ZenonT(60)
    DEF CheckLocal, RecordVerifiedBranchRefs, EnsureBranchManifests, FetchBranch, CheckExisting,
        Goto, Request
  <2>2. r.packs = {}
    BY <1>2
    DEF CheckLocal, RecordVerifiedBranchRefs, EnsureBranchManifests, FetchBranch, CheckExisting,
        RequestOrdered
  <2>3. UNCHANGED <<gens, head, nextGen>>
    BY <1>2
    DEF CheckLocal, RecordVerifiedBranchRefs, EnsureBranchManifests, FetchBranch, CheckExisting, store
  <2> QED
    BY <1>0, <2>1, <2>2, <2>3
    DEF RequestDraft, RequestDone, Announcing, Building, Stamped, RequestStamps, RequestKeeps
<1>3. CASE ReadHead(w)
  <2>1. req'[w].pc = "pack" /\ req'[w].gen = nextGen
    BY <1>0, <1>3 DEF ReadHead, Request
  <2>2. UNCHANGED <<gens, head>> /\ nextGen' = nextGen + 1
    BY <1>3 DEF ReadHead, NewGeneration, store
  <2> QED
    BY <2>1, <2>2 DEF RequestDraft, RequestDone, Announcing, Building, Stamped, RequestStamps
<1>4. CASE PackIncremental(w) \/ PackFull(w)
  <2>1. req'[w].pc = "snapshot" /\ req'[w].at = clock /\ req'[w].gen = r.gen /\ r.pc = "pack"
    BY <1>0, <1>4, ZenonT(60) DEF PackIncremental, PackFull, Request
  <2>2. UNCHANGED <<gens, head, nextGen>>
    BY <1>4 DEF PackIncremental, PackFull, store
  <2> QED
    BY <2>1, <2>2
    DEF RequestDraft, RequestDone, Announcing, Building, Stamped, RequestStamps, RequestKeeps
<1>5. CASE LocalGitFails(w)
  BY <1>0, <1>5 DEF LocalGitFails, store
<1>6. CASE SnapshotRefs(w) \/ UploadPack(w)
  <2>1. /\ req'[w].pc \in {"upload", "genManifest"} /\ r.pc \in {"snapshot", "upload"}
        /\ req'[w].at = r.at /\ req'[w].gen = r.gen
    BY <1>0, <1>6, ZenonT(60) DEF SnapshotRefs, UploadPack, Goto, Request
  <2>2. UNCHANGED <<gens, head, nextGen>>
    BY <1>6 DEF SnapshotRefs, UploadPack, store
  <2> QED
    BY <2>1, <2>2
    DEF RequestDraft, RequestDone, Announcing, Building, Stamped, RequestStamps, RequestKeeps
<1>7. CASE WriteGenerationManifest(w)
  <2>1. /\ req'[w].pc = "commitManifests" /\ r.pc = "genManifest"
        /\ req'[w].at = r.at /\ req'[w].gen = r.gen
    BY <1>0, <1>7 DEF WriteGenerationManifest, Goto, Request
  <2>2. /\ UNCHANGED <<head, nextGen>>
        /\ \E m : m.at = r.at /\ gens' = [gens EXCEPT ![r.gen] = m]
    BY <1>7 DEF WriteGenerationManifest
  <2> QED
    BY <2>1, <2>2 DEF Stamped, RequestStamps
<1>8. CASE WriteCommitManifest(w)
  <2>1. \/ req'[w] = Idle
        \/ /\ req'[w].pc \in {"commitManifests", "refManifest"} /\ r.pc = "commitManifests"
           /\ req'[w].at = r.at /\ req'[w].gen = r.gen
    BY <1>0, <1>8 DEF WriteCommitManifest, Request
  <2>2. UNCHANGED <<gens, head, nextGen>>
    BY <1>8 DEF WriteCommitManifest
  <2> QED
    BY <1>0, <2>1, <2>2
    DEF RequestDraft, RequestDone, Announcing, Building, Stamped, RequestStamps, RequestKeeps
<1>9. CASE WriteRefManifest(w)
  <2>1. \/ req'[w] = Idle
        \/ /\ req'[w].pc = "headRead" /\ r.pc = "refManifest" /\ r.packs # {}
           /\ req'[w].at = r.at /\ req'[w].gen = r.gen
    BY <1>0, <1>9 DEF WriteRefManifest, Goto, Request
  <2>2. UNCHANGED <<gens, head, nextGen>>
    BY <1>9 DEF WriteRefManifest
  <2> QED
    BY <1>0, <2>1, <2>2
    DEF RequestDraft, RequestDone, Announcing, Building, Stamped, RequestStamps, RequestKeeps
<1>10. CASE ReadHeadVersion(w)
  <2>1. \/ req'[w] = Idle
        \/ /\ req'[w].pc = "headCas" /\ r.pc = "headRead"
           /\ req'[w].at = r.at /\ req'[w].gen = r.gen
    BY <1>0, <1>10 DEF ReadHeadVersion, Request
  <2>2. UNCHANGED <<gens, head, nextGen>>
    BY <1>10 DEF ReadHeadVersion, store
  <2> QED
    BY <1>0, <2>1, <2>2
    DEF RequestDraft, RequestDone, Announcing, Building, Stamped, RequestStamps, RequestKeeps
<1>11. CASE CasHead(w)
  <2>1. UNCHANGED <<gens, nextGen>> /\ r.pc = "headCas"
    BY <1>11 DEF CasHead
  <2>2. CASE head = r.seen
    <3>1. req'[w] = Idle /\ head' = NewHead(r)
      BY <1>0, <1>11, <2>2 DEF CasHead, WriteHeadIfVersionMatches
    <3> QED
      BY <1>0, <2>1, <3>1
  <2>3. CASE head # r.seen
    <3>1. /\ head' = head
          /\ \/ req'[w] = Idle
             \/ req'[w].pc = "headRead" /\ req'[w].at = r.at /\ req'[w].gen = r.gen
      BY <1>0, <1>11, <2>3 DEF CasHead, WriteHeadIfVersionMatches, Request
    <3> QED
      BY <1>0, <2>1, <3>1
      DEF RequestDraft, RequestDone, Announcing, Building, Stamped, RequestStamps, RequestKeeps
  <2> QED
    BY <2>2, <2>3
<1> QED
  BY <1>1, <1>2, <1>3, <1>4, <1>5, <1>6, <1>7, <1>8, <1>9, <1>10, <1>11 DEF Step


\* Times are numbers.
LEMMA ClockTypes ==
    ASSUME CompactionTypeOK
    PROVE  /\ clock \in Int /\ head.at \in Int
           /\ \A a \in Actors : started[a] \in Int /\ CreatedAt[a] \in Int
           /\ OpDeadline \in Int /\ Retention \in Int
           /\ \A g \in Gens : gens[g].at \in Int
<1>1. Time \subseteq Int
  BY BoundsAssumption DEF Time
<1>2. \A a \in Actors : CreatedAt[a] \in Time
  BY DEF CompactionTypeOK, TypeOK, Actors, CreatedAt, Request, Run
<1>3. clock \in Time /\ head.at \in Time /\ \A a \in Actors : started[a] \in Time
  BY DEF CompactionTypeOK, TypeOK, StoreTypeOK, HeadRecord, Actors
<1>4. \A g \in Gens : gens[g].at \in Time
  BY DEF CompactionTypeOK, TypeOK, StoreTypeOK, GenManifest
<1>5. OpDeadline \in Int /\ Retention \in Int
  BY CompactionAssumption
<1> QED
  BY <1>1, <1>2, <1>3, <1>4, <1>5

\* A head installed while a sweep is under way is the work of an operation that
\* was in flight since the sweep began, or began after it.
LEMMA InstalledLately ==
    ASSUME KeptInv, NEW a \in Actors, Installs(a), Busy(a), NEW b \in Actors, Busy(b)
    PROVE  started[b] <= head'.at + OpDeadline
<1>1. Done[a] # 0 /\ head'.at = CreatedAt[a]
  BY DEF Installs
<1>2. started[a] <= CreatedAt[a]
  BY <1>1 DEF KeptInv, Ledger
<1>3. clock <= started[a] + OpDeadline /\ started[b] <= clock
  BY DEF KeptInv, Timely
<1>4. /\ clock \in Int /\ OpDeadline \in Int
      /\ started[a] \in Int /\ started[b] \in Int /\ CreatedAt[a] \in Int
  BY ClockTypes DEF KeptInv, OrderedInv
<1> QED
  BY <1>1, <1>2, <1>3, <1>4

\* A step of a request, in terms of the ledger.
LEMMA PublishEffects ==
    ASSUME KeptInv, NEW w \in Workers, PublishStep(w)
    PROVE  /\ OthersKeep(w)
           /\ Doomed' = Doomed
           /\ Keeps(w) \/ Draws(w) \/ Announces(w) \/ (Installs(w) /\ Busy(w))
<1> DEFINE r == req[w]
           r2 == req'[w]
<1>0. /\ TypeOK /\ RequestOrdered(r, clock) /\ Step(w) /\ comp' = comp
      /\ started' = IF r.pc = "idle" THEN [started EXCEPT ![w] = clock] ELSE started
  BY DEF KeptInv, OrderedInv, CompactionTypeOK, PublishStep
<1>1. Doomed' = Doomed
  BY <1>0 DEF Doomed
<1>2. OthersKeep(w)
  <2>1. \A v \in Workers : v # w => req'[v] = req[v]
    BY <1>0, StepFrame
  <2>2. \A b \in Actors : b # w => started'[b] = started[b]
    BY <1>0 DEF KeptInv, OrderedInv, CompactionTypeOK, Actors
  <2>3. \A v \in Workers : v # w =>
           Draft'[v] = Draft[v] /\ Done'[v] = Done[v] /\ CreatedAt'[v] = CreatedAt[v]
    BY <2>1, Views
  <2>4. \A k \in Compactors :
           Draft'[k] = Draft[k] /\ Done'[k] = Done[k] /\ CreatedAt'[k] = CreatedAt[k]
    BY <1>0, Views
  <2> QED
    BY <2>2, <2>3, <2>4 DEF OthersKeep, Actors
<1>3. /\ w \in Actors
      /\ Draft[w] = RequestDraft(r) /\ Draft'[w] = RequestDraft(r2)
      /\ Done[w] = RequestDone(r) /\ Done'[w] = RequestDone(r2)
      /\ CreatedAt[w] = r.at /\ CreatedAt'[w] = r2.at
  BY Views
<1>4. RequestDone(r) # 0 => r.pc # "idle"
  BY DEF RequestDone, Announcing
<1>5. CASE UNCHANGED <<gens, head, nextGen>> /\ RequestKeeps(r, r2)
  <2>1. RequestDone(r2) # 0 => started' = started
    BY <1>0, <1>4, <1>5 DEF RequestKeeps
  <2>2. GoesOn(w)
    BY <1>3, <1>5, <2>1 DEF RequestKeeps, GoesOn
  <2>3. Keeps(w)
    BY <1>5, <2>2 DEF Keeps
  <2> QED
    BY <1>1, <1>2, <2>3
<1>6. CASE /\ UNCHANGED <<gens, head>> /\ nextGen' = nextGen + 1
           /\ RequestDraft(r2) = nextGen /\ RequestDone(r2) = 0
  <2>1. Draws(w)
    BY <1>3, <1>6 DEF Draws
  <2> QED
    BY <1>1, <1>2, <2>1
<1>7. CASE /\ UNCHANGED <<head, nextGen>>
           /\ r.pc = "genManifest" /\ r2.pc = "commitManifests"
           /\ r2.gen = r.gen /\ r2.at = r.at
           /\ \E m : m.at = r.at /\ gens' = [gens EXCEPT ![r.gen] = m]
  <2>1. r.gen \in Gens /\ r.at # 0
    BY <1>0, <1>7 DEF RequestOrdered, Numbered, Building, Stamped
  <2>2. r.gen # 0
    BY <2>1 DEF Gens
  <2>3. RequestDraft(r) = r.gen /\ RequestDraft(r2) = 0 /\ RequestDone(r2) = r.gen
    BY <1>7 DEF RequestDraft, RequestDone, Announcing, Building
  <2>4. gens'[r.gen].at = r.at /\ \A g \in Gens : g # r.gen => gens'[g] = gens[g]
    BY <1>0, <1>7, <2>1 DEF TypeOK, StoreTypeOK
  <2>5. started' = started
    BY <1>0, <1>7
  <2>6. HasCreatedAt(w)
    BY <1>7 DEF HasCreatedAt, Stamped
  <2>7. started[w] <= CreatedAt[w]
    BY <1>3, <2>6 DEF KeptInv, Timely
  <2>8. Announces(w)
    BY <1>3, <1>7, <2>1, <2>2, <2>3, <2>4, <2>5, <2>7 DEF Announces
  <2> QED
    BY <1>1, <1>2, <2>8
<1>8. CASE /\ UNCHANGED <<gens, nextGen>>
           /\ r.pc = "headCas" /\ r2 = Idle
           /\ head' = NewHead(r)
  <2>1. r.gen # 0
    BY <1>0, <1>8 DEF RequestOrdered, Numbered, Gens
  <2>2. /\ RequestDone(r) = r.gen /\ RequestDraft(r2) = 0 /\ RequestDone(r2) = 0
    BY <1>8 DEF RequestDraft, RequestDone, Announcing, Building, Idle
  <2>3. head'.gen = r.gen /\ head'.at = r.at
    BY <1>8 DEF NewHead
  <2>4. Busy(w)
    BY <1>8 DEF Busy
  <2> QED
    BY <1>1, <1>2, <1>3, <1>8, <2>1, <2>2, <2>3, <2>4 DEF Installs
<1> HIDE DEF r, r2
<1>9. \/ UNCHANGED <<gens, head, nextGen>> /\ RequestKeeps(r, r2)
      \/ /\ UNCHANGED <<gens, head>> /\ nextGen' = nextGen + 1
         /\ RequestDraft(r2) = nextGen /\ RequestDone(r2) = 0
      \/ /\ UNCHANGED <<head, nextGen>>
         /\ r.pc = "genManifest" /\ r2.pc = "commitManifests"
         /\ r2.gen = r.gen /\ r2.at = r.at
         /\ \E m : m.at = r.at /\ gens' = [gens EXCEPT ![r.gen] = m]
      \/ /\ UNCHANGED <<gens, nextGen>>
         /\ r.pc = "headCas" /\ r2 = Idle
         /\ head' = NewHead(r)
  BY <1>0, RequestEffects DEF r, r2
<1> QED
  BY <1>5, <1>6, <1>7, <1>8, <1>9

\* A publisher's step keeps the ledger, the deadlines and the sweeps' knowledge.
LEMMA PublishKept ==
    ASSUME KeptInv, NEW w \in Workers, PublishStep(w)
    PROVE  Ledger' /\ Timely' /\ SweepsAware'
<1> DEFINE r == req[w]
           r2 == req'[w]
<1>0. /\ TypeOK /\ RequestOrdered(r, clock) /\ Step(w) /\ comp' = comp /\ clock # 0
      /\ started' = IF r.pc = "idle" THEN [started EXCEPT ![w] = clock] ELSE started
      /\ OrderedInv /\ Ledger
      /\ w \in Actors
  BY Views DEF KeptInv, OrderedInv, CompactionTypeOK, PublishStep
<1>1. /\ OthersKeep(w)
      /\ Doomed' = Doomed
      /\ Keeps(w) \/ Draws(w) \/ Announces(w) \/ (Installs(w) /\ Busy(w))
  BY PublishEffects
<1>2. Ledger'
  BY <1>0, <1>1, KeepsLedger, DrawsLedger, AnnouncesLedger, InstallsLedger
<1>3. /\ clock' = clock
      /\ \A v \in Workers : v # w => req'[v] = req[v]
      /\ started \in [Actors -> Time]
  BY <1>0, StepOrdered, StepFrame DEF Actors, OrderedInv, CompactionTypeOK
<1>4. Timely'
  <2>1. /\ clock \in Int /\ OpDeadline \in Nat /\ started[w] \in Int
    BY <1>0, ClockTypes, CompactionAssumption DEF OrderedInv
  <2>2. \A a \in Actors : a # w =>
           /\ (Busy(a)' <=> Busy(a)) /\ (HasCreatedAt(a)' <=> HasCreatedAt(a))
           /\ CreatedAt'[a] = CreatedAt[a] /\ started'[a] = started[a]
    <3>1. \A a \in Actors : a # w => CreatedAt'[a] = CreatedAt[a] /\ started'[a] = started[a]
      BY <1>1 DEF OthersKeep
    <3>2. \A a \in Actors : a # w => (Busy(a)' <=> Busy(a)) /\ (HasCreatedAt(a)' <=> HasCreatedAt(a))
      BY <1>0, <1>3 DEF Busy, HasCreatedAt, Actors
    <3> QED
      BY <3>1, <3>2
  <2>3. started'[w] = IF r.pc = "idle" THEN clock ELSE started[w]
    BY <1>0, <1>3
  <2>4. r.pc # "idle" => started[w] <= clock /\ clock <= started[w] + OpDeadline
    BY <1>0 DEF KeptInv, Timely, Busy
  <2>5. HasCreatedAt(w)' => started'[w] <= CreatedAt'[w]
    <3>1. HasCreatedAt(w)' => r2.pc \in Stamped \/ Announcing(r2)
      BY DEF HasCreatedAt, Announcing
    <3>2. r.pc \in Stamped \/ Announcing(r) => HasCreatedAt(w)
      BY DEF HasCreatedAt
    <3>3. CreatedAt[w] = r.at /\ CreatedAt'[w] = r2.at
      BY Views
    <3>4. HasCreatedAt(w) => started[w] <= CreatedAt[w]
      BY <1>0 DEF KeptInv, Timely
    <3>5. RequestStamps(r, r2, clock)
      BY <1>0, RequestEffects
    <3> QED
      BY <2>3, <2>4, <3>1, <3>2, <3>3, <3>4, <3>5 DEF RequestStamps
  <2>6. started'[w] <= clock /\ clock <= started'[w] + OpDeadline
    BY <2>1, <2>3, <2>4
  <2> QED
    BY <1>3, <2>2, <2>5, <2>6 DEF KeptInv, Timely
<1>5. SweepsAware'
  <2> SUFFICES ASSUME NEW k \in Compactors
               PROVE  /\ comp[k].pc = "sweepList" =>
                            head'.gen = comp[k].seen.gen \/ started'[k] <= head'.at + OpDeadline
                      /\ comp[k].pc = "sweepManifest" => comp[k].gen \in comp[k].old
    BY <1>0 DEF SweepsAware
  <2>1. k \in Actors /\ k \notin Workers /\ started'[k] = started[k]
    BY <1>0, <1>1, Views DEF OthersKeep
  <2>2. comp[k].pc = "sweepList" => Busy(k)
    BY <2>1 DEF Busy
  <2>3. head' = head \/ (Installs(w) /\ Busy(w))
    BY <1>1 DEF Keeps, Draws, Announces
  <2>4. comp[k].pc = "sweepList" /\ Installs(w) /\ Busy(w) => started[k] <= head'.at + OpDeadline
    BY <1>0, <2>1, <2>2, InstalledLately
  <2> QED
    BY <2>1, <2>3, <2>4 DEF KeptInv, SweepsAware
<1> QED
  BY <1>2, <1>4, <1>5


RunStamped == {"upload", "genManifest", "headCas"}

\* What compact_generation_chain does to the record of its run.
RunKeeps(r, r2) ==
    /\ RunDraft(r2) = 0 \/ RunDraft(r2) = RunDraft(r)
    /\ RunDone(r2) = 0 \/ (RunDone(r2) = RunDone(r) /\ r2.at = r.at)

\* created_at is the clock or was there before.
RunStamps(r, r2, now) ==
    r2.pc \in RunStamped =>
        r.pc # "idle" /\ (r2.at = now \/ (r2.at = r.at /\ r.pc \in RunStamped))

\* A sweep dooms what it finds superseded when it lists, and nothing later.
RunDooms(r, r2) ==
    r2.pc \in Sweeping =>
        \/ r.pc \in Sweeping /\ r2.old \subseteq r.old
        \/ /\ r.pc = "sweepList"
           /\ r2.old = {g \in PresentGens : Swept(g, r.seen, clock - Retention)}

\* A sweep lists right after it has read the head, and deletes what it doomed.
RunAware(r2) ==
    /\ r2.pc = "sweepList" => r2.seen = head /\ head' = head
    /\ r2.pc = "sweepManifest" => r2.gen \in r2.old

\* Every step of a run goes on with its generation, draws an id, writes the
\* manifest of its draft, installs it as the head or deletes a swept manifest.
LEMMA RunEffects ==
    ASSUME CompactionTypeOK, NEW k \in Compactors, RunStep(k)
    PROVE  /\ started' = IF comp[k].pc = "idle" THEN [started EXCEPT ![k] = clock] ELSE started
           /\ RunStamps(comp[k], comp'[k], clock)
           /\ RunDooms(comp[k], comp'[k])
           /\ RunAware(comp'[k])
           /\ \/ UNCHANGED <<gens, head, nextGen>> /\ RunKeeps(comp[k], comp'[k])
              \/ /\ UNCHANGED <<gens, head>> /\ nextGen' = nextGen + 1
                 /\ RunDraft(comp'[k]) = nextGen /\ RunDone(comp'[k]) = 0
              \/ /\ UNCHANGED <<head, nextGen>>
                 /\ comp[k].pc = "genManifest" /\ comp'[k].pc = "headCas"
                 /\ comp'[k].gen = comp[k].gen /\ comp'[k].at = comp[k].at
                 /\ \E m : m.at = comp[k].at /\ gens' = [gens EXCEPT ![comp[k].gen] = m]
              \/ /\ UNCHANGED <<gens, nextGen>>
                 /\ comp[k].pc = "headCas" /\ comp'[k].pc = "repoint"
                 /\ head'.gen = comp[k].gen /\ head'.at = comp[k].at
              \/ /\ UNCHANGED <<head, nextGen>>
                 /\ comp[k].pc = "sweepManifest"
                 /\ RunDraft(comp'[k]) = 0 /\ RunDone(comp'[k]) = 0
                 /\ gens' = [gens EXCEPT ![comp[k].gen] = NoManifest]
<1> DEFINE r == comp[k]
           r2 == comp'[k]
<1>0. /\ r \in Run
      /\ \A q : RunBecomes(k, q) => r2 = q
  BY DEF CompactionTypeOK, RunBecomes
<1>q. ASSUME r2.pc \in {"idle", "list", "sweep", "repoint", "commitManifests", "sweepOrphans"}
      PROVE  /\ RunStamps(r, r2, clock) /\ RunDooms(r, r2) /\ RunAware(r2) /\ RunKeeps(r, r2)
             /\ RunDraft(r2) = 0 /\ RunDone(r2) = 0
  BY <1>q DEF RunStamps, RunDooms, RunAware, RunKeeps, RunStamped, Sweeping, RunDraft, RunDone
<1>1. CASE CompactReadHead(k)
  <2>1. r2.pc \in {"list", "sweep"} /\ r.pc = "idle"
    BY <1>0, <1>1 DEF CompactReadHead, IdleRun
  <2>2. started' = [started EXCEPT ![k] = clock] /\ UNCHANGED <<gens, head, nextGen>>
    BY <1>1 DEF CompactReadHead, vars, store
  <2> QED
    BY <1>q, <2>1, <2>2
<1>2. CASE CompactList(k)
  <2>1. r2.pc = "hydrate" /\ r.pc = "list" /\ r2.gen = nextGen
    BY <1>0, <1>2 DEF CompactList, Run
  <2>2. started' = started /\ UNCHANGED <<gens, head>> /\ nextGen' = nextGen + 1
    BY <1>2 DEF CompactList, NewGeneration, store
  <2> QED
    BY <2>1, <2>2 DEF RunStamps, RunDooms, RunAware, RunStamped, Sweeping, RunDraft, RunDone
<1>3. CASE CompactHydrate(k)
  <2>1. /\ r.pc = "hydrate"
        /\ \/ r2 = IdleRun
           \/ r2.pc = "upload" /\ r2.at = clock /\ r2.gen = r.gen
    BY <1>0, <1>3, ZenonT(60) DEF CompactHydrate, Run
  <2>2. started' = started /\ UNCHANGED <<gens, head, nextGen>>
    BY <1>3 DEF CompactHydrate, store
  <2>3. CASE r2 = IdleRun
    BY <1>q, <2>1, <2>2, <2>3 DEF IdleRun
  <2>4. CASE r2.pc = "upload" /\ r2.at = clock /\ r2.gen = r.gen
    BY <2>1, <2>2, <2>4
    DEF RunStamps, RunDooms, RunAware, RunKeeps, RunStamped, Sweeping, RunDraft, RunDone
  <2> QED
    BY <2>1, <2>3, <2>4, SMTT(60)
<1>4. CASE CompactUpload(k)
  <2>1. r2.pc = "genManifest" /\ r.pc = "upload" /\ r2.at = r.at /\ r2.gen = r.gen
    BY <1>0, <1>4 DEF CompactUpload, RunGoto, Run
  <2>2. started' = started /\ UNCHANGED <<gens, head, nextGen>>
    BY <1>4 DEF CompactUpload
  <2> QED
    BY <2>1, <2>2
    DEF RunStamps, RunDooms, RunAware, RunKeeps, RunStamped, Sweeping, RunDraft, RunDone
<1>5. CASE CompactWriteGeneration(k)
  <2>1. r2.pc = "headCas" /\ r.pc = "genManifest" /\ r2.at = r.at /\ r2.gen = r.gen
    BY <1>0, <1>5 DEF CompactWriteGeneration, RunGoto, Run
  <2>2. /\ started' = started /\ UNCHANGED <<head, nextGen>>
        /\ \E m : m.at = r.at /\ gens' = [gens EXCEPT ![r.gen] = m]
    BY <1>5 DEF CompactWriteGeneration
  <2> QED
    BY <2>1, <2>2 DEF RunStamps, RunDooms, RunAware, RunStamped, Sweeping
<1>6. CASE CompactCasHead(k)
  <2>1. r.pc = "headCas" /\ started' = started /\ UNCHANGED <<gens, nextGen>>
    BY <1>6 DEF CompactCasHead
  <2>2. CASE head = r.seen
    <3>1. r2.pc = "repoint" /\ head' = [gen |-> r.gen, tips |-> r.seen.tips, at |-> r.at]
      BY <1>0, <1>6, <2>2 DEF CompactCasHead, WriteHeadIfVersionMatches, Run
    <3> QED
      BY <1>q, <2>1, <3>1
  <2>3. CASE head # r.seen
    <3>1. r2.pc = "sweep" /\ head' = head
      BY <1>0, <1>6, <2>3 DEF CompactCasHead, WriteHeadIfVersionMatches, IdleRun
    <3> QED
      BY <1>q, <2>1, <3>1
  <2> QED
    BY <2>2, <2>3
<1>7. CASE CompactRepoint(k) \/ CompactWriteCommit(k) \/ SweepOrphanPacks(k) \/ RunFail(k)
  <2>1. r2.pc \in {"idle", "sweep", "repoint", "commitManifests"} /\ r.pc # "idle"
    <3>1. CASE CompactRepoint(k)
      BY <1>0, <3>1 DEF CompactRepoint, Run
    <3>2. CASE CompactWriteCommit(k)
      BY <1>0, <3>2 DEF CompactWriteCommit, IdleRun, Run
    <3>3. CASE SweepOrphanPacks(k) \/ RunFail(k)
      BY <1>0, <3>3 DEF SweepOrphanPacks, RunFail, IdleRun
    <3> QED
      BY <1>7, <3>1, <3>2, <3>3
  <2>2. started' = started /\ UNCHANGED <<gens, head, nextGen>>
    BY <1>7 DEF CompactRepoint, CompactWriteCommit, SweepOrphanPacks, RunFail, store
  <2> QED
    BY <1>q, <2>1, <2>2
<1>8. CASE SweepReadHead(k)
  <2>1. r2.pc = "sweepList" /\ r.pc = "sweep" /\ r2.seen = head
    BY <1>0, <1>8 DEF SweepReadHead, Run
  <2>2. started' = started /\ UNCHANGED <<gens, head, nextGen>>
    BY <1>8 DEF SweepReadHead, vars, store
  <2> QED
    BY <2>1, <2>2
    DEF RunStamps, RunDooms, RunAware, RunKeeps, RunStamped, Sweeping, RunDraft, RunDone
<1>9. CASE SweepList(k)
  <2>1. /\ r2.pc \in {"sweepOrphans", "sweepRepoint"} /\ r.pc = "sweepList"
        /\ r2.old = {g \in PresentGens : Swept(g, r.seen, clock - Retention)}
    BY <1>0, <1>9 DEF SweepList, Run
  <2>2. started' = started /\ UNCHANGED <<gens, head, nextGen>>
    BY <1>9 DEF SweepList, vars, store
  <2> QED
    BY <2>1, <2>2
    DEF RunStamps, RunDooms, RunAware, RunKeeps, RunStamped, Sweeping, RunDraft, RunDone
<1>10. CASE SweepRepoint(k) \/ SweepDeletePacks(k)
  <2>1. /\ r2.pc \in Sweeping /\ r.pc \in Sweeping /\ r2.old = r.old
        /\ r2.pc = "sweepManifest" => r2.gen \in r2.old
    <3>1. CASE SweepRepoint(k)
      BY <1>0, <3>1 DEF SweepRepoint, Run, Sweeping
    <3>2. CASE SweepDeletePacks(k)
      BY <1>0, <3>2 DEF SweepDeletePacks, Run, Sweeping
    <3> QED
      BY <1>10, <3>1, <3>2
  <2>2. started' = started /\ UNCHANGED <<gens, head, nextGen>>
    BY <1>10 DEF SweepRepoint, SweepDeletePacks
  <2> QED
    BY <2>1, <2>2
    DEF RunStamps, RunDooms, RunAware, RunKeeps, RunStamped, Sweeping, RunDraft, RunDone
<1>11. CASE SweepDeleteManifest(k)
  <2>1. /\ r2.pc \in {"sweepOrphans", "sweepPacks"} /\ r.pc = "sweepManifest"
        /\ r2.old \subseteq r.old
    <3>1. r2 = [r EXCEPT !.old = @ \ {r.gen}, !.gen = 0,
                  !.pc = IF r.old = {r.gen} THEN "sweepOrphans" ELSE "sweepPacks"]
      BY <1>0, <1>11 DEF SweepDeleteManifest
    <3>2. r2.old = r.old \ {r.gen} /\ r2.pc \in {"sweepOrphans", "sweepPacks"}
      BY <1>0, <3>1 DEF Run
    <3> QED
      BY <1>11, <3>2 DEF SweepDeleteManifest
  <2>2. /\ started' = started /\ UNCHANGED <<head, nextGen>>
        /\ gens' = [gens EXCEPT ![r.gen] = NoManifest]
    BY <1>11 DEF SweepDeleteManifest
  <2> QED
    BY <2>1, <2>2
    DEF RunStamps, RunDooms, RunAware, RunStamped, Sweeping, RunDraft, RunDone
<1> QED
  BY <1>1, <1>2, <1>3, <1>4, <1>5, <1>6, <1>7, <1>8, <1>9, <1>10, <1>11 DEF RunStep


\* A generation that is the head, or that an operation in flight may make the
\* head, is not among those a sweep finds superseded: the first generation
\* after it is younger than the retention window.
LEMMA SweptAreDeletable ==
    ASSUME KeptInv, WindowCoversOperations, NEW k \in Compactors, comp[k].pc = "sweepList",
           NEW g \in PresentGens, Swept(g, comp[k].seen, clock - Retention)
    PROVE  g \in Deletable
<1>1. PICK s \in PresentGens : gens[s].at > gens[g].at /\ gens[s].at < clock - Retention
  BY DEF Swept
<1>2. /\ g \in Gens /\ s \in Gens /\ g \in Written
  BY DEF PresentGens, Written
<1>3. /\ clock \in Int /\ head.at \in Int /\ OpDeadline \in Int /\ Retention \in Int
      /\ gens[g].at \in Int /\ gens[s].at \in Int
      /\ \A a \in Actors : started[a] \in Int /\ CreatedAt[a] \in Int
  BY <1>2, ClockTypes DEF KeptInv, OrderedInv
<1>4. gens[g].at + Retention + 1 < clock
  BY <1>1, <1>3
<1>5. 2 * OpDeadline <= Retention + 1
  BY DEF WindowCoversOperations
<1>6. k \in Actors /\ Busy(k)
  BY Views DEF Busy
<1>7. g # head.gen
  <2> SUFFICES ASSUME g = head.gen PROVE FALSE
    OBVIOUS
  <2>1. gens[g].at = head.at
    BY <1>2 DEF KeptInv, Ledger, Gens
  <2>2. g # comp[k].seen.gen
    BY DEF Swept
  <2>3. started[k] <= head.at + OpDeadline
    BY <2>2 DEF KeptInv, SweepsAware
  <2>4. clock <= started[k] + OpDeadline
    BY <1>6 DEF KeptInv, Timely
  <2> QED
    BY <1>3, <1>4, <1>5, <1>6, <2>1, <2>3, <2>4
<1>8. \A a \in Actors : g # Done[a]
  <2> SUFFICES ASSUME NEW a \in Actors, g = Done[a] PROVE FALSE
    OBVIOUS
  <2>1. g # 0
    BY <1>2 DEF Gens
  <2>2. gens[g].at = CreatedAt[a] /\ started[a] <= CreatedAt[a]
    BY <2>1 DEF KeptInv, Ledger
  <2>3. Busy(a)
    BY <2>1 DEF Done, Busy, RequestDone, RunDone, Announcing, Actors
  <2>4. clock <= started[a] + OpDeadline
    BY <2>3 DEF KeptInv, Timely
  <2>5. OpDeadline >= 0
    BY CompactionAssumption
  <2> QED
    BY <1>3, <1>4, <1>5, <2>2, <2>4, <2>5
<1> QED
  BY <1>2, <1>7, <1>8 DEF Deletable

\* A step of a run, in terms of the ledger.
LEMMA RunLedger ==
    ASSUME KeptInv, WindowCoversOperations, NEW k \in Compactors, RunStep(k)
    PROVE  /\ OthersKeep(k)
           /\ Ledger'
           /\ head' = head \/ (Installs(k) /\ Busy(k))
<1> DEFINE r == comp[k]
           r2 == comp'[k]
<1>0. /\ OrderedInv /\ Ledger /\ TypeOK /\ RunOrdered(r, clock)
      /\ req' = req
      /\ \A j \in Compactors : j # k => comp'[j] = comp[j]
      /\ started \in [Actors -> Time]
  BY RunStepFrame DEF KeptInv, OrderedInv, CompactionTypeOK, Actors
<1>1. /\ started' = IF r.pc = "idle" THEN [started EXCEPT ![k] = clock] ELSE started
      /\ RunDooms(r, r2)
  BY <1>0, RunEffects DEF OrderedInv
<1>2. /\ k \in Actors /\ k \notin Workers
      /\ Draft[k] = RunDraft(r) /\ Draft'[k] = RunDraft(r2)
      /\ Done[k] = RunDone(r) /\ Done'[k] = RunDone(r2)
      /\ CreatedAt[k] = r.at /\ CreatedAt'[k] = r2.at
  BY Views
<1>3. OthersKeep(k)
  <2>1. \A b \in Actors : b # k => started'[b] = started[b]
    BY <1>0, <1>1
  <2>2. \A j \in Compactors : j # k =>
           Draft'[j] = Draft[j] /\ Done'[j] = Done[j] /\ CreatedAt'[j] = CreatedAt[j]
    BY <1>0, Views
  <2>3. \A w \in Workers :
           Draft'[w] = Draft[w] /\ Done'[w] = Done[w] /\ CreatedAt'[w] = CreatedAt[w]
    BY <1>0, Views
  <2> QED
    BY <2>1, <2>2, <2>3 DEF OthersKeep, Actors
<1>4. Doomed' \subseteq Doomed \cup Deletable
  <2> SUFFICES ASSUME NEW j \in Compactors, comp'[j].pc \in Sweeping, NEW g \in comp'[j].old
               PROVE  g \in Doomed \cup Deletable
    BY DEF Doomed
  <2>1. CASE j # k \/ (r.pc \in Sweeping /\ r2.old \subseteq r.old)
    BY <1>0, <2>1 DEF Doomed
  <2>2. CASE /\ j = k /\ r.pc = "sweepList"
             /\ r2.old = {h \in PresentGens : Swept(h, r.seen, clock - Retention)}
    BY <2>2, SweptAreDeletable
  <2> QED
    BY <1>1, <2>1, <2>2 DEF RunDooms
<1>5. r.pc # "sweepList" => Doomed' \subseteq Doomed
  <2> SUFFICES ASSUME r.pc # "sweepList",
                      NEW j \in Compactors, comp'[j].pc \in Sweeping, NEW g \in comp'[j].old
               PROVE  g \in Doomed
    BY DEF Doomed
  <2> QED
    BY <1>0, <1>1 DEF Doomed, RunDooms
<1>6. CASE UNCHANGED <<gens, head, nextGen>> /\ RunKeeps(r, r2)
  <2>1. RunDone(r2) # 0 => started' = started
    BY <1>1, <1>6 DEF RunKeeps, RunDone
  <2>2. GoesOn(k)
    BY <1>2, <1>6, <2>1 DEF RunKeeps, GoesOn
  <2>3. Keeps(k)
    BY <1>6, <2>2 DEF Keeps
  <2> QED
    BY <1>0, <1>2, <1>3, <1>4, <1>6, <2>3, KeepsLedger
<1>7. CASE /\ UNCHANGED <<gens, head>> /\ nextGen' = nextGen + 1
           /\ RunDraft(r2) = nextGen /\ RunDone(r2) = 0
  <2>1. Draws(k)
    BY <1>2, <1>7 DEF Draws
  <2>2. r2.pc \notin Sweeping
    BY <1>7, BoundsAssumption DEF RunDraft, Sweeping, KeptInv, OrderedInv, CompactionTypeOK, TypeOK, StoreTypeOK
  <2>3. Doomed' \subseteq Doomed
    BY <1>0, <2>2 DEF Doomed
  <2> QED
    BY <1>0, <1>2, <1>3, <1>7, <2>1, <2>3, DrawsLedger
<1>8. CASE /\ UNCHANGED <<head, nextGen>>
           /\ r.pc = "genManifest" /\ r2.pc = "headCas"
           /\ r2.gen = r.gen /\ r2.at = r.at
           /\ \E m : m.at = r.at /\ gens' = [gens EXCEPT ![r.gen] = m]
  <2>1. r.gen \in Gens /\ r.at # 0
    BY <1>0, <1>8 DEF RunOrdered
  <2>2. r.gen # 0
    BY <2>1 DEF Gens
  <2>3. RunDraft(r) = r.gen /\ RunDraft(r2) = 0 /\ RunDone(r2) = r.gen
    BY <1>8 DEF RunDraft, RunDone
  <2>4. gens'[r.gen].at = r.at /\ \A g \in Gens : g # r.gen => gens'[g] = gens[g]
    BY <1>0, <1>8, <2>1 DEF TypeOK, StoreTypeOK
  <2>5. started' = started
    BY <1>1, <1>8
  <2>6. HasCreatedAt(k)
    BY <1>2, <1>8 DEF HasCreatedAt
  <2>7. started[k] <= CreatedAt[k]
    BY <1>2, <2>6 DEF KeptInv, Timely
  <2>8. Announces(k)
    BY <1>2, <1>8, <2>1, <2>2, <2>3, <2>4, <2>5, <2>7 DEF Announces
  <2> QED
    BY <1>0, <1>2, <1>3, <1>5, <1>8, <2>8, AnnouncesLedger
<1>9. CASE /\ UNCHANGED <<gens, nextGen>>
           /\ r.pc = "headCas" /\ r2.pc = "repoint"
           /\ head'.gen = r.gen /\ head'.at = r.at
  <2>1. r.gen # 0
    BY <1>0, <1>9 DEF RunOrdered, Gens
  <2>2. RunDone(r) = r.gen /\ RunDraft(r2) = 0 /\ RunDone(r2) = 0
    BY <1>9 DEF RunDraft, RunDone
  <2>3. Busy(k)
    BY <1>2, <1>9 DEF Busy
  <2>4. Installs(k)
    BY <1>2, <1>9, <2>1, <2>2 DEF Installs
  <2> QED
    BY <1>0, <1>2, <1>3, <1>5, <1>9, <2>3, <2>4, InstallsLedger
<1>10. CASE /\ UNCHANGED <<head, nextGen>>
            /\ r.pc = "sweepManifest" /\ r.gen \in r.old
            /\ RunDraft(r2) = 0 /\ RunDone(r2) = 0
            /\ gens' = [gens EXCEPT ![r.gen] = NoManifest]
  <2>1. r.gen \in Doomed
    BY <1>10 DEF Doomed, Sweeping
  <2>2. \A h \in Gens : h # r.gen => gens'[h] = gens[h]
    BY <1>0, <1>10 DEF TypeOK, StoreTypeOK
  <2>3. Deletes(k)
    BY <1>2, <1>10, <2>1, <2>2 DEF Deletes, GoesOn
  <2> QED
    BY <1>0, <1>2, <1>3, <1>5, <1>10, <2>3, DeletesLedger
<1> HIDE DEF r, r2
<1>11. \/ UNCHANGED <<gens, head, nextGen>> /\ RunKeeps(r, r2)
       \/ /\ UNCHANGED <<gens, head>> /\ nextGen' = nextGen + 1
          /\ RunDraft(r2) = nextGen /\ RunDone(r2) = 0
       \/ /\ UNCHANGED <<head, nextGen>>
          /\ r.pc = "genManifest" /\ r2.pc = "headCas"
          /\ r2.gen = r.gen /\ r2.at = r.at
          /\ \E m : m.at = r.at /\ gens' = [gens EXCEPT ![r.gen] = m]
       \/ /\ UNCHANGED <<gens, nextGen>>
          /\ r.pc = "headCas" /\ r2.pc = "repoint"
          /\ head'.gen = r.gen /\ head'.at = r.at
       \/ /\ UNCHANGED <<head, nextGen>>
          /\ r.pc = "sweepManifest" /\ r.gen \in r.old
          /\ RunDraft(r2) = 0 /\ RunDone(r2) = 0
          /\ gens' = [gens EXCEPT ![r.gen] = NoManifest]
  BY <1>0, RunEffects DEF KeptInv, SweepsAware, OrderedInv, r, r2
<1> QED
  BY <1>6, <1>7, <1>8, <1>9, <1>10, <1>11


\* A step of a compaction or a sweep keeps the deadlines and what the sweeps know.
LEMMA RunKept ==
    ASSUME KeptInv, WindowCoversOperations, NEW k \in Compactors, RunStep(k)
    PROVE  Ledger' /\ Timely' /\ SweepsAware'
<1> DEFINE r == comp[k]
           r2 == comp'[k]
<1>0. /\ OrderedInv
      /\ req' = req
      /\ \A j \in Compactors : j # k => comp'[j] = comp[j]
      /\ started \in [Actors -> Time]
      /\ k \in Actors /\ k \notin Workers
      /\ clock' = clock
  BY RunStepFrame, RunStepOrdered, Views DEF KeptInv, OrderedInv, CompactionTypeOK, Actors
<1>1. /\ started' = IF r.pc = "idle" THEN [started EXCEPT ![k] = clock] ELSE started
      /\ RunStamps(r, r2, clock) /\ RunAware(r2)
  BY <1>0, RunEffects DEF OrderedInv
<1>2. /\ OthersKeep(k) /\ Ledger'
      /\ head' = head \/ (Installs(k) /\ Busy(k))
  BY RunLedger
<1>3. \A a \in Actors : a # k =>
         /\ (Busy(a)' <=> Busy(a)) /\ (HasCreatedAt(a)' <=> HasCreatedAt(a))
         /\ CreatedAt'[a] = CreatedAt[a] /\ started'[a] = started[a]
  <2>1. \A a \in Actors : a # k => CreatedAt'[a] = CreatedAt[a] /\ started'[a] = started[a]
    BY <1>2 DEF OthersKeep
  <2>2. \A a \in Actors : a # k => (Busy(a)' <=> Busy(a)) /\ (HasCreatedAt(a)' <=> HasCreatedAt(a))
    BY <1>0 DEF Busy, HasCreatedAt, Actors
  <2> QED
    BY <2>1, <2>2
<1>4. Timely'
  <2>1. clock \in Int /\ OpDeadline \in Nat /\ started[k] \in Int
    BY <1>0, ClockTypes, CompactionAssumption DEF OrderedInv
  <2>2. started'[k] = IF r.pc = "idle" THEN clock ELSE started[k]
    BY <1>0, <1>1
  <2>3. r.pc # "idle" => started[k] <= clock /\ clock <= started[k] + OpDeadline
    BY <1>0 DEF KeptInv, Timely, Busy
  <2>4. HasCreatedAt(k)' => started'[k] <= CreatedAt'[k]
    <3>1. HasCreatedAt(k)' <=> r2.pc \in RunStamped
      BY <1>0 DEF HasCreatedAt, RunStamped
    <3>2. HasCreatedAt(k) <=> r.pc \in RunStamped
      BY <1>0 DEF HasCreatedAt, RunStamped
    <3>3. CreatedAt[k] = r.at /\ CreatedAt'[k] = r2.at
      BY Views
    <3>4. HasCreatedAt(k) => started[k] <= CreatedAt[k]
      BY <1>0 DEF KeptInv, Timely
    <3> QED
      BY <1>1, <2>2, <2>3, <3>1, <3>2, <3>3, <3>4 DEF RunStamps
  <2>5. started'[k] <= clock /\ clock <= started'[k] + OpDeadline
    BY <2>1, <2>2, <2>3
  <2> QED
    BY <1>0, <1>3, <2>4, <2>5 DEF KeptInv, Timely
<1>5. SweepsAware'
  <2> SUFFICES ASSUME NEW j \in Compactors
               PROVE  /\ comp'[j].pc = "sweepList" =>
                            head'.gen = comp'[j].seen.gen \/ started'[j] <= head'.at + OpDeadline
                      /\ comp'[j].pc = "sweepManifest" => comp'[j].gen \in comp'[j].old
    BY DEF SweepsAware
  <2>1. CASE j = k
    BY <1>1, <2>1 DEF RunAware
  <2>2. CASE j # k
    <3>1. j \in Actors /\ j \notin Workers /\ started'[j] = started[j] /\ comp'[j] = comp[j]
      BY <1>0, <1>3, <2>2, Views
    <3>2. comp[j].pc = "sweepList" => Busy(j)
      BY <3>1 DEF Busy
    <3>3. comp[j].pc = "sweepList" /\ Installs(k) /\ Busy(k) => started[j] <= head'.at + OpDeadline
      BY <1>0, <3>1, <3>2, InstalledLately
    <3> QED
      BY <1>2, <3>1, <3>3 DEF KeptInv, SweepsAware
  <2> QED
    BY <2>1, <2>2
<1> QED
  BY <1>2, <1>4, <1>5

\* So do pushes, evictions and failing requests, and the clock as long as
\* operations keep their deadline.
LEMMA EnvironmentKept ==
    ASSUME KeptInv, (Environment /\ UNCHANGED compVars) \/ TimelyTick \/ UNCHANGED allVars
    PROVE  Ledger' /\ Timely' /\ SweepsAware'
<1>1. comp' = comp /\ started' = started /\ UNCHANGED <<gens, head, nextGen>>
  BY DEF Environment, UpstreamPush, Evict, Fail, TimelyTick, Tick, allVars, vars, compVars, store
<1>2. \A w \in Workers : req'[w] = req[w] \/ req'[w] = Idle
  BY DEF Environment, UpstreamPush, Evict, Fail, TimelyTick, Tick, allVars, vars, compVars, pubVars,
         KeptInv, OrderedInv, CompactionTypeOK, TypeOK
<1>3. /\ Doomed' = Doomed
      /\ \A g \in Gens : g # 0
  BY <1>1 DEF Doomed, Gens
<1>4. \A a \in Actors :
         /\ Draft'[a] = 0 \/ Draft'[a] = Draft[a]
         /\ Done'[a] = 0 \/ (Done'[a] = Done[a] /\ CreatedAt'[a] = CreatedAt[a])
  <2>1. RequestDraft(Idle) = 0 /\ RequestDone(Idle) = 0
    BY DEF RequestDraft, RequestDone, Announcing, Building, Idle
  <2>2. \A w \in Workers :
           /\ Draft'[w] = 0 \/ Draft'[w] = Draft[w]
           /\ Done'[w] = 0 \/ (Done'[w] = Done[w] /\ CreatedAt'[w] = CreatedAt[w])
    BY <1>2, <2>1, Views
  <2>3. \A k \in Compactors :
           Draft'[k] = Draft[k] /\ Done'[k] = Done[k] /\ CreatedAt'[k] = CreatedAt[k]
    BY <1>1, Views
  <2> QED
    BY <2>2, <2>3 DEF Actors
<1>5. Ledger'
  <2>1. Written' = Written
    BY <1>1 DEF Written, GenPresent
  <2>2. \A g \in Doomed : g # 0
    BY <1>3 DEF KeptInv, OrderedInv, CompactionTypeOK, Run, Doomed
  <2> QED
    BY <1>1, <1>3, <1>4, <2>1, <2>2 DEF KeptInv, Ledger
<1>6. \A a \in Actors :
         /\ Busy(a)' => Busy(a)
         /\ HasCreatedAt(a)' => HasCreatedAt(a) /\ CreatedAt'[a] = CreatedAt[a]
  <2>1. \A w \in Workers :
           /\ Busy(w)' => Busy(w)
           /\ HasCreatedAt(w)' => HasCreatedAt(w) /\ CreatedAt'[w] = CreatedAt[w]
    <3> SUFFICES ASSUME NEW w \in Workers
                 PROVE  /\ Busy(w)' => Busy(w)
                        /\ HasCreatedAt(w)' => HasCreatedAt(w) /\ CreatedAt'[w] = CreatedAt[w]
      OBVIOUS
    <3>1. CASE req'[w] = req[w]
      BY <3>1, Views DEF Busy, HasCreatedAt, Announcing
    <3>2. CASE req'[w] = Idle
      BY <3>2 DEF Busy, HasCreatedAt, Announcing, Stamped, Idle
    <3> QED
      BY <1>2, <3>1, <3>2
  <2>2. \A k \in Compactors :
           /\ Busy(k)' => Busy(k)
           /\ HasCreatedAt(k)' => HasCreatedAt(k) /\ CreatedAt'[k] = CreatedAt[k]
    BY <1>1, Views DEF Busy, HasCreatedAt
  <2> QED
    BY <2>1, <2>2 DEF Actors
<1>7. \A a \in Actors : Busy(a) => started[a] <= clock' /\ clock' <= started[a] + OpDeadline
  <2>1. CASE clock' = clock
    BY <2>1 DEF KeptInv, Timely
  <2>2. CASE TimelyTick
    <3>1. clock' = clock + 1 /\ clock \in Int /\ OpDeadline \in Int
          /\ \A a \in Actors : started[a] \in Int
      BY <2>2, ClockTypes DEF TimelyTick, Tick, KeptInv, OrderedInv
    <3>2. \A a \in Actors : Busy(a) => clock < started[a] + OpDeadline /\ started[a] <= clock
      BY <2>2 DEF TimelyTick, KeptInv, Timely, Actors
    <3> QED
      BY <3>1, <3>2
  <2> QED
    BY <2>1, <2>2 DEF Environment, UpstreamPush, Evict, Fail, allVars, vars
<1>8. Timely'
  BY <1>1, <1>6, <1>7 DEF KeptInv, Timely
<1>9. SweepsAware'
  BY <1>1 DEF KeptInv, SweepsAware
<1> QED
  BY <1>5, <1>8, <1>9

\* KeptInv is inductive.
LEMMA KeptStep ==
    ASSUME WindowCoversOperations, KeptInv, [CompactionNext]_allVars
    PROVE  KeptInv'
<1>1. OrderedInv'
  BY OrderedStep DEF KeptInv
<1> QED
  BY <1>1, PublishKept, RunKept, EnvironmentKept DEF KeptInv, CompactionNext

\* Initially nothing is drawn, announced or swept.
LEMMA KeptInit == CompactionInit => KeptInv
<1> SUFFICES ASSUME CompactionInit PROVE KeptInv
  OBVIOUS
<1>1. OrderedInv
  BY OrderedInit
<1>2. /\ \A w \in Workers : req[w] = Idle
      /\ \A k \in Compactors : comp[k] = IdleRun
      /\ head = NoHead
      /\ \A g \in Gens : gens[g] = NoManifest
  BY DEF CompactionInit, Init, StoreInit
<1>3. \A a \in Actors : Draft[a] = 0 /\ Done[a] = 0 /\ ~Busy(a) /\ ~HasCreatedAt(a)
  <2>1. \A w \in Workers : Draft[w] = 0 /\ Done[w] = 0 /\ ~Busy(w) /\ ~HasCreatedAt(w)
    <3>1. /\ RequestDraft(Idle) = 0 /\ RequestDone(Idle) = 0
          /\ Idle.pc = "idle" /\ Idle.pc \notin Stamped /\ ~Announcing(Idle)
      BY DEF RequestDraft, RequestDone, Announcing, Building, Idle, Stamped
    <3> QED
      BY <1>2, <3>1, Views DEF Busy, HasCreatedAt
  <2>2. \A k \in Compactors : Draft[k] = 0 /\ Done[k] = 0 /\ ~Busy(k) /\ ~HasCreatedAt(k)
    BY <1>2, Views DEF RunDraft, RunDone, IdleRun, Busy, HasCreatedAt
  <2> QED
    BY <2>1, <2>2 DEF Actors
<1>4. Written = {} /\ Doomed = {} /\ head.gen = 0
  BY <1>2 DEF Written, GenPresent, NoManifest, Doomed, Sweeping, IdleRun, NoHead
<1>5. SweepsAware
  BY <1>2 DEF SweepsAware, IdleRun
<1> QED
  BY <1>1, <1>3, <1>4, <1>5 DEF KeptInv, Ledger, Timely

\* The manifest of the generation the head names is never deleted
\* (sweep_superseded_generations), whatever publishers, compactions, sweeps,
\* crashes and evictions overlap, as long as operations are short against the
\* retention window.
THEOREM HeadAlwaysKept ==
    ASSUME WindowCoversOperations
    PROVE  CompactionSpec => []HeadKept
<1>1. KeptInv => HeadKept
  BY DEF KeptInv, Ledger, HeadKept, Written
<1>2. KeptInv /\ [CompactionNext]_allVars => KeptInv'
  BY KeptStep
<1> QED
  BY <1>1, <1>2, KeptInit, PTL DEF CompactionSpec

-----------------------------------------------------------------------------
(* The next incremental publish leaves the history of the head's tips out,  *)
(* so the packs of the head must hold it, also after a compaction, which    *)
(* keeps the tips of the old head but packs only what its refs reach.  The  *)
(* argument takes no time into account: first what a node's refs reach,     *)
(* then that manifests are written once, then what they hold.               *)

\* The compaction job repacks a repository of its own, where nothing is published.
OwnScratch == \A k \in Compactors, w \in Workers : ScratchOf[k] # NodeOf[w]

Early == {"resolved", "record", "fetch"}
Middle == {"manifests", "publish", "readHead", "pack"}

\* A node holds nothing but what its refs reach, its refs are behind upstream, and
\* a request that is past the fetch finds its commit in its node's refs.
Follows(r, local, have, up) ==
    /\ have \subseteq Closure(SnapTips(local))
    /\ \A b \in Branches : local[b] # NoCommit => local[b] \in Anc[up[b]]
    /\ r.pc \in Early =>
            /\ r.commit \in Anc[up[r.branch]]
            /\ local[r.branch] # NoCommit => local[r.branch] \in Anc[r.commit]
    /\ r.pc \in Middle => SnapTips(local) = {} \/ r.commit \in Closure(SnapTips(local))

NodesInv == \A w \in Workers : Follows(req[w], refs[NodeOf[w]], objs[NodeOf[w]], upstream)

\* A ref that moves forward reaches what it reached before.
LEMMA ForwardReaches ==
    ASSUME NEW local \in RefSnapshot, NEW b \in Branches, NEW c \in Commits,
           local[b] # NoCommit => local[b] \in Anc[c]
    PROVE  /\ [local EXCEPT ![b] = c] \in RefSnapshot
           /\ SnapTips([local EXCEPT ![b] = c]) \in SUBSET Commits
           /\ Anc[c] \subseteq Closure(SnapTips([local EXCEPT ![b] = c]))
           /\ Closure(SnapTips(local)) \subseteq Closure(SnapTips([local EXCEPT ![b] = c]))
<1> DEFINE new == [local EXCEPT ![b] = c]
<1>1. /\ new \in RefSnapshot /\ new[b] = c
      /\ \A d \in Branches : d # b => new[d] = local[d]
  BY DEF RefSnapshot
<1> HIDE DEF new
<1>2. SnapTips(new) \in SUBSET Commits /\ c \in SnapTips(new)
  BY <1>1, HistoryAssumption DEF SnapTips, RefSnapshot
<1>3. Anc[c] \subseteq Closure(SnapTips(new))
  BY <1>2, ClosureMember
<1>4. ASSUME NEW d \in SnapTips(local) PROVE Anc[d] \subseteq Closure(SnapTips(new))
  <2>1. PICK e \in Branches : d = local[e] /\ d # NoCommit
    BY DEF SnapTips
  <2>2. CASE e = b
    BY <1>3, <2>1, <2>2, HistoryAssumption
  <2>3. CASE e # b
    <3>1. d \in SnapTips(new)
      BY <1>1, <2>1, <2>3 DEF SnapTips
    <3> QED
      BY <1>2, <3>1, ClosureMember
  <2> QED
    BY <2>2, <2>3
<1>5. Closure(SnapTips(local)) \subseteq Closure(SnapTips(new))
  BY <1>4 DEF Closure
<1> QED
  BY <1>1, <1>2, <1>3, <1>5 DEF new

\* A request that is between two calls has nothing to follow.
LEMMA IdleFollows ==
    ASSUME NEW r \in Request, NEW local, NEW have, NEW up, Follows(r, local, have, up)
    PROVE  Follows(Idle, local, have, up)
BY DEF Follows, Idle, Early, Middle

\* A step that goes from one phase to the next on the same commit.
LEMMA PhaseFollows ==
    ASSUME NEW r, NEW r2, NEW local, NEW have, NEW up, Follows(r, local, have, up),
           r2.pc \in Early => r.pc \in Early /\ r2.commit = r.commit /\ r2.branch = r.branch,
           r2.pc \in Middle => r.pc \in Middle /\ r2.commit = r.commit
    PROVE  Follows(r2, local, have, up)
BY DEF Follows

\* Every step of a request but the first, the recording and the fetch is of
\* that kind.
LEMMA LaterPhases ==
    ASSUME TypeOK, NEW w \in Workers, Step(w),
           ~ResolveTip(w), ~RecordVerifiedBranchRefs(w), ~FetchBranch(w)
    PROVE  /\ UNCHANGED <<objs, refs>>
           /\ req'[w].pc \in Early =>
                 req[w].pc \in Early /\ req'[w].commit = req[w].commit /\ req'[w].branch = req[w].branch
           /\ req'[w].pc \in Middle => req[w].pc \in Middle /\ req'[w].commit = req[w].commit
<1> DEFINE r == req[w]
           r2 == req'[w]
<1>0. /\ r \in Request
      /\ \A q : Become(w, q) => r2 = q
      /\ Idle.pc \notin Early /\ Idle.pc \notin Middle
  BY DEF TypeOK, Become, Idle, Early, Middle
<1>1. CASE CheckLocal(w)
  <2>1. r.pc = "resolved" /\ r2.pc \in Early /\ r2.commit = r.commit /\ r2.branch = r.branch
    BY <1>0, <1>1, ZenonT(60) DEF CheckLocal, Request, Early
  <2> QED
    BY <1>1, <2>1 DEF CheckLocal, nodeVars, Early, Middle
<1>2. CASE EnsureBranchManifests(w) \/ CheckExisting(w) \/ ReadHead(w)
  <2>1. r.pc \in Middle /\ r2.commit = r.commit /\ r2.pc \notin Early
    <3>1. CASE EnsureBranchManifests(w)
      BY <1>0, <3>1, ZenonT(60) DEF EnsureBranchManifests, Goto, Request, Early, Middle
    <3>2. CASE CheckExisting(w)
      BY <1>0, <3>2, ZenonT(60) DEF CheckExisting, Goto, Request, Early, Middle
    <3>3. CASE ReadHead(w)
      BY <1>0, <3>3, ZenonT(60) DEF ReadHead, Request, Early, Middle
    <3> QED
      BY <1>2, <3>1, <3>2, <3>3
  <2> QED
    BY <1>2, <2>1 DEF EnsureBranchManifests, CheckExisting, ReadHead, nodeVars
<1>3. CASE PackIncremental(w) \/ PackFull(w) \/ LocalGitFails(w) \/ SnapshotRefs(w)
  <2>1. r2.pc \notin Early /\ r2.pc \notin Middle
    <3>1. CASE PackIncremental(w)
      BY <1>0, <3>1, ZenonT(60) DEF PackIncremental, Request, Early, Middle
    <3>2. CASE PackFull(w)
      BY <1>0, <3>2, ZenonT(60) DEF PackFull, Request, Early, Middle
    <3>3. CASE LocalGitFails(w)
      BY <1>0, <3>3, ZenonT(60) DEF LocalGitFails, Request, Early, Middle
    <3>4. CASE SnapshotRefs(w)
      BY <1>0, <3>4, ZenonT(60) DEF SnapshotRefs, Request, Early, Middle
    <3> QED
      BY <1>3, <3>1, <3>2, <3>3, <3>4
  <2> QED
    BY <1>3, <2>1 DEF PackIncremental, PackFull, LocalGitFails, SnapshotRefs, nodeVars
<1>4. CASE UploadPack(w) \/ WriteGenerationManifest(w) \/ WriteCommitManifest(w) \/ WriteRefManifest(w)
  <2>1. r2.pc \notin Early /\ r2.pc \notin Middle
    BY <1>0, <1>4, ZenonT(60)
    DEF UploadPack, WriteGenerationManifest, WriteCommitManifest, WriteRefManifest, Goto, Request,
        Early, Middle
  <2> QED
    BY <1>4, <2>1
    DEF UploadPack, WriteGenerationManifest, WriteCommitManifest, WriteRefManifest, nodeVars
<1>5. CASE ReadHeadVersion(w) \/ CasHead(w)
  <2>1. r2.pc \notin Early /\ r2.pc \notin Middle
    BY <1>0, <1>5, ZenonT(60) DEF ReadHeadVersion, CasHead, Request, Early, Middle
  <2> QED
    BY <1>5, <2>1 DEF ReadHeadVersion, CasHead, nodeVars
<1> QED
  BY <1>1, <1>2, <1>3, <1>4, <1>5 DEF Step

\* A step of one request leaves the repositories of other nodes and upstream alone.
LEMMA StepElsewhere ==
    ASSUME TypeOK, NEW w \in Workers, Step(w)
    PROVE  /\ upstream' = upstream
           /\ \A n \in Nodes : n # NodeOf[w] => objs'[n] = objs[n] /\ refs'[n] = refs[n]
<1>1. upstream' = upstream
  BY DEF Step, ResolveTip, CheckLocal, RecordVerifiedBranchRefs, EnsureBranchManifests,
        FetchBranch, CheckExisting, ReadHead, PackIncremental, PackFull, LocalGitFails, SnapshotRefs,
        UploadPack, WriteGenerationManifest, WriteCommitManifest, WriteRefManifest, ReadHeadVersion,
        CasHead
<1>2. CASE ResolveTip(w)
  BY <1>1, <1>2 DEF ResolveTip, nodeVars
<1>3. CASE RecordVerifiedBranchRefs(w)
  BY <1>1, <1>3 DEF RecordVerifiedBranchRefs, TypeOK
<1>4. CASE FetchBranch(w)
  BY <1>1, <1>4 DEF FetchBranch, TypeOK
<1> QED
  BY <1>1, <1>2, <1>3, <1>4, LaterPhases, SMTT(60)

\* What a request does to its own node.
LEMMA StepFollows ==
    ASSUME TypeOK, NodesInv, NEW w \in Workers, Step(w)
    PROVE  Follows(req'[w], refs'[NodeOf[w]], objs'[NodeOf[w]], upstream)
<1> DEFINE r == req[w]
           n == NodeOf[w]
           L == refs[NodeOf[w]]
           have == objs[NodeOf[w]]
<1>0. /\ r \in Request /\ n \in Nodes
      /\ L \in RefSnapshot /\ have \in SUBSET Commits
      /\ r.branch \in Branches /\ r.commit \in Commits
      /\ upstream \in [Branches -> Commits]
      /\ SnapTips(L) = RefTips(n)
      /\ Follows(r, L, have, upstream)
      /\ Follows(Idle, L, have, upstream)
      /\ \A q : Become(w, q) => req'[w] = q
  BY PublishAssumption, IdleFollows DEF TypeOK, NodesInv, Become, Request, SnapTips, RefTips
<1>1. CASE ResolveTip(w)
  <2>1. PICK b \in Branches :
           req'[w] = [Idle EXCEPT !.pc = "resolved", !.branch = b, !.commit = upstream[b]]
    BY <1>0, <1>1 DEF ResolveTip
  <2>2. req'[w].pc = "resolved" /\ req'[w].branch = b /\ req'[w].commit = upstream[b]
    BY <2>1 DEF Idle
  <2>3. upstream[b] \in Anc[upstream[b]]
    BY <1>0, HistoryAssumption
  <2>4. UNCHANGED <<objs, refs>>
    BY <1>1 DEF ResolveTip, nodeVars
  <2> QED
    BY <1>0, <2>2, <2>3, <2>4 DEF Follows, Early, Middle
<1>2. CASE RecordVerifiedBranchRefs(w)
  <2>1. r.pc = "record" /\ objs' = objs
    BY <1>2 DEF RecordVerifiedBranchRefs
  <2>2. CASE r.commit \notin objs[n]
    BY <1>0, <1>2, <2>1, <2>2 DEF RecordVerifiedBranchRefs
  <2>3. CASE r.commit \in objs[n]
    <3> DEFINE new == [L EXCEPT ![r.branch] = r.commit]
    <3>1. refs'[n] = new /\ req'[w] = [r EXCEPT !.pc = "manifests"]
      BY <1>0, <1>2, <2>3 DEF RecordVerifiedBranchRefs, Goto, TypeOK
    <3>2. r.commit \in Anc[upstream[r.branch]]
          /\ (L[r.branch] # NoCommit => L[r.branch] \in Anc[r.commit])
      BY <1>0, <2>1 DEF Follows, Early
    <3>3. /\ Anc[r.commit] \subseteq Closure(SnapTips(new))
          /\ Closure(SnapTips(L)) \subseteq Closure(SnapTips(new))
      BY <1>0, <3>2, ForwardReaches
    <3>4. have \subseteq Closure(SnapTips(new)) /\ r.commit \in Closure(SnapTips(new))
      BY <1>0, <3>3, HistoryAssumption DEF Follows
    <3>5. \A b \in Branches : new[b] # NoCommit => new[b] \in Anc[upstream[b]]
      BY <1>0, <3>2 DEF Follows, RefSnapshot
    <3>6. req'[w].pc = "manifests" /\ req'[w].commit = r.commit
      BY <1>0, <3>1 DEF Request
    <3> HIDE DEF new
    <3> QED
      BY <2>1, <3>1, <3>4, <3>5, <3>6 DEF Follows, Early, Middle
  <2> QED
    BY <2>2, <2>3
<1>3. CASE FetchBranch(w)
  <2> DEFINE tip == upstream[r.branch]
             new == [L EXCEPT ![r.branch] = tip]
             fetched == Fetched(n, tip, r.ready)
  <2>1. /\ refs'[n] = new /\ objs'[n] = have \cup fetched
        /\ \/ req'[w] = [r EXCEPT !.pc = "publish", !.locked = TRUE] /\ tip = r.commit
           \/ req'[w] = Idle
    BY <1>0, <1>3 DEF FetchBranch, TypeOK
  <2>2. tip \in Commits /\ (L[r.branch] # NoCommit => L[r.branch] \in Anc[tip])
    BY <1>0 DEF Follows
  <2>3. /\ Anc[tip] \subseteq Closure(SnapTips(new))
        /\ Closure(SnapTips(L)) \subseteq Closure(SnapTips(new))
    BY <1>0, <2>2, ForwardReaches
  <2>4. fetched \subseteq Anc[tip] /\ tip \in Anc[tip]
    BY <2>2, HistoryAssumption DEF Fetched
  <2>5. \A b \in Branches : new[b] # NoCommit => new[b] \in Anc[upstream[b]]
    BY <1>0, <2>4 DEF Follows, RefSnapshot
  <2>6. \/ req'[w].pc = "publish" /\ req'[w].commit = tip
        \/ req'[w].pc = "idle"
    <3>1. /\ [r EXCEPT !.pc = "publish", !.locked = TRUE].pc = "publish"
          /\ [r EXCEPT !.pc = "publish", !.locked = TRUE].commit = r.commit
      BY <1>0 DEF Request
    <3>2. Idle.pc = "idle"
      BY DEF Idle
    <3> HIDE DEF new, fetched, tip
    <3> QED
      BY <2>1, <3>1, <3>2
  <2>7. have \cup fetched \subseteq Closure(SnapTips(new)) /\ tip \in Closure(SnapTips(new))
    BY <1>0, <2>3, <2>4 DEF Follows
  <2> HIDE DEF new, fetched, tip
  <2> QED
    BY <2>1, <2>5, <2>6, <2>7 DEF Follows, Early, Middle
<1>4. CASE ~ResolveTip(w) /\ ~RecordVerifiedBranchRefs(w) /\ ~FetchBranch(w)
  BY <1>0, <1>4, LaterPhases, PhaseFollows
<1> QED
  BY <1>1, <1>2, <1>3, <1>4

\* Every step leaves the nodes of the publishers in order: branches upstream only
\* move forward, and compactions repack elsewhere.
LEMMA NodesStep ==
    ASSUME OneWorkerPerNode, OwnScratch, ~ForcePush, CompactionTypeOK, NodesInv,
           [CompactionNext]_allVars
    PROVE  NodesInv'
<1>0. TypeOK /\ \A w \in Workers : NodeOf[w] \in Nodes
  BY PublishAssumption DEF CompactionTypeOK
<1>1. ASSUME NEW w \in Workers, PublishStep(w) PROVE NodesInv'
  <2>1. Step(w)
    BY <1>1 DEF PublishStep
  <2>2. /\ upstream' = upstream
        /\ \A v \in Workers : v # w =>
              req'[v] = req[v] /\ objs'[NodeOf[v]] = objs[NodeOf[v]] /\ refs'[NodeOf[v]] = refs[NodeOf[v]]
    BY <1>0, <2>1, StepElsewhere, StepFrame DEF OneWorkerPerNode
  <2>3. Follows(req'[w], refs'[NodeOf[w]], objs'[NodeOf[w]], upstream)
    BY <1>0, <2>1, StepFollows
  <2> QED
    BY <2>2, <2>3 DEF NodesInv
<1>2. ASSUME NEW k \in Compactors, RunStep(k) PROVE NodesInv'
  <2>1. req' = req
    BY <1>2, RunStepFrame
  <2>2. /\ upstream' = upstream
        /\ \A n \in Nodes : n # ScratchOf[k] => objs'[n] = objs[n] /\ refs'[n] = refs[n]
    <3>1. CASE CompactHydrate(k)
      BY <1>0, <3>1, ZenonT(60) DEF CompactHydrate, nodeVars, TypeOK
    <3>2. CASE ~CompactHydrate(k)
      BY <1>2, <3>2
      DEF RunStep, CompactReadHead, CompactList, CompactUpload, CompactWriteGeneration,
          CompactCasHead, CompactRepoint, CompactWriteCommit, SweepReadHead, SweepList, SweepRepoint,
          SweepDeletePacks, SweepDeleteManifest, SweepOrphanPacks, RunFail, vars, pubVars, nodeVars
    <3> QED
      BY <3>1, <3>2, SMTT(60)
  <2>3. \A w \in Workers : objs'[NodeOf[w]] = objs[NodeOf[w]] /\ refs'[NodeOf[w]] = refs[NodeOf[w]]
    BY <1>0, <2>2 DEF OwnScratch
  <2> QED
    BY <2>1, <2>2, <2>3 DEF NodesInv
<1>3. CASE UpstreamPush
  <2>1. PICK b \in Branches, c \in Commits :
           upstream[b] \in Anc[c] /\ upstream' = [upstream EXCEPT ![b] = c]
    BY <1>3 DEF UpstreamPush
  <2>2. UNCHANGED <<objs, refs, req>>
    BY <1>3 DEF UpstreamPush, nodeVars
  <2>3. \A d \in Branches : Anc[upstream[d]] \subseteq Anc[upstream'[d]]
    BY <1>0, <2>1, HistoryAssumption DEF TypeOK
  <2>4. \A w \in Workers : req[w].branch \in Branches
    BY <1>0 DEF TypeOK, Request
  <2> SUFFICES ASSUME NEW w \in Workers
               PROVE  Follows(req[w], refs[NodeOf[w]], objs[NodeOf[w]], upstream')
    BY <2>2 DEF NodesInv
  <2>5. Follows(req[w], refs[NodeOf[w]], objs[NodeOf[w]], upstream)
    BY DEF NodesInv
  <2> QED
    BY <2>3, <2>4, <2>5 DEF Follows
<1>4. ASSUME NEW n \in Nodes, Evict(n) PROVE NodesInv'
  <2>1. /\ upstream' = upstream /\ req' = req
        /\ \A m \in Nodes : m # n => objs'[m] = objs[m] /\ refs'[m] = refs[m]
        /\ objs'[n] = {} /\ refs'[n] = NoRefs
    BY <1>0, <1>4 DEF Evict, TypeOK
  <2> SUFFICES ASSUME NEW w \in Workers
               PROVE  Follows(req[w], refs'[NodeOf[w]], objs'[NodeOf[w]], upstream)
    BY <2>1 DEF NodesInv
  <2>2. Follows(req[w], refs[NodeOf[w]], objs[NodeOf[w]], upstream)
    BY DEF NodesInv
  <2>3. Follows(req[w], NoRefs, {}, upstream)
    <3>1. SnapTips(NoRefs) = {} /\ \A b \in Branches : NoRefs[b] = NoCommit
      BY DEF SnapTips, NoRefs
    <3>2. req[w].branch \in Branches
      BY <1>0 DEF TypeOK, Request
    <3> QED
      BY <2>2, <3>1, <3>2 DEF Follows
  <2> QED
    BY <1>0, <2>1, <2>2, <2>3
<1>5. ASSUME NEW w \in Workers, Fail(w) PROVE NodesInv'
  <2>1. UNCHANGED <<upstream, objs, refs>> /\ \A v \in Workers : req'[v] = req[v] \/ req'[v] = Idle
    BY <1>0, <1>5 DEF Fail, nodeVars, TypeOK
  <2>2. \A v \in Workers : req[v] \in Request
    BY <1>0 DEF TypeOK
  <2> QED
    BY <2>1, <2>2, IdleFollows DEF NodesInv
<1>6. CASE TimelyTick \/ UNCHANGED allVars
  BY <1>6 DEF TimelyTick, Tick, allVars, vars, pubVars, nodeVars, NodesInv
<1> QED
  BY <1>1, <1>2, <1>3, <1>4, <1>5, <1>6 DEF CompactionNext, Environment

\* Nodes begin empty.
LEMMA NodesInit == CompactionInit => NodesInv
<1> SUFFICES ASSUME CompactionInit, NEW w \in Workers
             PROVE  Follows(req[w], refs[NodeOf[w]], objs[NodeOf[w]], upstream)
  BY DEF NodesInv
<1>1. req[w] = Idle /\ refs[NodeOf[w]] = NoRefs /\ objs[NodeOf[w]] = {}
  BY PublishAssumption DEF CompactionInit, Init
<1>2. \A b \in Branches : NoRefs[b] = NoCommit
  BY DEF NoRefs
<1> QED
  BY <1>1, <1>2 DEF Follows, Idle, Early, Middle

\* Ids that have been drawn and whose manifest nobody is going to write.
Settled == {g \in Gens : g < nextGen /\ \A a \in Actors : Draft[a] # g}

\* The generations of the heads that compactions have read and are to hydrate.
ReadingHead == {"list", "hydrate"}
HeadsRead == {comp[k].seen.gen : k \in {j \in Compactors : comp[j].pc \in ReadingHead}}

\* What somebody refers to.
Held == (Written \cup {head.gen} \cup {Done[a] : a \in Actors} \cup HeadsRead) \ {0}

IdsInv ==
    /\ \A a \in Actors : Draft[a] < nextGen
    /\ \A a, b \in Actors : a # b /\ Draft[a] # 0 => Draft[a] # Draft[b]
    /\ Held \subseteq Settled

\* Settled manifests stay as they are, until a sweep deletes them.
Shrinks(G) == \A g \in G : gens'[g] = gens[g] \/ gens'[g] = NoManifest

\* One actor moves on, draws an id, or gives up its draft; nobody comes to refer to
\* an id that is not settled by then.
LEMMA MovesIds ==
    ASSUME OrderedInv, IdsInv, NEW a \in Actors,
           \A b \in Actors : b # a => Draft'[b] = Draft[b],
           \/ nextGen' = nextGen /\ Draft'[a] \in {0, Draft[a]}
           \/ nextGen' = nextGen + 1 /\ Draft'[a] = nextGen,
           Held' \subseteq Held \cup (IF Draft'[a] = 0 /\ nextGen' = nextGen THEN {Draft[a]} ELSE {})
    PROVE  IdsInv' /\ Settled \subseteq Settled'
<1>1. /\ \A b \in Actors : Draft[b] \in Int /\ Draft[b] < nextGen
      /\ \A b \in Actors : Draft[b] \in Gens \cup {0}
      /\ nextGen \in Int /\ nextGen > 0
      /\ \A g \in Gens : g \in Int /\ g # 0
      /\ Held \subseteq Settled /\ 0 \notin Held'
  <2>1. nextGen \in 1 .. (MaxGen + 1) /\ MaxGen \in Int
    BY BoundsAssumption DEF OrderedInv, CompactionTypeOK, TypeOK, StoreTypeOK
  <2> QED
    BY <2>1, LedgerTypes DEF IdsInv, Gens, Held
<1>2. \A b \in Actors : Draft'[b] < nextGen'
  BY <1>1
<1>3. \A b, c \in Actors : b # c /\ Draft'[b] # 0 => Draft'[b] # Draft'[c]
  BY <1>1 DEF IdsInv
<1>4. Settled \subseteq Settled'
  <2> SUFFICES ASSUME NEW g \in Settled
               PROVE  g < nextGen' /\ \A b \in Actors : Draft'[b] # g
    BY DEF Settled
  <2>1. g \in Gens /\ g < nextGen /\ \A b \in Actors : Draft[b] # g
    BY DEF Settled
  <2> QED
    BY <1>1, <2>1
<1>5. Held' \subseteq Settled'
  <2>1. CASE Held' \subseteq Held
    BY <1>1, <1>4, <2>1
  <2>2. CASE Draft'[a] = 0 /\ nextGen' = nextGen /\ Draft[a] # 0
    <3>1. \A b \in Actors : Draft'[b] # Draft[a]
      BY <2>2 DEF IdsInv
    <3>2. Draft[a] \in Settled'
      BY <1>1, <2>2, <3>1 DEF Settled
    <3> QED
      BY <1>1, <1>4, <2>2, <3>2
  <2> QED
    BY <1>1, <2>1, <2>2
<1> QED
  BY <1>2, <1>3, <1>4, <1>5 DEF IdsInv

\* A request writes the manifest of the id it drew, once.
LEMMA PublishIds ==
    ASSUME OrderedInv, IdsInv, NEW w \in Workers, PublishStep(w)
    PROVE  IdsInv' /\ Settled \subseteq Settled' /\ Shrinks(Settled)
<1> DEFINE r == req[w]
           r2 == req'[w]
<1>0. /\ TypeOK /\ RequestOrdered(r, clock) /\ Step(w) /\ comp' = comp
  BY DEF OrderedInv, CompactionTypeOK, PublishStep
<1>1. /\ w \in Actors
      /\ Draft[w] = RequestDraft(r) /\ Draft'[w] = RequestDraft(r2)
      /\ Done[w] = RequestDone(r) /\ Done'[w] = RequestDone(r2)
  BY Views
<1>2. \A b \in Actors : b # w => Draft'[b] = Draft[b] /\ Done'[b] = Done[b]
  <2>1. \A v \in Workers : v # w => req'[v] = req[v]
    BY <1>0, StepFrame
  <2> QED
    BY <1>0, <2>1, Views DEF Actors
<1>3. HeadsRead' = HeadsRead
  BY <1>0 DEF HeadsRead
<1> HIDE DEF r, r2
<1>4. CASE UNCHANGED <<gens, head, nextGen>> /\ RequestKeeps(r, r2)
  <2>1. Draft'[w] \in {0, Draft[w]} /\ Done'[w] \in {0, Done[w]} /\ Written' = Written
    BY <1>1, <1>4 DEF RequestKeeps, Written, GenPresent
  <2>2. Held' \subseteq Held
    BY <1>2, <1>3, <1>4, <2>1 DEF Held
  <2>3. Shrinks(Settled)
    BY <1>4 DEF Shrinks
  <2> QED
    BY <1>1, <1>2, <1>4, <2>1, <2>2, <2>3, MovesIds
<1>5. CASE /\ UNCHANGED <<gens, head>> /\ nextGen' = nextGen + 1
           /\ RequestDraft(r2) = nextGen /\ RequestDone(r2) = 0
  <2>1. Draft'[w] = nextGen /\ Done'[w] = 0 /\ Written' = Written
    BY <1>1, <1>5 DEF Written, GenPresent
  <2>2. Held' \subseteq Held
    BY <1>2, <1>3, <1>5, <2>1 DEF Held
  <2>3. Shrinks(Settled)
    BY <1>5 DEF Shrinks
  <2> QED
    BY <1>1, <1>2, <1>5, <2>1, <2>2, <2>3, MovesIds
<1>6. CASE /\ UNCHANGED <<head, nextGen>>
           /\ r.pc = "genManifest" /\ r2.pc = "commitManifests"
           /\ r2.gen = r.gen /\ r2.at = r.at
           /\ \E m : m.at = r.at /\ gens' = [gens EXCEPT ![r.gen] = m]
  <2>1. Draft[w] = r.gen /\ Draft'[w] = 0 /\ Done'[w] = r.gen
    BY <1>1, <1>6 DEF RequestDraft, RequestDone, Announcing, Building
  <2>2. \A g \in Gens : g # r.gen => gens'[g] = gens[g]
    BY <1>0, <1>6 DEF TypeOK, StoreTypeOK
  <2>3. Written' \subseteq Written \cup {r.gen}
    BY <2>2 DEF Written, GenPresent
  <2>4. Held' \subseteq Held \cup {Draft[w]}
    BY <1>2, <1>3, <1>6, <2>1, <2>3 DEF Held
  <2>5. Shrinks(Settled)
    BY <1>1, <2>1, <2>2 DEF Shrinks, Settled
  <2> QED
    BY <1>1, <1>2, <1>6, <2>1, <2>4, <2>5, MovesIds
<1>7. CASE /\ UNCHANGED <<gens, nextGen>>
           /\ r.pc = "headCas" /\ r2 = Idle
           /\ head' = NewHead(r)
  <2>1. Done[w] = r.gen /\ Draft'[w] = 0 /\ Done'[w] = 0
    BY <1>1, <1>7 DEF RequestDraft, RequestDone, Announcing, Building, Idle
  <2>2. head'.gen = Done[w] /\ Written' = Written
    BY <1>7, <2>1 DEF NewHead, Written, GenPresent
  <2>3. Held' \subseteq Held
    BY <1>1, <1>2, <1>3, <2>1, <2>2 DEF Held
  <2>4. Shrinks(Settled)
    BY <1>7 DEF Shrinks
  <2> QED
    BY <1>1, <1>2, <1>7, <2>1, <2>3, <2>4, MovesIds
<1>8. \/ UNCHANGED <<gens, head, nextGen>> /\ RequestKeeps(r, r2)
      \/ /\ UNCHANGED <<gens, head>> /\ nextGen' = nextGen + 1
         /\ RequestDraft(r2) = nextGen /\ RequestDone(r2) = 0
      \/ /\ UNCHANGED <<head, nextGen>>
         /\ r.pc = "genManifest" /\ r2.pc = "commitManifests"
         /\ r2.gen = r.gen /\ r2.at = r.at
         /\ \E m : m.at = r.at /\ gens' = [gens EXCEPT ![r.gen] = m]
      \/ /\ UNCHANGED <<gens, nextGen>>
         /\ r.pc = "headCas" /\ r2 = Idle
         /\ head' = NewHead(r)
  BY <1>0, RequestEffects DEF r, r2
<1> QED
  BY <1>4, <1>5, <1>6, <1>7, <1>8

\* A compaction hydrates the head it read when it began.
LEMMA RunReadsHead ==
    ASSUME CompactionTypeOK, NEW k \in Compactors, RunStep(k), comp'[k].pc \in ReadingHead
    PROVE  \/ comp[k].pc \in ReadingHead /\ comp'[k].seen = comp[k].seen
           \/ comp'[k].seen = head
<1>0. /\ comp[k] \in Run
      /\ \A q : RunBecomes(k, q) => comp'[k] = q
      /\ IdleRun.pc \notin ReadingHead /\ [IdleRun EXCEPT !.pc = "sweep"].pc \notin ReadingHead
  BY DEF CompactionTypeOK, RunBecomes, IdleRun, ReadingHead
<1>1. CASE CompactReadHead(k)
  <2>1. \/ comp'[k] = [IdleRun EXCEPT !.pc = "list", !.seen = head]
        \/ comp'[k] = [IdleRun EXCEPT !.pc = "sweep"]
    BY <1>0, <1>1 DEF CompactReadHead
  <2>2. [IdleRun EXCEPT !.pc = "list", !.seen = head].seen = head
    BY DEF IdleRun
  <2> QED
    BY <1>0, <2>1, <2>2
<1>2. CASE CompactList(k)
  BY <1>0, <1>2 DEF CompactList, ReadingHead, Run
<1>3. CASE CompactHydrate(k)
  BY <1>0, <1>3 DEF CompactHydrate, ReadingHead, Run
<1>4. CASE CompactUpload(k) \/ CompactWriteGeneration(k) \/ CompactRepoint(k) \/ RunFail(k)
  BY <1>0, <1>4, ZenonT(60)
  DEF CompactUpload, CompactWriteGeneration, CompactRepoint, RunFail, RunGoto, ReadingHead, Run
<1>5. CASE CompactCasHead(k) \/ CompactWriteCommit(k)
  BY <1>0, <1>5 DEF CompactCasHead, CompactWriteCommit, ReadingHead, Run
<1>6. CASE SweepReadHead(k) \/ SweepList(k) \/ SweepRepoint(k)
  BY <1>0, <1>6, ZenonT(60) DEF SweepReadHead, SweepList, SweepRepoint, ReadingHead, Run
<1>7. CASE SweepDeletePacks(k) \/ SweepDeleteManifest(k) \/ SweepOrphanPacks(k)
  BY <1>0, <1>7, ZenonT(60)
  DEF SweepDeletePacks, SweepDeleteManifest, SweepOrphanPacks, ReadingHead, Run
<1> QED
  BY <1>1, <1>2, <1>3, <1>4, <1>5, <1>6, <1>7 DEF RunStep

\* So does a run; and a sweep only deletes.
LEMMA RunIds ==
    ASSUME OrderedInv, IdsInv, NEW k \in Compactors, RunStep(k)
    PROVE  IdsInv' /\ Settled \subseteq Settled' /\ Shrinks(Settled)
<1> DEFINE r == comp[k]
           r2 == comp'[k]
<1>0. /\ CompactionTypeOK /\ TypeOK /\ RunOrdered(r, clock)
      /\ req' = req
      /\ \A j \in Compactors : j # k => comp'[j] = comp[j]
  BY RunStepFrame DEF OrderedInv, CompactionTypeOK
<1>1. /\ k \in Actors
      /\ Draft[k] = RunDraft(r) /\ Draft'[k] = RunDraft(r2)
      /\ Done[k] = RunDone(r) /\ Done'[k] = RunDone(r2)
  BY Views
<1>2. \A b \in Actors : b # k => Draft'[b] = Draft[b] /\ Done'[b] = Done[b]
  BY <1>0, Views DEF Actors
<1>3. HeadsRead' \subseteq HeadsRead \cup {head.gen}
  <2> SUFFICES ASSUME NEW j \in Compactors, comp'[j].pc \in ReadingHead
               PROVE  comp'[j].seen.gen \in HeadsRead \cup {head.gen}
    BY DEF HeadsRead
  <2>1. CASE j # k
    BY <1>0, <2>1 DEF HeadsRead
  <2>2. CASE j = k
    BY <1>0, <2>2, RunReadsHead DEF HeadsRead
  <2> QED
    BY <2>1, <2>2
<1> HIDE DEF r, r2
<1>4. CASE UNCHANGED <<gens, head, nextGen>> /\ RunKeeps(r, r2)
  <2>1. Draft'[k] \in {0, Draft[k]} /\ Done'[k] \in {0, Done[k]} /\ Written' = Written
    BY <1>1, <1>4 DEF RunKeeps, Written, GenPresent
  <2>2. Held' \subseteq Held
    BY <1>2, <1>3, <1>4, <2>1 DEF Held
  <2>3. Shrinks(Settled)
    BY <1>4 DEF Shrinks
  <2> QED
    BY <1>1, <1>2, <1>4, <2>1, <2>2, <2>3, MovesIds
<1>5. CASE /\ UNCHANGED <<gens, head>> /\ nextGen' = nextGen + 1
           /\ RunDraft(r2) = nextGen /\ RunDone(r2) = 0
  <2>1. Draft'[k] = nextGen /\ Done'[k] = 0 /\ Written' = Written
    BY <1>1, <1>5 DEF Written, GenPresent
  <2>2. Held' \subseteq Held
    BY <1>2, <1>3, <1>5, <2>1 DEF Held
  <2>3. Shrinks(Settled)
    BY <1>5 DEF Shrinks
  <2> QED
    BY <1>1, <1>2, <1>5, <2>1, <2>2, <2>3, MovesIds
<1>6. CASE /\ UNCHANGED <<head, nextGen>>
           /\ r.pc = "genManifest" /\ r2.pc = "headCas"
           /\ r2.gen = r.gen /\ r2.at = r.at
           /\ \E m : m.at = r.at /\ gens' = [gens EXCEPT ![r.gen] = m]
  <2>1. Draft[k] = r.gen /\ Draft'[k] = 0 /\ Done'[k] = r.gen
    BY <1>1, <1>6 DEF RunDraft, RunDone
  <2>2. \A g \in Gens : g # r.gen => gens'[g] = gens[g]
    BY <1>0, <1>6 DEF TypeOK, StoreTypeOK
  <2>3. Written' \subseteq Written \cup {r.gen}
    BY <2>2 DEF Written, GenPresent
  <2>4. Held' \subseteq Held \cup {Draft[k]}
    BY <1>2, <1>3, <1>6, <2>1, <2>3 DEF Held
  <2>5. Shrinks(Settled)
    BY <1>1, <2>1, <2>2 DEF Shrinks, Settled
  <2> QED
    BY <1>1, <1>2, <1>6, <2>1, <2>4, <2>5, MovesIds
<1>7. CASE /\ UNCHANGED <<gens, nextGen>>
           /\ r.pc = "headCas" /\ r2.pc = "repoint"
           /\ head'.gen = r.gen /\ head'.at = r.at
  <2>1. Done[k] = r.gen /\ Draft'[k] = 0 /\ Done'[k] = 0
    BY <1>1, <1>7 DEF RunDraft, RunDone
  <2>2. head'.gen = Done[k] /\ Written' = Written
    BY <1>7, <2>1 DEF Written, GenPresent
  <2>3. Held' \subseteq Held
    BY <1>1, <1>2, <1>3, <2>1, <2>2 DEF Held
  <2>4. Shrinks(Settled)
    BY <1>7 DEF Shrinks
  <2> QED
    BY <1>1, <1>2, <1>7, <2>1, <2>3, <2>4, MovesIds
<1>8. CASE /\ UNCHANGED <<head, nextGen>>
           /\ r.pc = "sweepManifest"
           /\ RunDraft(r2) = 0 /\ RunDone(r2) = 0
           /\ gens' = [gens EXCEPT ![r.gen] = NoManifest]
  <2>1. Draft'[k] = 0 /\ Done'[k] = 0 /\ Draft[k] = 0
    BY <1>1, <1>8 DEF RunDraft
  <2>2. \A g \in Gens : gens'[g] = gens[g] \/ gens'[g] = NoManifest
    BY <1>0, <1>8 DEF TypeOK, StoreTypeOK
  <2>3. Written' \subseteq Written
    BY <2>2 DEF Written, GenPresent, NoManifest
  <2>4. Held' \subseteq Held
    BY <1>1, <1>2, <1>3, <1>8, <2>1, <2>3 DEF Held
  <2>5. Shrinks(Settled)
    BY <2>2 DEF Shrinks, Settled
  <2> QED
    BY <1>1, <1>2, <1>8, <2>1, <2>4, <2>5, MovesIds
<1>9. \/ UNCHANGED <<gens, head, nextGen>> /\ RunKeeps(r, r2)
      \/ /\ UNCHANGED <<gens, head>> /\ nextGen' = nextGen + 1
         /\ RunDraft(r2) = nextGen /\ RunDone(r2) = 0
      \/ /\ UNCHANGED <<head, nextGen>>
         /\ r.pc = "genManifest" /\ r2.pc = "headCas"
         /\ r2.gen = r.gen /\ r2.at = r.at
         /\ \E m : m.at = r.at /\ gens' = [gens EXCEPT ![r.gen] = m]
      \/ /\ UNCHANGED <<gens, nextGen>>
         /\ r.pc = "headCas" /\ r2.pc = "repoint"
         /\ head'.gen = r.gen /\ head'.at = r.at
      \/ /\ UNCHANGED <<head, nextGen>>
         /\ r.pc = "sweepManifest"
         /\ RunDraft(r2) = 0 /\ RunDone(r2) = 0
         /\ gens' = [gens EXCEPT ![r.gen] = NoManifest]
  BY <1>0, RunEffects DEF r, r2
<1> QED
  BY <1>4, <1>5, <1>6, <1>7, <1>8, <1>9

\* The environment touches no manifest; a request that fails gives up its draft.
LEMMA EnvironmentIds ==
    ASSUME OrderedInv, IdsInv,
           (Environment /\ UNCHANGED compVars) \/ TimelyTick \/ UNCHANGED allVars
    PROVE  IdsInv' /\ Settled \subseteq Settled' /\ UNCHANGED <<gens, head, comp>>
<1>1. UNCHANGED <<gens, head, nextGen, comp>>
  BY DEF Environment, UpstreamPush, Evict, Fail, TimelyTick, Tick, allVars, vars, compVars, store
<1>2. UNCHANGED req \/ \E w \in Workers : Become(w, Idle)
  BY DEF Environment, UpstreamPush, Evict, Fail, TimelyTick, Tick, allVars, vars, pubVars, Become
<1>3. Written' = Written /\ HeadsRead' = HeadsRead
  BY <1>1 DEF Written, GenPresent, HeadsRead
<1>4. CASE UNCHANGED req
  <2>1. Draft' = Draft /\ Done' = Done
    BY <1>1, <1>4 DEF Draft, Done
  <2>2. Held' = Held /\ Settled' = Settled
    BY <1>1, <1>3, <2>1 DEF Held, Settled
  <2> QED
    BY <1>1, <2>1, <2>2 DEF IdsInv
<1>5. ASSUME NEW w \in Workers, Become(w, Idle) PROVE IdsInv' /\ Settled \subseteq Settled'
  <2>1. req'[w] = Idle /\ \A v \in Workers : v # w => req'[v] = req[v]
    BY <1>5 DEF Become, OrderedInv, CompactionTypeOK, TypeOK
  <2>2. RequestDraft(Idle) = 0 /\ RequestDone(Idle) = 0
    BY DEF RequestDraft, RequestDone, Announcing, Building, Idle
  <2>3. w \in Actors /\ Draft'[w] = 0 /\ Done'[w] = 0
    BY <2>1, <2>2, Views
  <2>4. \A b \in Actors : b # w => Draft'[b] = Draft[b] /\ Done'[b] = Done[b]
    BY <1>1, <2>1, Views DEF Actors
  <2>5. Held' \subseteq Held
    BY <1>1, <1>3, <2>3, <2>4 DEF Held
  <2> QED
    BY <1>1, <2>3, <2>4, <2>5, MovesIds
<1> QED
  BY <1>1, <1>2, <1>4, <1>5

\* Nothing is drawn at the start.
LEMMA IdsInit == CompactionInit => IdsInv
<1> SUFFICES ASSUME CompactionInit PROVE IdsInv
  OBVIOUS
<1>1. KeptInv /\ nextGen = 1
  BY KeptInit DEF CompactionInit, Init, StoreInit
<1>2. \A a \in Actors : Draft[a] = 0 /\ Done[a] = 0
  <2>1. \A w \in Workers : req[w] = Idle
    BY DEF CompactionInit, Init
  <2>2. \A k \in Compactors : comp[k] = IdleRun
    BY DEF CompactionInit
  <2>3. /\ RequestDraft(Idle) = 0 /\ RequestDone(Idle) = 0
        /\ RunDraft(IdleRun) = 0 /\ RunDone(IdleRun) = 0
    BY DEF RequestDraft, RequestDone, Announcing, Building, Idle, RunDraft, RunDone, IdleRun
  <2> QED
    BY <2>1, <2>2, <2>3, Views DEF Actors
<1>3. Written = {} /\ head.gen = 0 /\ HeadsRead = {}
  BY DEF CompactionInit, Init, StoreInit, Written, GenPresent, NoManifest, NoHead, HeadsRead,
         ReadingHead, IdleRun
<1>4. Held = {}
  BY <1>2, <1>3 DEF Held
<1> QED
  BY <1>1, <1>2, <1>4 DEF IdsInv

\* The packs hold what the refs reach; the refs reach the tips; a manifest, as long
\* as it is there, reaches the tips.
Whole(packs, snap) == Closure(SnapTips(snap)) \subseteq UNION packs
Rooted(tips, snap) == tips \subseteq Closure(SnapTips(snap))
Carries(m, tips) == m.at # 0 => Rooted(tips, m.refs)

\* local: the refs of the node; ms: the generation manifests.
RequestCovered(r, local, ms) ==
    /\ r.pc = "pack" => Closure(r.tips) \subseteq UNION r.packs
    /\ r.pc = "snapshot" =>
            Whole(r.packs, local) /\ (SnapTips(local) = {} \/ Rooted(r.tips, local))
    /\ r.pc \in {"upload", "genManifest"} => Whole(r.packs, r.snap) /\ Rooted(r.tips, r.snap)
    /\ RequestDone(r) # 0 => Carries(ms[r.gen], r.tips)

RunCovered(r, ms) ==
    /\ r.pc \in ReadingHead /\ r.seen.gen \in Gens => Carries(ms[r.seen.gen], r.seen.tips)
    /\ r.pc \in {"upload", "genManifest"} => Whole(r.packs, r.snap) /\ Rooted(r.seen.tips, r.snap)
    /\ RunDone(r) # 0 => Carries(ms[r.gen], r.seen.tips)

CoverInv ==
    /\ \A g \in Gens : Whole(gens[g].packs, gens[g].refs)
    /\ head.gen \in Gens => Carries(gens[head.gen], head.tips)
    /\ \A w \in Workers : RequestCovered(req[w], refs[NodeOf[w]], gens)
    /\ \A k \in Compactors : RunCovered(comp[k], gens)

\* Refs that reach the tips reach what the tips reach.
LEMMA RootedClosure ==
    ASSUME NEW snap \in RefSnapshot, NEW tips, Rooted(tips, snap)
    PROVE  Closure(tips) \subseteq Closure(SnapTips(snap))
<1>1. SnapTips(snap) \in SUBSET Commits
  BY DEF SnapTips, RefSnapshot
<1>2. \A c \in tips : Anc[c] \subseteq Closure(SnapTips(snap))
  BY <1>1, ClosureClosed DEF Rooted
<1> QED
  BY <1>2 DEF Closure

\* An absent manifest promises nothing, and neither do absent refs.
LEMMA NothingPromised ==
    /\ Whole(NoManifest.packs, NoManifest.refs)
    /\ \A tips : Carries(NoManifest, tips)
    /\ SnapTips(NoRefs) = {}
    /\ \A packs : Whole(packs, NoRefs)
<1>1. SnapTips(NoRefs) = {}
  BY DEF SnapTips, NoRefs
<1>2. Closure({}) = {}
  BY ClosureUnion
<1> QED
  BY <1>1, <1>2 DEF Whole, Carries, NoManifest

\* What requests and runs rely on outlives the deletion of manifests.
LEMMA StaysCovered ==
    ASSUME OrderedInv, IdsInv, Shrinks(Settled)
    PROVE  /\ \A w \in Workers : \A local :
                 RequestCovered(req[w], local, gens) => RequestCovered(req[w], local, gens')
           /\ \A k \in Compactors : RunCovered(comp[k], gens) => RunCovered(comp[k], gens')
           /\ head.gen \in Gens /\ Carries(gens[head.gen], head.tips)
                 => Carries(gens'[head.gen], head.tips)
<1>1. \A g \in Held : \A tips : Carries(gens[g], tips) => Carries(gens'[g], tips)
  <2>1. \A g \in Held : gens'[g] = gens[g] \/ gens'[g] = NoManifest
    BY DEF IdsInv, Shrinks
  <2> QED
    BY <2>1, NothingPromised
<1>2. \A w \in Workers : RequestDone(req[w]) # 0 => req[w].gen \in Held
  BY Views DEF Held, RequestDone
<1>3. \A k \in Compactors : RunDone(comp[k]) # 0 => comp[k].gen \in Held
  BY Views DEF Held, RunDone
<1>4. \A k \in Compactors :
         comp[k].pc \in ReadingHead /\ comp[k].seen.gen \in Gens => comp[k].seen.gen \in Held
  BY DEF Held, HeadsRead, Gens
<1>5. head.gen \in Gens => head.gen \in Held
  BY DEF Held, Gens
<1>6. \A w \in Workers : \A local :
         RequestCovered(req[w], local, gens) => RequestCovered(req[w], local, gens')
  BY <1>1, <1>2 DEF RequestCovered
<1>7. \A k \in Compactors : RunCovered(comp[k], gens) => RunCovered(comp[k], gens')
  BY <1>1, <1>3, <1>4 DEF RunCovered
<1> QED
  BY <1>1, <1>5, <1>6, <1>7

\* A request that is neither packing nor announcing relies on nothing.
LEMMA NothingCovered ==
    ASSUME NEW r, NEW local, NEW ms, r.pc \notin Building, RequestDone(r) = 0
    PROVE  RequestCovered(r, local, ms)
BY DEF RequestCovered, Building

\* The phases of publish_generation that touch neither manifests nor the head.
LEMMA PackCovered ==
    ASSUME OrderedInv, IdsInv, NodesInv, CoverInv, NEW w \in Workers,
           ReadHead(w) \/ PackIncremental(w) \/ PackFull(w) \/ SnapshotRefs(w) \/ UploadPack(w)
    PROVE  RequestCovered(req'[w], refs'[NodeOf[w]], gens) /\ gens' = gens /\ head' = head
<1> DEFINE r == req[w]
           n == NodeOf[w]
           L == refs[NodeOf[w]]
<1>0. /\ TypeOK /\ r \in Request /\ n \in Nodes
      /\ L \in RefSnapshot
      /\ SnapTips(L) = RefTips(n)
      /\ Follows(r, L, objs[n], upstream)
      /\ RequestCovered(r, L, gens)
      /\ \A q : Become(w, q) => req'[w] = q
  BY PublishAssumption
  DEF OrderedInv, CompactionTypeOK, TypeOK, NodesInv, CoverInv, Become, SnapTips, RefTips
<1>00. Closure({}) = {}
  BY ClosureUnion
<1>1. CASE ReadHead(w)
  <2> DEFINE packs == IF r.parent /\ GenPresent(head.gen) THEN gens[head.gen].packs ELSE {}
             tips == IF r.parent /\ GenPresent(head.gen) THEN head.tips ELSE {}
             r2 == [r EXCEPT !.pc = "pack", !.gen = nextGen, !.packs = packs, !.tips = tips]
  <2>1. GenPresent(head.gen) => Closure(head.tips) \subseteq UNION gens[head.gen].packs
    <3> SUFFICES ASSUME GenPresent(head.gen)
                 PROVE  Closure(head.tips) \subseteq UNION gens[head.gen].packs
      OBVIOUS
    <3>1. head.gen \in Gens /\ gens[head.gen].at # 0
      BY DEF GenPresent
    <3>2. gens[head.gen].refs \in RefSnapshot
      BY <1>0, <3>1 DEF TypeOK, StoreTypeOK, GenManifest
    <3>3. Rooted(head.tips, gens[head.gen].refs)
      BY <3>1 DEF CoverInv, Carries
    <3>4. Whole(gens[head.gen].packs, gens[head.gen].refs)
      BY <3>1 DEF CoverInv
    <3> QED
      BY <3>2, <3>3, <3>4, RootedClosure DEF Whole
  <2>2. Closure(tips) \subseteq UNION packs
    BY <1>00, <2>1
  <2>3. req'[w] = r2 /\ gens' = gens /\ head' = head
    BY <1>0, <1>1 DEF ReadHead, store
  <2>4. r2.pc = "pack" /\ r2.packs = packs /\ r2.tips = tips
    BY <1>0 DEF Request
  <2>5. RequestDone(r2) = 0
    BY <2>4 DEF RequestDone, Announcing
  <2>6. RequestCovered(r2, refs'[n], gens)
    BY <2>2, <2>4, <2>5 DEF RequestCovered
  <2> QED
    BY <2>3, <2>6
<1>2. CASE PackIncremental(w)
  <2> DEFINE pack == PackObjectsRevs(RefTips(n), r.tips)
             r2 == [r EXCEPT !.pc = "snapshot", !.at = clock, !.pack = pack,
                             !.packs = r.packs \cup {pack}, !.tips = r.tips \cup {r.commit}]
  <2>1. /\ r.pc = "pack" /\ RefTips(n) # {} /\ r.tips \subseteq objs[n]
        /\ Closure(r.tips) \subseteq UNION r.packs
    BY <1>0, <1>2 DEF PackIncremental, CanPack, RequestCovered
  <2>2. Rooted(r.tips \cup {r.commit}, L)
    BY <1>0, <2>1 DEF Follows, Middle, Rooted
  <2>3. Whole(r.packs \cup {pack}, L)
    <3>1. pack = Closure(SnapTips(L)) \ Closure(r.tips)
      BY <1>0 DEF PackObjectsRevs
    <3> HIDE DEF pack
    <3> QED
      BY <2>1, <3>1 DEF Whole
  <2>4. req'[w] = r2 /\ gens' = gens /\ head' = head /\ refs' = refs
    BY <1>0, <1>2 DEF PackIncremental, store, nodeVars
  <2>5. r2.pc = "snapshot" /\ r2.packs = r.packs \cup {pack} /\ r2.tips = r.tips \cup {r.commit}
    BY <1>0 DEF Request
  <2>6. RequestDone(r2) = 0
    BY <2>5 DEF RequestDone, Announcing
  <2> HIDE DEF r2, pack
  <2>7. RequestCovered(r2, L, gens)
    BY <2>2, <2>3, <2>5, <2>6 DEF RequestCovered
  <2> QED
    BY <2>4, <2>7
<1>3. CASE PackFull(w)
  <2> DEFINE pack == PackObjectsRevs(RefTips(n), {})
             r2 == [r EXCEPT !.pc = "snapshot", !.at = clock, !.pack = pack,
                             !.packs = {pack}, !.tips = {r.commit}]
  <2>1. r.pc = "pack" /\ RefTips(n) # {}
    BY <1>3 DEF PackFull, CanPack
  <2>2. Rooted({r.commit}, L)
    BY <1>0, <2>1 DEF Follows, Middle, Rooted
  <2>3. Whole({pack}, L)
    BY <1>0, <1>00 DEF PackObjectsRevs, Whole
  <2>4. req'[w] = r2 /\ gens' = gens /\ head' = head /\ refs' = refs
    BY <1>0, <1>3 DEF PackFull, store, nodeVars
  <2>5. r2.pc = "snapshot" /\ r2.packs = {pack} /\ r2.tips = {r.commit}
    BY <1>0 DEF Request
  <2>6. RequestDone(r2) = 0
    BY <2>5 DEF RequestDone, Announcing
  <2> HIDE DEF r2, pack
  <2>7. RequestCovered(r2, L, gens)
    BY <2>2, <2>3, <2>5, <2>6 DEF RequestCovered
  <2> QED
    BY <2>4, <2>7
<1>4. CASE SnapshotRefs(w)
  <2> DEFINE commits == {r.commit} \cup {c \in RefTips(n) : commitGen[c] = 0}
             r2 == [r EXCEPT !.pc = "upload", !.snap = L, !.commits = commits, !.todo = commits]
  <2>1. r.pc = "snapshot" /\ RefTips(n) # {}
    BY <1>4 DEF SnapshotRefs
  <2>2. Whole(r.packs, L) /\ Rooted(r.tips, L)
    BY <1>0, <2>1 DEF RequestCovered
  <2>3. req'[w] = r2 /\ gens' = gens /\ head' = head
    BY <1>0, <1>4 DEF SnapshotRefs, store
  <2>4. r2.pc = "upload" /\ r2.packs = r.packs /\ r2.tips = r.tips /\ r2.snap = L
    BY <1>0 DEF Request
  <2>5. RequestDone(r2) = 0
    BY <2>4 DEF RequestDone, Announcing
  <2> HIDE DEF r2
  <2>6. RequestCovered(r2, refs'[n], gens)
    BY <2>2, <2>4, <2>5 DEF RequestCovered
  <2> QED
    BY <2>3, <2>6
<1>5. CASE UploadPack(w)
  <2>1. /\ r.pc = "upload" /\ req'[w] = [r EXCEPT !.pc = "genManifest"]
        /\ gens' = gens /\ head' = head
    BY <1>0, <1>5 DEF UploadPack, Goto
  <2>2. Whole(r.packs, r.snap) /\ Rooted(r.tips, r.snap)
    BY <1>0, <2>1 DEF RequestCovered
  <2>3. /\ req'[w].pc = "genManifest" /\ req'[w].packs = r.packs /\ req'[w].tips = r.tips
        /\ req'[w].snap = r.snap
    BY <1>0, <2>1 DEF Request
  <2>4. RequestDone(req'[w]) = 0
    BY <2>3 DEF RequestDone, Announcing
  <2>5. RequestCovered(req'[w], refs'[n], gens)
    BY <2>2, <2>3, <2>4 DEF RequestCovered
  <2> QED
    BY <2>1, <2>5
<1> QED
  BY <1>1, <1>2, <1>3, <1>4, <1>5

\* The phases that write manifests and the head, or nothing at all.
LEMMA AnnounceCovered ==
    ASSUME OrderedInv, IdsInv, CoverInv, NEW w \in Workers, Step(w),
           ~ReadHead(w), ~PackIncremental(w), ~PackFull(w), ~SnapshotRefs(w), ~UploadPack(w)
    PROVE  /\ RequestCovered(req'[w], refs'[NodeOf[w]], gens')
           /\ \A g \in Gens : Whole(gens'[g].packs, gens'[g].refs)
           /\ head'.gen \in Gens => Carries(gens'[head'.gen], head'.tips)
<1> DEFINE r == req[w]
           L == refs[NodeOf[w]]
<1>0. /\ TypeOK /\ r \in Request
      /\ RequestOrdered(r, clock)
      /\ RequestCovered(r, L, gens)
      /\ \A q : Become(w, q) => req'[w] = q
      /\ \A g \in Gens : Whole(gens[g].packs, gens[g].refs)
      /\ head.gen \in Gens => Carries(gens[head.gen], head.tips)
      /\ Idle.pc \notin Building /\ RequestDone(Idle) = 0
  BY DEF OrderedInv, CompactionTypeOK, TypeOK, CoverInv, Become, Idle, Building, RequestDone, Announcing
<1>1. CASE ResolveTip(w) \/ CheckLocal(w) \/ RecordVerifiedBranchRefs(w) \/ FetchBranch(w)
  <2>1. req'[w].pc \in {"idle", "resolved", "record", "fetch", "manifests", "publish"}
    <3>1. CASE ResolveTip(w)
      BY <1>0, <3>1, IdleType DEF ResolveTip, Request
    <3>2. CASE CheckLocal(w)
      BY <1>0, <3>2 DEF CheckLocal, Request
    <3>3. CASE RecordVerifiedBranchRefs(w)
      BY <1>0, <3>3 DEF RecordVerifiedBranchRefs, Goto, Request, Idle
    <3>4. CASE FetchBranch(w)
      <4>1. [r EXCEPT !.pc = "publish", !.locked = TRUE].pc = "publish" /\ Idle.pc = "idle"
        BY <1>0 DEF Request, Idle
      <4> QED
        BY <1>0, <3>4, <4>1 DEF FetchBranch
    <3> QED
      BY <1>1, <3>1, <3>2, <3>3, <3>4
  <2>2. req'[w].pc \notin Building /\ RequestDone(req'[w]) = 0
    BY <2>1 DEF Building, RequestDone, Announcing
  <2>3. gens' = gens /\ head' = head
    BY <1>1 DEF ResolveTip, CheckLocal, RecordVerifiedBranchRefs, FetchBranch, store
  <2> QED
    BY <1>0, <2>2, <2>3, NothingCovered
<1>2. CASE EnsureBranchManifests(w) \/ CheckExisting(w) \/ LocalGitFails(w)
  <2>1. req'[w].pc \notin Building /\ RequestDone(req'[w]) = 0
    <3>1. CASE EnsureBranchManifests(w)
      <4>1. r.packs = {}
        BY <1>0, <3>1 DEF EnsureBranchManifests, RequestOrdered
      <4>2. \/ req'[w] = [r EXCEPT !.pc = "refManifest", !.gen = commitGen[r.commit]]
            \/ req'[w] = [r EXCEPT !.pc = "publish"]
        BY <1>0, <3>1 DEF EnsureBranchManifests, Goto
      <4>3. req'[w].packs = {} /\ req'[w].pc \in {"refManifest", "publish"}
        BY <1>0, <4>1, <4>2 DEF Request
      <4> QED
        BY <4>3 DEF Building, RequestDone, Announcing
    <3>2. CASE CheckExisting(w)
      <4>1. r.packs = {}
        BY <1>0, <3>2 DEF CheckExisting, RequestOrdered
      <4>2. \/ req'[w] = [r EXCEPT !.pc = "refManifest", !.gen = commitGen[r.commit]]
            \/ req'[w] = [r EXCEPT !.pc = "readHead"]
        BY <1>0, <3>2 DEF CheckExisting, Goto
      <4>3. req'[w].packs = {} /\ req'[w].pc \in {"refManifest", "readHead"}
        BY <1>0, <4>1, <4>2 DEF Request
      <4> QED
        BY <4>3 DEF Building, RequestDone, Announcing
    <3>3. CASE LocalGitFails(w)
      BY <1>0, <3>3 DEF LocalGitFails
    <3> QED
      BY <1>2, <3>1, <3>2, <3>3
  <2>2. gens' = gens /\ head' = head
    BY <1>2 DEF EnsureBranchManifests, CheckExisting, LocalGitFails, store
  <2> QED
    BY <1>0, <2>1, <2>2, NothingCovered
<1>3. CASE WriteGenerationManifest(w)
  <2> DEFINE manifest == [at |-> r.at, packs |-> r.packs, refs |-> r.snap, commits |-> r.commits]
  <2>1. /\ r.pc = "genManifest" /\ r.gen \in Gens
        /\ Whole(r.packs, r.snap) /\ Rooted(r.tips, r.snap)
    BY <1>0, <1>3 DEF WriteGenerationManifest, RequestOrdered, Numbered, Building, RequestCovered
  <2>2. /\ gens' = [gens EXCEPT ![r.gen] = manifest] /\ head' = head
        /\ req'[w] = [r EXCEPT !.pc = "commitManifests"]
    BY <1>0, <1>3 DEF WriteGenerationManifest, Goto
  <2>3. gens'[r.gen] = manifest /\ \A g \in Gens : g # r.gen => gens'[g] = gens[g]
    BY <1>0, <2>1, <2>2 DEF TypeOK, StoreTypeOK
  <2>4. manifest.packs = r.packs /\ manifest.refs = r.snap
    OBVIOUS
  <2>5. req'[w].pc = "commitManifests" /\ req'[w].gen = r.gen /\ req'[w].tips = r.tips
    BY <1>0, <2>2 DEF Request
  <2> HIDE DEF manifest
  <2>6. RequestCovered(req'[w], refs'[NodeOf[w]], gens')
    BY <2>1, <2>3, <2>4, <2>5 DEF RequestCovered, Carries
  <2>7. \A g \in Gens : Whole(gens'[g].packs, gens'[g].refs)
    BY <1>0, <2>1, <2>3, <2>4
  <2>8. head.gen \in Gens => Carries(gens'[head.gen], head.tips)
    <3>1. head.gen \in Gens => head.gen # r.gen
      <4>1. Draft[w] = r.gen /\ w \in Actors
        BY <2>1, Views DEF RequestDraft, Building
      <4>2. head.gen \in Gens => head.gen \in Settled
        BY DEF IdsInv, Held, Gens
      <4> QED
        BY <4>1, <4>2 DEF Settled
    <3> QED
      BY <1>0, <2>3, <3>1
  <2> QED
    BY <2>2, <2>6, <2>7, <2>8
<1>4. CASE WriteCommitManifest(w) \/ WriteRefManifest(w) \/ ReadHeadVersion(w)
  <2>1. /\ req'[w].pc \notin Building
        /\ \/ RequestDone(req'[w]) = 0
           \/ /\ RequestDone(r) = r.gen /\ r.gen # 0
              /\ req'[w].gen = r.gen /\ req'[w].tips = r.tips
    <3>1. CASE WriteCommitManifest(w)
      <4>1. r.pc = "commitManifests" /\ r.gen # 0
        BY <1>0, <3>1 DEF WriteCommitManifest, RequestOrdered, Numbered, Gens
      <4>2. PICK c \in r.todo :
               \/ req'[w] = [r EXCEPT !.todo = @ \ {c},
                                      !.pc = IF r.todo = {c} THEN "refManifest" ELSE r.pc]
               \/ req'[w] = Idle
        BY <1>0, <3>1 DEF WriteCommitManifest
      <4>3. CASE req'[w] = [r EXCEPT !.todo = @ \ {c},
                                     !.pc = IF r.todo = {c} THEN "refManifest" ELSE r.pc]
        <5>1. /\ req'[w].pc \in {"refManifest", "commitManifests"}
              /\ req'[w].gen = r.gen /\ req'[w].tips = r.tips
          BY <1>0, <4>1, <4>3 DEF Request
        <5> QED
          BY <4>1, <5>1 DEF Building, RequestDone, Announcing
      <4>4. CASE req'[w] = Idle
        BY <1>0, <4>4
      <4> QED
        BY <4>2, <4>3, <4>4
    <3>2. CASE WriteRefManifest(w)
      <4>1. /\ r.pc = "refManifest"
            /\ \/ req'[w] = Idle
               \/ req'[w] = [r EXCEPT !.pc = "headRead"] /\ r.packs # {}
        BY <1>0, <3>2 DEF WriteRefManifest, Goto
      <4>2. r.gen # 0
        BY <1>0, <4>1 DEF RequestOrdered, Numbered, Gens
      <4>3. CASE req'[w] = Idle
        BY <1>0, <4>3
      <4>4. CASE req'[w] = [r EXCEPT !.pc = "headRead"] /\ r.packs # {}
        <5>1. req'[w].pc = "headRead" /\ req'[w].gen = r.gen /\ req'[w].tips = r.tips
          BY <1>0, <4>4 DEF Request
        <5> QED
          BY <4>1, <4>2, <4>4, <5>1 DEF Building, RequestDone, Announcing
      <4> QED
        BY <4>1, <4>3, <4>4
    <3>3. CASE ReadHeadVersion(w)
      <4>1. /\ r.pc = "headRead"
            /\ \/ req'[w] = Idle
               \/ req'[w] = [r EXCEPT !.pc = "headCas", !.seen = head]
        BY <1>0, <3>3 DEF ReadHeadVersion
      <4>2. r.gen # 0
        BY <1>0, <4>1 DEF RequestOrdered, Numbered, Gens
      <4>3. CASE req'[w] = Idle
        BY <1>0, <4>3
      <4>4. CASE req'[w] = [r EXCEPT !.pc = "headCas", !.seen = head]
        <5>1. req'[w].pc = "headCas" /\ req'[w].gen = r.gen /\ req'[w].tips = r.tips
          BY <1>0, <4>4, SMTT(60) DEF Request
        <5> QED
          BY <4>1, <4>2, <5>1 DEF Building, RequestDone, Announcing
      <4> QED
        BY <4>1, <4>3, <4>4
    <3> QED
      BY <1>4, <3>1, <3>2, <3>3
  <2>2. gens' = gens /\ head' = head
    BY <1>4 DEF WriteCommitManifest, WriteRefManifest, ReadHeadVersion, store
  <2>3. RequestCovered(req'[w], refs'[NodeOf[w]], gens)
    <3>1. CASE RequestDone(req'[w]) = 0
      BY <2>1, <3>1, NothingCovered
    <3>2. CASE /\ RequestDone(r) = r.gen /\ r.gen # 0
               /\ req'[w].gen = r.gen /\ req'[w].tips = r.tips
      BY <1>0, <2>1, <3>2 DEF RequestCovered, Building
    <3> QED
      BY <2>1, <3>1, <3>2
  <2> QED
    BY <1>0, <2>2, <2>3
<1>5. CASE CasHead(w)
  <2>1. /\ r.pc = "headCas" /\ gens' = gens
        /\ head' = head \/ head' = NewHead(r)
        /\ req'[w] = Idle \/ req'[w] = [r EXCEPT !.pc = "headRead", !.attempts = @ + 1]
    BY <1>0, <1>5 DEF CasHead, WriteHeadIfVersionMatches
  <2>2. r.gen # 0 /\ RequestDone(r) = r.gen
    BY <1>0, <2>1 DEF RequestOrdered, Numbered, Gens, RequestDone, Announcing
  <2>3. Carries(gens[r.gen], r.tips)
    BY <1>0, <2>2 DEF RequestCovered
  <2>4. head'.gen \in Gens => Carries(gens[head'.gen], head'.tips)
    BY <1>0, <2>1, <2>3 DEF NewHead
  <2>5. RequestCovered(req'[w], refs'[NodeOf[w]], gens)
    <3>1. CASE req'[w] = Idle
      BY <1>0, <3>1, NothingCovered
    <3>2. CASE req'[w] = [r EXCEPT !.pc = "headRead", !.attempts = @ + 1]
      <4>1. req'[w].pc = "headRead" /\ req'[w].gen = r.gen /\ req'[w].tips = r.tips
        BY <1>0, <3>2 DEF Request
      <4> QED
        BY <2>3, <4>1 DEF RequestCovered
    <3> QED
      BY <2>1, <3>1, <3>2
  <2> QED
    BY <1>0, <2>1, <2>4, <2>5
<1> QED
  BY <1>1, <1>2, <1>3, <1>4, <1>5 DEF Step

\* A step of a request, at its node, on the manifests and on the head.
LEMMA PublishCovered ==
    ASSUME OneWorkerPerNode, OrderedInv, IdsInv, NodesInv, CoverInv,
           NEW w \in Workers, PublishStep(w)
    PROVE  CoverInv'
<1>0. /\ TypeOK /\ Step(w) /\ comp' = comp
      /\ \A v \in Workers : NodeOf[v] \in Nodes
      /\ \A g \in Gens : Whole(gens[g].packs, gens[g].refs)
      /\ head.gen \in Gens => Carries(gens[head.gen], head.tips)
  BY PublishAssumption DEF PublishStep, OrderedInv, CompactionTypeOK, CoverInv
<1>1. /\ RequestCovered(req'[w], refs'[NodeOf[w]], gens')
      /\ \A g \in Gens : Whole(gens'[g].packs, gens'[g].refs)
      /\ head'.gen \in Gens => Carries(gens'[head'.gen], head'.tips)
  <2>1. CASE ReadHead(w) \/ PackIncremental(w) \/ PackFull(w) \/ SnapshotRefs(w) \/ UploadPack(w)
    <3>1. RequestCovered(req'[w], refs'[NodeOf[w]], gens) /\ gens' = gens /\ head' = head
      BY <2>1, PackCovered
    <3> QED
      BY <1>0, <3>1
  <2>2. CASE ~(ReadHead(w) \/ PackIncremental(w) \/ PackFull(w) \/ SnapshotRefs(w) \/ UploadPack(w))
    BY <1>0, <2>2, AnnounceCovered
  <2> QED
    BY <2>1, <2>2
<1>2. ASSUME NEW v \in Workers, v # w PROVE RequestCovered(req'[v], refs'[NodeOf[v]], gens')
  <2>1. NodeOf[v] # NodeOf[w]
    BY <1>2 DEF OneWorkerPerNode
  <2>2. req'[v] = req[v] /\ refs'[NodeOf[v]] = refs[NodeOf[v]]
    BY <1>0, <1>2, <2>1, StepFrame, StepElsewhere
  <2>3. RequestCovered(req[v], refs[NodeOf[v]], gens)
    BY DEF CoverInv
  <2>4. Shrinks(Settled)
    BY PublishIds
  <2>5. RequestCovered(req[v], refs[NodeOf[v]], gens')
    BY <2>3, <2>4, StaysCovered
  <2> QED
    BY <2>2, <2>5
<1>3. ASSUME NEW k \in Compactors PROVE RunCovered(comp'[k], gens')
  <2>1. RunCovered(comp[k], gens)
    BY DEF CoverInv
  <2>2. Shrinks(Settled)
    BY PublishIds
  <2> QED
    BY <1>0, <2>1, <2>2, StaysCovered
<1> QED
  BY <1>1, <1>2, <1>3 DEF CoverInv

\* Refs laid over refs reach at least what the upper ones reach.
LEMMA OverlayReaches ==
    ASSUME NEW old \in RefSnapshot, NEW new \in RefSnapshot
    PROVE  /\ Overlay(old, new) \in RefSnapshot
           /\ Closure(SnapTips(new)) \subseteq Closure(SnapTips(Overlay(old, new)))
<1>1. Overlay(old, new) \in RefSnapshot
  BY DEF Overlay, RefSnapshot
<1>2. SnapTips(new) \subseteq SnapTips(Overlay(old, new))
  BY DEF Overlay, SnapTips
<1> QED
  BY <1>1, <1>2, ClosureUnion

\* A run that neither packs nor installs relies on nothing.
LEMMA NoRunCovered ==
    ASSUME NEW r, NEW ms,
           r.pc \notin {"list", "hydrate", "upload", "genManifest", "headCas"}
    PROVE  RunCovered(r, ms)
BY DEF RunCovered, ReadingHead, RunDone

\* The single pack of a compaction holds what its refs reach, and those reach the
\* tips of the head the compaction read.
LEMMA HydrateCovered ==
    ASSUME OrderedInv, CoverInv, NEW k \in Compactors, CompactHydrate(k)
    PROVE  RunCovered(comp'[k], gens)
<1> DEFINE r == comp[k]
           n == ScratchOf[k]
           snap == Overlay(refs[n], gens[r.seen.gen].refs)
           pack == Closure({snap[b] : b \in Branches} \ {NoCommit})
           r2 == [r EXCEPT !.pc = "upload", !.at = clock, !.packs = {pack}, !.snap = snap]
<1>0. /\ TypeOK /\ r \in Run /\ n \in Nodes /\ refs[n] \in RefSnapshot
      /\ r.pc = "hydrate" /\ RunCovered(r, gens)
      /\ \A q : RunBecomes(k, q) => comp'[k] = q
  BY CompactionAssumption, ZenonT(60)
  DEF OrderedInv, CompactionTypeOK, TypeOK, CoverInv, RunBecomes, CompactHydrate
<1>1. \/ comp'[k] = r2 /\ Restorable(r.seen.gen)
      \/ comp'[k] = IdleRun
  BY <1>0 DEF CompactHydrate
<1>2. CASE comp'[k] = IdleRun
  <2>1. IdleRun.pc = "idle"
    BY DEF IdleRun
  <2> QED
    BY <1>2, <2>1, NoRunCovered
<1>3. CASE comp'[k] = r2 /\ Restorable(r.seen.gen)
  <2>1. r.seen.gen \in Gens /\ gens[r.seen.gen].at # 0
    BY <1>3 DEF Restorable, GenPresent
  <2>2. gens[r.seen.gen].refs \in RefSnapshot
    BY <1>0, <2>1 DEF TypeOK, StoreTypeOK, GenManifest
  <2>3. Rooted(r.seen.tips, gens[r.seen.gen].refs)
    BY <1>0, <2>1 DEF RunCovered, ReadingHead, Carries
  <2>4. Rooted(r.seen.tips, snap)
    BY <1>0, <2>2, <2>3, OverlayReaches DEF Rooted
  <2>5. pack = Closure(SnapTips(snap))
    <3> HIDE DEF snap
    <3> QED
      BY DEF SnapTips
  <2>6. Whole({pack}, snap)
    <3> HIDE DEF pack, snap
    <3> QED
      BY <2>5 DEF Whole
  <2>7. r2.pc = "upload" /\ r2.packs = {pack} /\ r2.snap = snap /\ r2.seen = r.seen
    <3> HIDE DEF pack, snap
    <3> QED
      BY <1>0 DEF Run
  <2> HIDE DEF r2, pack, snap
  <2>8. RunCovered(r2, gens)
    BY <2>4, <2>6, <2>7 DEF RunCovered, ReadingHead, RunDone
  <2> QED
    BY <1>3, <2>8
<1> QED
  BY <1>1, <1>2, <1>3, SMTT(60)

\* The steps of a compaction up to the installation of its generation.
LEMMA CompactCovered ==
    ASSUME OrderedInv, IdsInv, CoverInv, NEW k \in Compactors,
           \/ CompactReadHead(k) \/ CompactList(k) \/ CompactHydrate(k) \/ CompactUpload(k)
           \/ CompactCasHead(k)
    PROVE  /\ gens' = gens
           /\ RunCovered(comp'[k], gens)
           /\ head'.gen \in Gens => Carries(gens[head'.gen], head'.tips)
<1> DEFINE r == comp[k]
<1>0. /\ TypeOK /\ r \in Run /\ RunOrdered(r, clock) /\ RunCovered(r, gens)
      /\ \A q : RunBecomes(k, q) => comp'[k] = q
      /\ head.gen \in Gens => Carries(gens[head.gen], head.tips)
  BY DEF OrderedInv, CompactionTypeOK, CoverInv, RunBecomes
<1>1. CASE CompactReadHead(k)
  <2>1. \/ comp'[k] = [IdleRun EXCEPT !.pc = "list", !.seen = head]
        \/ comp'[k] = [IdleRun EXCEPT !.pc = "sweep"]
    BY <1>0, <1>1 DEF CompactReadHead
  <2>2. /\ [IdleRun EXCEPT !.pc = "list", !.seen = head].pc = "list"
        /\ [IdleRun EXCEPT !.pc = "list", !.seen = head].seen = head
        /\ [IdleRun EXCEPT !.pc = "sweep"].pc = "sweep"
    BY DEF IdleRun
  <2>3. gens' = gens /\ head' = head
    BY <1>1 DEF CompactReadHead, vars, store
  <2>4. CASE comp'[k] = [IdleRun EXCEPT !.pc = "list", !.seen = head]
    <3>1. comp'[k].pc = "list" /\ comp'[k].seen = head
      BY <2>2, <2>4
    <3> QED
      BY <1>0, <2>3, <3>1 DEF RunCovered, RunDone
  <2>5. CASE comp'[k] = [IdleRun EXCEPT !.pc = "sweep"]
    <3>1. comp'[k].pc = "sweep"
      BY <2>2, <2>5
    <3> QED
      BY <1>0, <2>3, <3>1, NoRunCovered
  <2> QED
    BY <2>1, <2>4, <2>5
<1>2. CASE CompactList(k)
  <2>1. r.pc = "list" /\ comp'[k].pc = "hydrate" /\ comp'[k].seen = r.seen
    BY <1>0, <1>2 DEF CompactList, Run
  <2>2. gens' = gens /\ head' = head
    BY <1>2 DEF CompactList, store
  <2> QED
    BY <1>0, <2>1, <2>2 DEF RunCovered, ReadingHead, RunDone
<1>3. CASE CompactHydrate(k)
  <2>1. gens' = gens /\ head' = head
    BY <1>3 DEF CompactHydrate, store
  <2> QED
    BY <1>0, <1>3, <2>1, HydrateCovered
<1>4. CASE CompactUpload(k)
  <2>1. /\ r.pc = "upload" /\ comp'[k].pc = "genManifest"
        /\ comp'[k].packs = r.packs /\ comp'[k].snap = r.snap /\ comp'[k].seen = r.seen
    BY <1>0, <1>4 DEF CompactUpload, RunGoto, Run
  <2>2. gens' = gens /\ head' = head
    BY <1>4 DEF CompactUpload
  <2> QED
    BY <1>0, <2>1, <2>2 DEF RunCovered, ReadingHead, RunDone
<1>5. CASE CompactCasHead(k)
  <2>1. /\ r.pc = "headCas" /\ gens' = gens
        /\ head' = head \/ head' = [gen |-> r.gen, tips |-> r.seen.tips, at |-> r.at]
    BY <1>5 DEF CompactCasHead, WriteHeadIfVersionMatches
  <2>2. comp'[k].pc \in {"repoint", "sweep"}
    <3>1. [IdleRun EXCEPT !.pc = "sweep"].pc = "sweep"
      BY DEF IdleRun
    <3>2. [r EXCEPT !.pc = "repoint", !.keys = ListedManifests].pc = "repoint"
      BY <1>0 DEF Run
    <3> QED
      BY <1>0, <1>5, <3>1, <3>2 DEF CompactCasHead
  <2>3. r.gen # 0 /\ RunDone(r) = r.gen
    BY <1>0, <2>1 DEF RunOrdered, RunDone, Gens
  <2>4. Carries(gens[r.gen], r.seen.tips)
    BY <1>0, <2>3 DEF RunCovered
  <2>5. head'.gen \in Gens => Carries(gens[head'.gen], head'.tips)
    BY <1>0, <2>1, <2>4
  <2> QED
    BY <2>1, <2>2, <2>5, NoRunCovered
<1> QED
  BY <1>1, <1>2, <1>3, <1>4, <1>5

\* A step of a run; what it repacks belongs to no publisher.
LEMMA RunStepCovered ==
    ASSUME OwnScratch, OrderedInv, IdsInv, CoverInv, NEW k \in Compactors, RunStep(k)
    PROVE  CoverInv'
<1> DEFINE r == comp[k]
<1>0. /\ CompactionTypeOK /\ TypeOK /\ r \in Run /\ RunOrdered(r, clock) /\ RunCovered(r, gens)
      /\ \A q : RunBecomes(k, q) => comp'[k] = q
      /\ \A g \in Gens : Whole(gens[g].packs, gens[g].refs)
      /\ head.gen \in Gens => Carries(gens[head.gen], head.tips)
  BY DEF OrderedInv, CompactionTypeOK, CoverInv, RunBecomes
<1>1. Shrinks(Settled)
  BY RunIds
<1>2. /\ RunCovered(comp'[k], gens')
      /\ \A g \in Gens : Whole(gens'[g].packs, gens'[g].refs)
      /\ head'.gen \in Gens => Carries(gens'[head'.gen], head'.tips)
  <2>1. CASE \/ CompactReadHead(k) \/ CompactList(k) \/ CompactHydrate(k) \/ CompactUpload(k)
             \/ CompactCasHead(k)
    <3>1. /\ gens' = gens
          /\ RunCovered(comp'[k], gens)
          /\ head'.gen \in Gens => Carries(gens[head'.gen], head'.tips)
      BY <2>1, CompactCovered
    <3> QED
      BY <1>0, <3>1
  <2>2. CASE CompactWriteGeneration(k)
    <3> DEFINE m == [at |-> r.at, packs |-> r.packs, refs |-> r.snap, commits |-> r.commits]
    <3>1. /\ r.pc = "genManifest" /\ r.gen \in Gens
          /\ Whole(r.packs, r.snap) /\ Rooted(r.seen.tips, r.snap)
      BY <1>0, <2>2 DEF CompactWriteGeneration, RunOrdered, RunCovered
    <3>2. /\ gens' = [gens EXCEPT ![r.gen] = m] /\ head' = head
          /\ comp'[k] = [r EXCEPT !.pc = "headCas"]
      BY <1>0, <2>2 DEF CompactWriteGeneration, RunGoto
    <3>3. gens'[r.gen] = m /\ \A g \in Gens : g # r.gen => gens'[g] = gens[g]
      BY <1>0, <3>1, <3>2 DEF TypeOK, StoreTypeOK
    <3>4. m.packs = r.packs /\ m.refs = r.snap
      OBVIOUS
    <3>5. comp'[k].pc = "headCas" /\ comp'[k].gen = r.gen /\ comp'[k].seen = r.seen
      BY <1>0, <3>2 DEF Run
    <3> HIDE DEF m
    <3>6. RunCovered(comp'[k], gens')
      BY <3>1, <3>3, <3>4, <3>5 DEF RunCovered, Carries, ReadingHead
    <3>7. \A g \in Gens : Whole(gens'[g].packs, gens'[g].refs)
      BY <1>0, <3>1, <3>3, <3>4
    <3>8. head.gen \in Gens => head.gen # r.gen
      <4>1. Draft[k] = r.gen /\ k \in Actors
        BY <3>1, Views DEF RunDraft
      <4>2. head.gen \in Gens => head.gen \in Settled
        BY DEF IdsInv, Held, Gens
      <4> QED
        BY <4>1, <4>2 DEF Settled
    <3> QED
      BY <1>0, <3>2, <3>3, <3>6, <3>7, <3>8
  <2>3. CASE \/ CompactRepoint(k) \/ CompactWriteCommit(k) \/ SweepReadHead(k) \/ SweepList(k)
             \/ SweepRepoint(k) \/ SweepDeletePacks(k) \/ SweepOrphanPacks(k) \/ RunFail(k)
    <3>1. gens' = gens /\ head' = head
      BY <2>3 DEF CompactRepoint, CompactWriteCommit, SweepReadHead, SweepList, SweepRepoint,
                  SweepDeletePacks, SweepOrphanPacks, RunFail, vars, store
    <3>2. comp'[k].pc \notin {"list", "hydrate", "upload", "genManifest", "headCas"}
      <4>1. IdleRun.pc = "idle" /\ [IdleRun EXCEPT !.pc = "sweep"].pc = "sweep"
        BY DEF IdleRun
      <4>2. CASE CompactRepoint(k)
        BY <1>0, <4>2 DEF CompactRepoint, Run
      <4>3. CASE CompactWriteCommit(k)
        BY <1>0, <4>1, <4>3 DEF CompactWriteCommit, Run
      <4>4. CASE SweepReadHead(k) \/ SweepList(k)
        BY <1>0, <4>4, ZenonT(60) DEF SweepReadHead, SweepList, Run
      <4>5. CASE SweepRepoint(k) \/ SweepDeletePacks(k)
        BY <1>0, <4>5 DEF SweepRepoint, SweepDeletePacks, Run
      <4>6. CASE SweepOrphanPacks(k) \/ RunFail(k)
        BY <1>0, <4>1, <4>6 DEF SweepOrphanPacks, RunFail
      <4> QED
        BY <2>3, <4>2, <4>3, <4>4, <4>5, <4>6
    <3> QED
      BY <1>0, <3>1, <3>2, NoRunCovered, SMTT(60)
  <2>4. CASE SweepDeleteManifest(k)
    <3>1. gens' = [gens EXCEPT ![r.gen] = NoManifest] /\ head' = head
      BY <2>4 DEF SweepDeleteManifest
    <3>2. \A g \in Gens : gens'[g] = gens[g] \/ gens'[g] = NoManifest
      BY <1>0, <3>1 DEF TypeOK, StoreTypeOK
    <3>3. comp'[k].pc \in {"sweepOrphans", "sweepPacks"}
      <4>1. comp'[k] = [r EXCEPT !.old = @ \ {r.gen}, !.gen = 0,
                  !.pc = IF r.old = {r.gen} THEN "sweepOrphans" ELSE "sweepPacks"]
        BY <1>0, <2>4 DEF SweepDeleteManifest
      <4> QED
        BY <1>0, <4>1 DEF Run
    <3> QED
      BY <1>0, <3>1, <3>2, <3>3, NoRunCovered, NothingPromised
  <2> QED
    BY <2>1, <2>2, <2>3, <2>4 DEF RunStep
<1>3. ASSUME NEW j \in Compactors, j # k PROVE RunCovered(comp'[j], gens')
  <2>1. comp'[j] = comp[j] /\ RunCovered(comp[j], gens)
    BY <1>0, <1>3, RunStepFrame DEF CoverInv
  <2> QED
    BY <1>1, <2>1, StaysCovered
<1>4. ASSUME NEW w \in Workers PROVE RequestCovered(req'[w], refs'[NodeOf[w]], gens')
  <2>1. req' = req /\ refs'[NodeOf[w]] = refs[NodeOf[w]]
    <3>1. NodeOf[w] \in Nodes /\ NodeOf[w] # ScratchOf[k]
      BY PublishAssumption, SMTT(60) DEF OwnScratch
    <3>2. CASE CompactHydrate(k)
      BY <1>0, <3>1, <3>2, RunStepFrame, ZenonT(60) DEF CompactHydrate, nodeVars, TypeOK
    <3>3. CASE ~CompactHydrate(k)
      BY <1>0, <3>3, RunStepFrame
      DEF RunStep, CompactReadHead, CompactList, CompactUpload, CompactWriteGeneration,
          CompactCasHead, CompactRepoint, CompactWriteCommit, SweepReadHead, SweepList, SweepRepoint,
          SweepDeletePacks, SweepDeleteManifest, SweepOrphanPacks, RunFail, vars, pubVars, nodeVars
    <3> QED
      BY <3>2, <3>3
  <2>2. RequestCovered(req[w], refs[NodeOf[w]], gens)
    BY DEF CoverInv
  <2>3. RequestCovered(req[w], refs[NodeOf[w]], gens')
    BY <1>1, <2>2, StaysCovered
  <2> QED
    BY <2>1, <2>3
<1> QED
  BY <1>2, <1>3, <1>4 DEF CoverInv

\* An evicted node has no refs, so nothing of what they reach is missing.
LEMMA EnvironmentCovered ==
    ASSUME OrderedInv, IdsInv, CoverInv,
           (Environment /\ UNCHANGED compVars) \/ TimelyTick \/ UNCHANGED allVars
    PROVE  CoverInv'
<1>0. TypeOK /\ gens' = gens /\ head' = head /\ comp' = comp
  BY EnvironmentIds DEF OrderedInv, CompactionTypeOK
<1> SUFFICES ASSUME NEW w \in Workers PROVE RequestCovered(req'[w], refs'[NodeOf[w]], gens)
  BY <1>0 DEF CoverInv
<1>1. RequestCovered(req[w], refs[NodeOf[w]], gens)
  BY DEF CoverInv
<1>2. \/ req'[w] = req[w] /\ refs'[NodeOf[w]] \in {refs[NodeOf[w]], NoRefs}
      \/ req'[w] = Idle
  <2>1. NodeOf[w] \in Nodes
    BY PublishAssumption
  <2>2. CASE UpstreamPush \/ TimelyTick \/ UNCHANGED allVars
    BY <2>2 DEF UpstreamPush, TimelyTick, Tick, allVars, vars, pubVars, nodeVars
  <2>3. ASSUME NEW n \in Nodes, Evict(n)
        PROVE  req'[w] = req[w] /\ refs'[NodeOf[w]] \in {refs[NodeOf[w]], NoRefs}
    BY <1>0, <2>1, <2>3 DEF Evict, TypeOK
  <2>4. ASSUME NEW v \in Workers, Fail(v)
        PROVE  \/ req'[w] = req[w] /\ refs'[NodeOf[w]] = refs[NodeOf[w]]
               \/ req'[w] = Idle
    BY <1>0, <2>4 DEF Fail, nodeVars, TypeOK
  <2> QED
    BY <2>2, <2>3, <2>4 DEF Environment
<1>3. RequestCovered(Idle, refs'[NodeOf[w]], gens)
  <2>1. Idle.pc \notin Building /\ RequestDone(Idle) = 0
    BY DEF Idle, Building, RequestDone, Announcing
  <2> QED
    BY <2>1, NothingCovered
<1>4. RequestCovered(req[w], NoRefs, gens)
  BY <1>1, NothingPromised DEF RequestCovered
<1> QED
  BY <1>1, <1>2, <1>3, <1>4

\* No manifest, no head and nobody at work at the start.
LEMMA CoverInit == CompactionInit => CoverInv
<1> SUFFICES ASSUME CompactionInit PROVE CoverInv
  OBVIOUS
<1>1. /\ \A g \in Gens : gens[g] = NoManifest
      /\ head = NoHead
      /\ \A w \in Workers : req[w] = Idle
      /\ \A k \in Compactors : comp[k] = IdleRun
  BY DEF CompactionInit, Init, StoreInit
<1>2. Idle.pc \notin Building /\ RequestDone(Idle) = 0 /\ IdleRun.pc = "idle"
  BY DEF Idle, Building, RequestDone, Announcing, IdleRun
<1>3. \A w \in Workers : RequestCovered(req[w], refs[NodeOf[w]], gens)
  BY <1>1, <1>2, NothingCovered
<1>4. \A k \in Compactors : RunCovered(comp[k], gens)
  BY <1>1, <1>2, NoRunCovered
<1>5. head.gen \notin Gens
  BY <1>1 DEF NoHead, Gens
<1> QED
  BY <1>1, <1>3, <1>4, <1>5, NothingPromised DEF CoverInv

\* The parts together.
SupportInv == OrderedInv /\ IdsInv /\ NodesInv /\ CoverInv

LEMMA SupportStep ==
    ASSUME OneWorkerPerNode, OwnScratch, ~ForcePush, SupportInv, [CompactionNext]_allVars
    PROVE  SupportInv'
<1>0. OrderedInv /\ IdsInv /\ NodesInv /\ CoverInv /\ CompactionTypeOK
  BY DEF SupportInv, OrderedInv
<1>1. OrderedInv' /\ NodesInv'
  BY <1>0, OrderedStep, NodesStep
<1>2. ASSUME NEW w \in Workers, PublishStep(w) PROVE IdsInv' /\ CoverInv'
  BY <1>0, <1>2, PublishIds, PublishCovered
<1>3. ASSUME NEW k \in Compactors, RunStep(k) PROVE IdsInv' /\ CoverInv'
  BY <1>0, <1>3, RunIds, RunStepCovered
<1>4. ASSUME (Environment /\ UNCHANGED compVars) \/ TimelyTick \/ UNCHANGED allVars
      PROVE  IdsInv' /\ CoverInv'
  BY <1>0, <1>4, EnvironmentIds, EnvironmentCovered
<1> QED
  BY <1>1, <1>2, <1>3, <1>4 DEF CompactionNext, SupportInv

LEMMA SupportInit == CompactionInit => SupportInv
BY OrderedInit, IdsInit, NodesInit, CoverInit DEF SupportInv

\* The packs of the head hold the history of every tip the head records, so that
\* the next incremental publish (pack_objects_revs with previous_tips) leaves
\* nothing out that nobody has: for any number of publishers, each on a node of
\* its own, compactions in repositories of their own, sweeps, crashes, evictions
\* and any timing, while branches are not rewritten upstream.
THEOREM HeadTipsAlwaysCovered ==
    ASSUME OneWorkerPerNode, OwnScratch, ~ForcePush
    PROVE  CompactionSpec => []TipsCovered
<1>1. SupportInv => TipsCovered
  <2> SUFFICES ASSUME SupportInv, GenPresent(head.gen)
               PROVE  Closure(head.tips) \subseteq GenObjects(head.gen)
    BY DEF TipsCovered
  <2>1. head.gen \in Gens /\ gens[head.gen].at # 0 /\ CoverInv /\ TypeOK
    BY DEF GenPresent, SupportInv, OrderedInv, CompactionTypeOK
  <2>2. gens[head.gen].refs \in RefSnapshot
    BY <2>1 DEF TypeOK, StoreTypeOK, GenManifest
  <2>3. Rooted(head.tips, gens[head.gen].refs) /\ Whole(gens[head.gen].packs, gens[head.gen].refs)
    BY <2>1 DEF CoverInv, Carries
  <2> QED
    BY <2>2, <2>3, RootedClosure DEF Whole, GenObjects
<1>2. SupportInv /\ [CompactionNext]_allVars => SupportInv'
  BY SupportStep
<1> QED
  BY <1>1, <1>2, SupportInit, PTL DEF CompactionSpec

\* Whatever is published or compacted, under the same conditions: each ref of a
\* generation's snapshot is in the packs the generation lists, so hydrate_generation
\* can apply the snapshot with update-ref.
THEOREM CompactedSnapshotsApply ==
    ASSUME OneWorkerPerNode, OwnScratch, ~ForcePush
    PROVE  CompactionSpec => []SnapshotsApply
<1>1. SupportInv => SnapshotsApply
  <2> SUFFICES ASSUME SupportInv, NEW g \in Gens, NEW b \in Branches,
                      gens[g].refs[b] # NoCommit
               PROVE  gens[g].refs[b] \in GenObjects(g)
    BY DEF SnapshotsApply
  <2>1. TypeOK /\ Whole(gens[g].packs, gens[g].refs)
    BY DEF SupportInv, OrderedInv, CompactionTypeOK, CoverInv
  <2>2. gens[g].refs \in RefSnapshot
    BY <2>1 DEF TypeOK, StoreTypeOK, GenManifest
  <2>3. gens[g].refs[b] \in SnapTips(gens[g].refs) /\ SnapTips(gens[g].refs) \in SUBSET Commits
    BY <2>2 DEF SnapTips, RefSnapshot
  <2> QED
    BY <2>1, <2>3, ClosureMember DEF Whole, GenObjects
<1>2. SupportInv /\ [CompactionNext]_allVars => SupportInv'
  BY SupportStep
<1> QED
  BY <1>1, <1>2, SupportInit, PTL DEF CompactionSpec

==============================================================================
