------------------------- MODULE ExactCommit_proofs -------------------------
(***************************************************************************)
(* Branch, exact-commit and short-commit requests together implement the   *)
(* abstract durable cache, and their commit manifests and head tips stay   *)
(* complete, when no two requests share a node's repository and upstream   *)
(* rewrites no branch.                                                     *)
(***************************************************************************)
EXTENDS ExactCommit, Publish_proofs

\* Without rewritten branches upstream still has everything it ever had.
Known == Closure(UpstreamTips)

UpstreamHasAll ==
    /\ \A n \in Nodes : objs[n] \subseteq Known
    /\ \A g \in Gens : GenObjects(g) \subseteq Known
    /\ \A w \in Workers : UNION req[w].packs \subseteq Known

\* The commits with a manifest.
Named == {c \in Commits : commitGen[c] # 0}

\* What a request is going to announce: the tips it makes the head's, and the
\* commit it answers for.
Promised(r, named) ==
    /\ r.pc = "pack" => r.tips \subseteq named
    /\ r.pc \in {"snapshot", "upload", "genManifest", "commitManifests"}
            => r.tips \subseteq named \cup {r.commit}
    /\ r.pc \in {"upload", "genManifest"} => r.commit \in r.todo
    /\ r.pc = "commitManifests" => r.commit \in r.todo \cup named
    /\ r.pc \in {"refManifest", "headRead", "headCas"} => r.tips \cup {r.commit} \subseteq named
    /\ r.pc \in {"hydrateCommit", "commitRefs"} => r.commit \in named

\* What the phases before an index or a publish have found out.
ExactReady(r, local, restorable, objects) ==
    /\ r.pc \in ExactPhases => r.tips = {}
    /\ r.pc \in {"commitRefs", "headRefs"} => r.gen \in restorable
    /\ r.pc \in {"index", "indexTips", "indexRefs"} /\ r.from = "fetched"
            => SnapTips(local) = {} \/ r.commit \in Closure(SnapTips(local))
    /\ r.pc = "indexTips" => r.seen.gen # 0
    /\ r.pc = "indexRefs" => \A t \in r.todo : r.commit \in Anc[t]
    /\ r.pc = "indexWrite" => r.gen \in restorable /\ Anc[r.commit] \subseteq objects[r.gen]

ExactInv ==
    /\ CompleteInv
    /\ UpstreamHasAll
    /\ \A w \in Workers : Promised(req[w], Named)
    /\ \A w \in Workers : ExactReady(req[w], refs[NodeOf[w]], RestorableGens, Objects)
    /\ answered \subseteq Named
    /\ head.tips \subseteq Named


-----------------------------------------------------------------------------
(* Steps of module Publish.                                                *)

\* A promise stays kept while manifests are added.
LEMMA PromisedMonotone ==
    ASSUME NEW r, NEW N, NEW N2, Promised(r, N), N \subseteq N2
    PROVE  Promised(r, N2)
BY DEF Promised

\* A request that is idle promises nothing.
LEMMA IdleExact ==
    ASSUME NEW N, NEW L, NEW R, NEW O
    PROVE  Promised(Idle, N) /\ ExactReady(Idle, L, R, O) /\ Idle.packs = {}
BY DEF Promised, ExactReady, Idle, ExactPhases

\* Nothing is taken from a store without a sweep, and a request only touches the
\* refs of its own node.
LEMMA StepGrows ==
    ASSUME CompleteInv, NEW w \in Workers, Step(w)
    PROVE  /\ RestorableGens \subseteq RestorableGens'
           /\ \A g \in RestorableGens : gens'[g] = gens[g]
           /\ \A n \in Nodes : n # NodeOf[w] => refs'[n] = refs[n]
           /\ \A v \in Workers : v # w => req'[v] = req[v]
           /\ upstream' = upstream
<1> DEFINE r == req[w]
<1>0. TypeOK /\ r \in Request /\ Backed(r, Present, RestorableGens) /\ NodeOf[w] \in Nodes
  BY PublishAssumption, SMTT(60) DEF CompleteInv, DurableInv, TypeOK
<1>1. upstream' = upstream
  BY ZenonT(60) DEF Step, ResolveTip, CheckLocal, RecordVerifiedBranchRefs, EnsureBranchManifests,
        FetchBranch, CheckExisting, ReadHead, PackIncremental, PackFull, LocalGitFails, SnapshotRefs,
        UploadPack, WriteGenerationManifest, WriteCommitManifest, WriteRefManifest, ReadHeadVersion,
        CasHead
<1>2. \A n \in Nodes : n # NodeOf[w] => refs'[n] = refs[n]
  BY <1>0, ZenonT(60)
  DEF Step, ResolveTip, CheckLocal, RecordVerifiedBranchRefs, EnsureBranchManifests,
        FetchBranch, CheckExisting, ReadHead, PackIncremental, PackFull, LocalGitFails, SnapshotRefs,
        UploadPack, WriteGenerationManifest, WriteCommitManifest, WriteRefManifest, ReadHeadVersion,
        CasHead, nodeVars, TypeOK
<1>3. \A v \in Workers : v # w => req'[v] = req[v]
  <2>1. \E r2 : Become(w, r2)
    BY DEF Step, ResolveTip, CheckLocal, RecordVerifiedBranchRefs, EnsureBranchManifests,
        FetchBranch, CheckExisting, ReadHead, PackIncremental, PackFull, LocalGitFails, SnapshotRefs,
        UploadPack, WriteGenerationManifest, WriteCommitManifest, WriteRefManifest, ReadHeadVersion,
        CasHead, Goto
  <2> QED
    BY <1>0, <2>1 DEF Become, TypeOK
<1>4. CASE UploadPack(w)
  <2>1. gens' = gens /\ \A p \in Pack : PackPresent(p) => packAt'[p] = packAt[p]
    BY <1>0, <1>4 DEF UploadPack, PutPackUnlessPresent, PackPresent, TypeOK, StoreTypeOK
  <2>2. \A g \in Gens : gens[g].packs \subseteq Pack
    BY <1>0 DEF TypeOK, StoreTypeOK, GenManifest
  <2>3. RestorableGens \subseteq RestorableGens'
    BY <2>1, <2>2 DEF RestorableGens, Restorable, GenPresent, PackPresent
  <2> QED
    BY <1>1, <1>2, <1>3, <2>1, <2>3
<1>5. CASE WriteGenerationManifest(w)
  <2>1. r.pc = "genManifest" /\ r.gen \in Gens /\ r.gen \notin Written
    BY <1>0, <1>5 DEF WriteGenerationManifest, Backed, Building, CompleteInv, FreshInv
  <2>2. packAt' = packAt /\ \A g \in Gens : g # r.gen => gens'[g] = gens[g]
    BY <1>0, <1>5, <2>1 DEF WriteGenerationManifest, TypeOK, StoreTypeOK
  <2>3. \A g \in RestorableGens : g \in Gens /\ g # r.gen
    BY <2>1 DEF RestorableGens, Restorable, Written
  <2>4. RestorableGens \subseteq RestorableGens'
    BY <2>2, <2>3 DEF RestorableGens, Restorable, GenPresent, PackPresent
  <2> QED
    BY <1>1, <1>2, <1>3, <2>2, <2>3, <2>4
<1>6. CASE ~UploadPack(w) /\ ~WriteGenerationManifest(w)
  <2>1. UNCHANGED <<packAt, gens>>
    BY <1>6 DEF Step, ResolveTip, CheckLocal, RecordVerifiedBranchRefs, EnsureBranchManifests,
        FetchBranch, CheckExisting, ReadHead, PackIncremental, PackFull, LocalGitFails, SnapshotRefs,
        WriteCommitManifest, WriteRefManifest, ReadHeadVersion, CasHead, store
  <2> QED
    BY <1>1, <1>2, <1>3, <2>1, StoreUnchanged, SMTT(60)
<1> QED
  BY <1>4, <1>5, <1>6

\* What a step of publish_generation does for the abstract cache: nothing, one
\* more commit with a manifest, or a new head whose tips have theirs.
LEMMA StepPromises ==
    ASSUME ExactInv, NEW w \in Workers, Step(w)
    PROVE  /\ req'[w].pc \notin ExactPhases
           /\ Promised(req'[w], Named')
           /\ \/ UNCHANGED <<commitGen, head>>
              \/ /\ req[w].pc = "commitManifests" /\ head' = head
                 /\ \E c \in Commits \ Named : Named' = Named \cup {c}
              \/ /\ req[w].pc = "headCas" /\ commitGen' = commitGen
                 /\ head'.tips = req[w].tips
<1> DEFINE r == req[w]
           n == NodeOf[w]
<1>0. /\ TypeOK /\ r \in Request
      /\ \A r2 : Become(w, r2) => req'[w] = r2
      /\ Promised(r, Named) /\ Promised(Idle, Named')
      /\ Complete(r, refs[n], Objects)
      /\ Idle.pc = "idle"
      /\ "idle" \notin ExactPhases
      /\ commitGen' = commitGen => Named' = Named
  BY IdleExact DEF ExactInv, CompleteInv, DurableInv, TypeOK, Become, Named, Idle, ExactPhases
<1>1. CASE ResolveTip(w)
  <2>1. req'[w].pc = "resolved"
    BY <1>0, <1>1 DEF ResolveTip, Idle
  <2>2. UNCHANGED <<commitGen, head>>
    BY <1>1 DEF ResolveTip, store
  <2> QED
    BY <1>0, <2>1, <2>2 DEF Promised, ExactPhases
<1>2. CASE CheckLocal(w) \/ RecordVerifiedBranchRefs(w) \/ FetchBranch(w)
  <2>1. req'[w] = Idle \/ req'[w].pc \in {"record", "fetch", "manifests", "publish"}
    BY <1>0, <1>2 DEF CheckLocal, RecordVerifiedBranchRefs, FetchBranch, Goto, Request
  <2>2. UNCHANGED <<commitGen, head>>
    BY <1>2 DEF CheckLocal, RecordVerifiedBranchRefs, FetchBranch, store
  <2> QED
    BY <1>0, <2>1, <2>2 DEF Promised, ExactPhases
<1>3. CASE EnsureBranchManifests(w) \/ CheckExisting(w)
  <2>1. /\ r.tips = {}
        /\ \/ req'[w].pc \in {"publish", "readHead"}
           \/ /\ req'[w].pc = "refManifest" /\ req'[w].tips = r.tips
              /\ req'[w].commit = r.commit /\ commitGen[r.commit] # 0
    BY <1>0, <1>3, ZenonT(60) DEF EnsureBranchManifests, CheckExisting, Goto, Request, Complete
  <2>2. UNCHANGED <<commitGen, head>>
    BY <1>3 DEF EnsureBranchManifests, CheckExisting, store
  <2>3. r.commit \in Commits
    BY <1>0 DEF Request
  <2> QED
    BY <1>0, <2>1, <2>2, <2>3 DEF Promised, ExactPhases, Named
<1>4. CASE ReadHead(w)
  <2>1. req'[w].pc = "pack" /\ (req'[w].tips = head.tips \/ req'[w].tips = {})
    <3>1. req'[w] = [r EXCEPT
             !.pc = "pack", !.gen = nextGen,
             !.packs = IF r.parent /\ GenPresent(head.gen) THEN gens[head.gen].packs ELSE {},
             !.tips = IF r.parent /\ GenPresent(head.gen) THEN head.tips ELSE {}]
      BY <1>0, <1>4 DEF ReadHead
    <3> QED
      BY <1>0, <3>1 DEF Request
  <2>2. UNCHANGED <<commitGen, head>>
    BY <1>4 DEF ReadHead, store
  <2> QED
    BY <1>0, <2>1, <2>2 DEF Promised, ExactPhases, ExactInv
<1>5. CASE PackIncremental(w) \/ PackFull(w)
  <2>1. /\ r.pc = "pack" /\ req'[w].pc = "snapshot" /\ req'[w].commit = r.commit
        /\ req'[w].tips \subseteq r.tips \cup {r.commit}
    BY <1>0, <1>5, ZenonT(60) DEF PackIncremental, PackFull, Request
  <2>2. UNCHANGED <<commitGen, head>>
    BY <1>5 DEF PackIncremental, PackFull, store
  <2> QED
    BY <1>0, <2>1, <2>2 DEF Promised, ExactPhases
<1>6. CASE LocalGitFails(w)
  BY <1>0, <1>6 DEF LocalGitFails, store
<1>7. CASE SnapshotRefs(w)
  <2>1. /\ r.pc = "snapshot" /\ req'[w].pc = "upload" /\ req'[w].commit = r.commit
        /\ req'[w].tips = r.tips /\ r.commit \in req'[w].todo
    <3> DEFINE commits == {r.commit} \cup {c \in RefTips(n) : commitGen[c] = 0}
    <3>1. /\ req'[w] = [r EXCEPT !.pc = "upload", !.snap = refs[n],
                                 !.commits = commits, !.todo = commits]
          /\ r.pc = "snapshot" /\ r.commit \in commits
      BY <1>0, <1>7 DEF SnapshotRefs
    <3> HIDE DEF commits
    <3> QED
      BY <1>0, <3>1 DEF Request
  <2>2. UNCHANGED <<commitGen, head>>
    BY <1>7 DEF SnapshotRefs, store
  <2> QED
    BY <1>0, <2>1, <2>2 DEF Promised, ExactPhases
<1>8. CASE UploadPack(w) \/ WriteGenerationManifest(w)
  <2>1. /\ r.pc \in {"upload", "genManifest"} /\ req'[w].pc \in {"genManifest", "commitManifests"}
        /\ req'[w].commit = r.commit /\ req'[w].tips = r.tips /\ req'[w].todo = r.todo
    BY <1>0, <1>8 DEF UploadPack, WriteGenerationManifest, Goto, Request
  <2>2. UNCHANGED <<commitGen, head>>
    BY <1>8 DEF UploadPack, WriteGenerationManifest
  <2> QED
    BY <1>0, <2>1, <2>2 DEF Promised, ExactPhases
<1>9. CASE WriteCommitManifest(w)
  <2>1. PICK c \in r.todo :
          IF commitGen[c] = 0
          THEN /\ commitGen' = [commitGen EXCEPT ![c] = r.gen]
               /\ Become(w, [r EXCEPT !.todo = @ \ {c},
                        !.pc = IF r.todo = {c} THEN "refManifest" ELSE r.pc])
          ELSE Become(w, Idle) /\ UNCHANGED commitGen
    BY <1>9 DEF WriteCommitManifest
  <2>2. r.pc = "commitManifests" /\ head' = head /\ c \in Commits
    BY <1>0, <1>9 DEF WriteCommitManifest, Request
  <2>3. CASE commitGen[c] # 0
    BY <1>0, <2>1, <2>2, <2>3
  <2>4. CASE commitGen[c] = 0
    <3>1. r.gen # 0
      BY <2>2 DEF ExactInv, CompleteInv, DurableInv, Backed, RestorableGens, Gens
    <3>2. Named' = Named \cup {c} /\ c \notin Named
      BY <1>0, <2>1, <2>2, <2>4, <3>1 DEF Named, TypeOK, StoreTypeOK
    <3>3. req'[w] = [r EXCEPT !.todo = @ \ {c},
                              !.pc = IF r.todo = {c} THEN "refManifest" ELSE r.pc]
      BY <1>0, <2>1, <2>4
    <3>4. /\ req'[w].commit = r.commit /\ req'[w].tips = r.tips /\ req'[w].todo = r.todo \ {c}
          /\ req'[w].pc = IF r.todo = {c} THEN "refManifest" ELSE "commitManifests"
      BY <1>0, <2>2, <3>3 DEF Request
    <3>5. r.tips \subseteq Named \cup {r.commit} /\ r.commit \in r.todo \cup Named
      BY <1>0, <2>2 DEF Promised
    <3>6. Promised(req'[w], Named')
      BY <3>2, <3>4, <3>5 DEF Promised
    <3>7. req'[w].pc \notin ExactPhases
      BY <3>4 DEF ExactPhases
    <3> QED
      BY <2>2, <3>2, <3>6, <3>7
  <2> QED
    BY <2>3, <2>4
<1>10. CASE WriteRefManifest(w) \/ ReadHeadVersion(w)
  <2>1. \/ req'[w] = Idle
        \/ /\ r.pc \in {"refManifest", "headRead"} /\ req'[w].pc \in {"headRead", "headCas"}
           /\ req'[w].commit = r.commit /\ req'[w].tips = r.tips
    BY <1>0, <1>10 DEF WriteRefManifest, ReadHeadVersion, Goto, Request
  <2>2. UNCHANGED <<commitGen, head>>
    BY <1>10 DEF WriteRefManifest, ReadHeadVersion, store
  <2> QED
    BY <1>0, <2>1, <2>2 DEF Promised, ExactPhases
<1>11. CASE CasHead(w)
  <2>1. /\ r.pc = "headCas" /\ commitGen' = commitGen
        /\ head' = head \/ head' = NewHead(r)
        /\ \/ req'[w] = Idle
           \/ req'[w].pc = "headRead" /\ req'[w].commit = r.commit /\ req'[w].tips = r.tips
    BY <1>0, <1>11 DEF CasHead, WriteHeadIfVersionMatches, Request
  <2>2. head' = NewHead(r) => head'.tips = r.tips
    BY DEF NewHead
  <2> QED
    BY <1>0, <2>1, <2>2 DEF Promised, ExactPhases
<1> QED
  BY <1>1, <1>2, <1>3, <1>4, <1>5, <1>6, <1>7, <1>8, <1>9, <1>10, <1>11 DEF Step


\* What a publish fetches or packs comes from upstream.
LEMMA StepKnown ==
    ASSUME ExactInv, NEW w \in Workers, Step(w)
    PROVE  UpstreamHasAll'
<1> DEFINE r == req[w]
           n == NodeOf[w]
<1>0. /\ TypeOK /\ r \in Request /\ n \in Nodes
      /\ \A r2 : Become(w, r2) => req'[w] = r2
      /\ \A m \in Nodes : objs[m] \subseteq Known
      /\ \A g \in Gens : UNION gens[g].packs \subseteq Known
      /\ \A v \in Workers : UNION req[v].packs \subseteq Known
      /\ Idle.packs = {}
  BY PublishAssumption
  DEF ExactInv, CompleteInv, DurableInv, TypeOK, Become, UpstreamHasAll, GenObjects, Idle
<1>1. Known' = Known
  BY StepGrows DEF ExactInv, Known, UpstreamTips, Closure
<1>2. \A m \in Nodes : objs'[m] \subseteq Known
  <2>1. CASE FetchBranch(w)
    <3> DEFINE tip == upstream[r.branch]
    <3>1. objs' = [objs EXCEPT ![n] = objs[n] \cup Fetched(n, tip, r.ready)]
      BY <2>1 DEF FetchBranch
    <3>2. tip \in UpstreamTips /\ UpstreamTips \in SUBSET Commits
      BY <1>0 DEF Request, UpstreamTips, TypeOK
    <3>3. Anc[tip] \subseteq Known
      BY <3>2, ClosureMember DEF Known
    <3>4. Fetched(n, tip, r.ready) \subseteq Known
      BY <3>3 DEF Fetched
    <3> QED
      BY <1>0, <3>1, <3>4 DEF TypeOK
  <2>2. CASE ~FetchBranch(w)
    <3>1. objs' = objs
      BY <2>2 DEF Step, ResolveTip, CheckLocal, RecordVerifiedBranchRefs, EnsureBranchManifests,
         CheckExisting, ReadHead, PackIncremental, PackFull, LocalGitFails, SnapshotRefs,
         UploadPack, WriteGenerationManifest, WriteCommitManifest, WriteRefManifest, ReadHeadVersion,
         CasHead, nodeVars
    <3> QED
      BY <1>0, <3>1, SMTT(60)
  <2> QED
    BY <2>1, <2>2
<1>3. \A g \in Gens : UNION gens'[g].packs \subseteq Known
  <2>1. CASE WriteGenerationManifest(w)
    <3>1. gens' = [gens EXCEPT ![r.gen] =
                     [at |-> r.at, packs |-> r.packs, refs |-> r.snap, commits |-> r.commits]]
      BY <2>1 DEF WriteGenerationManifest
    <3>2. \A g \in Gens : gens'[g].packs = r.packs \/ gens'[g] = gens[g]
      BY <1>0, <3>1 DEF TypeOK, StoreTypeOK
    <3> QED
      BY <1>0, <3>2
  <2>2. CASE ~WriteGenerationManifest(w)
    <3>1. gens' = gens
      BY <2>2 DEF Step, ResolveTip, CheckLocal, RecordVerifiedBranchRefs, EnsureBranchManifests,
         FetchBranch, CheckExisting, ReadHead, PackIncremental, PackFull, LocalGitFails, SnapshotRefs,
         UploadPack, WriteCommitManifest, WriteRefManifest, ReadHeadVersion, CasHead, store
    <3> QED
      BY <1>0, <3>1, SMTT(60)
  <2> QED
    BY <2>1, <2>2
<1>4. UNION req'[w].packs \subseteq Known
  <2>1. CASE ReadHead(w)
    <3>1. req'[w] = [r EXCEPT
             !.pc = "pack", !.gen = nextGen,
             !.packs = IF r.parent /\ GenPresent(head.gen) THEN gens[head.gen].packs ELSE {},
             !.tips = IF r.parent /\ GenPresent(head.gen) THEN head.tips ELSE {}]
      BY <1>0, <2>1 DEF ReadHead
    <3>2. \/ req'[w].packs = {}
          \/ req'[w].packs = gens[head.gen].packs /\ head.gen \in Gens
      BY <1>0, <3>1 DEF Request, GenPresent
    <3> QED
      BY <1>0, <3>2
  <2>2. CASE PackIncremental(w)
    <3> DEFINE pack == PackObjectsRevs(RefTips(n), r.tips)
    <3>1. req'[w].packs = r.packs \cup {pack}
      BY <1>0, <2>2 DEF PackIncremental, Request
    <3>2. pack \subseteq objs[n]
      BY <2>2 DEF PackIncremental, CanPack, PackObjectsRevs
    <3> HIDE DEF pack
    <3> QED
      BY <1>0, <3>1, <3>2
  <2>3. CASE PackFull(w)
    <3> DEFINE pack == PackObjectsRevs(RefTips(n), {})
    <3>1. req'[w].packs = {pack}
      BY <1>0, <2>3 DEF PackFull, Request
    <3>2. pack \subseteq objs[n]
      BY <2>3 DEF PackFull, CanPack, PackObjectsRevs
    <3> HIDE DEF pack
    <3> QED
      BY <1>0, <3>1, <3>2
  <2>4. CASE ResolveTip(w)
    <3>1. PICK b \in Branches :
             req'[w] = [Idle EXCEPT !.pc = "resolved", !.branch = b, !.commit = upstream[b]]
      BY <1>0, <2>4 DEF ResolveTip
    <3>2. req'[w].packs = {}
      BY <3>1 DEF Idle
    <3> QED
      BY <3>2
  <2>5. CASE CheckLocal(w) \/ RecordVerifiedBranchRefs(w) \/ EnsureBranchManifests(w)
             \/ FetchBranch(w) \/ CheckExisting(w) \/ LocalGitFails(w)
    <3>1. req'[w] = Idle \/ req'[w].packs = r.packs
      BY <1>0, <2>5, ZenonT(60)
      DEF CheckLocal, RecordVerifiedBranchRefs, EnsureBranchManifests, FetchBranch, CheckExisting,
          LocalGitFails, Goto, Request
    <3> QED
      BY <1>0, <3>1
  <2>6. CASE SnapshotRefs(w) \/ UploadPack(w) \/ WriteGenerationManifest(w)
             \/ WriteCommitManifest(w) \/ WriteRefManifest(w) \/ ReadHeadVersion(w) \/ CasHead(w)
    <3>1. req'[w] = Idle \/ req'[w].packs = r.packs
      BY <1>0, <2>6, ZenonT(60)
      DEF SnapshotRefs, UploadPack, WriteGenerationManifest, WriteCommitManifest, WriteRefManifest,
          ReadHeadVersion, CasHead, Goto, Request
    <3> QED
      BY <1>0, <3>1
  <2> QED
    BY <2>1, <2>2, <2>3, <2>4, <2>5, <2>6 DEF Step
<1>5. \A v \in Workers : UNION req'[v].packs \subseteq Known
  BY <1>0, <1>4, StepGrows DEF ExactInv
<1> QED
  BY <1>1, <1>2, <1>3, <1>5 DEF UpstreamHasAll, GenObjects

\* Every step of a publish, with the answer that its last one is.
LEMMA PublishStepExact ==
    ASSUME OneWorkerPerNode, ExactInv, NEW w \in Workers, PublishStep(w)
    PROVE  ExactInv'
<1>0. /\ Step(w) /\ CompleteInv /\ CompleteInv' /\ UpstreamHasAll'
  BY StepComplete, StepKnown DEF PublishStep, ExactInv
<1>1. /\ RestorableGens \subseteq RestorableGens'
      /\ \A g \in RestorableGens : gens'[g] = gens[g]
      /\ \A n \in Nodes : n # NodeOf[w] => refs'[n] = refs[n]
      /\ \A v \in Workers : v # w => req'[v] = req[v]
  BY <1>0, StepGrows
<1>2. /\ req'[w].pc \notin ExactPhases
      /\ Promised(req'[w], Named')
      /\ \/ UNCHANGED <<commitGen, head>>
         \/ /\ req[w].pc = "commitManifests" /\ head' = head
            /\ \E c \in Commits \ Named : Named' = Named \cup {c}
         \/ /\ req[w].pc = "headCas" /\ commitGen' = commitGen
            /\ head'.tips = req[w].tips
  BY <1>0, StepPromises
<1>3. Named \subseteq Named'
  BY <1>2 DEF Named
<1>4. \A v \in Workers : Promised(req'[v], Named')
  BY <1>1, <1>2, <1>3, PromisedMonotone DEF ExactInv
<1>5. \A v \in Workers : ExactReady(req'[v], refs'[NodeOf[v]], RestorableGens', Objects')
  <2> SUFFICES ASSUME NEW v \in Workers
               PROVE  ExactReady(req'[v], refs'[NodeOf[v]], RestorableGens', Objects')
    OBVIOUS
  <2>1. CASE v = w
    <3>1. /\ req'[w].pc \notin ExactPhases
          /\ req'[w].pc \notin {"commitRefs", "headRefs", "index", "indexTips", "indexRefs", "indexWrite"}
      BY <1>2 DEF ExactPhases
    <3> QED
      BY <2>1, <3>1 DEF ExactReady
  <2>2. CASE v # w
    <3>1. req'[v] = req[v] /\ refs'[NodeOf[v]] = refs[NodeOf[v]]
      BY <1>1, <2>2, PublishAssumption DEF OneWorkerPerNode
    <3>2. \A g \in RestorableGens : Objects'[g] = Objects[g]
      BY <1>1 DEF Objects, GenObjects, RestorableGens
    <3>3. ExactReady(req[v], refs[NodeOf[v]], RestorableGens, Objects)
      BY DEF ExactInv
    <3> QED
      BY <1>1, <3>1, <3>2, <3>3 DEF ExactReady
  <2> QED
    BY <2>1, <2>2
<1>6. answered' \subseteq Named'
  <2>1. req[w].pc \in {"refManifest", "headRead", "headCas"} => req[w].commit \in Named
    BY DEF ExactInv, Promised
  <2>2. answered \subseteq Named
    BY DEF ExactInv
  <2> QED
    BY <1>3, <2>1, <2>2 DEF PublishStep, AnswerFor
<1>7. head'.tips \subseteq Named'
  <2>1. req[w].pc = "headCas" => req[w].tips \subseteq Named
    BY DEF ExactInv, Promised
  <2> QED
    BY <1>2, <1>3, <2>1 DEF ExactInv
<1> QED
  BY <1>0, <1>4, <1>5, <1>6, <1>7 DEF ExactInv


-----------------------------------------------------------------------------
(* Steps of exact-commit requests.                                         *)

\* A step that reads the store, or changes the repository of its own node.
LEMMA QuietStepExact ==
    ASSUME OneWorkerPerNode, ExactInv, NEW w \in Workers, NEW r2 \in Request, Become(w, r2),
           UNCHANGED <<store, nextGen, clock, upstream, faults>>,
           objs' \in [Nodes -> SUBSET Commits], refs' \in [Nodes -> RefSnapshot],
           \A n \in Nodes : n # NodeOf[w] => refs'[n] = refs[n],
           \A n \in Nodes : objs'[n] \subseteq Known,
           r2.packs = {} \/ r2.packs = req[w].packs,
           r2.pc \in ExactPhases \cup {"idle", "publish"},
           Promised(r2, Named),
           ExactReady(r2, refs'[NodeOf[w]], RestorableGens, Objects),
           r2.pc = "publish" =>
                /\ r2.tips = {}
                /\ \/ SnapTips(refs'[NodeOf[w]]) = {}
                   \/ r2.commit \in Closure(SnapTips(refs'[NodeOf[w]])),
           answered' \subseteq Named
    PROVE  ExactInv'
<1>0. /\ CompleteInv /\ DurableInv /\ FreshInv /\ TypeOK
      /\ UNCHANGED <<packAt, gens, commitGen, refGen, head>>
      /\ \A v \in Workers : v # w => req'[v] = req[v]
      /\ req'[w] = r2
  BY DEF ExactInv, CompleteInv, DurableInv, TypeOK, Become, store
<1>1. TypeOK'
  <2>1. req' \in [Workers -> Request]
    BY <1>0, BecomeType
  <2> QED
    BY <1>0, <2>1 DEF TypeOK, StoreTypeOK
<1>2. r2.pc \notin Building \cup {"commitManifests", "refManifest", "headRead", "headCas", "resolved",
                                 "record", "fetch", "manifests", "readHead"}
  BY DEF ExactPhases, Building
<1>3. Backed(r2, Present, RestorableGens) /\ CasOrdered(r2)
  BY <1>2 DEF Backed, CasOrdered, Building
<1>4. DurableInv'
  BY <1>0, <1>1, <1>3, QuietStepDurable
<1>5. FreshInv'
  BY <1>0, <1>2, QuietFresh
<1>6. Complete(r2, refs'[NodeOf[w]], Objects)
  BY <1>2 DEF Complete, Building
<1>7. CompleteInv'
  BY <1>0, <1>4, <1>5, <1>6, QuietStepComplete
<1>8. Known' = Known /\ Named' = Named /\ Objects' = Objects /\ RestorableGens' = RestorableGens
  BY <1>0, StoreUnchanged DEF Known, UpstreamTips, Closure, Named, Objects, GenObjects
<1>9. UpstreamHasAll'
  <2>1. \A v \in Workers : UNION req'[v].packs \subseteq Known
    BY <1>0 DEF ExactInv, UpstreamHasAll
  <2>2. \A g \in Gens : GenObjects(g)' \subseteq Known
    BY <1>0 DEF ExactInv, UpstreamHasAll, GenObjects
  <2> QED
    BY <1>8, <2>1, <2>2 DEF UpstreamHasAll
<1>10. \A v \in Workers : Promised(req'[v], Named')
  BY <1>0, <1>8 DEF ExactInv
<1>11. \A v \in Workers : ExactReady(req'[v], refs'[NodeOf[v]], RestorableGens', Objects')
  <2>1. \A v \in Workers : v # w => refs'[NodeOf[v]] = refs[NodeOf[v]]
    BY PublishAssumption DEF OneWorkerPerNode
  <2> QED
    BY <1>0, <1>8, <2>1 DEF ExactInv
<1>12. head'.tips \subseteq Named'
  BY <1>0, <1>8 DEF ExactInv
<1> QED
  BY <1>7, <1>8, <1>9, <1>10, <1>11, <1>12 DEF ExactInv

\* A request that fails leaves nothing behind.
LEMMA FailsExact ==
    ASSUME OneWorkerPerNode, ExactInv, NEW w \in Workers, Fails(w),
           UNCHANGED <<store, nextGen, clock, upstream, nodeVars, faults>>
    PROVE  ExactInv'
<1>1. /\ objs' = objs /\ refs' = refs /\ answered' = answered /\ answered \subseteq Named
      /\ objs \in [Nodes -> SUBSET Commits] /\ refs \in [Nodes -> RefSnapshot]
      /\ \A n \in Nodes : objs[n] \subseteq Known
      /\ Become(w, Idle)
  BY DEF Fails, nodeVars, ExactInv, CompleteInv, DurableInv, TypeOK, UpstreamHasAll
<1>2. Idle \in Request /\ Idle.pc = "idle"
  BY IdleType DEF Idle
<1>3. Promised(Idle, Named) /\ ExactReady(Idle, refs[NodeOf[w]], RestorableGens, Objects)
      /\ Idle.packs = {}
  BY IdleExact
<1> QED
  BY <1>1, <1>2, <1>3, QuietStepExact

\* The generation of a commit that descends from c can be restored and holds the
\* history of c: what an index rests on, whenever the manifest was read.
LEMMA KnownGenerationHolds ==
    ASSUME ExactInv, NEW c \in Commits, NEW t \in Commits, c \in Anc[t], commitGen[t] # 0
    PROVE  commitGen[t] \in RestorableGens /\ Anc[c] \subseteq Objects[commitGen[t]]
<1>1. /\ CompleteManifests
      /\ \A d \in Commits : commitGen[d] # 0 => commitGen[d] \in RestorableGens
  BY PointersRestorable DEF ExactInv, CompleteInv, DurableInv
<1>2. Anc[c] \subseteq Anc[t]
  BY HistoryAssumption
<1>3. Anc[t] \subseteq GenObjects(commitGen[t]) /\ commitGen[t] \in RestorableGens
  BY <1>1 DEF CompleteManifests
<1> QED
  BY <1>2, <1>3 DEF Objects, RestorableGens


\* What all heads of upstream bring is known upstream, and the refs then name
\* upstream's tips (fetch_all_refs).
LEMMA FetchAllKnown ==
    ASSUME ExactInv, NEW w \in Workers, FetchAllHeads(NodeOf[w])
    PROVE  /\ objs' \in [Nodes -> SUBSET Commits] /\ refs' \in [Nodes -> RefSnapshot]
           /\ \A n \in Nodes : n # NodeOf[w] => refs'[n] = refs[n]
           /\ \A n \in Nodes : objs'[n] \subseteq Known
           /\ SnapTips(refs'[NodeOf[w]]) = UpstreamTips
           /\ Known \subseteq Commits
<1>0. TypeOK /\ NodeOf[w] \in Nodes /\ upstream \in [Branches -> Commits]
  BY PublishAssumption DEF ExactInv, CompleteInv, DurableInv, TypeOK
<1>1. UpstreamTips \in SUBSET Commits
  BY <1>0 DEF UpstreamTips
<1>2. Known \in SUBSET Commits
  BY <1>1, ClosureType DEF Known
<1>3. \A n \in Nodes : objs[n] \subseteq Known
  BY DEF ExactInv, UpstreamHasAll
<1>4. objs' = [objs EXCEPT ![NodeOf[w]] = objs[NodeOf[w]] \cup (Known \ Closure(RefTips(NodeOf[w])))]
  BY DEF FetchAllHeads, Known
<1>5. \A n \in Nodes : objs'[n] \subseteq Known
  BY <1>0, <1>3, <1>4 DEF TypeOK
<1>6. objs' \in [Nodes -> SUBSET Commits]
  BY <1>0, <1>2, <1>4 DEF TypeOK
<1>7. /\ refs' = [refs EXCEPT ![NodeOf[w]] = upstream]
      /\ upstream \in RefSnapshot
  BY <1>0 DEF FetchAllHeads, RefSnapshot
<1>8. /\ refs' \in [Nodes -> RefSnapshot] /\ refs'[NodeOf[w]] = upstream
      /\ \A n \in Nodes : n # NodeOf[w] => refs'[n] = refs[n]
  BY <1>0, <1>7 DEF TypeOK
<1>9. SnapTips(upstream) = UpstreamTips
  BY <1>0, HistoryAssumption DEF SnapTips, UpstreamTips
<1> QED
  BY <1>2, <1>5, <1>6, <1>8, <1>9

\* No generation is a value a request may carry.
LEMMA NoGeneration == 0 \in GenOrNone
BY BoundsAssumption DEF GenOrNone

\* The three callers of the index path.
LEMMA LookUpExact ==
    ASSUME OneWorkerPerNode, ExactInv, NEW w \in Workers, NEW from \in {"local", "hydrated", "fetched"},
           LookUp(w, from), req[w].tips = {},
           UNCHANGED <<store, nextGen, clock, upstream, faults>>,
           objs' \in [Nodes -> SUBSET Commits], refs' \in [Nodes -> RefSnapshot],
           \A n \in Nodes : n # NodeOf[w] => refs'[n] = refs[n],
           \A n \in Nodes : objs'[n] \subseteq Known,
           from = "fetched" => req[w].commit \in Closure(SnapTips(refs'[NodeOf[w]]))
    PROVE  ExactInv'
<1> DEFINE r == req[w]
           r2 == [r EXCEPT !.pc = "index", !.from = from, !.gen = 0]
<1>1. r \in Request /\ answered \subseteq Named
  BY DEF ExactInv, CompleteInv, DurableInv, TypeOK
<1>2. /\ r2 \in Request /\ r2.pc = "index" /\ r2.from = from /\ r2.packs = r.packs
      /\ r2.tips = {} /\ r2.commit = r.commit
  BY <1>1, NoGeneration DEF Request, ExactPhases
<1>3. Become(w, r2) /\ answered' = answered
  BY DEF LookUp
<1> HIDE DEF r2
<1>4. Promised(r2, Named) /\ ExactReady(r2, refs'[NodeOf[w]], RestorableGens, Objects)
  BY <1>2 DEF Promised, ExactReady
<1>5. r2.pc \in ExactPhases /\ r2.pc # "publish"
  BY <1>2 DEF ExactPhases
<1> QED
  BY <1>1, <1>2, <1>3, <1>4, <1>5, QuietStepExact

\* The request is between the phases of an index, and nothing but the request
\* itself changes.
Looks(w) ==
    /\ req[w].pc \in {"index", "indexTips", "indexRefs"}
    /\ UNCHANGED <<store, nextGen, clock, upstream, faults, objs, refs, answered>>

\* It reads something.
LEMMA LooksOn ==
    ASSUME OneWorkerPerNode, ExactInv, NEW w \in Workers, Looks(w),
           NEW pc \in {"indexTips", "indexRefs"}, NEW seen \in HeadRecord,
           NEW todo \in SUBSET Commits, pc = "indexTips" => seen.gen # 0,
           pc = "indexRefs" => \A t \in todo : req[w].commit \in Anc[t],
           Become(w, [req[w] EXCEPT !.pc = pc, !.seen = seen, !.todo = todo])
    PROVE  ExactInv'
<1> DEFINE r == req[w]
           r2 == [r EXCEPT !.pc = pc, !.seen = seen, !.todo = todo]
<1>1. /\ r \in Request /\ answered \subseteq Named /\ r.tips = {}
      /\ ExactReady(r, refs[NodeOf[w]], RestorableGens, Objects)
      /\ objs \in [Nodes -> SUBSET Commits] /\ refs \in [Nodes -> RefSnapshot]
      /\ \A n \in Nodes : objs[n] \subseteq Known
  BY DEF ExactInv, CompleteInv, DurableInv, TypeOK, UpstreamHasAll, ExactReady, ExactPhases, Looks
<1>2. /\ r2 \in Request /\ r2.pc = pc /\ r2.from = r.from /\ r2.packs = r.packs
      /\ r2.tips = {} /\ r2.commit = r.commit /\ r2.seen = seen /\ r2.todo = todo
  <2>1. pc \in Phases \cup ExactPhases
    BY DEF ExactPhases
  <2> QED
    BY <1>1, <2>1 DEF Request
<1> HIDE DEF r2
<1>3. Promised(r2, Named) /\ ExactReady(r2, refs[NodeOf[w]], RestorableGens, Objects)
  BY <1>1, <1>2 DEF Promised, ExactReady, Looks
<1>4. r2.pc \in ExactPhases /\ r2.pc # "publish"
  BY <1>2 DEF ExactPhases
<1>5. Become(w, r2)
  BY DEF r2
<1> QED
  BY <1>1, <1>2, <1>3, <1>4, <1>5, QuietStepExact DEF Looks

\* It has found a generation.
LEMMA IndexInExact ==
    ASSUME OneWorkerPerNode, ExactInv, NEW w \in Workers, Looks(w),
           NEW g \in RestorableGens, Anc[req[w].commit] \subseteq Objects[g], IndexIn(w, g)
    PROVE  ExactInv'
<1> DEFINE r == req[w]
           r2 == [r EXCEPT !.pc = "indexWrite", !.gen = g, !.from = "local",
                           !.seen = NoHead, !.todo = {}]
<1>1. /\ r \in Request /\ answered \subseteq Named /\ r.tips = {}
      /\ objs \in [Nodes -> SUBSET Commits] /\ refs \in [Nodes -> RefSnapshot]
      /\ \A n \in Nodes : objs[n] \subseteq Known
  BY DEF ExactInv, CompleteInv, DurableInv, TypeOK, UpstreamHasAll, ExactReady, ExactPhases, Looks
<1>2. /\ r2 \in Request /\ r2.pc = "indexWrite" /\ r2.gen = g /\ r2.packs = r.packs
      /\ r2.tips = {} /\ r2.commit = r.commit
  <2>1. "indexWrite" \in Phases \cup ExactPhases
    BY DEF ExactPhases
  <2>2. g \in GenOrNone /\ NoHead \in HeadRecord
    BY BoundsAssumption DEF RestorableGens, Gens, GenOrNone, NoHead, HeadRecord, Time
  <2> QED
    BY <1>1, <2>1, <2>2 DEF Request
<1>3. Become(w, r2)
  BY DEF IndexIn
<1> HIDE DEF r2
<1>4. Promised(r2, Named) /\ ExactReady(r2, refs[NodeOf[w]], RestorableGens, Objects)
  BY <1>2 DEF Promised, ExactReady
<1>5. r2.pc \in ExactPhases /\ r2.pc # "publish"
  BY <1>2 DEF ExactPhases
<1> QED
  BY <1>1, <1>2, <1>3, <1>4, <1>5, QuietStepExact DEF Looks

\* It has found none.
LEMMA IndexMissesExact ==
    ASSUME OneWorkerPerNode, ExactInv, NEW w \in Workers, Looks(w), IndexMisses(w)
    PROVE  ExactInv'
<1> DEFINE r == req[w]
           r2(pc) == [r EXCEPT !.pc = pc, !.from = "local", !.seen = NoHead, !.todo = {}]
<1>1. /\ r \in Request /\ answered \subseteq Named /\ r.tips = {}
      /\ ExactReady(r, refs[NodeOf[w]], RestorableGens, Objects)
      /\ objs \in [Nodes -> SUBSET Commits] /\ refs \in [Nodes -> RefSnapshot]
      /\ \A n \in Nodes : objs[n] \subseteq Known
  BY DEF ExactInv, CompleteInv, DurableInv, TypeOK, UpstreamHasAll, ExactReady, ExactPhases, Looks
<1>2. r.from \in {"local", "hydrated", "fetched"}
  BY <1>1 DEF Request
<1>3. PICK pc \in {"fetchAll", "local", "publish"} :
         Become(w, r2(pc)) /\ (pc = "publish" => r.from = "fetched")
  BY <1>2 DEF IndexMisses
<1>4. /\ r2(pc) \in Request /\ r2(pc).pc = pc /\ r2(pc).packs = r.packs /\ r2(pc).tips = {}
      /\ r2(pc).commit = r.commit
  <2>1. pc \in Phases \cup ExactPhases
    BY DEF Phases, ExactPhases
  <2>2. NoHead \in HeadRecord
    BY BoundsAssumption DEF NoHead, HeadRecord, GenOrNone, Time
  <2> QED
    BY <1>1, <2>1, <2>2 DEF Request
<1> HIDE DEF r2
<1>5. Promised(r2(pc), Named) /\ ExactReady(r2(pc), refs[NodeOf[w]], RestorableGens, Objects)
  BY <1>4 DEF Promised, ExactReady
<1>6. r2(pc).pc \in ExactPhases \cup {"publish"}
  BY <1>4 DEF ExactPhases
<1>7. pc = "publish" =>
         \/ SnapTips(refs[NodeOf[w]]) = {}
         \/ r.commit \in Closure(SnapTips(refs[NodeOf[w]]))
  BY <1>1, <1>3 DEF ExactReady, Looks
<1> QED
  BY <1>1, <1>3, <1>4, <1>5, <1>6, <1>7, QuietStepExact DEF Looks

\* index_local_commit_from_known_generation, up to the write.
LEMMA IndexStepsExact ==
    ASSUME OneWorkerPerNode, ExactInv, NEW w \in Workers,
           IndexReadHead(w) \/ IndexFromHead(w) \/ IndexListRefs(w) \/ IndexFromRef(w)
    PROVE  ExactInv'
<1> DEFINE r == req[w]
           n == NodeOf[w]
<1>0. /\ TypeOK /\ r \in Request /\ n \in Nodes /\ r.todo \in SUBSET Commits
      /\ r.seen \in HeadRecord /\ r.commit \in Commits
      /\ head \in HeadRecord /\ head.tips \in SUBSET Commits /\ NoHead \in HeadRecord
  BY PublishAssumption, BoundsAssumption
  DEF ExactInv, CompleteInv, DurableInv, TypeOK, StoreTypeOK, Request, HeadRecord, NoHead,
      GenOrNone, Time
<1>1. CASE IndexReadHead(w)
  <2>1. CASE head.gen = 0
    <3>1. Looks(w) /\ IndexMisses(w)
      BY <1>1, <2>1 DEF IndexReadHead, IndexMisses, Looks, nodeVars
    <3> QED
      BY <3>1, IndexMissesExact
  <2>2. CASE head.gen # 0
    <3>1. Looks(w) /\ Become(w, [r EXCEPT !.pc = "indexTips", !.seen = head, !.todo = head.tips])
      BY <1>1, <2>2 DEF IndexReadHead, Looks, nodeVars
    <3> QED
      BY <1>0, <2>2, <3>1, LooksOn
  <2> QED
    BY <2>1, <2>2
<1>2. CASE IndexFromHead(w)
  <2>1. Looks(w) /\ r.pc = "indexTips" /\ r.seen.gen # 0
    BY <1>2 DEF IndexFromHead, Looks, nodeVars, ExactInv, ExactReady
  <2>2. PICK t \in r.todo :
           IF commitGen[t] = r.seen.gen /\ t \in objs[n] /\ r.commit \in Anc[t]
           THEN IndexIn(w, r.seen.gen)
           ELSE Become(w, [r EXCEPT !.todo = @ \ {t}])
    BY <1>2 DEF IndexFromHead
  <2>3. CASE commitGen[t] = r.seen.gen /\ t \in objs[n] /\ r.commit \in Anc[t]
    <3>1. commitGen[t] # 0
      BY <2>1, <2>3
    <3> QED
      BY <1>0, <2>1, <2>2, <2>3, <3>1, KnownGenerationHolds, IndexInExact
  <2>4. CASE ~(commitGen[t] = r.seen.gen /\ t \in objs[n] /\ r.commit \in Anc[t])
    <3>1. [r EXCEPT !.todo = @ \ {t}] =
             [r EXCEPT !.pc = "indexTips", !.seen = r.seen, !.todo = r.todo \ {t}]
      BY <1>0, <2>1 DEF Request
    <3>2. Become(w, [r EXCEPT !.pc = "indexTips", !.seen = r.seen, !.todo = r.todo \ {t}])
      BY <2>2, <2>4, <3>1
    <3>3. r.todo \ {t} \in SUBSET Commits
      BY <1>0
    <3> QED
      BY <1>0, <2>1, <3>2, <3>3, LooksOn
  <2> QED
    BY <2>3, <2>4
<1>3. CASE IndexListRefs(w)
  <2>1. CASE r.commit \in objs[n]
    <3> DEFINE found == {t \in RefTips(n) \ r.seen.tips : r.commit \in Anc[t]}
    <3>1. Looks(w) /\ Become(w, [r EXCEPT !.pc = "indexRefs", !.seen = NoHead, !.todo = found])
      BY <1>3, <2>1 DEF IndexListRefs, Looks, nodeVars
    <3>2. found \in SUBSET Commits /\ \A t \in found : r.commit \in Anc[t]
      BY <1>0, RefTipsType
    <3> HIDE DEF found
    <3> QED
      BY <1>0, <3>1, <3>2, LooksOn
  <2>2. CASE r.commit \notin objs[n]
    BY <1>3, <2>2, FailsExact DEF IndexListRefs, nodeVars
  <2> QED
    BY <2>1, <2>2
<1>4. CASE IndexFromRef(w)
  <2>1. CASE IndexMisses(w)
    <3>1. Looks(w)
      BY <1>4, <2>1 DEF IndexFromRef, IndexMisses, Looks, nodeVars
    <3> QED
      BY <2>1, <3>1, IndexMissesExact
  <2>2. CASE ~IndexMisses(w)
    <3>1. Looks(w) /\ r.pc = "indexRefs" /\ \A t \in r.todo : r.commit \in Anc[t]
      BY <1>4, <2>2 DEF IndexFromRef, Looks, nodeVars, ExactInv, ExactReady
    <3>2. PICK t \in r.todo :
             IF commitGen[t] # 0 THEN IndexIn(w, commitGen[t])
             ELSE Become(w, [r EXCEPT !.todo = @ \ {t}])
      BY <1>4, <2>2 DEF IndexFromRef
    <3>3. CASE commitGen[t] # 0
      <4>1. t \in Commits /\ r.commit \in Anc[t] /\ IndexIn(w, commitGen[t])
        BY <1>0, <3>1, <3>2, <3>3
      <4>2. commitGen[t] \in RestorableGens /\ Anc[r.commit] \subseteq Objects[commitGen[t]]
        BY <1>0, <3>3, <4>1, KnownGenerationHolds
      <4> QED
        BY <3>1, <4>1, <4>2, IndexInExact
    <3>4. CASE commitGen[t] = 0
      <4>1. [r EXCEPT !.todo = @ \ {t}] =
               [r EXCEPT !.pc = "indexRefs", !.seen = r.seen, !.todo = r.todo \ {t}]
        BY <1>0, <3>1 DEF Request
      <4>2. Become(w, [r EXCEPT !.pc = "indexRefs", !.seen = r.seen, !.todo = r.todo \ {t}])
        BY <3>2, <3>4, <4>1
      <4>3. r.todo \ {t} \in SUBSET Commits /\ \A u \in r.todo \ {t} : r.commit \in Anc[u]
        BY <1>0, <3>1
      <4> QED
        BY <1>0, <3>1, <4>2, <4>3, LooksOn
    <3> QED
      BY <3>3, <3>4
  <2> QED
    BY <2>1, <2>2
<1> QED
  BY <1>1, <1>2, <1>3, <1>4

\* Every step of an exact-commit request keeps the invariant.
LEMMA ExactStepExact ==
    ASSUME OneWorkerPerNode, ExactInv, NEW w \in Workers, ExactStep(w)
    PROVE  ExactInv'
<1> DEFINE r == req[w]
           n == NodeOf[w]
<1>0. /\ TypeOK /\ r \in Request /\ n \in Nodes /\ Idle \in Request
      /\ req \in [Workers -> Request]
      /\ objs \in [Nodes -> SUBSET Commits] /\ refs \in [Nodes -> RefSnapshot]
      /\ \A m \in Nodes : objs[m] \subseteq Known
      /\ Promised(r, Named) /\ answered \subseteq Named
      /\ ExactReady(r, refs[n], RestorableGens, Objects)
      /\ Promised(Idle, Named) /\ Idle.packs = {} /\ Idle.pc = "idle" /\ Idle.tips = {}
      /\ \A L : ExactReady(Idle, L, RestorableGens, Objects)
  BY PublishAssumption, IdleType, IdleExact
  DEF ExactInv, CompleteInv, DurableInv, TypeOK, UpstreamHasAll, Idle
<1>r. r \in Request
  BY <1>0
<1>1. CASE ReadCommitManifest(w)
  <2> DEFINE q(c) == [Idle EXCEPT !.commit = c, !.exact = TRUE]
             q1(c) == [q(c) EXCEPT !.pc = "local"]
             q2(c) == [q(c) EXCEPT !.pc = "hydrateCommit", !.gen = commitGen[c]]
  <2>0. /\ r.pc = "idle" /\ UNCHANGED <<store, nextGen, clock, upstream, faults, objs, refs>>
    BY <1>1 DEF ReadCommitManifest, nodeVars
  <2>1. PICK c \in Commits :
           IF commitGen[c] # 0 /\ c \in objs[n]
           THEN answered' = answered \cup {c} /\ UNCHANGED req
           ELSE /\ Become(w, IF commitGen[c] = 0 THEN q1(c) ELSE q2(c))
                /\ UNCHANGED answered
    BY <1>1 DEF ReadCommitManifest
  <2>2. CASE commitGen[c] # 0 /\ c \in objs[n]
    <3>1. Become(w, r) /\ r.pc = "idle" /\ answered' \subseteq Named
      BY <1>0, <2>0, <2>1, <2>2 DEF Become, Named
    <3> QED
      BY <1>0, <2>0, <3>1, QuietStepExact
  <2>3. CASE commitGen[c] = 0
    <3>1. /\ q1(c) \in Request /\ q1(c).pc = "local" /\ q1(c).packs = {} /\ q1(c).tips = {}
      BY <1>0 DEF Request, ExactPhases
    <3>2. Become(w, q1(c)) /\ answered' = answered
      BY <2>1, <2>3
    <3> HIDE DEF q1
    <3>3. Promised(q1(c), Named) /\ ExactReady(q1(c), refs[n], RestorableGens, Objects)
      BY <3>1 DEF Promised, ExactReady
    <3>4. q1(c).pc \in ExactPhases /\ q1(c).pc # "publish"
      BY <3>1 DEF ExactPhases
    <3> QED
      BY <1>0, <2>0, <3>1, <3>2, <3>3, <3>4, QuietStepExact
  <2>4. CASE commitGen[c] # 0 /\ c \notin objs[n]
    <3>1. /\ q2(c) \in Request /\ q2(c).pc = "hydrateCommit" /\ q2(c).packs = {}
          /\ q2(c).tips = {} /\ q2(c).commit = c
      BY <1>0 DEF Request, ExactPhases, TypeOK, StoreTypeOK
    <3>2. Become(w, q2(c)) /\ answered' = answered
      BY <2>1, <2>4
    <3> HIDE DEF q2
    <3>3. Promised(q2(c), Named) /\ ExactReady(q2(c), refs[n], RestorableGens, Objects)
      BY <2>4, <3>1 DEF Promised, ExactReady, Named
    <3>4. q2(c).pc \in ExactPhases /\ q2(c).pc # "publish"
      BY <3>1 DEF ExactPhases
    <3> QED
      BY <1>0, <2>0, <3>1, <3>2, <3>3, <3>4, QuietStepExact
  <2> QED
    BY <2>2, <2>3, <2>4
<1>2. CASE CheckExactLocal(w)
  <2>0. CASE LookUp(w, "local")
    <3>1. /\ r.tips = {} /\ UNCHANGED <<store, nextGen, clock, upstream, faults, objs, refs>>
      BY <1>0, <1>2 DEF CheckExactLocal, ExactReady, ExactPhases, nodeVars
    <3> QED
      BY <1>0, <2>0, <3>1, LookUpExact
  <2> SUFFICES ASSUME ~LookUp(w, "local") PROVE ExactInv'
    BY <2>0
  <2>1. PICK r2 :
           /\ Become(w, r2)
           /\ \/ r2 = [r EXCEPT !.pc = "fetchAll", !.gen = 0]
              \/ r2 = [r EXCEPT !.pc = "hydrateHead", !.gen = head.gen]
    BY <1>2 DEF CheckExactLocal, Continue
  <2>2. /\ r2 \in Request /\ r2.pc \in {"fetchAll", "hydrateHead"}
        /\ r2.packs = r.packs /\ r2.tips = r.tips
    <3>2. CASE r2 = [r EXCEPT !.pc = "fetchAll", !.gen = 0]
      BY <1>0, <3>2, NoGeneration DEF Request, ExactPhases
    <3>3. CASE r2 = [r EXCEPT !.pc = "hydrateHead", !.gen = head.gen]
      <4>1. head.gen \in GenOrNone
        BY <1>0 DEF TypeOK, StoreTypeOK, HeadRecord
      <4>2. "hydrateHead" \in Phases \cup ExactPhases
        BY DEF ExactPhases
      <4> QED
        BY <1>r, <3>3, <4>1, <4>2 DEF Request
    <3> QED
      BY <2>1, <3>2, <3>3
  <2>3. r.tips = {} /\ UNCHANGED <<store, nextGen, clock, upstream, faults, objs, refs, answered>>
    BY <1>0, <1>2 DEF CheckExactLocal, Continue, ExactReady, ExactPhases, nodeVars
  <2>4. Promised(r2, Named) /\ ExactReady(r2, refs[n], RestorableGens, Objects)
    BY <2>2, <2>3 DEF Promised, ExactReady
  <2>5. r2.pc \in ExactPhases /\ r2.pc # "publish"
    BY <2>2 DEF ExactPhases
  <2> QED
    BY <1>0, <2>1, <2>2, <2>3, <2>4, <2>5, QuietStepExact
<1>3. CASE HydratePacks(w)
  <2> DEFINE r2 == [r EXCEPT !.pc = IF r.pc = "hydrateCommit" THEN "commitRefs" ELSE "headRefs"]
  <2>1. /\ Become(w, r2) /\ r.pc \in {"hydrateCommit", "hydrateHead"} /\ r.gen \in RestorableGens
        /\ UNCHANGED <<store, nextGen, clock, upstream, faults, refs, answered>>
        /\ objs' = [objs EXCEPT ![n] = @ \cup GenObjects(r.gen)]
    BY <1>3 DEF HydratePacks, Goto, RestorableGens, Restorable, GenPresent
  <2>2. /\ r2 \in Request /\ r2.pc \in {"commitRefs", "headRefs"}
        /\ r2.pc = "commitRefs" => r.pc = "hydrateCommit"
        /\ r2.packs = r.packs /\ r2.tips = r.tips /\ r2.commit = r.commit /\ r2.gen = r.gen
    BY <1>0 DEF Request, ExactPhases
  <2> HIDE DEF r2
  <2>3. r.tips = {}
    BY <1>0, <2>1 DEF ExactReady, ExactPhases
  <2>4. r2.pc = "commitRefs" => r.commit \in Named
    BY <1>0, <2>2 DEF Promised
  <2>5. Promised(r2, Named) /\ ExactReady(r2, refs[n], RestorableGens, Objects)
    BY <2>1, <2>2, <2>3, <2>4 DEF Promised, ExactReady
  <2>6. r2.pc \in ExactPhases /\ r2.pc # "publish"
    BY <2>2 DEF ExactPhases
  <2>7. GenObjects(r.gen) \subseteq Known /\ GenObjects(r.gen) \subseteq Commits
    BY <1>0, <2>1 DEF ExactInv, UpstreamHasAll, RestorableGens, GenObjects, TypeOK, StoreTypeOK,
       GenManifest, Pack
  <2>8. objs' \in [Nodes -> SUBSET Commits] /\ \A m \in Nodes : objs'[m] \subseteq Known
    BY <1>0, <2>1, <2>7
  <2> QED
    BY <1>0, <2>1, <2>2, <2>5, <2>6, <2>8, QuietStepExact
<1>4. CASE ApplyRefSnapshot(w)
  <2> DEFINE snap == gens[r.gen].refs
             q(pc) == [r EXCEPT !.pc = pc, !.gen = 0]
  <2>1. /\ r.pc \in {"commitRefs", "headRefs"}
        /\ UNCHANGED <<store, nextGen, clock, upstream, faults, objs>>
        /\ \/ refs' = refs
           \/ refs' = [refs EXCEPT ![n] =
                 [b \in Branches |-> IF b \in {e \in Branches : snap[e] # NoCommit}
                                     THEN snap[b] ELSE refs[n][b]]]
        /\ \/ Succeed(w) /\ r.pc = "commitRefs"
           \/ Fails(w)
           \/ LookUp(w, "hydrated")
           \/ \E pc \in {"local", "fetchAll"} : Continue(w, pc)
    BY <1>4 DEF ApplyRefSnapshot
  <2>2. r.tips = {} /\ r.gen \in Gens
    BY <1>0, <2>1 DEF ExactReady, ExactPhases, RestorableGens
  <2>3. snap \in RefSnapshot
    BY <1>0, <2>2 DEF TypeOK, StoreTypeOK, GenManifest
  <2>4. /\ refs' \in [Nodes -> RefSnapshot]
        /\ \A m \in Nodes : m # n => refs'[m] = refs[m]
    <3> HIDE DEF snap
    <3>1. [b \in Branches |-> IF b \in {e \in Branches : snap[e] # NoCommit}
                                     THEN snap[b] ELSE refs[n][b]] \in RefSnapshot
      BY <1>0, <2>3 DEF RefSnapshot
    <3> QED
      BY <1>0, <2>1, <3>1
  <2>5. CASE Succeed(w) /\ r.pc = "commitRefs"
    <3>1. Become(w, Idle) /\ answered' \subseteq Named
      BY <1>0, <2>5 DEF Succeed, AnswerFor, Promised
    <3> QED
      BY <1>0, <2>1, <2>4, <3>1, QuietStepExact
  <2>6. CASE Fails(w)
    BY <1>0, <2>1, <2>4, <2>6, QuietStepExact DEF Fails
  <2>7. ASSUME NEW pc \in {"local", "fetchAll"}, Continue(w, pc)
        PROVE  ExactInv'
    <3>1. /\ q(pc) \in Request /\ q(pc).pc = pc /\ q(pc).packs = r.packs /\ q(pc).tips = {}
      <4>1. pc \in Phases \cup ExactPhases
        BY DEF ExactPhases
      <4> QED
        BY <1>r, <2>2, <4>1, NoGeneration DEF Request
    <3>2. Become(w, q(pc)) /\ answered' = answered
      BY <2>7 DEF Continue
    <3> HIDE DEF q
    <3>3. Promised(q(pc), Named) /\ ExactReady(q(pc), refs'[n], RestorableGens, Objects)
      BY <3>1 DEF Promised, ExactReady
    <3>4. q(pc).pc \in ExactPhases /\ q(pc).pc # "publish"
      BY <3>1 DEF ExactPhases
    <3> QED
      BY <1>0, <2>1, <2>4, <3>1, <3>2, <3>3, <3>4, QuietStepExact
  <2>8. CASE LookUp(w, "hydrated")
    BY <1>0, <2>1, <2>2, <2>4, <2>8, LookUpExact
  <2> QED
    BY <2>1, <2>5, <2>6, <2>7, <2>8
<1>5. CASE HydrateUnavailable(w)
  <2>1. PICK r2 :
           /\ Become(w, r2)
           /\ \/ r2 = [r EXCEPT !.pc = "local", !.gen = 0]
              \/ r2 = [r EXCEPT !.pc = "fetchAll", !.parent = FALSE, !.gen = 0]
    BY <1>5 DEF HydrateUnavailable, Continue
  <2>2. /\ r2 \in Request /\ r2.pc \in {"local", "fetchAll"}
        /\ r2.packs = r.packs /\ r2.tips = r.tips
    <3>1. {"local", "fetchAll"} \subseteq Phases \cup ExactPhases
      BY DEF ExactPhases
    <3>2. CASE r2 = [r EXCEPT !.pc = "local", !.gen = 0]
      BY <1>r, <3>1, <3>2, NoGeneration DEF Request
    <3>3. CASE r2 = [r EXCEPT !.pc = "fetchAll", !.parent = FALSE, !.gen = 0]
      BY <1>0, <3>1, <3>3, NoGeneration DEF Request
    <3> QED
      BY <2>1, <3>2, <3>3
  <2>3. r.tips = {} /\ UNCHANGED <<store, nextGen, clock, upstream, faults, objs, refs, answered>>
    BY <1>0, <1>5 DEF HydrateUnavailable, Continue, ExactReady, ExactPhases, nodeVars
  <2>4. Promised(r2, Named) /\ ExactReady(r2, refs[n], RestorableGens, Objects)
    BY <2>2, <2>3 DEF Promised, ExactReady
  <2>5. r2.pc \in ExactPhases /\ r2.pc # "publish"
    BY <2>2 DEF ExactPhases
  <2> QED
    BY <1>0, <2>1, <2>2, <2>3, <2>4, <2>5, QuietStepExact
<1>6. CASE IndexReadHead(w) \/ IndexFromHead(w) \/ IndexListRefs(w) \/ IndexFromRef(w)
  BY <1>6, IndexStepsExact
<1>7. CASE IndexLocalCommit(w)
  <2>1. /\ r.pc = "indexWrite" /\ r.commit \in Commits
        /\ commitGen' = [commitGen EXCEPT ![r.commit] = r.gen]
        /\ Become(w, Idle) /\ answered' = answered \cup {r.commit}
        /\ UNCHANGED <<packAt, gens, refGen, head, nextGen, clock, upstream, objs, refs, faults>>
    BY <1>0, <1>7 DEF IndexLocalCommit, Succeed, AnswerFor, nodeVars, Request
  <2>2. r.gen \in RestorableGens /\ Anc[r.commit] \subseteq Objects[r.gen]
    BY <1>0, <2>1 DEF ExactReady
  <2>3. r.gen \in Gens /\ r.gen # 0 /\ r.gen \in GenOrNone
    BY <2>2, BoundsAssumption DEF RestorableGens, Gens, GenOrNone
  <2>4. TypeOK'
    <3>1. req' \in [Workers -> Request]
      BY <1>0, <2>1, BecomeType
    <3> QED
      BY <1>0, <2>1, <2>3, <3>1 DEF TypeOK, StoreTypeOK
  <2>5. /\ Present' = Present /\ RestorableGens' = RestorableGens /\ Objects' = Objects
        /\ Known' = Known
    BY <2>1, StoreUnchanged DEF Objects, GenObjects, Known, UpstreamTips, Closure
  <2>6. Named' = Named \cup {r.commit}
    BY <1>0, <2>1, <2>3 DEF Named, TypeOK, StoreTypeOK
  <2>7. DurableInv'
    <3>1. DurablePointers'
      <4>1. \A c \in Commits : commitGen'[c] # 0 => commitGen'[c] \in RestorableGens
        BY <1>0, <2>1, <2>2, PointersRestorable
        DEF ExactInv, CompleteInv, DurableInv, TypeOK, StoreTypeOK
      <4>2. \A b \in Branches : refGen'[b].gen # 0 => refGen'[b].gen \in RestorableGens
        BY <1>0, <2>1, PointersRestorable DEF ExactInv, CompleteInv, DurableInv
      <4>3. head'.gen # 0 => head'.gen \in RestorableGens
        BY <1>0, <2>1, PointersRestorable DEF ExactInv, CompleteInv, DurableInv
      <4> QED
        BY <2>4, <2>5, <4>1, <4>2, <4>3, PointersRestorable
        DEF DurablePointers, RestorableGens, Restorable, GenPresent, PackPresent
    <3>2. /\ \A v \in Workers : Backed(req'[v], Present', RestorableGens')
          /\ \A v \in Workers : CasOrdered(req'[v])
      BY <2>1, <2>5, IdleBacked, BecomeBacked DEF ExactInv, CompleteInv
    <3> QED
      BY <2>1, <2>4, <3>1, <3>2 DEF DurableInv, ExactInv, CompleteInv
  <2>8. FreshInv'
    BY <1>0, <2>1, QuietFresh DEF ExactInv, CompleteInv, Building
  <2>9. CompleteInv'
    <3>1. \A v \in Workers : Complete(req'[v], refs'[NodeOf[v]], Objects')
      BY <2>1, <2>5, IdleComplete, BecomeComplete DEF ExactInv
    <3>2. CompleteManifests'
      <4>1. Anc[r.commit] \subseteq GenObjects(r.gen)
        BY <2>2, <2>3 DEF Objects
      <4> QED
        BY <1>0, <2>1, <4>1
        DEF ExactInv, CompleteInv, CompleteManifests, GenObjects, TypeOK, StoreTypeOK
    <3>3. TipsCovered' /\ SnapshotsApply'
      BY <2>1 DEF ExactInv, CompleteInv, TipsCovered, SnapshotsApply, GenObjects, GenPresent
    <3> QED
      BY <2>7, <2>8, <3>1, <3>2, <3>3 DEF CompleteInv
  <2>10. req'[w] = Idle /\ \A v \in Workers : v # w => req'[v] = req[v]
    BY <1>0, <2>1 DEF Become
  <2>11. UpstreamHasAll'
    <3>1. \A v \in Workers : UNION req'[v].packs \subseteq Known
      BY <1>0, <2>10 DEF ExactInv, UpstreamHasAll
    <3>2. \A g \in Gens : GenObjects(g)' \subseteq Known
      BY <2>1 DEF ExactInv, UpstreamHasAll, GenObjects
    <3> QED
      BY <1>0, <2>1, <2>5, <3>1, <3>2 DEF UpstreamHasAll
  <2>12. \A v \in Workers : Promised(req'[v], Named')
    BY <2>6, <2>10, PromisedMonotone, IdleExact DEF ExactInv
  <2>13. \A v \in Workers : ExactReady(req'[v], refs'[NodeOf[v]], RestorableGens', Objects')
    BY <2>1, <2>5, <2>10, IdleExact DEF ExactInv
  <2> QED
    BY <1>0, <2>1, <2>6, <2>9, <2>11, <2>12, <2>13 DEF ExactInv
<1>8. CASE FetchAllRefs(w)
  <2> DEFINE q(pc) == [r EXCEPT !.pc = pc, !.gen = 0]
  <2>1. /\ r.pc = "fetchAll" /\ FetchAllHeads(n)
        /\ UNCHANGED <<store, nextGen, clock, upstream, faults>>
        /\ \/ Fails(w)
           \/ r.commit \in objs'[n] /\ (LookUp(w, "fetched") \/ Continue(w, "publish"))
    BY <1>8 DEF FetchAllRefs
  <2>2. /\ objs' \in [Nodes -> SUBSET Commits] /\ refs' \in [Nodes -> RefSnapshot]
        /\ \A m \in Nodes : m # n => refs'[m] = refs[m]
        /\ \A m \in Nodes : objs'[m] \subseteq Known
        /\ SnapTips(refs'[n]) = UpstreamTips
    BY <2>1, FetchAllKnown
  <2>3. CASE Fails(w)
    BY <1>0, <2>1, <2>2, <2>3, QuietStepExact DEF Fails
  <2>4. ASSUME r.commit \in objs'[n]
        PROVE  r.tips = {} /\ r.commit \in Closure(SnapTips(refs'[n]))
    BY <1>0, <2>1, <2>2, <2>4 DEF ExactReady, ExactPhases, Known
  <2>5. CASE LookUp(w, "fetched") /\ r.commit \in objs'[n]
    BY <1>0, <2>1, <2>2, <2>4, <2>5, LookUpExact
  <2>6. CASE Continue(w, "publish") /\ r.commit \in objs'[n]
    <3> DEFINE r2 == [r EXCEPT !.pc = "publish", !.gen = 0]
    <3>1. /\ r2 \in Request /\ r2.pc = "publish" /\ r2.packs = r.packs /\ r2.tips = {}
          /\ r2.commit = r.commit
      <4>1. "publish" \in Phases \cup ExactPhases
        BY DEF Phases
      <4> QED
        BY <1>r, <2>4, <2>6, <4>1, NoGeneration DEF Request
    <3>2. Become(w, r2) /\ answered' = answered
      BY <2>6 DEF Continue
    <3> HIDE DEF r2
    <3>3. Promised(r2, Named) /\ ExactReady(r2, refs'[n], RestorableGens, Objects)
      BY <3>1 DEF Promised, ExactReady, ExactPhases
    <3> QED
      BY <1>0, <2>1, <2>2, <2>4, <2>6, <3>1, <3>2, <3>3, QuietStepExact
  <2> QED
    BY <2>1, <2>3, <2>5, <2>6
<1>9. CASE FetchShortCommit(w)
  <2> DEFINE q(c) == [Idle EXCEPT !.pc = "publish", !.commit = c, !.exact = TRUE]
  <2>1. /\ FetchAllHeads(n)
        /\ UNCHANGED <<store, nextGen, clock, upstream, faults, answered>>
    BY <1>9 DEF FetchShortCommit
  <2>2. /\ objs' \in [Nodes -> SUBSET Commits] /\ refs' \in [Nodes -> RefSnapshot]
        /\ \A m \in Nodes : m # n => refs'[m] = refs[m]
        /\ \A m \in Nodes : objs'[m] \subseteq Known
        /\ SnapTips(refs'[n]) = UpstreamTips
        /\ Known \subseteq Commits
    BY <2>1, FetchAllKnown
  <2>3. PICK c \in Closure(UpstreamTips) : Become(w, q(c))
    BY <1>9 DEF FetchShortCommit
  <2>4. c \in Commits /\ c \in Closure(SnapTips(refs'[n]))
    BY <2>2, <2>3 DEF Known
  <2>5. /\ q(c) \in Request /\ q(c).pc = "publish" /\ q(c).packs = {} /\ q(c).tips = {}
        /\ q(c).commit = c
    BY <1>0, <2>4 DEF Request, Phases
  <2> HIDE DEF q
  <2>6. Promised(q(c), Named) /\ ExactReady(q(c), refs'[n], RestorableGens, Objects)
    BY <2>5 DEF Promised, ExactReady, ExactPhases
  <2> QED
    BY <1>0, <2>1, <2>2, <2>3, <2>4, <2>5, <2>6, QuietStepExact
<1> QED
  BY <1>1, <1>2, <1>3, <1>4, <1>5, <1>6, <1>7, <1>8, <1>9 DEF ExactStep


\* An environment step leaves the store alone; without force pushes upstream only
\* gains commits, and an eviction only takes refs and objects from a node.
LEMMA EnvironmentExact ==
    ASSUME ~ForcePush, ExactInv, Environment \/ Tick, UNCHANGED answered
    PROVE  ExactInv'
<1>0. /\ TypeOK /\ TypeOK' /\ CompleteInv'
      /\ upstream \in [Branches -> Commits] /\ upstream' \in [Branches -> Commits]
      /\ req \in [Workers -> Request] /\ objs \in [Nodes -> SUBSET Commits]
      /\ refs \in [Nodes -> RefSnapshot]
  BY EnvironmentComplete, EnvironmentTypeOK DEF ExactInv, CompleteInv, DurableInv, TypeOK
<1>1. UNCHANGED <<packAt, gens, commitGen, head>>
  BY DEF Environment, UpstreamPush, Evict, Fail, Tick, store
<1>2. RestorableGens' = RestorableGens /\ Objects' = Objects /\ Named' = Named
  BY <1>1, StoreUnchanged DEF Objects, GenObjects, Named
<1>3. \A b \in Branches : upstream[b] \in Anc[upstream'[b]]
  <2>1. CASE UpstreamPush
    <3>1. PICK b \in Branches, c \in Commits :
             upstream[b] \in Anc[c] /\ upstream' = [upstream EXCEPT ![b] = c]
      BY <2>1 DEF UpstreamPush
    <3> QED
      BY <1>0, <3>1, HistoryAssumption
  <2>2. CASE UNCHANGED upstream
    BY <1>0, <2>2, HistoryAssumption
  <2> QED
    BY <2>1, <2>2 DEF Environment, Evict, Fail, Tick, pubVars
<1>4. Known \subseteq Known'
  <2> SUFFICES ASSUME NEW c \in Known PROVE c \in Known'
    OBVIOUS
  <2>1. PICK b \in Branches : c \in Anc[upstream[b]]
    BY DEF Known, Closure, UpstreamTips
  <2>2. Anc[upstream[b]] \subseteq Anc[upstream'[b]]
    BY <1>0, <1>3, HistoryAssumption
  <2> QED
    BY <2>1, <2>2 DEF Known, Closure, UpstreamTips
<1>5. ASSUME NEW w \in Workers PROVE req'[w] = req[w] \/ req'[w] = Idle
  BY <1>0 DEF Environment, UpstreamPush, Evict, Fail, Tick, pubVars, Become
<1>6. ASSUME NEW n \in Nodes
      PROVE  /\ refs'[n] = refs[n] \/ refs'[n] = NoRefs
             /\ objs'[n] \subseteq objs[n]
  BY <1>0 DEF Environment, UpstreamPush, Evict, Fail, Tick, pubVars, nodeVars
<1>7. UpstreamHasAll'
  <2>1. \A n \in Nodes : objs'[n] \subseteq Known'
    BY <1>4, <1>6 DEF ExactInv, UpstreamHasAll
  <2>2. \A g \in Gens : GenObjects(g)' \subseteq Known'
    BY <1>1, <1>4 DEF ExactInv, UpstreamHasAll, GenObjects
  <2>3. \A w \in Workers : UNION req'[w].packs \subseteq Known'
    BY <1>4, <1>5, IdleExact DEF ExactInv, UpstreamHasAll
  <2> QED
    BY <2>1, <2>2, <2>3 DEF UpstreamHasAll
<1>8. \A w \in Workers : Promised(req'[w], Named')
  BY <1>2, <1>5, IdleExact DEF ExactInv
<1>9. ASSUME NEW w \in Workers
      PROVE  ExactReady(req'[w], refs'[NodeOf[w]], RestorableGens', Objects')
  <2>1. /\ NodeOf[w] \in Nodes
        /\ ExactReady(req[w], refs[NodeOf[w]], RestorableGens, Objects)
    BY PublishAssumption DEF ExactInv
  <2>2. SnapTips(NoRefs) = {}
    BY DEF SnapTips, NoRefs
  <2>3. ExactReady(req[w], NoRefs, RestorableGens, Objects)
    BY <2>1, <2>2 DEF ExactReady
  <2>4. refs'[NodeOf[w]] = refs[NodeOf[w]] \/ refs'[NodeOf[w]] = NoRefs
    BY <1>6, <2>1
  <2> QED
    BY <1>2, <1>5, <2>1, <2>3, <2>4, IdleExact
<1> QED
  BY <1>0, <1>1, <1>2, <1>7, <1>8, <1>9 DEF ExactInv

\* An empty store and empty nodes satisfy the invariant.
LEMMA InitExact == ExactInit => ExactInv
<1> SUFFICES ASSUME ExactInit PROVE ExactInv
  OBVIOUS
<1>1. CompleteInv
  BY InitComplete DEF ExactInit
<1>2. /\ answered = {} /\ head.tips = {} /\ \A w \in Workers : req[w] = Idle
      /\ \A n \in Nodes : objs[n] = {}
  BY DEF ExactInit, Init, StoreInit, NoHead
<1>3. \A g \in Gens : GenObjects(g) = {}
  BY DEF ExactInit, Init, StoreInit, GenObjects, NoManifest
<1>4. UpstreamHasAll
  BY <1>2, <1>3, IdleExact DEF UpstreamHasAll
<1> QED
  BY <1>1, <1>2, <1>4, IdleExact DEF ExactInv

\* The invariant is inductive.
LEMMA NextExact ==
    ASSUME OneWorkerPerNode, ~ForcePush
    PROVE  ExactInv /\ [ExactNext]_exactVars => ExactInv'
<1> SUFFICES ASSUME ExactInv, [ExactNext]_exactVars PROVE ExactInv'
  OBVIOUS
<1>1. CASE UNCHANGED exactVars
  <2>1. CompleteInv'
    BY <1>1, NextComplete DEF ExactInv, exactVars
  <2>2. UNCHANGED <<packAt, gens, commitGen, head, req, refs, objs, upstream, answered>>
    BY <1>1 DEF exactVars, vars, store, pubVars, nodeVars
  <2>3. RestorableGens' = RestorableGens /\ Objects' = Objects /\ Named' = Named /\ Known' = Known
    BY <2>2, StoreUnchanged DEF Objects, GenObjects, Named, Known, Closure, UpstreamTips
  <2>4. UpstreamHasAll'
    BY <2>2, <2>3 DEF ExactInv, UpstreamHasAll, GenObjects
  <2> QED
    BY <2>1, <2>2, <2>3, <2>4 DEF ExactInv
<1>2. CASE ExactNext
  BY <1>2, PublishStepExact, ExactStepExact, EnvironmentExact DEF ExactNext
<1> QED
  BY <1>1, <1>2

-----------------------------------------------------------------------------
(* The refinement.                                                         *)

\* The commits with a manifest are the commits that can be restored.
LEMMA NamedDurable == ExactInv => Durable = Named
<1> SUFFICES ASSUME ExactInv PROVE Durable = Named
  OBVIOUS
<1>1. \A c \in Commits : commitGen[c] # 0 =>
         Restorable(commitGen[c]) /\ Anc[c] \subseteq GenObjects(commitGen[c])
  BY DEF ExactInv, CompleteInv, DurableInv, DurablePointers, CompleteManifests
<1> QED
  BY <1>1 DEF Durable, Named

\* What one step does to the abstract cache, told in commit manifests.
LEMMA StepOnNamed ==
    ASSUME ExactInv, ExactNext
    PROVE  \/ /\ Named' = Named /\ head'.tips = head.tips
              /\ answered' = answered \/ \E c \in Named : answered' = answered \cup {c}
           \/ /\ \E c \in Commits \ Named : Named' = Named \cup {c}
              /\ answered' = answered /\ head'.tips = head.tips
           \/ /\ \E c \in Commits : Named' = Named \cup {c} /\ answered' = answered \cup {c}
              /\ head'.tips = head.tips
           \/ /\ head'.tips \subseteq Named /\ Named' = Named
              /\ answered' = answered \/ \E c \in Named : answered' = answered \cup {c}
<1>1. ASSUME NEW w \in Workers, PublishStep(w)
      PROVE  \/ /\ Named' = Named /\ head'.tips = head.tips
                /\ answered' = answered \/ \E c \in Named : answered' = answered \cup {c}
             \/ /\ \E c \in Commits \ Named : Named' = Named \cup {c}
                /\ answered' = answered /\ head'.tips = head.tips
             \/ /\ head'.tips \subseteq Named /\ Named' = Named
                /\ answered' = answered \/ \E c \in Named : answered' = answered \cup {c}
  <2>1. Step(w) /\ Promised(req[w], Named)
    BY <1>1 DEF PublishStep, ExactInv
  <2>2. \/ UNCHANGED <<commitGen, head>>
        \/ /\ req[w].pc = "commitManifests" /\ head' = head
           /\ \E c \in Commits \ Named : Named' = Named \cup {c}
        \/ /\ req[w].pc = "headCas" /\ commitGen' = commitGen
           /\ head'.tips = req[w].tips
    BY <2>1, StepPromises
  <2>3. \/ answered' = answered
        \/ /\ req[w].pc \in {"refManifest", "headRead", "headCas"}
           /\ answered' = answered \cup {req[w].commit}
    BY <1>1 DEF PublishStep, AnswerFor
  <2>4. answered' = answered \/ \E c \in Named : answered' = answered \cup {c}
    BY <2>1, <2>3 DEF Promised
  <2>5. commitGen' = commitGen => Named' = Named
    BY DEF Named
  <2>6. req[w].pc = "headCas" => req[w].tips \subseteq Named
    BY <2>1 DEF Promised
  <2> QED
    BY <2>2, <2>3, <2>4, <2>5, <2>6
<1>2. ASSUME NEW w \in Workers, IndexLocalCommit(w)
      PROVE  /\ \E c \in Commits : Named' = Named \cup {c} /\ answered' = answered \cup {c}
             /\ head'.tips = head.tips
  <2>1. /\ TypeOK /\ req[w].pc = "indexWrite" /\ req[w].commit \in Commits
        /\ req[w].gen \in RestorableGens
    BY <1>2
    DEF IndexLocalCommit, ExactInv, ExactReady, CompleteInv, DurableInv, TypeOK, Request
  <2>2. req[w].gen # 0
    BY <2>1, BoundsAssumption DEF RestorableGens, Gens
  <2>3. Named' = Named \cup {req[w].commit}
    BY <1>2, <2>1, <2>2 DEF IndexLocalCommit, Named, TypeOK, StoreTypeOK
  <2> QED
    BY <1>2, <2>1, <2>3 DEF IndexLocalCommit, Succeed, AnswerFor
<1>3. ASSUME NEW w \in Workers, ExactStep(w), ~IndexLocalCommit(w)
      PROVE  /\ Named' = Named /\ head' = head
             /\ answered' = answered \/ \E c \in Named : answered' = answered \cup {c}
  <2>1. UNCHANGED <<commitGen, head>>
    BY <1>3
    DEF ExactStep, ReadCommitManifest, CheckExactLocal, HydratePacks, ApplyRefSnapshot,
        HydrateUnavailable, IndexReadHead, IndexFromHead, IndexListRefs,
        IndexFromRef, IndexMisses, IndexIn, LookUp, FetchAllRefs, FetchShortCommit, store
  <2>2. CASE ReadCommitManifest(w)
    BY <2>1, <2>2 DEF ReadCommitManifest, Named
  <2>3. CASE ApplyRefSnapshot(w)
    <3>1. answered' = answered \/
             (req[w].pc = "commitRefs" /\ answered' = answered \cup {req[w].commit})
      BY <2>3 DEF ApplyRefSnapshot, Succeed, AnswerFor, Continue, Fails, LookUp
    <3> QED
      BY <2>1, <3>1 DEF ExactInv, Promised, Named
  <2>4. CASE ~ReadCommitManifest(w) /\ ~ApplyRefSnapshot(w)
    BY <1>3, <2>1, <2>4
    DEF ExactStep, CheckExactLocal, HydratePacks, HydrateUnavailable, IndexReadHead,
        IndexFromHead, IndexListRefs, IndexFromRef, IndexMisses, IndexIn, LookUp,
        FetchAllRefs, FetchShortCommit, Continue, Fails, Named
  <2> QED
    BY <2>1, <2>2, <2>3, <2>4, SMTT(60) DEF Named
<1>4. CASE (Environment \/ Tick) /\ UNCHANGED answered
  BY <1>4 DEF Environment, UpstreamPush, Evict, Fail, Tick, store, Named
<1> QED
  BY <1>1, <1>2, <1>3, <1>4 DEF ExactNext

\* A step of a request, or of its environment, is a step of the abstract cache.
LEMMA StepRefines ==
    ASSUME ExactInv, ExactInv', [ExactNext]_exactVars
    PROVE  [Cache!Next]_<<Durable, answered, head.tips>>
<1>1. Durable = Named /\ Durable' = Named'
  <2>1. Durable = Named
    BY NamedDurable
  <2>2. \A c \in Commits : commitGen'[c] # 0 =>
           Restorable(commitGen[c])' /\ Anc[c] \subseteq GenObjects(commitGen[c])'
    BY DEF ExactInv, CompleteInv, DurableInv, DurablePointers, CompleteManifests
  <2>3. Durable' = Named'
    BY <2>2 DEF Durable, Named
  <2> QED
    BY <2>1, <2>3
<1>2. CASE UNCHANGED exactVars
  <2>1. UNCHANGED <<commitGen, head, answered>>
    BY <1>2 DEF exactVars, vars, store
  <2>2. Named' = Named
    BY <2>1 DEF Named
  <2> QED
    BY <1>1, <2>1, <2>2
<1>3. CASE ExactNext
  <2>0. \/ /\ Durable' = Durable /\ head'.tips = head.tips
           /\ answered' = answered \/ \E c \in Durable : answered' = answered \cup {c}
        \/ /\ \E c \in Commits \ Durable : Durable' = Durable \cup {c}
           /\ answered' = answered /\ head'.tips = head.tips
        \/ /\ \E c \in Commits : Durable' = Durable \cup {c} /\ answered' = answered \cup {c}
           /\ head'.tips = head.tips
        \/ /\ head'.tips \subseteq Durable /\ Durable' = Durable
           /\ answered' = answered \/ \E c \in Durable : answered' = answered \cup {c}
    BY <1>1, <1>3, StepOnNamed
  <2> HIDE DEF Durable
  <2> QED
    BY <2>0
    DEF Cache!Next, Cache!MakeDurable, Cache!Answer, Cache!MoveHead, Cache!MakeDurableAndAnswer,
        Cache!MoveHeadAndAnswer
<1> QED
  BY <1>2, <1>3

\* When no two requests share a node's repository and upstream rewrites no
\* branch, branch, exact-commit and short-commit requests implement the durable
\* cache: whatever is evicted and wherever a request ends early, a commit is
\* reported as materialized only once a node with an empty cache could restore
\* it with its history, it stays restorable, and the head only names such commits.
THEOREM RequestsImplementDurableCache ==
    ASSUME OneWorkerPerNode, ~ForcePush PROVE ExactSpec => ImplementsDurableCache
<1>1. ExactInit => Cache!Init
  <2> SUFFICES ASSUME ExactInit PROVE Cache!Init
    OBVIOUS
  <2>1. answered = {} /\ head.tips = {}
    BY DEF ExactInit, Init, StoreInit, NoHead
  <2>2. Durable = {}
    BY DEF ExactInit, Init, StoreInit, Durable
  <2> QED
    BY <2>1, <2>2 DEF Cache!Init
<1>2. ExactInv /\ ExactInv' /\ [ExactNext]_exactVars => [Cache!Next]_<<Durable, answered, head.tips>>
  BY StepRefines
<1> QED
  BY <1>1, <1>2, InitExact, NextExact, PTL DEF ExactSpec, ImplementsDurableCache, Cache!Spec

\* Under the same conditions no path, those that index a commit in a generation
\* found through the head's or a branch's tips included, writes a commit manifest
\* for a generation that lacks part of the commit's history.
THEOREM IndexedManifestsComplete ==
    ASSUME OneWorkerPerNode, ~ForcePush PROVE ExactSpec => []CompleteManifests
<1>1. ExactInv => CompleteManifests
  BY DEF ExactInv, CompleteInv
<1> QED
  BY <1>1, InitExact, NextExact, PTL DEF ExactSpec

\* And the packs of the head generation hold the history of every tip the head
\* records, also when exact commits without a branch are published between the
\* branches.
THEOREM ExactTipsCovered ==
    ASSUME OneWorkerPerNode, ~ForcePush PROVE ExactSpec => []TipsCovered
<1>1. ExactInv => TipsCovered
  BY DEF ExactInv, CompleteInv
<1> QED
  BY <1>1, InitExact, NextExact, PTL DEF ExactSpec


\* And no request, of whatever kind, leaves a commit, branch or head pointer to a
\* generation that cannot be restored.
THEOREM ExactPointersDurable ==
    ASSUME OneWorkerPerNode, ~ForcePush PROVE ExactSpec => []DurablePointers
<1>1. ExactInv => DurablePointers
  BY DEF ExactInv, CompleteInv, DurableInv
<1> QED
  BY <1>1, InitExact, NextExact, PTL DEF ExactSpec

\* And the ref snapshot of every generation points into its own packs, so that
\* hydrating a commit or the head never stops at a ref to a missing object.
THEOREM ExactSnapshotsApply ==
    ASSUME OneWorkerPerNode, ~ForcePush PROVE ExactSpec => []SnapshotsApply
<1>1. ExactInv => SnapshotsApply
  BY DEF ExactInv, CompleteInv
<1> QED
  BY <1>1, InitExact, NextExact, PTL DEF ExactSpec

=============================================================================
