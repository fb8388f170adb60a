--------------------------- MODULE Publish_proofs ---------------------------
(***************************************************************************)
(* Proofs about module Publish, for every history, every number of nodes   *)
(* and requests, and every bound.                                          *)
(***************************************************************************)
EXTENDS Publish, TLAPS

-----------------------------------------------------------------------------
(* Types                                                                   *)

\* Histories are sets of commits (Anc of HistoryAssumption).
LEMMA ClosureType ==
    ASSUME NEW cs \in SUBSET Commits
    PROVE  Closure(cs) \in SUBSET Commits
BY HistoryAssumption DEF Closure

\* The commits the refs of a node point at.
LEMMA RefTipsType ==
    ASSUME TypeOK, NEW n \in Nodes
    PROVE  RefTips(n) \in SUBSET Commits
BY DEF TypeOK, RefTips, RefSnapshot

\* The request of a worker that is between two calls of ensure_branch.
LEMMA IdleType == Idle \in Request
<1>1. (CHOOSE b \in Branches : TRUE) \in Branches /\ (CHOOSE c \in Commits : TRUE) \in Commits
  BY NonEmptyAssumption
<1>2. NoHead \in HeadRecord /\ NoRefs \in RefSnapshot
  BY BoundsAssumption DEF NoHead, HeadRecord, NoRefs, RefSnapshot, GenOrNone, Time
<1>3. 0 \in GenOrNone /\ 0 \in Time /\ 0 \in 0 .. (HeadCasMaxAttempts - 1)
  BY BoundsAssumption, PublishAssumption DEF GenOrNone, Time
<1> QED
  BY <1>1, <1>2, <1>3 DEF Idle, Request, Phases, Pack

\* The initial state is well typed.
LEMMA InitTypeOK == Init => TypeOK
<1> SUFFICES ASSUME Init PROVE TypeOK
  OBVIOUS
<1>1. StoreTypeOK
  BY BoundsAssumption
  DEF Init, StoreInit, StoreTypeOK, Gens, GenOrNone, Time, GenManifest, NoManifest, NoRefs,
      RefSnapshot, RefManifest, HeadRecord, NoHead
<1> QED
  BY <1>1, IdleType, PublishAssumption DEF Init, TypeOK, NoRefs, RefSnapshot

\* Replacing the record of one request by a well-typed one (Become).
LEMMA BecomeType ==
    ASSUME TypeOK, NEW w \in Workers, NEW r \in Request, Become(w, r)
    PROVE  req' \in [Workers -> Request]
BY DEF TypeOK, Become

\* Every step of a request keeps the types.
LEMMA StepTypeOK == ASSUME TypeOK, NEW w \in Workers, Step(w) PROVE TypeOK'
<1> DEFINE r == req[w]
           n == NodeOf[w]
<1>0. /\ r \in Request
      /\ n \in Nodes
      /\ RefTips(n) \in SUBSET Commits
      /\ 0 \in GenOrNone
  BY PublishAssumption, RefTipsType, BoundsAssumption DEF TypeOK, GenOrNone
<1>1. CASE ResolveTip(w)
  <2>1. PICK b \in Branches :
           Become(w, [Idle EXCEPT !.pc = "resolved", !.branch = b, !.commit = upstream[b]])
    BY <1>1 DEF ResolveTip
  <2>2. [Idle EXCEPT !.pc = "resolved", !.branch = b, !.commit = upstream[b]] \in Request
    BY IdleType DEF TypeOK, Request, Phases
  <2>3. req' \in [Workers -> Request]
    BY <2>1, <2>2, BecomeType
  <2> QED
    BY <1>1, <2>3 DEF ResolveTip, TypeOK, StoreTypeOK, store, nodeVars
<1>2. CASE CheckLocal(w)
  <2> DEFINE pc == IF LocalReady(n, r.commit) THEN "record" ELSE "fetch"
             here == r.commit \in objs[n]
  <2>1. \A p \in Phases, q \in BOOLEAN : [r EXCEPT !.pc = p, !.ready = q] \in Request
    BY <1>0 DEF Request
  <2>2. pc \in Phases /\ here \in BOOLEAN
    BY DEF Phases
  <2>3. [r EXCEPT !.pc = pc, !.ready = here] \in Request
    BY <2>1, <2>2
  <2>4. Become(w, [r EXCEPT !.pc = pc, !.ready = here])
    BY <1>2 DEF CheckLocal
  <2>5. req' \in [Workers -> Request]
    BY <2>3, <2>4, BecomeType
  <2> QED
    BY <1>2, <2>5 DEF CheckLocal, TypeOK, StoreTypeOK, store, nodeVars
<1>3. CASE RecordVerifiedBranchRefs(w)
  <2>1. req' \in [Workers -> Request]
    BY <1>0, <1>3, BecomeType, IdleType DEF RecordVerifiedBranchRefs, Goto, Request, Phases
  <2>2. refs' \in [Nodes -> RefSnapshot]
    <3>1. [refs[n] EXCEPT ![r.branch] = r.commit] \in RefSnapshot
      BY <1>0 DEF TypeOK, RefSnapshot, Request
    <3> QED
      BY <1>0, <1>3, <3>1 DEF RecordVerifiedBranchRefs, TypeOK
  <2> QED
    BY <1>3, <2>1, <2>2 DEF RecordVerifiedBranchRefs, TypeOK, StoreTypeOK, store
<1>4. CASE EnsureBranchManifests(w)
  <2>1. req' \in [Workers -> Request]
    BY <1>0, <1>4, BecomeType, ZenonT(60)
    DEF EnsureBranchManifests, Goto, Request, Phases, TypeOK, StoreTypeOK
  <2> QED
    BY <1>4, <2>1 DEF EnsureBranchManifests, TypeOK, StoreTypeOK, store, nodeVars
<1>5. CASE FetchBranch(w)
  <2>1. req' \in [Workers -> Request]
    BY <1>0, <1>5, BecomeType, IdleType, ZenonT(60) DEF FetchBranch, Request, Phases
  <2>2. refs' \in [Nodes -> RefSnapshot]
    BY <1>0, <1>5 DEF FetchBranch, TypeOK, RefSnapshot, Request
  <2>3. Fetched(n, upstream[r.branch], r.ready) \in SUBSET Commits
    BY <1>0, HistoryAssumption DEF Fetched, TypeOK, Request
  <2>4. objs' \in [Nodes -> SUBSET Commits]
    BY <1>0, <1>5, <2>3 DEF FetchBranch, TypeOK
  <2> QED
    BY <1>5, <2>1, <2>2, <2>4 DEF FetchBranch, TypeOK, StoreTypeOK, store
<1>6. CASE CheckExisting(w)
  <2>1. req' \in [Workers -> Request]
    BY <1>0, <1>6, BecomeType, ZenonT(60)
    DEF CheckExisting, Goto, Request, Phases, TypeOK, StoreTypeOK
  <2> QED
    BY <1>6, <2>1 DEF CheckExisting, TypeOK, StoreTypeOK, store, nodeVars
<1>7. CASE ReadHead(w)
  <2>1. nextGen \in GenOrNone /\ nextGen' \in 1 .. (MaxGen + 1)
    BY <1>7, BoundsAssumption DEF ReadHead, NewGeneration, TypeOK, StoreTypeOK, GenOrNone
  <2>2. GenPresent(head.gen) => gens[head.gen].packs \in SUBSET Pack
    BY DEF GenPresent, TypeOK, StoreTypeOK, GenManifest
  <2>3. head.tips \in SUBSET Commits
    BY DEF TypeOK, StoreTypeOK, HeadRecord
  <2>4. req' \in [Workers -> Request]
    BY <1>0, <1>7, <2>1, <2>2, <2>3, BecomeType, ZenonT(60) DEF ReadHead, Request, Phases
  <2> QED
    BY <1>7, <2>1, <2>4 DEF ReadHead, TypeOK, StoreTypeOK, store, nodeVars
<1>8. CASE PackIncremental(w)
  <2>1. PackObjectsRevs(RefTips(n), r.tips) \in Pack
    BY <1>0, ClosureType DEF PackObjectsRevs, Pack
  <2>2. clock \in Time
    BY DEF TypeOK, StoreTypeOK
  <2>3. req' \in [Workers -> Request]
    BY <1>0, <1>8, <2>1, <2>2, BecomeType, ZenonT(60) DEF PackIncremental, Request, Phases
  <2> QED
    BY <1>8, <2>3 DEF PackIncremental, TypeOK, StoreTypeOK, store, nodeVars
<1>9. CASE PackFull(w)
  <2>1. PackObjectsRevs(RefTips(n), {}) \in Pack
    BY <1>0, ClosureType DEF PackObjectsRevs, Pack
  <2>2. clock \in Time
    BY DEF TypeOK, StoreTypeOK
  <2>3. req' \in [Workers -> Request]
    BY <1>0, <1>9, <2>1, <2>2, BecomeType, ZenonT(60) DEF PackFull, Request, Phases
  <2> QED
    BY <1>9, <2>3 DEF PackFull, TypeOK, StoreTypeOK, store, nodeVars
<1>10. CASE LocalGitFails(w)
  <2>1. req' \in [Workers -> Request]
    BY <1>10, BecomeType, IdleType DEF LocalGitFails
  <2> QED
    BY <1>10, <2>1 DEF LocalGitFails, TypeOK, StoreTypeOK, store, nodeVars
<1>11. CASE SnapshotRefs(w)
  <2>1. refs[n] \in RefSnapshot
    BY <1>0 DEF TypeOK
  <2>2. {r.commit} \cup {c \in RefTips(n) : commitGen[c] = 0} \in SUBSET Commits
    BY <1>0 DEF Request
  <2>3. req' \in [Workers -> Request]
    BY <1>0, <1>11, <2>1, <2>2, BecomeType, ZenonT(60) DEF SnapshotRefs, Request, Phases
  <2> QED
    BY <1>11, <2>3 DEF SnapshotRefs, TypeOK, StoreTypeOK, store, nodeVars
<1>12. CASE UploadPack(w)
  <2>1. req' \in [Workers -> Request]
    BY <1>0, <1>12, BecomeType DEF UploadPack, Goto, Request, Phases
  <2>2. packAt' \in [Pack -> Time]
    BY <1>0, <1>12 DEF UploadPack, PutPackUnlessPresent, TypeOK, StoreTypeOK, Request
  <2> QED
    BY <1>12, <2>1, <2>2 DEF UploadPack, TypeOK, StoreTypeOK, nodeVars
<1>13. CASE WriteGenerationManifest(w)
  <2>1. req' \in [Workers -> Request]
    BY <1>0, <1>13, BecomeType DEF WriteGenerationManifest, Goto, Request, Phases
  <2>2. [at |-> r.at, packs |-> r.packs, refs |-> r.snap, commits |-> r.commits] \in GenManifest
    BY <1>0 DEF Request, GenManifest
  <2>3. gens' \in [Gens -> GenManifest]
    BY <1>13, <2>2 DEF WriteGenerationManifest, TypeOK, StoreTypeOK
  <2> QED
    BY <1>13, <2>1, <2>3 DEF WriteGenerationManifest, TypeOK, StoreTypeOK, nodeVars
<1>14. CASE WriteCommitManifest(w)
  <2>1. req' \in [Workers -> Request]
    BY <1>0, <1>14, BecomeType, IdleType, ZenonT(60) DEF WriteCommitManifest, Request, Phases
  <2>2. commitGen' \in [Commits -> GenOrNone]
    BY <1>0, <1>14 DEF WriteCommitManifest, TypeOK, StoreTypeOK, Request
  <2> QED
    BY <1>14, <2>1, <2>2 DEF WriteCommitManifest, TypeOK, StoreTypeOK, nodeVars
<1>15. CASE WriteRefManifest(w)
  <2>1. req' \in [Workers -> Request]
    BY <1>0, <1>15, BecomeType, IdleType DEF WriteRefManifest, Goto, Request, Phases
  <2>2. refGen' \in [Branches -> RefManifest]
    BY <1>0, <1>15 DEF WriteRefManifest, TypeOK, StoreTypeOK, Request, RefManifest
  <2> QED
    BY <1>15, <2>1, <2>2 DEF WriteRefManifest, TypeOK, StoreTypeOK, nodeVars
<1>16. CASE ReadHeadVersion(w)
  <2>1. req' \in [Workers -> Request]
    BY <1>0, <1>16, BecomeType, IdleType, ZenonT(60)
    DEF ReadHeadVersion, Request, Phases, TypeOK, StoreTypeOK
  <2> QED
    BY <1>16, <2>1 DEF ReadHeadVersion, TypeOK, StoreTypeOK, store, nodeVars
<1>17. CASE CasHead(w)
  <2>1. r.attempts + 1 # HeadCasMaxAttempts => r.attempts + 1 \in 0 .. (HeadCasMaxAttempts - 1)
    BY <1>0, PublishAssumption DEF Request
  <2>2. req' \in [Workers -> Request]
    BY <1>0, <1>17, <2>1, BecomeType, IdleType, ZenonT(60) DEF CasHead, Request, Phases
  <2>3. NewHead(r) \in HeadRecord
    BY <1>0 DEF NewHead, HeadRecord, Request
  <2>4. head' \in HeadRecord
    BY <1>17, <2>3 DEF CasHead, WriteHeadIfVersionMatches, TypeOK, StoreTypeOK
  <2> QED
    BY <1>17, <2>2, <2>4 DEF CasHead, TypeOK, StoreTypeOK, nodeVars
<1> QED
  BY <1>1, <1>2, <1>3, <1>4, <1>5, <1>6, <1>7, <1>8, <1>9, <1>10, <1>11, <1>12, <1>13,
     <1>14, <1>15, <1>16, <1>17 DEF Step

\* So do upstream pushes, time, eviction and failure.
LEMMA EnvironmentTypeOK == ASSUME TypeOK, Environment \/ Tick PROVE TypeOK'
<1>1. CASE UpstreamPush
  BY <1>1 DEF UpstreamPush, TypeOK, StoreTypeOK, store, nodeVars
<1>2. ASSUME NEW n \in Nodes, Evict(n) PROVE TypeOK'
  <2>1. faults' \in 0 .. MaxFaults
    BY <1>2, PublishAssumption DEF Evict, TypeOK
  <2> QED
    BY <1>2, <2>1 DEF Evict, TypeOK, StoreTypeOK, store, NoRefs, RefSnapshot
<1>3. ASSUME NEW w \in Workers, Fail(w) PROVE TypeOK'
  <2>1. faults' \in 0 .. MaxFaults
    BY <1>3, PublishAssumption DEF Fail, TypeOK
  <2>2. req' \in [Workers -> Request]
    BY <1>3, IdleType DEF Fail, TypeOK
  <2> QED
    BY <1>3, <2>1, <2>2 DEF Fail, TypeOK, StoreTypeOK, store, nodeVars
<1>4. CASE Tick
  <2>1. clock' \in Time
    BY <1>4, BoundsAssumption DEF Tick, TypeOK, StoreTypeOK, Time
  <2> QED
    BY <1>4, <2>1 DEF Tick, TypeOK, StoreTypeOK, store, pubVars, nodeVars
<1> QED
  BY <1>1, <1>2, <1>3, <1>4 DEF Environment

\* Hence every step, a stuttering one included.
LEMMA NextTypeOK == TypeOK /\ [Next]_vars => TypeOK'
<1> SUFFICES ASSUME TypeOK, [Next]_vars PROVE TypeOK'
  OBVIOUS
<1>1. CASE UNCHANGED vars
  BY <1>1 DEF TypeOK, StoreTypeOK, vars, store, pubVars, nodeVars
<1>2. CASE Next
  BY <1>2, StepTypeOK, EnvironmentTypeOK DEF Next
<1> QED
  BY <1>1, <1>2

\* Every variable of a publishing cluster keeps its type (TypeOK): requests
\* never leave their phases, generation ids stay within those handed out and the
\* head CAS never runs more than HEAD_CAS_MAX_ATTEMPTS times.
THEOREM TypeCorrect == Spec => []TypeOK
BY InitTypeOK, NextTypeOK, PTL DEF Spec

-----------------------------------------------------------------------------
(* Durable pointers.  DurablePointers is not inductive: a request carries   *)
(* pack lists and a generation id it is about to publish.  The invariant    *)
(* says what each phase of publish_pack_files has already made durable.     *)

Present == {p \in Pack : PackPresent(p)}

RestorableGens == {g \in Gens : Restorable(g)}

\* The phases between drawing a generation id and writing its manifest.
Building == {"pack", "snapshot", "upload", "genManifest"}

Backed(r, present, restorable) ==
    /\ r.pc \in Building => r.gen \in Gens
    /\ r.pc = "pack" => r.packs \subseteq present
    /\ r.pc \in {"snapshot", "upload"} => r.at # 0 /\ r.packs \ {r.pack} \subseteq present
    /\ r.pc = "genManifest" => r.at # 0 /\ r.packs \subseteq present
    /\ r.pc \in {"commitManifests", "refManifest", "headRead", "headCas"}
            => r.gen \in restorable

CasOrdered(r) == r.pc = "headCas" => r.seen.at <= r.at

DurableInv ==
    /\ TypeOK
    /\ clock # 0
    /\ DurablePointers
    /\ \A w \in Workers : Backed(req[w], Present, RestorableGens)
    /\ \A w \in Workers : CasOrdered(req[w])

\* A request that is idle, or has no phase of publish_generation behind it,
\* relies on nothing.
LEMMA IdleBacked ==
    ASSUME NEW P, NEW R
    PROVE  Backed(Idle, P, R) /\ CasOrdered(Idle)
BY DEF Backed, Building, CasOrdered, Idle

\* What a request relies on survives as long as nothing is deleted.
LEMMA BackedMonotone ==
    ASSUME NEW r, NEW P, NEW R, NEW P2, NEW R2,
           Backed(r, P, R), P \subseteq P2, R \subseteq R2
    PROVE  Backed(r, P2, R2)
BY DEF Backed

\* One worker moves on to r2 in a store that only grew (Become): the others keep
\* what they rely on.
LEMMA BecomeBacked ==
    ASSUME DurableInv, NEW w \in Workers, NEW r2, Become(w, r2),
           Present \subseteq Present', RestorableGens \subseteq RestorableGens',
           Backed(r2, Present', RestorableGens'), CasOrdered(r2)
    PROVE  /\ \A v \in Workers : Backed(req'[v], Present', RestorableGens')
           /\ \A v \in Workers : CasOrdered(req'[v])
<1> SUFFICES ASSUME NEW v \in Workers
             PROVE  Backed(req'[v], Present', RestorableGens') /\ CasOrdered(req'[v])
  OBVIOUS
<1>1. CASE v = w
  BY <1>1 DEF Become, DurableInv, TypeOK
<1>2. CASE v # w
  <2>1. req'[v] = req[v]
    BY <1>2 DEF Become, DurableInv, TypeOK
  <2> QED
    BY <2>1, BackedMonotone DEF DurableInv
<1> QED
  BY <1>1, <1>2

\* DurablePointers in terms of the restorable generations.
LEMMA PointersRestorable ==
    ASSUME TypeOK
    PROVE  DurablePointers <=>
             /\ \A c \in Commits : commitGen[c] # 0 => commitGen[c] \in RestorableGens
             /\ \A b \in Branches : refGen[b].gen # 0 => refGen[b].gen \in RestorableGens
             /\ head.gen # 0 => head.gen \in RestorableGens
BY DEF DurablePointers, RestorableGens, Restorable, GenPresent

\* A step that leaves packs and manifests alone keeps every pointer that it does
\* not write.
LEMMA StoreUnchanged ==
    ASSUME UNCHANGED <<packAt, gens>>
    PROVE  Present' = Present /\ RestorableGens' = RestorableGens
BY DEF Present, RestorableGens, Restorable, GenPresent, PackPresent

\* A step of one request that writes nothing to the store.
LEMMA QuietStepDurable ==
    ASSUME DurableInv, TypeOK', UNCHANGED <<store, clock>>, NEW w \in Workers, NEW r2,
           Become(w, r2), Backed(r2, Present, RestorableGens), CasOrdered(r2)
    PROVE  DurableInv'
<1>1. Present' = Present /\ RestorableGens' = RestorableGens
  BY StoreUnchanged DEF store
<1>2. DurablePointers'
  BY DEF DurableInv, DurablePointers, store, Restorable, GenPresent, PackPresent
<1> QED
  BY <1>1, <1>2, BecomeBacked DEF DurableInv

\* Every step of a request keeps the invariant.
LEMMA StepDurable == ASSUME DurableInv, NEW w \in Workers, Step(w) PROVE DurableInv'
<1> DEFINE r == req[w]
<1>0. /\ TypeOK
      /\ TypeOK'
      /\ r \in Request
      /\ Backed(r, Present, RestorableGens)
      /\ clock # 0
  BY StepTypeOK DEF DurableInv, TypeOK
<1>1. CASE ResolveTip(w)
  BY <1>0, <1>1, QuietStepDurable DEF ResolveTip, Backed, Building, CasOrdered, Idle
<1>2. CASE CheckLocal(w)
  <2> DEFINE r2 == [r EXCEPT !.pc = IF LocalReady(NodeOf[w], r.commit) THEN "record" ELSE "fetch",
                             !.ready = r.commit \in objs[NodeOf[w]]]
  <2>1. r2.pc = "record" \/ r2.pc = "fetch"
    BY <1>0 DEF Request
  <2>2. Backed(r2, Present, RestorableGens) /\ CasOrdered(r2)
    BY <2>1 DEF Backed, Building, CasOrdered
  <2>3. Become(w, r2) /\ UNCHANGED <<store, clock>>
    BY <1>2 DEF CheckLocal
  <2> QED
    BY <1>0, <2>2, <2>3, QuietStepDurable
<1>3. CASE RecordVerifiedBranchRefs(w)
  <2> DEFINE r2 == [r EXCEPT !.pc = "manifests"]
  <2>1. Backed(r2, Present, RestorableGens) /\ CasOrdered(r2)
    BY <1>0 DEF Backed, Building, CasOrdered, Request
  <2>2. (Become(w, r2) \/ Become(w, Idle)) /\ UNCHANGED <<store, clock>>
    BY <1>3 DEF RecordVerifiedBranchRefs, Goto
  <2> QED
    BY <1>0, <2>1, <2>2, QuietStepDurable, IdleBacked
<1>4. CASE EnsureBranchManifests(w)
  <2>1. commitGen[r.commit] # 0 => commitGen[r.commit] \in RestorableGens
    BY <1>0, PointersRestorable DEF DurableInv, Request
  <2> QED
    BY <1>0, <1>4, <2>1, QuietStepDurable
    DEF EnsureBranchManifests, Goto, Backed, Building, CasOrdered, Request
<1>5. CASE FetchBranch(w)
  <2> DEFINE r2 == [r EXCEPT !.pc = "publish", !.locked = TRUE]
  <2>1. Backed(r2, Present, RestorableGens) /\ CasOrdered(r2)
    BY <1>0 DEF Backed, Building, CasOrdered, Request
  <2>2. (Become(w, r2) \/ Become(w, Idle)) /\ UNCHANGED <<store, clock>>
    BY <1>5 DEF FetchBranch
  <2> QED
    BY <1>0, <2>1, <2>2, QuietStepDurable, IdleBacked
<1>6. CASE CheckExisting(w)
  <2>1. commitGen[r.commit] # 0 => commitGen[r.commit] \in RestorableGens
    BY <1>0, PointersRestorable DEF DurableInv, Request
  <2> QED
    BY <1>0, <1>6, <2>1, QuietStepDurable
    DEF CheckExisting, Goto, Backed, Building, CasOrdered, Request
<1>7. CASE ReadHead(w)
  <2>1. GenPresent(head.gen) => gens[head.gen].packs \subseteq Present
    BY <1>0, BoundsAssumption
    DEF DurableInv, DurablePointers, Restorable, GenPresent, Present, TypeOK, StoreTypeOK,
        GenManifest, Gens
  <2> QED
    <3> DEFINE r2 == [r EXCEPT !.pc = "pack", !.gen = nextGen,
                  !.packs = IF r.parent /\ GenPresent(head.gen) THEN gens[head.gen].packs ELSE {},
                  !.tips = IF r.parent /\ GenPresent(head.gen) THEN head.tips ELSE {}]
    <3>1. nextGen \in Gens
      BY <1>0, <1>7, BoundsAssumption DEF ReadHead, NewGeneration, TypeOK, StoreTypeOK, Gens
    <3>2. r2.pc = "pack" /\ r2.gen = nextGen /\ r2.packs \subseteq Present
      BY <1>0, <2>1 DEF Request
    <3>3. Backed(r2, Present, RestorableGens) /\ CasOrdered(r2)
      BY <3>1, <3>2 DEF Backed, Building, CasOrdered
    <3>4. Become(w, r2) /\ UNCHANGED <<store, clock>>
      BY <1>7 DEF ReadHead
    <3> QED
      BY <1>0, <3>3, <3>4, QuietStepDurable
<1>8. CASE PackIncremental(w)
  BY <1>0, <1>8, QuietStepDurable DEF PackIncremental, Backed, Building, CasOrdered, Request
<1>9. CASE PackFull(w)
  BY <1>0, <1>9, QuietStepDurable DEF PackFull, Backed, Building, CasOrdered, Request
<1>10. CASE LocalGitFails(w)
  BY <1>0, <1>10, QuietStepDurable, IdleBacked DEF LocalGitFails
<1>11. CASE SnapshotRefs(w)
  BY <1>0, <1>11, QuietStepDurable DEF SnapshotRefs, Backed, Building, CasOrdered, Request
<1>12. CASE UploadPack(w)
  <2>1. Present' = Present \cup {r.pack}
    BY <1>0, <1>12
    DEF UploadPack, PutPackUnlessPresent, Present, PackPresent, TypeOK, StoreTypeOK, Request
  <2>2. RestorableGens \subseteq RestorableGens'
    BY <1>0, <1>12, <2>1
    DEF UploadPack, RestorableGens, Restorable, GenPresent, Present, TypeOK, StoreTypeOK, GenManifest
  <2>3. Backed([r EXCEPT !.pc = "genManifest"], Present', RestorableGens')
    BY <1>0, <1>12, <2>1 DEF UploadPack, Backed, Building, Request
  <2>4. Become(w, [r EXCEPT !.pc = "genManifest"]) /\ CasOrdered([r EXCEPT !.pc = "genManifest"])
    BY <1>0, <1>12 DEF UploadPack, Goto, CasOrdered, Request
  <2>5. DurablePointers'
    BY <1>0, <1>12, <2>2, PointersRestorable DEF UploadPack, DurableInv, DurablePointers, RestorableGens
  <2> QED
    BY <1>0, <1>12, <2>1, <2>2, <2>3, <2>4, <2>5, BecomeBacked DEF UploadPack, DurableInv
<1>13. CASE WriteGenerationManifest(w)
  <2>1. Present' = Present
    BY <1>13 DEF WriteGenerationManifest, Present, PackPresent
  <2>2. RestorableGens \subseteq RestorableGens'
    BY <1>0, <1>13
    DEF WriteGenerationManifest, RestorableGens, Restorable, GenPresent, PackPresent, Present,
        Backed, TypeOK, StoreTypeOK, Request
  <2>3. r.gen \in RestorableGens'
    BY <1>0, <1>13
    DEF WriteGenerationManifest, RestorableGens, Restorable, GenPresent, PackPresent, Present,
        Backed, Building, TypeOK, StoreTypeOK, Request
  <2>4. Backed([r EXCEPT !.pc = "commitManifests"], Present', RestorableGens')
    BY <1>0, <2>3 DEF Backed, Building, Request
  <2>5. /\ Become(w, [r EXCEPT !.pc = "commitManifests"])
        /\ CasOrdered([r EXCEPT !.pc = "commitManifests"])
    BY <1>0, <1>13 DEF WriteGenerationManifest, Goto, CasOrdered, Request
  <2>6. DurablePointers'
    BY <1>0, <1>13, <2>2, PointersRestorable
    DEF WriteGenerationManifest, DurableInv, DurablePointers, RestorableGens
  <2> QED
    BY <1>0, <1>13, <2>1, <2>2, <2>4, <2>5, <2>6, BecomeBacked
    DEF WriteGenerationManifest, DurableInv
<1>14. CASE WriteCommitManifest(w)
  <2>1. Present' = Present /\ RestorableGens' = RestorableGens
    BY <1>14, StoreUnchanged DEF WriteCommitManifest
  <2>2. PICK c \in r.todo :
          IF commitGen[c] = 0
          THEN /\ commitGen' = [commitGen EXCEPT ![c] = r.gen]
               /\ Become(w, [r EXCEPT !.todo = @ \ {c},
                        !.pc = IF r.todo = {c} THEN "refManifest" ELSE r.pc])
          ELSE Become(w, Idle) /\ UNCHANGED commitGen
    BY <1>14 DEF WriteCommitManifest
  <2>3. r.gen \in RestorableGens
    BY <1>0, <1>14 DEF WriteCommitManifest, Backed
  <2>4. DurablePointers'
    BY <1>0, <1>14, <2>1, <2>2, <2>3
    DEF WriteCommitManifest, DurableInv, DurablePointers, RestorableGens, TypeOK, StoreTypeOK,
        Restorable, GenPresent, PackPresent
  <2>5. CASE commitGen[c] = 0
    <3> DEFINE r2 == [r EXCEPT !.todo = @ \ {c},
                               !.pc = IF r.todo = {c} THEN "refManifest" ELSE r.pc]
    <3>1. Backed(r2, Present', RestorableGens') /\ CasOrdered(r2)
      BY <1>0, <1>14, <2>1, <2>3 DEF WriteCommitManifest, Backed, Building, CasOrdered, Request
    <3> QED
      BY <1>0, <1>14, <2>1, <2>2, <2>4, <2>5, <3>1, BecomeBacked DEF WriteCommitManifest, DurableInv
  <2>6. CASE commitGen[c] # 0
    BY <1>0, <1>14, <2>1, <2>2, <2>4, <2>6, IdleBacked, BecomeBacked
    DEF WriteCommitManifest, DurableInv
  <2> QED
    BY <2>5, <2>6
<1>15. CASE WriteRefManifest(w)
  <2>1. Present' = Present /\ RestorableGens' = RestorableGens
    BY <1>15, StoreUnchanged DEF WriteRefManifest
  <2>2. r.gen \in RestorableGens
    BY <1>0, <1>15 DEF WriteRefManifest, Backed
  <2>3. DurablePointers'
    BY <1>0, <1>15, <2>1, <2>2
    DEF WriteRefManifest, DurableInv, DurablePointers, RestorableGens, TypeOK, StoreTypeOK,
        RefManifest, Restorable, GenPresent, PackPresent
  <2>4. Backed([r EXCEPT !.pc = "headRead"], Present', RestorableGens')
    BY <1>0, <2>1, <2>2 DEF Backed, Building, Request
  <2>5. CasOrdered([r EXCEPT !.pc = "headRead"])
    BY <1>0 DEF CasOrdered, Request
  <2> QED
    BY <1>0, <1>15, <2>1, <2>3, <2>4, <2>5, IdleBacked, BecomeBacked
    DEF WriteRefManifest, Goto, DurableInv
<1>16. CASE ReadHeadVersion(w)
  <2> DEFINE r2 == [r EXCEPT !.pc = "headCas", !.seen = head]
  <2>1. Backed(r2, Present, RestorableGens)
    BY <1>0, <1>16 DEF ReadHeadVersion, Backed, Building, Request
  <2>2. ~(head.at > r.at) => CasOrdered(r2)
    BY <1>0, BoundsAssumption DEF CasOrdered, Request, TypeOK, StoreTypeOK, HeadRecord, Time
  <2> QED
    BY <1>0, <1>16, <2>1, <2>2, IdleBacked, QuietStepDurable DEF ReadHeadVersion
<1>17. CASE CasHead(w)
  <2>1. Present' = Present /\ RestorableGens' = RestorableGens
    BY <1>17, StoreUnchanged DEF CasHead
  <2>2. r.gen \in RestorableGens
    BY <1>0, <1>17 DEF CasHead, Backed
  <2>3. DurablePointers'
    BY <1>0, <1>17, <2>1, <2>2
    DEF CasHead, WriteHeadIfVersionMatches, NewHead, DurableInv, DurablePointers, RestorableGens,
        Restorable, GenPresent, PackPresent
  <2> DEFINE r2 == [r EXCEPT !.pc = "headRead", !.attempts = @ + 1]
  <2>4. Backed(r2, Present', RestorableGens') /\ CasOrdered(r2)
    BY <1>0, <2>1, <2>2 DEF Backed, Building, CasOrdered, Request
  <2> QED
    BY <1>0, <1>17, <2>1, <2>3, <2>4, IdleBacked, BecomeBacked DEF CasHead, DurableInv
<1> QED
  BY <1>1, <1>2, <1>3, <1>4, <1>5, <1>6, <1>7, <1>8, <1>9, <1>10, <1>11, <1>12, <1>13,
     <1>14, <1>15, <1>16, <1>17 DEF Step

\* Neither upstream, time, eviction nor a failing request deletes anything from
\* the store.
LEMMA EnvironmentDurable == ASSUME DurableInv, Environment \/ Tick PROVE DurableInv'
<1>0. TypeOK'
  BY EnvironmentTypeOK DEF DurableInv
<1>1. UNCHANGED store
  BY DEF Environment, UpstreamPush, Evict, Fail, Tick
<1>2. Present' = Present /\ RestorableGens' = RestorableGens
  BY <1>1, StoreUnchanged DEF store
<1>3. DurablePointers'
  BY <1>1 DEF DurableInv, DurablePointers, store, Restorable, GenPresent, PackPresent
<1>4. clock' # 0
  BY BoundsAssumption
  DEF Environment, UpstreamPush, Evict, Fail, Tick, DurableInv, TypeOK, StoreTypeOK, Time
<1>5. UNCHANGED req \/ \E w \in Workers : Become(w, Idle)
  BY DEF Environment, UpstreamPush, Evict, Fail, Tick, pubVars, Become
<1>6. CASE UNCHANGED req
  BY <1>0, <1>2, <1>3, <1>4, <1>6 DEF DurableInv
<1>7. ASSUME NEW w \in Workers, Become(w, Idle) PROVE DurableInv'
  BY <1>0, <1>2, <1>3, <1>4, <1>7, IdleBacked, BecomeBacked DEF DurableInv
<1> QED
  BY <1>5, <1>6, <1>7

\* Nothing is published and nobody publishes initially.
LEMMA InitDurable == Init => DurableInv
<1> SUFFICES ASSUME Init PROVE DurableInv
  OBVIOUS
<1>1. TypeOK
  BY InitTypeOK
<1>2. DurablePointers
  BY DEF Init, StoreInit, DurablePointers, NoHead
<1>3. clock # 0
  BY DEF Init, StoreInit
<1>4. \A w \in Workers : req[w] = Idle
  BY DEF Init
<1> QED
  BY <1>1, <1>2, <1>3, <1>4, IdleBacked DEF DurableInv

\* The invariant is inductive.
LEMMA NextDurable == DurableInv /\ [Next]_vars => DurableInv'
<1> SUFFICES ASSUME DurableInv, [Next]_vars PROVE DurableInv'
  OBVIOUS
<1>1. CASE UNCHANGED vars
  <2>1. TypeOK'
    BY <1>1, NextTypeOK DEF DurableInv
  <2>2. UNCHANGED <<store, clock, req>>
    BY <1>1 DEF vars, pubVars
  <2>3. Present' = Present /\ RestorableGens' = RestorableGens
    BY <2>2, StoreUnchanged DEF store
  <2>4. DurablePointers'
    BY <2>2 DEF DurableInv, DurablePointers, store, Restorable, GenPresent, PackPresent
  <2> QED
    BY <2>1, <2>2, <2>3, <2>4 DEF DurableInv
<1>2. CASE Next
  BY <1>2, StepDurable, EnvironmentDurable DEF Next
<1> QED
  BY <1>1, <1>2

\* However requests interleave and wherever they crash, every commit manifest,
\* branch manifest and head names a generation whose manifest and packs are in
\* the store (publish_pack_files before write_publish_manifests before the head).
THEOREM PointersDurable == Spec => []DurablePointers
<1>1. DurableInv => DurablePointers
  BY DEF DurableInv
<1> QED
  BY <1>1, InitDurable, NextDurable, PTL DEF Spec

\* The head only moves to a generation at least as new
\* (finish_generation_publish re-reads and compares before each CAS).
THEOREM HeadMonotone == Spec => HeadAdvances
<1>1. ASSUME DurableInv, [Next]_vars PROVE [head'.at >= head.at /\ head'.gen # 0]_head
  <2> SUFFICES ASSUME head' # head PROVE head'.at >= head.at /\ head'.gen # 0
    BY SMTT(60)
  <2>1. \E w \in Workers : CasHead(w)
    BY <1>1, ZenonT(60)
    DEF Next, Step, Environment, UpstreamPush, Evict, Fail, Tick, vars, store,
        ResolveTip, CheckLocal, RecordVerifiedBranchRefs, EnsureBranchManifests,
        FetchBranch, CheckExisting, ReadHead, PackIncremental, PackFull, LocalGitFails, SnapshotRefs,
        UploadPack, WriteGenerationManifest, WriteCommitManifest, WriteRefManifest, ReadHeadVersion
  <2>2. PICK w \in Workers : CasHead(w)
    BY <2>1
  <2>3. head = req[w].seen /\ head' = NewHead(req[w]) /\ req[w].pc = "headCas"
    BY <2>2 DEF CasHead, WriteHeadIfVersionMatches
  <2>4. req[w].seen.at <= req[w].at /\ req[w].gen \in Gens
    BY <1>1, <2>3 DEF DurableInv, CasOrdered, Backed, RestorableGens
  <2>5. req[w].at \in Int /\ head.at \in Int
    BY <1>1, BoundsAssumption
    DEF DurableInv, TypeOK, StoreTypeOK, Request, HeadRecord, Time
  <2> QED
    BY <2>3, <2>4, <2>5 DEF NewHead, Gens
<1>2. DurableInv /\ [Next]_vars => [head'.at >= head.at /\ head'.gen # 0]_head
  BY <1>1
<1> QED
  BY <1>2, InitDurable, NextDurable, PTL DEF Spec, HeadAdvances

-----------------------------------------------------------------------------
(* Complete manifests, when no two requests share a node's repository.      *)
(* The invariant says which histories the packs of a publish in flight      *)
(* hold, phase by phase, and that nobody else writes its manifest.          *)

OneWorkerPerNode == \A v, w \in Workers : NodeOf[v] = NodeOf[w] => v = w

Objects == [g \in Gens |-> GenObjects(g)]

SnapTips(snap) == {snap[b] : b \in Branches} \ {NoCommit}

\* local: the refs of the node the request runs on.
Complete(r, local, objects) ==
    /\ r.pc \in {"manifests", "publish", "readHead", "pack"}
            => SnapTips(local) = {} \/ r.commit \in Closure(SnapTips(local))
    /\ r.pc \in {"resolved", "record", "fetch", "manifests", "publish", "readHead"}
            => r.tips = {}
    /\ r.pc = "pack" => Closure(r.tips) \subseteq UNION r.packs
    /\ r.pc = "snapshot"
            => Closure(SnapTips(local) \cup {r.commit} \cup r.tips) \subseteq UNION r.packs
    /\ r.pc \in {"upload", "genManifest"}
            => Closure(SnapTips(r.snap) \cup r.todo \cup r.tips) \subseteq UNION r.packs
    /\ r.pc = "commitManifests" => Closure(r.todo \cup r.tips) \subseteq objects[r.gen]
    /\ r.pc \in {"refManifest", "headRead", "headCas"} => Closure(r.tips) \subseteq objects[r.gen]

Written == {g \in Gens : GenPresent(g)}

FreshInv ==
    /\ \A w \in Workers : req[w].pc \in Building => req[w].gen < nextGen /\ req[w].gen \notin Written
    /\ \A v, w \in Workers :
            v # w /\ req[v].pc \in Building /\ req[w].pc \in Building => req[v].gen # req[w].gen
    /\ \A g \in Written : g < nextGen

CompleteInv ==
    /\ DurableInv
    /\ FreshInv
    /\ \A w \in Workers : Complete(req[w], refs[NodeOf[w]], Objects)
    /\ CompleteManifests
    /\ TipsCovered
    /\ SnapshotsApply

\* A step that draws no id and writes no generation manifest keeps ids fresh.
LEMMA QuietFresh ==
    ASSUME DurableInv, FreshInv, UNCHANGED <<gens, nextGen>>, NEW w \in Workers, NEW r2,
           Become(w, r2),
           r2.pc \in Building => req[w].pc \in Building /\ r2.gen = req[w].gen
    PROVE  FreshInv'
<1>1. Written' = Written
  BY DEF Written, GenPresent
<1>2. \A v \in Workers : req'[v].pc \in Building => req[v].pc \in Building /\ req'[v].gen = req[v].gen
  BY DEF Become, DurableInv, TypeOK
<1> QED
  BY <1>1, <1>2 DEF FreshInv

\* GenerationId::new() keeps generations apart: a manifest is written once, by
\* the publish that drew its id.
LEMMA StepFresh == ASSUME DurableInv, FreshInv, NEW w \in Workers, Step(w) PROVE FreshInv'
<1> DEFINE r == req[w]
<1>0. /\ r \in Request
      /\ req \in [Workers -> Request]
      /\ Idle.pc \notin Building
      /\ nextGen \in Int
  BY BoundsAssumption DEF DurableInv, TypeOK, StoreTypeOK, Idle, Building
<1>1. CASE ResolveTip(w)
  BY <1>0, <1>1, QuietFresh, IdleType DEF ResolveTip, store, Building, Request
<1>2. CASE CheckLocal(w)
  <2> DEFINE r2 == [r EXCEPT !.pc = IF LocalReady(NodeOf[w], r.commit) THEN "record" ELSE "fetch",
                             !.ready = r.commit \in objs[NodeOf[w]]]
  <2>1. r2.pc \notin Building
    BY <1>0 DEF Request, Building
  <2>2. Become(w, r2) /\ UNCHANGED <<gens, nextGen>>
    BY <1>2 DEF CheckLocal, store
  <2> QED
    BY <2>1, <2>2, QuietFresh
<1>3. CASE RecordVerifiedBranchRefs(w)
  <2>1. [r EXCEPT !.pc = "manifests"].pc \notin Building
    BY <1>0 DEF Request, Building
  <2>2. Become(w, [r EXCEPT !.pc = "manifests"]) \/ Become(w, Idle)
    BY <1>3 DEF RecordVerifiedBranchRefs, Goto
  <2>3. UNCHANGED <<gens, nextGen>>
    BY <1>3 DEF RecordVerifiedBranchRefs, store
  <2> QED
    BY <1>0, <2>1, <2>2, <2>3, QuietFresh
<1>4. CASE EnsureBranchManifests(w)
  BY <1>0, <1>4, QuietFresh DEF EnsureBranchManifests, Goto, store, Building, Request
<1>5. CASE FetchBranch(w)
  <2>1. [r EXCEPT !.pc = "publish", !.locked = TRUE].pc \notin Building
    BY <1>0 DEF Request, Building
  <2>2. Become(w, [r EXCEPT !.pc = "publish", !.locked = TRUE]) \/ Become(w, Idle)
    BY <1>5 DEF FetchBranch
  <2>3. UNCHANGED <<gens, nextGen>>
    BY <1>5 DEF FetchBranch, store
  <2> QED
    BY <1>0, <2>1, <2>2, <2>3, QuietFresh
<1>6. CASE CheckExisting(w)
  BY <1>0, <1>6, QuietFresh DEF CheckExisting, Goto, store, Building, Request
<1>7. CASE ReadHead(w)
  <2>1. Written' = Written /\ nextGen' = nextGen + 1
    BY <1>7 DEF ReadHead, NewGeneration, store, Written, GenPresent
  <2>2. req'[w].gen = nextGen
    BY <1>0, <1>7 DEF ReadHead, Become, Request
  <2>3. \A v \in Workers : v # w => req'[v] = req[v]
    BY <1>0, <1>7 DEF ReadHead, Become
  <2>4. \A v \in Workers : req[v].gen \in Int
    BY <1>0, BoundsAssumption DEF Request, GenOrNone
  <2>5. \A g \in Written : g \in Int
    BY DEF Written, Gens
  <2> QED
    BY <1>0, <2>1, <2>2, <2>3, <2>4, <2>5 DEF FreshInv
<1>8. CASE PackIncremental(w)
  BY <1>0, <1>8, QuietFresh DEF PackIncremental, store, Building, Request
<1>9. CASE PackFull(w)
  BY <1>0, <1>9, QuietFresh DEF PackFull, store, Building, Request
<1>10. CASE LocalGitFails(w)
  BY <1>0, <1>10, QuietFresh DEF LocalGitFails, store
<1>11. CASE SnapshotRefs(w)
  BY <1>0, <1>11, QuietFresh DEF SnapshotRefs, store, Building, Request
<1>12. CASE UploadPack(w)
  BY <1>0, <1>12, QuietFresh DEF UploadPack, Goto, Building, Request
<1>13. CASE WriteGenerationManifest(w)
  <2>1. Written' \subseteq Written \cup {r.gen}
    BY <1>0, <1>13 DEF WriteGenerationManifest, Written, GenPresent, DurableInv, TypeOK, StoreTypeOK
  <2>2. req'[w].pc \notin Building /\ r.pc \in Building /\ nextGen' = nextGen
    BY <1>0, <1>13 DEF WriteGenerationManifest, Goto, Become, Building, Request
  <2>3. \A v \in Workers : v # w => req'[v] = req[v]
    BY <1>0, <1>13 DEF WriteGenerationManifest, Goto, Become
  <2> QED
    BY <2>1, <2>2, <2>3 DEF FreshInv
<1>14. CASE WriteCommitManifest(w)
  <2>1. PICK c \in r.todo :
          \/ Become(w, [r EXCEPT !.todo = @ \ {c},
                        !.pc = IF r.todo = {c} THEN "refManifest" ELSE r.pc])
          \/ Become(w, Idle)
    BY <1>14 DEF WriteCommitManifest
  <2>2. [r EXCEPT !.todo = @ \ {c},
                  !.pc = IF r.todo = {c} THEN "refManifest" ELSE r.pc].pc \notin Building
    BY <1>0, <1>14 DEF WriteCommitManifest, Request, Building
  <2>3. UNCHANGED <<gens, nextGen>>
    BY <1>14 DEF WriteCommitManifest
  <2> QED
    BY <1>0, <2>1, <2>2, <2>3, QuietFresh
<1>15. CASE WriteRefManifest(w)
  BY <1>0, <1>15, QuietFresh DEF WriteRefManifest, Goto, Building, Request
<1>16. CASE ReadHeadVersion(w)
  BY <1>0, <1>16, QuietFresh DEF ReadHeadVersion, store, Building, Request
<1>17. CASE CasHead(w)
  BY <1>0, <1>17, QuietFresh DEF CasHead, Building, Request
<1> QED
  BY <1>1, <1>2, <1>3, <1>4, <1>5, <1>6, <1>7, <1>8, <1>9, <1>10, <1>11, <1>12, <1>13,
     <1>14, <1>15, <1>16, <1>17 DEF Step

\* The environment neither draws ids nor writes manifests.
LEMMA EnvironmentFresh == ASSUME DurableInv, FreshInv, Environment \/ Tick PROVE FreshInv'
<1>1. UNCHANGED <<gens, nextGen>>
  BY DEF Environment, UpstreamPush, Evict, Fail, Tick, store
<1>2. UNCHANGED req \/ \E w \in Workers : Become(w, Idle)
  BY DEF Environment, UpstreamPush, Evict, Fail, Tick, pubVars, Become
<1>3. CASE UNCHANGED req
  BY <1>1, <1>3 DEF FreshInv, Written, GenPresent
<1>4. ASSUME NEW w \in Workers, Become(w, Idle) PROVE FreshInv'
  <2>1. Idle.pc \notin Building
    BY DEF Idle, Building
  <2> QED
    BY <1>1, <1>4, <2>1, QuietFresh
<1> QED
  BY <1>2, <1>3, <1>4

\* Histories of a union (Closure).
LEMMA ClosureUnion ==
    ASSUME NEW S, NEW T
    PROVE  /\ Closure(S \cup T) = Closure(S) \cup Closure(T)
           /\ S \subseteq T => Closure(S) \subseteq Closure(T)
           /\ Closure({}) = {}
BY DEF Closure

\* The history of a commit contains the commit.
LEMMA ClosureMember ==
    ASSUME NEW S \in SUBSET Commits, NEW c \in S
    PROVE  Anc[c] \subseteq Closure(S) /\ c \in Closure(S)
BY HistoryAssumption DEF Closure

\* What is in the history of a set brings its own history along.
LEMMA ClosureClosed ==
    ASSUME NEW S \in SUBSET Commits, NEW c \in Closure(S)
    PROVE  c \in Commits /\ Closure({c}) = Anc[c] /\ Anc[c] \subseteq Closure(S)
<1>1. PICK d \in S : c \in Anc[d]
  BY DEF Closure
<1>2. Anc[c] \subseteq Anc[d] /\ c \in Commits
  BY <1>1, HistoryAssumption
<1> QED
  BY <1>1, <1>2, ClosureMember DEF Closure

\* A request that is idle owes nothing.
LEMMA IdleComplete == ASSUME NEW L, NEW O PROVE Complete(Idle, L, O)
BY DEF Complete, Idle

\* One worker moves on to r2; its node is its own, and generations that can be
\* restored keep their objects.
LEMMA BecomeComplete ==
    ASSUME OneWorkerPerNode, CompleteInv, NEW w \in Workers, NEW r2, Become(w, r2),
           \A g \in RestorableGens : Objects'[g] = Objects[g],
           \A n \in Nodes : n # NodeOf[w] => refs'[n] = refs[n],
           Complete(r2, refs'[NodeOf[w]], Objects')
    PROVE  \A v \in Workers : Complete(req'[v], refs'[NodeOf[v]], Objects')
<1> SUFFICES ASSUME NEW v \in Workers PROVE Complete(req'[v], refs'[NodeOf[v]], Objects')
  OBVIOUS
<1>1. CASE v = w
  BY <1>1 DEF Become, CompleteInv, DurableInv, TypeOK
<1>2. CASE v # w
  <2>1. req'[v] = req[v]
    BY <1>2 DEF Become, CompleteInv, DurableInv, TypeOK
  <2>2. refs'[NodeOf[v]] = refs[NodeOf[v]]
    BY <1>2, PublishAssumption DEF OneWorkerPerNode
  <2>3. req[v].pc \in {"commitManifests", "refManifest", "headRead", "headCas"}
            => Objects'[req[v].gen] = Objects[req[v].gen]
    BY DEF CompleteInv, DurableInv, Backed
  <2>4. Complete(req[v], refs[NodeOf[v]], Objects)
    BY DEF CompleteInv
  <2>5. Complete(req[v], refs[NodeOf[v]], Objects')
    BY <2>3, <2>4 DEF Complete
  <2> QED
    BY <2>1, <2>2, <2>5
<1> QED
  BY <1>1, <1>2

\* A step of one request that writes neither manifests nor the head.
LEMMA QuietStepComplete ==
    ASSUME OneWorkerPerNode, CompleteInv, DurableInv', FreshInv',
           UNCHANGED <<gens, commitGen, head>>, NEW w \in Workers, NEW r2, Become(w, r2),
           \A n \in Nodes : n # NodeOf[w] => refs'[n] = refs[n],
           Complete(r2, refs'[NodeOf[w]], Objects)
    PROVE  CompleteInv'
<1>1. Objects' = Objects
  BY DEF Objects, GenObjects
<1>2. \A v \in Workers : Complete(req'[v], refs'[NodeOf[v]], Objects')
  BY <1>1, BecomeComplete
<1>3. CompleteManifests' /\ TipsCovered' /\ SnapshotsApply'
  BY DEF CompleteInv, CompleteManifests, TipsCovered, SnapshotsApply, GenObjects, GenPresent
<1> QED
  BY <1>2, <1>3 DEF CompleteInv

\* Every step of a request keeps the invariant.
LEMMA StepComplete ==
    ASSUME OneWorkerPerNode, CompleteInv, NEW w \in Workers, Step(w)
    PROVE  CompleteInv'
<1> DEFINE r == req[w]
           n == NodeOf[w]
           L == refs[NodeOf[w]]
<1>0. /\ DurableInv' /\ FreshInv'
      /\ TypeOK
      /\ r \in Request
      /\ n \in Nodes
      /\ L \in RefSnapshot
      /\ Complete(r, L, Objects)
      /\ Backed(r, Present, RestorableGens)
      /\ SnapTips(L) = RefTips(n)
      /\ RefTips(n) \in SUBSET Commits
  BY StepDurable, StepFresh, PublishAssumption, RefTipsType
  DEF CompleteInv, DurableInv, TypeOK, SnapTips, RefTips
<1>00. Closure({}) = {}
  BY ClosureUnion
<1>1. CASE ResolveTip(w)
  <2>1. PICK b \in Branches :
           Become(w, [Idle EXCEPT !.pc = "resolved", !.branch = b, !.commit = upstream[b]])
    BY <1>1 DEF ResolveTip
  <2>2. Complete([Idle EXCEPT !.pc = "resolved", !.branch = b, !.commit = upstream[b]], L, Objects)
    BY DEF Complete, Idle
  <2> QED
    BY <1>0, <1>1, <2>1, <2>2, QuietStepComplete DEF ResolveTip, store, nodeVars
<1>2. CASE CheckLocal(w)
  <2> DEFINE r2 == [r EXCEPT !.pc = IF LocalReady(n, r.commit) THEN "record" ELSE "fetch",
                             !.ready = r.commit \in objs[n]]
  <2>1. r2.pc \in {"record", "fetch"} /\ r2.tips = {}
    BY <1>0, <1>2 DEF CheckLocal, Complete, Request
  <2>2. Complete(r2, L, Objects)
    BY <2>1 DEF Complete
  <2>3. Become(w, r2) /\ UNCHANGED <<gens, commitGen, head, refs>>
    BY <1>2 DEF CheckLocal, store, nodeVars
  <2> QED
    BY <1>0, <2>2, <2>3, QuietStepComplete
<1>3. CASE RecordVerifiedBranchRefs(w)
  <2> DEFINE r2 == [r EXCEPT !.pc = "manifests"]
  <2>1. UNCHANGED <<gens, commitGen, head>> /\ \A m \in Nodes : m # n => refs'[m] = refs[m]
    BY <1>0, <1>3 DEF RecordVerifiedBranchRefs, store, TypeOK
  <2>2. CASE r.commit \in objs[n]
    <3>1. refs'[n] = [L EXCEPT ![r.branch] = r.commit] /\ Become(w, r2)
      BY <1>0, <1>3, <2>2 DEF RecordVerifiedBranchRefs, Goto, TypeOK
    <3>2. r.commit \in Closure(SnapTips(refs'[n]))
      <4>1. r.branch \in Branches /\ r.commit \in Commits /\ r.commit # NoCommit
        BY <1>0, HistoryAssumption DEF Request
      <4>2. refs'[n][r.branch] = r.commit /\ refs'[n] \in RefSnapshot
        BY <1>0, <3>1, <4>1 DEF RefSnapshot
      <4>3. r.commit \in SnapTips(refs'[n]) /\ SnapTips(refs'[n]) \in SUBSET Commits
        BY <4>1, <4>2 DEF SnapTips, RefSnapshot
      <4> QED
        BY <4>3, ClosureMember
    <3>3. r2.pc = "manifests" /\ r2.tips = {} /\ r2.commit = r.commit
      BY <1>0, <1>3 DEF RecordVerifiedBranchRefs, Complete, Request
    <3>4. Complete(r2, refs'[n], Objects)
      BY <3>2, <3>3 DEF Complete
    <3> QED
      BY <1>0, <2>1, <3>1, <3>4, QuietStepComplete
  <2>3. CASE r.commit \notin objs[n]
    BY <1>0, <1>3, <2>1, <2>3, IdleComplete, QuietStepComplete DEF RecordVerifiedBranchRefs
  <2> QED
    BY <2>2, <2>3
<1>4. CASE EnsureBranchManifests(w)
  <2>1. r.tips = {} /\ r.pc = "manifests"
    BY <1>0, <1>4 DEF EnsureBranchManifests, Complete
  <2>2. UNCHANGED <<gens, commitGen, head, refs>>
    BY <1>4 DEF EnsureBranchManifests, store, nodeVars
  <2>3. Complete([r EXCEPT !.pc = "refManifest", !.gen = commitGen[r.commit]], L, Objects)
    BY <1>0, <1>00, <2>1 DEF Complete, Request
  <2>4. Complete([r EXCEPT !.pc = "publish"], L, Objects)
    BY <1>0, <2>1 DEF Complete, Request
  <2>5. \/ Become(w, [r EXCEPT !.pc = "refManifest", !.gen = commitGen[r.commit]])
        \/ Become(w, [r EXCEPT !.pc = "publish"])
    BY <1>4 DEF EnsureBranchManifests, Goto
  <2> QED
    BY <1>0, <2>2, <2>3, <2>4, <2>5, QuietStepComplete
<1>5. CASE FetchBranch(w)
  <2> DEFINE r2 == [r EXCEPT !.pc = "publish", !.locked = TRUE]
  <2>1. UNCHANGED <<gens, commitGen, head>> /\ \A m \in Nodes : m # n => refs'[m] = refs[m]
    BY <1>0, <1>5 DEF FetchBranch, store, TypeOK
  <2>2. CASE upstream[r.branch] = r.commit /\ Become(w, r2)
    <3>1. refs'[n] = [L EXCEPT ![r.branch] = r.commit]
      BY <1>0, <1>5, <2>2 DEF FetchBranch, TypeOK
    <3>2. r.commit \in Closure(SnapTips(refs'[n]))
      <4>1. r.branch \in Branches /\ r.commit \in Commits /\ r.commit # NoCommit
        BY <1>0, HistoryAssumption DEF Request
      <4>2. refs'[n][r.branch] = r.commit /\ refs'[n] \in RefSnapshot
        BY <1>0, <3>1, <4>1 DEF RefSnapshot
      <4>3. r.commit \in SnapTips(refs'[n]) /\ SnapTips(refs'[n]) \in SUBSET Commits
        BY <4>1, <4>2 DEF SnapTips, RefSnapshot
      <4> QED
        BY <4>3, ClosureMember
    <3>3. r2.pc = "publish" /\ r2.tips = {} /\ r2.commit = r.commit
      BY <1>0, <1>5 DEF FetchBranch, Complete, Request
    <3>4. Complete(r2, refs'[n], Objects)
      BY <3>2, <3>3 DEF Complete
    <3> QED
      BY <1>0, <2>1, <2>2, <3>4, QuietStepComplete
  <2>3. CASE Become(w, Idle)
    BY <1>0, <2>1, <2>3, IdleComplete, QuietStepComplete
  <2> QED
    BY <1>5, <2>2, <2>3 DEF FetchBranch
<1>6. CASE CheckExisting(w)
  <2>1. r.tips = {} /\ r.pc = "publish"
    BY <1>0, <1>6 DEF CheckExisting, Complete
  <2>2. UNCHANGED <<gens, commitGen, head, refs>>
    BY <1>6 DEF CheckExisting, store, nodeVars
  <2>3. Complete([r EXCEPT !.pc = "refManifest", !.gen = commitGen[r.commit]], L, Objects)
    BY <1>0, <1>00, <2>1 DEF Complete, Request
  <2>4. Complete([r EXCEPT !.pc = "readHead"], L, Objects)
    BY <1>0, <2>1 DEF Complete, Request
  <2>5. \/ Become(w, [r EXCEPT !.pc = "refManifest", !.gen = commitGen[r.commit]])
        \/ Become(w, [r EXCEPT !.pc = "readHead"])
    BY <1>6 DEF CheckExisting, Goto
  <2> QED
    BY <1>0, <2>2, <2>3, <2>4, <2>5, QuietStepComplete
<1>7. CASE ReadHead(w)
  <2> DEFINE packs == IF r.parent /\ GenPresent(head.gen) THEN gens[head.gen].packs ELSE {}
             tips == IF r.parent /\ GenPresent(head.gen) THEN head.tips ELSE {}
             r2 == [r EXCEPT !.pc = "pack", !.gen = nextGen, !.packs = packs, !.tips = tips]
  <2>1. Closure(tips) \subseteq UNION packs
    BY <1>00 DEF CompleteInv, TipsCovered, GenObjects
  <2>2. r2.pc = "pack" /\ r2.packs = packs /\ r2.tips = tips /\ r2.commit = r.commit
    BY <1>0 DEF Request
  <2>3. SnapTips(L) = {} \/ r.commit \in Closure(SnapTips(L))
    BY <1>0, <1>7 DEF ReadHead, Complete
  <2>4. Complete(r2, L, Objects)
    BY <2>1, <2>2, <2>3 DEF Complete
  <2>5. Become(w, r2) /\ UNCHANGED <<gens, commitGen, head, refs>>
    BY <1>7 DEF ReadHead, store, nodeVars
  <2> QED
    BY <1>0, <2>4, <2>5, QuietStepComplete
<1>8. CASE PackIncremental(w)
  <2> DEFINE pack == PackObjectsRevs(RefTips(n), r.tips)
             r2 == [r EXCEPT !.pc = "snapshot", !.at = clock, !.pack = pack,
                             !.packs = r.packs \cup {pack}, !.tips = r.tips \cup {r.commit}]
  <2>1. r.pc = "pack" /\ RefTips(n) # {} /\ Closure(r.tips) \subseteq UNION r.packs
    BY <1>0, <1>8 DEF PackIncremental, CanPack, Complete
  <2>2. Closure({r.commit}) \subseteq Closure(RefTips(n))
    <3>1. r.commit \in Closure(RefTips(n))
      BY <1>0, <2>1 DEF Complete
    <3> QED
      BY <1>0, <3>1, ClosureClosed
  <2>3. Closure(RefTips(n)) \cup Closure(r.tips) \subseteq UNION (r.packs \cup {pack})
    BY <2>1 DEF PackObjectsRevs
  <2>4. Closure(RefTips(n) \cup {r.commit} \cup (r.tips \cup {r.commit}))
            = Closure(RefTips(n)) \cup Closure(r.tips)
    <3>1. RefTips(n) \cup {r.commit} \cup (r.tips \cup {r.commit})
             = (RefTips(n) \cup {r.commit}) \cup r.tips
      OBVIOUS
    <3>2. Closure(RefTips(n) \cup {r.commit}) = Closure(RefTips(n))
      BY <2>2, ClosureUnion, SMTT(60)
    <3>3. Closure((RefTips(n) \cup {r.commit}) \cup r.tips)
             = Closure(RefTips(n) \cup {r.commit}) \cup Closure(r.tips)
      BY ClosureUnion
    <3> QED
      BY <3>1, <3>2, <3>3
  <2>5. /\ r2.pc = "snapshot" /\ r2.packs = r.packs \cup {pack}
        /\ r2.tips = r.tips \cup {r.commit} /\ r2.commit = r.commit
    BY <1>0 DEF Request
  <2>6. Complete(r2, L, Objects)
    BY <1>0, <2>3, <2>4, <2>5 DEF Complete
  <2>7. Become(w, r2) /\ UNCHANGED <<gens, commitGen, head, refs>>
    BY <1>8 DEF PackIncremental, store, nodeVars
  <2> QED
    BY <1>0, <2>6, <2>7, QuietStepComplete
<1>9. CASE PackFull(w)
  <2> DEFINE pack == PackObjectsRevs(RefTips(n), {})
             r2 == [r EXCEPT !.pc = "snapshot", !.at = clock, !.pack = pack,
                             !.packs = {pack}, !.tips = {r.commit}]
  <2>1. r.pc = "pack" /\ RefTips(n) # {}
    BY <1>9 DEF PackFull, CanPack
  <2>2. Closure({r.commit}) \subseteq Closure(RefTips(n))
    <3>1. r.commit \in Closure(RefTips(n))
      BY <1>0, <2>1 DEF Complete
    <3> QED
      BY <1>0, <3>1, ClosureClosed
  <2>3. Closure(RefTips(n)) \subseteq UNION {pack}
    BY <1>00 DEF PackObjectsRevs
  <2>4. Closure(RefTips(n) \cup {r.commit} \cup {r.commit}) = Closure(RefTips(n))
    <3>1. RefTips(n) \cup {r.commit} \cup {r.commit} = RefTips(n) \cup {r.commit}
      OBVIOUS
    <3> QED
      BY <2>2, <3>1, ClosureUnion
  <2>5. r2.pc = "snapshot" /\ r2.packs = {pack} /\ r2.tips = {r.commit} /\ r2.commit = r.commit
    BY <1>0 DEF Request
  <2>6. Complete(r2, L, Objects)
    BY <1>0, <2>3, <2>4, <2>5 DEF Complete
  <2>7. Become(w, r2) /\ UNCHANGED <<gens, commitGen, head, refs>>
    BY <1>9 DEF PackFull, store, nodeVars
  <2> QED
    BY <1>0, <2>6, <2>7, QuietStepComplete
<1>10. CASE LocalGitFails(w)
  BY <1>0, <1>10, IdleComplete, QuietStepComplete DEF LocalGitFails, store, nodeVars
<1>11. CASE SnapshotRefs(w)
  <2> DEFINE commits == {r.commit} \cup {c \in RefTips(n) : commitGen[c] = 0}
             r2 == [r EXCEPT !.pc = "upload", !.snap = L, !.commits = commits, !.todo = commits]
  <2>1. Closure(SnapTips(L) \cup {r.commit} \cup r.tips) \subseteq UNION r.packs
    BY <1>0, <1>11 DEF SnapshotRefs, Complete
  <2>2. SnapTips(L) \cup commits \cup r.tips \subseteq SnapTips(L) \cup {r.commit} \cup r.tips
    BY <1>0
  <2>3. Closure(SnapTips(L) \cup commits \cup r.tips) \subseteq UNION r.packs
    BY <2>1, <2>2, ClosureUnion
  <2>4. /\ r2.pc = "upload" /\ r2.snap = L /\ r2.todo = commits
        /\ r2.tips = r.tips /\ r2.packs = r.packs
    BY <1>0 DEF Request
  <2>5. Complete(r2, L, Objects)
    BY <2>3, <2>4 DEF Complete
  <2>6. Become(w, r2) /\ UNCHANGED <<gens, commitGen, head, refs>>
    BY <1>11 DEF SnapshotRefs, store, nodeVars
  <2> QED
    BY <1>0, <2>5, <2>6, QuietStepComplete
<1>12. CASE UploadPack(w)
  <2>1. Complete([r EXCEPT !.pc = "genManifest"], L, Objects)
    BY <1>0, <1>12 DEF UploadPack, Complete, Request
  <2>2. Become(w, [r EXCEPT !.pc = "genManifest"]) /\ UNCHANGED <<gens, commitGen, head, refs>>
    BY <1>12 DEF UploadPack, Goto, nodeVars
  <2> QED
    BY <1>0, <2>1, <2>2, QuietStepComplete
<1>13. CASE WriteGenerationManifest(w)
  <2> DEFINE r2 == [r EXCEPT !.pc = "commitManifests"]
             manifest == [at |-> r.at, packs |-> r.packs, refs |-> r.snap, commits |-> r.commits]
  <2>1. r.pc = "genManifest" /\ r.gen \in Gens /\ r.gen \notin Written
    BY <1>0, <1>13 DEF WriteGenerationManifest, Backed, Building, CompleteInv, FreshInv
  <2>2. /\ gens' = [gens EXCEPT ![r.gen] = manifest]
        /\ Become(w, r2)
        /\ UNCHANGED <<commitGen, head, refs>>
    BY <1>13 DEF WriteGenerationManifest, Goto, nodeVars
  <2>3. /\ gens'[r.gen] = manifest
        /\ \A g \in Gens : g # r.gen => gens'[g] = gens[g]
    BY <1>0, <2>1, <2>2 DEF TypeOK, StoreTypeOK
  <2>4. /\ Objects'[r.gen] = UNION r.packs
        /\ \A g \in Gens : g # r.gen => Objects'[g] = Objects[g]
    <3>1. Objects' = [g \in Gens |-> UNION gens'[g].packs]
      BY DEF Objects, GenObjects
    <3>2. Objects = [g \in Gens |-> UNION gens[g].packs]
      BY DEF Objects, GenObjects
    <3>3. gens'[r.gen].packs = r.packs
      BY <2>3
    <3>4. Objects'[r.gen] = UNION gens'[r.gen].packs
      BY <2>1, <3>1
    <3>5. \A g \in Gens : g # r.gen => Objects'[g] = Objects[g]
      BY <2>3, <3>1, <3>2
    <3> QED
      BY <3>3, <3>4, <3>5
  <2>5. \A g \in RestorableGens : g \in Gens /\ g # r.gen
    BY <2>1 DEF RestorableGens, Restorable, Written
  <2>6. \A g \in RestorableGens : Objects'[g] = Objects[g]
    BY <2>4, <2>5
  <2>7. Closure(SnapTips(r.snap) \cup r.todo \cup r.tips) \subseteq UNION r.packs
    BY <1>0, <2>1 DEF Complete
  <2>8. Closure(r.todo \cup r.tips) \subseteq UNION r.packs
    BY <2>7, ClosureUnion
  <2>9. Complete(r2, refs'[n], Objects')
    <3>1. r2.pc = "commitManifests" /\ r2.todo = r.todo /\ r2.tips = r.tips /\ r2.gen = r.gen
      BY <1>0 DEF Request
    <3> QED
      BY <2>4, <2>8, <3>1 DEF Complete
  <2>10. \A v \in Workers : Complete(req'[v], refs'[NodeOf[v]], Objects')
    BY <2>2, <2>6, <2>9, BecomeComplete
  <2>11. CompleteManifests'
    <3> SUFFICES ASSUME NEW c \in Commits, commitGen[c] # 0
                 PROVE  Anc[c] \subseteq GenObjects(commitGen[c])'
      BY <2>2 DEF CompleteManifests
    <3>1. commitGen[c] \in RestorableGens
      BY <1>0, PointersRestorable DEF CompleteInv, DurableInv
    <3>2. gens'[commitGen[c]] = gens[commitGen[c]]
      BY <2>3, <2>5, <3>1
    <3> QED
      BY <2>2, <3>2 DEF CompleteInv, CompleteManifests, GenObjects
  <2>12. TipsCovered'
    <3> SUFFICES ASSUME GenPresent(head.gen)'
                 PROVE  Closure(head.tips) \subseteq GenObjects(head.gen)'
      BY <2>2 DEF TipsCovered, Closure
    <3>1. head.gen # 0
      BY <2>2 DEF GenPresent, Gens
    <3>2. head.gen \in RestorableGens
      BY <1>0, <3>1, PointersRestorable DEF CompleteInv, DurableInv
    <3>3. gens'[head.gen] = gens[head.gen] /\ GenPresent(head.gen)
      BY <2>3, <2>5, <3>2 DEF RestorableGens, Restorable
    <3> QED
      BY <2>2, <3>3 DEF CompleteInv, TipsCovered, GenObjects
  <2>13. SnapshotsApply'
    <3> SUFFICES ASSUME NEW g \in Gens, NEW b \in Branches, gens'[g].refs[b] # NoCommit
                 PROVE  gens'[g].refs[b] \in UNION gens'[g].packs
      BY DEF SnapshotsApply, GenObjects
    <3>1. CASE g # r.gen
      BY <2>3, <3>1 DEF CompleteInv, SnapshotsApply, GenObjects
    <3>2. CASE g = r.gen
      <4>1. r.snap[b] \in SnapTips(r.snap) /\ SnapTips(r.snap) \in SUBSET Commits
        BY <1>0, <2>3, <3>2 DEF SnapTips, Request, RefSnapshot
      <4>2. r.snap[b] \in Closure(SnapTips(r.snap))
        BY <4>1, ClosureMember
      <4>3. Closure(SnapTips(r.snap)) \subseteq UNION r.packs
        BY <2>7, ClosureUnion
      <4> QED
        BY <2>3, <3>2, <4>2, <4>3
    <3> QED
      BY <3>1, <3>2
  <2> QED
    BY <1>0, <2>10, <2>11, <2>12, <2>13 DEF CompleteInv
<1>14. CASE WriteCommitManifest(w)
  <2>1. PICK c \in r.todo :
          IF commitGen[c] = 0
          THEN /\ commitGen' = [commitGen EXCEPT ![c] = r.gen]
               /\ Become(w, [r EXCEPT !.todo = @ \ {c},
                        !.pc = IF r.todo = {c} THEN "refManifest" ELSE r.pc])
          ELSE Become(w, Idle) /\ UNCHANGED commitGen
    BY <1>14 DEF WriteCommitManifest
  <2>2. /\ r.pc = "commitManifests"
        /\ r.gen \in Gens
        /\ Closure(r.todo \cup r.tips) \subseteq Objects[r.gen]
        /\ UNCHANGED <<gens, head, refs>>
    BY <1>0, <1>14 DEF WriteCommitManifest, Complete, Backed, RestorableGens, nodeVars
  <2>3. CASE commitGen[c] # 0
    BY <1>0, <2>1, <2>2, <2>3, IdleComplete, QuietStepComplete
  <2>4. CASE commitGen[c] = 0
    <3> DEFINE r2 == [r EXCEPT !.todo = @ \ {c},
                               !.pc = IF r.todo = {c} THEN "refManifest" ELSE r.pc]
    <3>1. commitGen' = [commitGen EXCEPT ![c] = r.gen] /\ Become(w, r2)
      BY <2>1, <2>4
    <3>2. Objects' = Objects
      BY <2>2 DEF Objects, GenObjects
    <3>3. Complete(r2, refs'[n], Objects')
      <4>1. /\ r2.pc \in {"commitManifests", "refManifest"}
            /\ r2.todo = r.todo \ {c} /\ r2.tips = r.tips /\ r2.gen = r.gen
        BY <1>0, <2>2 DEF Request
      <4>2. /\ Closure(r2.todo \cup r2.tips) \subseteq Objects[r.gen]
            /\ Closure(r2.tips) \subseteq Objects[r.gen]
        BY <2>2, <4>1, ClosureUnion
      <4> QED
        BY <3>2, <4>1, <4>2 DEF Complete
    <3>4. \A v \in Workers : Complete(req'[v], refs'[NodeOf[v]], Objects')
      BY <2>2, <3>1, <3>2, <3>3, BecomeComplete
    <3>5. CompleteManifests'
      <4>1. c \in Commits /\ Anc[c] \subseteq Closure(r.todo)
        BY <1>0, ClosureMember DEF Request
      <4>2. Anc[c] \subseteq Objects[r.gen]
        BY <2>2, <4>1, ClosureUnion
      <4>3. Anc[c] \subseteq UNION gens[r.gen].packs
        BY <2>2, <4>2 DEF Objects, GenObjects
      <4> QED
        BY <1>0, <2>2, <3>1, <4>1, <4>3
        DEF CompleteInv, CompleteManifests, GenObjects, TypeOK, StoreTypeOK
    <3>6. TipsCovered' /\ SnapshotsApply'
      BY <2>2 DEF CompleteInv, TipsCovered, SnapshotsApply, GenObjects, GenPresent
    <3> QED
      BY <1>0, <3>4, <3>5, <3>6 DEF CompleteInv
  <2> QED
    BY <2>3, <2>4
<1>15. CASE WriteRefManifest(w)
  <2>1. Complete([r EXCEPT !.pc = "headRead"], L, Objects)
    BY <1>0, <1>15 DEF WriteRefManifest, Complete, Request
  <2>2. (Become(w, Idle) \/ Become(w, [r EXCEPT !.pc = "headRead"]))
          /\ UNCHANGED <<gens, commitGen, head, refs>>
    BY <1>15 DEF WriteRefManifest, Goto, nodeVars
  <2> QED
    BY <1>0, <2>1, <2>2, IdleComplete, QuietStepComplete
<1>16. CASE ReadHeadVersion(w)
  <2>1. Complete([r EXCEPT !.pc = "headCas", !.seen = head], L, Objects)
    BY <1>0, <1>16 DEF ReadHeadVersion, Complete, Request
  <2>2. (Become(w, Idle) \/ Become(w, [r EXCEPT !.pc = "headCas", !.seen = head]))
          /\ UNCHANGED <<gens, commitGen, head, refs>>
    BY <1>16 DEF ReadHeadVersion, store, nodeVars
  <2> QED
    BY <1>0, <2>1, <2>2, IdleComplete, QuietStepComplete
<1>17. CASE CasHead(w)
  <2> DEFINE r2 == [r EXCEPT !.pc = "headRead", !.attempts = @ + 1]
  <2>1. /\ Closure(r.tips) \subseteq Objects[r.gen] /\ r.gen \in Gens
        /\ UNCHANGED <<gens, commitGen, refs>>
        /\ Become(w, r2) \/ Become(w, Idle)
        /\ head' = head \/ head' = NewHead(r)
    BY <1>0, <1>17
    DEF CasHead, WriteHeadIfVersionMatches, Complete, Backed, RestorableGens, nodeVars
  <2>2. Objects' = Objects
    BY <2>1 DEF Objects, GenObjects
  <2>3. Complete(r2, L, Objects)
    BY <1>0, <2>1 DEF Complete, Request
  <2>4. \A v \in Workers : Complete(req'[v], refs'[NodeOf[v]], Objects')
    BY <2>1, <2>2, <2>3, IdleComplete, BecomeComplete
  <2>5. Closure(r.tips) \subseteq GenObjects(r.gen)
    BY <2>1 DEF Objects
  <2>6. TipsCovered'
    <3>1. CASE head' = head
      BY <2>1, <3>1 DEF CompleteInv, TipsCovered, GenObjects, GenPresent
    <3>2. CASE head' = NewHead(r)
      <4>1. head'.gen = r.gen /\ head'.tips = r.tips
        BY <3>2 DEF NewHead
      <4>2. GenObjects(head.gen)' = GenObjects(r.gen)
        BY <2>1, <4>1 DEF GenObjects
      <4> QED
        BY <2>5, <4>1, <4>2 DEF TipsCovered, Closure
    <3> QED
      BY <2>1, <3>1, <3>2
  <2>7. CompleteManifests' /\ SnapshotsApply'
    BY <2>1 DEF CompleteInv, CompleteManifests, SnapshotsApply, GenObjects
  <2> QED
    BY <1>0, <2>4, <2>6, <2>7 DEF CompleteInv
<1> QED
  BY <1>1, <1>2, <1>3, <1>4, <1>5, <1>6, <1>7, <1>8, <1>9, <1>10, <1>11, <1>12, <1>13,
     <1>14, <1>15, <1>16, <1>17 DEF Step

\* Eviction empties the refs of a node; a request running there then publishes
\* nothing but what its pack already holds, or fails to pack.
LEMMA EnvironmentComplete == ASSUME CompleteInv, Environment \/ Tick PROVE CompleteInv'
<1>0. DurableInv' /\ FreshInv'
  BY EnvironmentDurable, EnvironmentFresh DEF CompleteInv
<1>1. UNCHANGED <<gens, commitGen, head>>
  BY DEF Environment, UpstreamPush, Evict, Fail, Tick, store
<1>2. Objects' = Objects
  BY <1>1 DEF Objects, GenObjects
<1>3. CompleteManifests' /\ TipsCovered' /\ SnapshotsApply'
  BY <1>1 DEF CompleteInv, CompleteManifests, TipsCovered, SnapshotsApply, GenObjects, GenPresent
<1>4. ASSUME NEW w \in Workers PROVE Complete(req'[w], refs'[NodeOf[w]], Objects')
  <2>1. Complete(req[w], refs[NodeOf[w]], Objects) /\ NodeOf[w] \in Nodes
    BY PublishAssumption DEF CompleteInv
  <2>2. req'[w] = req[w] \/ req'[w] = Idle
    BY DEF Environment, UpstreamPush, Evict, Fail, Tick, pubVars, CompleteInv, DurableInv, TypeOK
  <2>3. refs'[NodeOf[w]] = refs[NodeOf[w]] \/ refs'[NodeOf[w]] = NoRefs
    BY <2>1
    DEF Environment, UpstreamPush, Evict, Fail, Tick, pubVars, nodeVars, CompleteInv, DurableInv,
        TypeOK
  <2>4. SnapTips(NoRefs) = {}
    BY DEF SnapTips, NoRefs
  <2>5. Complete(req[w], NoRefs, Objects)
    <3>1. req[w].pc = "snapshot"
             => Closure(SnapTips(NoRefs) \cup {req[w].commit} \cup req[w].tips)
                    \subseteq UNION req[w].packs
      BY <2>1, <2>4, ClosureUnion DEF Complete
    <3> QED
      BY <2>1, <2>4, <3>1 DEF Complete
  <2> QED
    BY <1>2, <2>1, <2>2, <2>3, <2>5, IdleComplete
<1> QED
  BY <1>0, <1>3, <1>4 DEF CompleteInv

\* The empty store is complete.
LEMMA InitComplete == Init => CompleteInv
<1> SUFFICES ASSUME Init PROVE CompleteInv
  OBVIOUS
<1>1. DurableInv
  BY InitDurable
<1>2. Written = {} /\ \A w \in Workers : req[w] = Idle
  BY DEF Init, StoreInit, Written, GenPresent, NoManifest
<1>3. FreshInv
  <2>1. Idle.pc \notin Building
    BY DEF Idle, Building
  <2> QED
    BY <1>2, <2>1 DEF FreshInv
<1>4. CompleteManifests /\ TipsCovered
  BY DEF Init, StoreInit, CompleteManifests, TipsCovered, GenPresent, NoHead, Gens
<1>5. SnapshotsApply
  BY DEF Init, StoreInit, SnapshotsApply, NoManifest, NoRefs
<1> QED
  BY <1>1, <1>2, <1>3, <1>4, <1>5, IdleComplete DEF CompleteInv

\* The invariant is inductive when requests do not share a repository.
LEMMA NextComplete ==
    ASSUME OneWorkerPerNode
    PROVE  CompleteInv /\ [Next]_vars => CompleteInv'
<1> SUFFICES ASSUME CompleteInv, [Next]_vars PROVE CompleteInv'
  OBVIOUS
<1>1. CASE UNCHANGED vars
  <2>1. DurableInv'
    BY NextDurable DEF CompleteInv
  <2>2. UNCHANGED <<gens, commitGen, head, nextGen, req, refs>>
    BY <1>1 DEF vars, store, pubVars, nodeVars
  <2>3. FreshInv'
    BY <2>2 DEF CompleteInv, FreshInv, Written, GenPresent
  <2>4. Objects' = Objects
    BY <2>2 DEF Objects, GenObjects
  <2>5. CompleteManifests' /\ TipsCovered' /\ SnapshotsApply'
    BY <2>2 DEF CompleteInv, CompleteManifests, TipsCovered, SnapshotsApply, GenObjects, GenPresent
  <2> QED
    BY <2>1, <2>2, <2>3, <2>4, <2>5 DEF CompleteInv
<1>2. CASE Next
  BY <1>2, StepComplete, EnvironmentComplete DEF Next
<1> QED
  BY <1>1, <1>2

\* When no two requests for the repository run on the same node, a commit
\* manifest is never written for a generation that lacks part of the commit's
\* history, whatever upstream does, force pushes included, and wherever
\* requests crash or caches are evicted (what branch_tip_closure_attested
\* assumes; the shared-node run shows the condition is needed).
THEOREM ManifestsComplete ==
    ASSUME OneWorkerPerNode PROVE Spec => []CompleteManifests
<1>1. CompleteInv => CompleteManifests
  BY DEF CompleteInv
<1> QED
  BY <1>1, InitComplete, NextComplete, PTL DEF Spec

\* Under the same condition the packs of the head generation hold the history of
\* every tip the head records, so that the next incremental pack, which leaves
\* those histories out, completes a generation.
THEOREM TipsAlwaysCovered ==
    ASSUME OneWorkerPerNode PROVE Spec => []TipsCovered
<1>1. CompleteInv => TipsCovered
  BY DEF CompleteInv
<1> QED
  BY <1>1, InitComplete, NextComplete, PTL DEF Spec

\* And the ref snapshot of every generation points into its own packs, so that
\* hydrate_generation can apply it in an empty repository.
THEOREM SnapshotsAlwaysApply ==
    ASSUME OneWorkerPerNode PROVE Spec => []SnapshotsApply
<1>1. CompleteInv => SnapshotsApply
  BY DEF CompleteInv
<1> QED
  BY <1>1, InitComplete, NextComplete, PTL DEF Spec

=============================================================================
