-------------------------- MODULE GenerationStore --------------------------
(***************************************************************************)
(* The durable layer of one repository: what the object store holds below  *)
(* repos/<repo>/ and the conditional writes the cache performs on it.      *)
(*                                                                         *)
(* A Git object closure is abstracted to a set of commits, Anc[c] being    *)
(* the history of c, c included.  A pack is content-addressed, so a pack   *)
(* IS its content: a set of commits.  The version token of the head object *)
(* is a digest of its content, so the content stands for the token.        *)
(***************************************************************************)
EXTENDS Integers, FiniteSets

CONSTANTS
    Commits,     \* the commits of the upstream repository
    Anc,         \* Anc[c]: the commits reachable from c
    Branches,    \* the upstream branches
    NoCommit,    \* an absent ref
    MaxGen,      \* bound: how many generation ids are handed out
    MaxTime      \* bound: the last instant of the clock

ASSUME HistoryAssumption ==
    /\ Anc \in [Commits -> SUBSET Commits]
    /\ \A c \in Commits : c \in Anc[c]
    /\ \A c \in Commits : \A d \in Anc[c] : Anc[d] \subseteq Anc[c]
    /\ NoCommit \notin Commits

ASSUME BoundsAssumption == MaxGen \in Nat /\ MaxTime \in Nat \ {0}

VARIABLES
    packAt,      \* pack objects: time of the last put, 0 when absent
    gens,        \* generation manifests, at = 0 when absent
    commitGen,   \* commit manifests: the generation named, 0 when absent
    refGen,      \* branch manifests: commit and generation, gen = 0 when absent
    head,        \* generation-head.json, gen = 0 when absent
    nextGen,     \* the next GenerationId
    clock        \* Utc::now()

store == <<packAt, gens, commitGen, refGen, head>>

Gens == 1 .. MaxGen
GenOrNone == 0 .. MaxGen
Time == 0 .. MaxTime
Pack == SUBSET Commits
RefSnapshot == [Branches -> Commits \cup {NoCommit}]
GenManifest == [at : Time, packs : SUBSET Pack, refs : RefSnapshot, commits : SUBSET Commits]
RefManifest == [commit : Commits \cup {NoCommit}, gen : GenOrNone]
HeadRecord == [gen : GenOrNone, tips : SUBSET Commits, at : Time]

NoRefs == [b \in Branches |-> NoCommit]
NoManifest == [at |-> 0, packs |-> {}, refs |-> NoRefs, commits |-> {}]
NoHead == [gen |-> 0, tips |-> {}, at |-> 0]

StoreTypeOK ==
    /\ packAt \in [Pack -> Time]
    /\ gens \in [Gens -> GenManifest]
    /\ commitGen \in [Commits -> GenOrNone]
    /\ refGen \in [Branches -> RefManifest]
    /\ head \in HeadRecord
    /\ nextGen \in 1 .. (MaxGen + 1)
    /\ clock \in Time

StoreInit ==
    /\ packAt = [p \in Pack |-> 0]
    /\ gens = [g \in Gens |-> NoManifest]
    /\ commitGen = [c \in Commits |-> 0]
    /\ refGen = [b \in Branches |-> [commit |-> NoCommit, gen |-> 0]]
    /\ head = NoHead
    /\ nextGen = 1
    /\ clock = 1

-----------------------------------------------------------------------------
(* What a reader of the store can rebuild.                                 *)

Closure(cs) == UNION {Anc[c] : c \in cs}

PackPresent(p) == packAt[p] # 0

GenPresent(g) == g \in Gens /\ gens[g].at # 0

\* The commits a node that hydrates generation g obtains.
GenObjects(g) == UNION gens[g].packs

\* Generation g can be hydrated by a node with an empty cache.
Restorable(g) == GenPresent(g) /\ \A p \in gens[g].packs : PackPresent(p)

-----------------------------------------------------------------------------
(* Writes.                                                                 *)

\* Mutant of PutPackUnlessPresent: the existence check is inverted.
PutPackIfPresent(p) ==
    packAt' = IF PackPresent(p) THEN [packAt EXCEPT ![p] = clock] ELSE packAt

\* publish_pack_files: an object already present is not uploaded again.
PutPackUnlessPresent(p) ==
    packAt' = IF PackPresent(p) THEN packAt ELSE [packAt EXCEPT ![p] = clock]

\* put_if_version_matches / put_if_absent on the head object.
WriteHeadIfVersionMatches(new, seen) ==
    head' = IF head = seen THEN new ELSE head

\* GenerationId::new() is never handed out twice.
NewGeneration == nextGen <= MaxGen /\ nextGen' = nextGen + 1

=============================================================================
