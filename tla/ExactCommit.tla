---------------------------- MODULE ExactCommit ----------------------------
(***************************************************************************)
(* Materialization of exact commits next to that of branches: a commit     *)
(* with a manifest is hydrated from its generation; another one is indexed *)
(* in a generation known to hold it (the commit manifest is the index), if *)
(* need be after the head generation has been hydrated or all branches     *)
(* fetched; what no generation holds is published as in module Publish.    *)
(***************************************************************************)
EXTENDS Publish

VARIABLE answered    \* commits for which a request has returned success

exactVars == <<vars, answered>>

ExactInit == Init /\ answered = {}

ExactTypeOK == TypeOK /\ answered \subseteq Commits

AnswerFor(w) == answered' = answered \cup {req[w].commit}
Succeed(w) == Become(w, Idle) /\ AnswerFor(w)
Continue(w, pc) ==
    Become(w, [req[w] EXCEPT !.pc = pc, !.gen = 0]) /\ UNCHANGED answered
LookUp(w, from) ==
    Become(w, [req[w] EXCEPT !.pc = "index", !.from = from, !.gen = 0]) /\ UNCHANGED answered
Fails(w) == Become(w, Idle) /\ UNCHANGED answered

-----------------------------------------------------------------------------
(* ensure_exact_commit                                                     *)

\* Mutant of ReadCommitManifest: a commit the node has is answered as it is.
ServeLocalCommit(w) ==
    /\ req[w].pc = "idle"
    /\ \E c \in Commits :
        LET r == [Idle EXCEPT !.commit = c, !.exact = TRUE] IN
        IF c \in objs[NodeOf[w]]
        THEN answered' = answered \cup {c} /\ UNCHANGED req
        ELSE /\ Become(w, IF commitGen[c] = 0 THEN [r EXCEPT !.pc = "local"]
                          ELSE [r EXCEPT !.pc = "hydrateCommit", !.gen = commitGen[c]])
             /\ UNCHANGED answered
    /\ UNCHANGED <<store, nextGen, clock, upstream, nodeVars, faults>>

\* A request for a commit reads its manifest first (hydrate_commit, up to the
\* download): nothing to do when there is one and the node has the commit.
ReadCommitManifest(w) ==
    /\ req[w].pc = "idle"
    /\ \E c \in Commits :
        LET r == [Idle EXCEPT !.commit = c, !.exact = TRUE] IN
        IF commitGen[c] # 0 /\ c \in objs[NodeOf[w]]
        THEN answered' = answered \cup {c} /\ UNCHANGED req
        ELSE /\ Become(w, IF commitGen[c] = 0 THEN [r EXCEPT !.pc = "local"]
                          ELSE [r EXCEPT !.pc = "hydrateCommit", !.gen = commitGen[c]])
             /\ UNCHANGED answered
    /\ UNCHANGED <<store, nextGen, clock, upstream, nodeVars, faults>>

\* A commit the node holds is looked up in the known generations; for another
\* one the head generation is hydrated first.
CheckExactLocal(w) ==
    LET r == req[w] IN
    /\ r.pc = "local"
    /\ IF r.commit \in objs[NodeOf[w]] THEN LookUp(w, "local")
       ELSE IF head.gen = 0 THEN Continue(w, "fetchAll")
       ELSE /\ Become(w, [r EXCEPT !.pc = "hydrateHead", !.gen = head.gen])
            /\ UNCHANGED answered
    /\ UNCHANGED <<store, nextGen, clock, upstream, nodeVars, faults>>

\* hydrate_generation: the manifest is read, the missing packs are downloaded,
\* checked and indexed ...
HydratePacks(w) ==
    LET r == req[w]  n == NodeOf[w] IN
    /\ r.pc \in {"hydrateCommit", "hydrateHead"}
    /\ Restorable(r.gen)
    /\ objs' = [objs EXCEPT ![n] = @ \cup GenObjects(r.gen)]
    /\ Goto(w, IF r.pc = "hydrateCommit" THEN "commitRefs" ELSE "headRefs")
    /\ UNCHANGED <<store, nextGen, clock, upstream, refs, faults, answered>>

\* ... and the ref snapshot is applied, to a repository that may have newer
\* refs; update-ref refuses a ref to a missing object.
ApplyRefSnapshot(w) ==
    LET r == req[w]  n == NodeOf[w]  snap == gens[r.gen].refs
        named == {b \in Branches : snap[b] # NoCommit} IN
    /\ r.pc \in {"commitRefs", "headRefs"}
    /\ IF {snap[b] : b \in named} \subseteq objs[n]
       THEN /\ refs' = [refs EXCEPT ![n] =
                          [b \in Branches |-> IF b \in named THEN snap[b] ELSE refs[n][b]]]
            /\ CASE r.pc = "commitRefs" /\ r.commit \in objs[n] -> Succeed(w)
                 [] r.pc = "commitRefs" /\ r.commit \notin objs[n] -> Continue(w, "local")
                 [] r.pc = "headRefs" ->
                      IF r.commit \in objs[n] THEN LookUp(w, "hydrated") ELSE Continue(w, "fetchAll")
       ELSE Fails(w) /\ UNCHANGED refs
    /\ UNCHANGED <<store, nextGen, clock, upstream, objs, faults>>

\* The store does not answer or an object is gone: a miss, at most once for
\* either hydration of a request.  A head that could not be hydrated is not built
\* upon.
HydrateUnavailable(w) ==
    LET r == req[w] IN
    /\ r.pc \in {"hydrateCommit", "hydrateHead"}
    /\ IF r.pc = "hydrateCommit" THEN Continue(w, "local")
       ELSE /\ Become(w, [r EXCEPT !.pc = "fetchAll", !.parent = FALSE, !.gen = 0])
            /\ UNCHANGED answered
    /\ UNCHANGED <<store, nextGen, clock, upstream, nodeVars, faults>>

-----------------------------------------------------------------------------
(* index_local_commit_from_known_generation                                *)

\* No known generation holds the commit: each of the three callers goes on in its
\* own way.
IndexMisses(w) ==
    LET r == req[w] IN
    /\ Become(w, [r EXCEPT
            !.pc = CASE r.from = "local" -> IF r.commit \in objs[NodeOf[w]] THEN "fetchAll" ELSE "local"
                     [] r.from = "hydrated" -> "fetchAll"
                     [] r.from = "fetched" -> "publish",
            !.from = "local", !.seen = NoHead, !.todo = {}])
    /\ UNCHANGED answered

IndexIn(w, g) ==
    Become(w, [req[w] EXCEPT !.pc = "indexWrite", !.gen = g, !.from = "local",
                             !.seen = NoHead, !.todo = {}])

\* The head is read first ...
IndexReadHead(w) ==
    LET r == req[w] IN
    /\ r.pc = "index"
    /\ IF head.gen = 0 THEN IndexMisses(w)
       ELSE /\ Become(w, [r EXCEPT !.pc = "indexTips", !.seen = head, !.todo = head.tips])
            /\ UNCHANGED answered
    /\ UNCHANGED <<store, nextGen, clock, upstream, nodeVars, faults>>

\* ... then, one after the other, the manifests of its tips: its generation is
\* the one when a tip, still in that generation, descends from the commit.
IndexFromHead(w) ==
    LET r == req[w]  n == NodeOf[w] IN
    /\ r.pc = "indexTips"
    /\ \E t \in r.todo :
        IF commitGen[t] = r.seen.gen /\ t \in objs[n] /\ r.commit \in Anc[t]
        THEN IndexIn(w, r.seen.gen)
        ELSE Become(w, [r EXCEPT !.todo = @ \ {t}])
    /\ UNCHANGED <<store, nextGen, clock, upstream, nodeVars, faults, answered>>

\* Otherwise the refs that contain the commit are listed, the head's tips aside;
\* Git fails if the commit was evicted.
IndexListRefs(w) ==
    LET r == req[w]  n == NodeOf[w] IN
    /\ r.pc = "indexTips" /\ r.todo = {}
    /\ IF r.commit \in objs[n]
       THEN /\ Become(w, [r EXCEPT !.pc = "indexRefs", !.seen = NoHead,
                            !.todo = {t \in RefTips(n) \ r.seen.tips : r.commit \in Anc[t]}])
            /\ UNCHANGED answered
       ELSE Fails(w)
    /\ UNCHANGED <<store, nextGen, clock, upstream, nodeVars, faults>>

\* Mutant of IndexFromRef: the generation of the head is taken for the tip's.
IndexFromRefHead(w) ==
    LET r == req[w] IN
    /\ r.pc = "indexRefs"
    /\ \/ /\ \E t \in r.todo :
              IF commitGen[t] # 0 THEN IndexIn(w, head.gen)
              ELSE Become(w, [r EXCEPT !.todo = @ \ {t}])
          /\ UNCHANGED answered
       \/ r.todo = {} /\ IndexMisses(w)
    /\ UNCHANGED <<store, nextGen, clock, upstream, nodeVars, faults>>

\* The first of them with a manifest tells the generation.
IndexFromRef(w) ==
    LET r == req[w] IN
    /\ r.pc = "indexRefs"
    /\ \/ /\ \E t \in r.todo :
              IF commitGen[t] # 0 THEN IndexIn(w, commitGen[t])
              ELSE Become(w, [r EXCEPT !.todo = @ \ {t}])
          /\ UNCHANGED answered
       \/ r.todo = {} /\ IndexMisses(w)
    /\ UNCHANGED <<store, nextGen, clock, upstream, nodeVars, faults>>

\* index_local_commit overwrites the manifest, whoever wrote it meanwhile.
IndexLocalCommit(w) ==
    LET r == req[w] IN
    /\ r.pc = "indexWrite"
    /\ commitGen' = [commitGen EXCEPT ![r.commit] = r.gen]
    /\ Succeed(w)
    /\ UNCHANGED <<packAt, gens, refGen, head, nextGen, clock, upstream, nodeVars, faults>>

-----------------------------------------------------------------------------
(* fetch_all_refs                                                          *)

UpstreamTips == {upstream[b] : b \in Branches}

FetchAllHeads(n) ==
    /\ objs' = [objs EXCEPT ![n] = @ \cup (Closure(UpstreamTips) \ Closure(RefTips(n)))]
    /\ refs' = [refs EXCEPT ![n] = upstream]

\* After the fetch the commit must be there.
FetchAllRefs(w) ==
    LET r == req[w]  n == NodeOf[w] IN
    /\ r.pc = "fetchAll"
    /\ FetchAllHeads(n)
    /\ IF r.commit \in objs'[n]
       THEN IF r.parent THEN LookUp(w, "fetched") ELSE Continue(w, "publish")
       ELSE Fails(w)
    /\ UNCHANGED <<store, nextGen, clock, upstream, faults>>

\* ensure_short_commit: the prefix is resolved among what upstream's refs reach.
FetchShortCommit(w) ==
    /\ req[w].pc = "idle"
    /\ FetchAllHeads(NodeOf[w])
    /\ \E c \in Closure(UpstreamTips) :
        Become(w, [Idle EXCEPT !.pc = "publish", !.commit = c, !.exact = TRUE])
    /\ UNCHANGED <<store, nextGen, clock, upstream, faults, answered>>

-----------------------------------------------------------------------------
ExactStep(w) ==
    \/ ReadCommitManifest(w) \/ CheckExactLocal(w)
    \/ HydratePacks(w) \/ ApplyRefSnapshot(w) \/ HydrateUnavailable(w)
    \/ IndexReadHead(w) \/ IndexFromHead(w) \/ IndexListRefs(w) \/ IndexFromRef(w)
    \/ IndexLocalCommit(w) \/ FetchAllRefs(w) \/ FetchShortCommit(w)

\* A step of module Publish; the last one of a publish is its answer.
PublishStep(w) ==
    /\ Step(w)
    /\ IF /\ req[w].pc \in {"refManifest", "headRead", "headCas"}
          /\ req'[w].pc = "idle"
       THEN AnswerFor(w) ELSE UNCHANGED answered

ExactNext ==
    \/ \E w \in Workers : PublishStep(w) \/ ExactStep(w)
    \/ (Environment \/ Tick) /\ UNCHANGED answered

ExactSpec == ExactInit /\ [][ExactNext]_exactVars

-----------------------------------------------------------------------------
(* Properties                                                              *)

\* The commits a node with an empty cache can restore with their history.
Durable ==
    {c \in {d \in Commits : commitGen[d] # 0} :
        Restorable(commitGen[c]) /\ Anc[c] \subseteq GenObjects(commitGen[c])}

Cache == INSTANCE DurableCache WITH durable <- Durable, tips <- head.tips

\* The publish and the index paths implement the abstract cache: no step of any
\* request takes a commit out of it, answers for one that is not in it, or
\* moves the head to tips that are not in it.
ImplementsDurableCache == Cache!Spec

=============================================================================
