----------------------------- MODULE DirectGit -----------------------------
(***************************************************************************)
(* Direct Git serving of one repository on one node.  A clone or fetch     *)
(* states an intent (wanted commits or blobs, blob filter, depth); the     *)
(* node makes sure its bare repository can serve it, fetching or hydrating *)
(* what is missing, and starts upload-pack.  Whether the repository can    *)
(* serve an intent is told from the objects it holds and from three files: *)
(* Git's shallow file, the partial-hydration marker and the                *)
(* incomplete-closure marker.                                              *)
(*                                                                         *)
(* A commit stands for itself with its trees; its blobs are one object of  *)
(* their own.  Upstream does not move, but a proof of its refs may be old. *)
(***************************************************************************)
EXTENDS Integers, FiniteSets

CONSTANTS
    Commits, Parents,       \* Parents[c]: the parents of commit c
    Branches, Tips,         \* Tips[b]: the tip of branch b upstream
    Manifest,               \* Manifest[c]: what the generation of c's commit
                            \* manifest holds; {} without a manifest
    Workers,
    Warmed,                 \* what earlier requests may have left
    Intents,                \* the requests clients make
    MaxLocalDepth,          \* MAX_LOCAL_DEPTH_WINDOW_PROOF
    CommitReadThrough,      \* git_remote.commit_read_through
    MaxRequests,            \* bound: requests in a behaviour
    MaxFaults               \* bound: evictions, dropped requests, restarts

Intent ==
    [wants : SUBSET Commits,              \* wanted commits
     blobs : SUBSET Commits,              \* commits whose blobs are wanted
     blobless : BOOLEAN,                  \* filter blob:none
     depth : 0 .. Cardinality(Commits),   \* 0: no deepen line
     from : SUBSET Commits,               \* the client's shallow lines
     proof : [Branches -> Commits]]       \* the ref advertisement it rests on

Repo ==
    [exists : BOOLEAN,               \* config is there
     commits : SUBSET Commits,
     blobs : SUBSET Commits,
     refs : SUBSET Commits,          \* commits a ref names
     shallow : SUBSET Commits,       \* the shallow file
     partial : BOOLEAN,              \* PARTIAL_HYDRATION_MARKER
     suspect : BOOLEAN]              \* INCOMPLETE_CLOSURE_MARKER

Nobody == "nobody"
Maintenance == "maintenance"

ASSUME DirectGitAssumption ==
    /\ Parents \in [Commits -> SUBSET Commits]
    /\ Tips \in [Branches -> Commits]
    /\ Manifest \in [Commits -> SUBSET Commits]
    /\ IsFiniteSet(Commits)
    /\ Workers \cap {Nobody, Maintenance} = {}
    /\ Intents \subseteq Intent /\ Intents # {}
    /\ Warmed \subseteq Repo /\ \A r \in Warmed : r.exists
    /\ MaxLocalDepth \in Nat /\ MaxRequests \in Nat /\ MaxFaults \in Nat
    /\ CommitReadThrough \in BOOLEAN

VARIABLES
    repo,      \* the bare repository
    mutation,  \* who holds the per-repository mutation lock
    tasks,     \* direct_fsck_inflight and serving_maintenance_inflight
    doomed,    \* what the running repack will not copy, or what an import
               \* takes away with its pack if it fails
    req,       \* req[w]: the request worker w executes
    answer,    \* answer[w]: how the last upload-pack of w ended
    requests, faults,
    untrusted  \* a request ended between a fetch and its bookkeeping, cleared
               \* the partial marker after the repository changed under it,
               \* hydrated for a shallow clone a generation without its history,
               \* or undid an import that others may have relied on

vars == <<repo, mutation, tasks, doomed, req, answer, requests, faults, untrusted>>

NoRepo == [exists |-> FALSE, commits |-> {}, blobs |-> {}, refs |-> {},
           shallow |-> {}, partial |-> FALSE, suspect |-> FALSE]

Objects == [commits : SUBSET Commits, blobs : SUBSET Commits]
Nothing == [commits |-> {}, blobs |-> {}]

Request ==
    [pc : {"idle", "prepare", "prepareWants", "proxied", "tee", "teeMark", "ensure",
           "lock", "markers", "boundary", "classify", "hydrate", "mutation",
           "fetch", "fetched", "retry", "mark", "finish", "spawn"},
     intent : Intent,
     serve : BOOLEAN,                \* FALSE: a background warm
     locked : BOOLEAN,               \* holds a RepoLock
     shallowMiss : BOOLEAN,          \* shallow_repo_cannot_serve_locally
     force : BOOLEAN,                \* force_refetch
     marked : BOOLEAN,               \* closure_marker_present
     ext : {"none", "unshallow", "deepen"},      \* history_extension
     cold : SUBSET Commits,          \* wants to hydrate; missing after the fetch
     proven : SUBSET SUBSET Commits, \* verified_hydrated_generations
     pending : SUBSET Commits,
     blobs : SUBSET Commits,         \* pending blob wants
     refetch : BOOLEAN,              \* pending_requires_refetch
     verify : BOOLEAN,               \* pending_needs_closure_verify
     hotClosure : BOOLEAN,           \* checked_suspect_hot_closure, all complete
     allHeads : BOOLEAN,             \* fetched_all_heads
     raced : BOOLEAN]                \* another request changed the repository

Idle == [pc |-> "idle", intent |-> CHOOSE i \in Intents : TRUE,
         serve |-> FALSE, locked |-> FALSE, shallowMiss |-> FALSE,
         force |-> FALSE, marked |-> FALSE, ext |-> "none", cold |-> {},
         proven |-> {}, pending |-> {}, blobs |-> {}, refetch |-> FALSE, verify |-> FALSE,
         hotClosure |-> FALSE, allHeads |-> FALSE, raced |-> FALSE]

Answer ==
    [intent : Intent, raced : BOOLEAN,
     how : {"none", "error", "proxied", "whole", "cut", "dies"}]

NoAnswer == [intent |-> Idle.intent, raced |-> FALSE, how |-> "none"]

\* The repository's files live and die with its directory: no request writes
\* into one that was evicted under it, since it holds a RepoLock.
DirectTypeOK ==
    /\ repo \in Repo /\ (repo.exists \/ repo = NoRepo)
    /\ mutation \in Workers \cup {Nobody, Maintenance}
    /\ tasks \subseteq {"fsck", Maintenance}
    /\ doomed \in Objects
    /\ req \in [Workers -> Request]
    /\ answer \in [Workers -> Answer]
    /\ requests \in 0 .. MaxRequests
    /\ faults \in 0 .. MaxFaults
    /\ untrusted \in BOOLEAN

Init ==
    /\ repo \in Warmed \cup {NoRepo}
    /\ mutation = Nobody
    /\ tasks = {}
    /\ doomed = Nothing
    /\ req = [w \in Workers |-> Idle]
    /\ answer = [w \in Workers |-> NoAnswer]
    /\ requests = 0
    /\ faults = 0
    /\ untrusted = FALSE

-----------------------------------------------------------------------------
(* History as Git walks it                                                 *)

\* The commits at most d - 1 parents away from S, not looking past cut.
Window(S, d, cut) ==
    LET W[i \in 0 .. d] ==
            IF i = 0 THEN {}
            ELSE IF i = 1 THEN S
            ELSE LET near == W[i - 1] IN
                 near \cup UNION {Parents[c] : c \in near \ cut}
    IN W[d]

Reach(S, cut) == Window(S, Cardinality(Commits), cut)

\* Where history of depth d from S ends although there is more of it.
Edge(S, d) == {c \in Window(S, d, {}) \ Window(S, d - 1, {}) : Parents[c] # {}}

\* git fetch: the server leaves out what the refs of the repository reach, those
\* that name a missing object aside, unless the client refetches; a depth moves
\* the shallow boundary.
Fetch(r, tips, o, negotiate) ==
    LET have == IF negotiate /\ ~o.refetch
                THEN Reach(r.refs \cap r.commits, r.shallow) ELSE {}
        inside == r.shallow \cap Reach(tips, {})
        shallow ==
            CASE o.depth > 0 ->
                    (r.shallow \ Window(tips, o.depth, {})) \cup Edge(tips, o.depth)
              [] o.depth = 0 /\ o.ext = "unshallow" -> r.shallow \ inside
              [] o.depth = 0 /\ o.ext = "deepen" ->
                    (r.shallow \ inside) \cup Edge(inside, o.by + 1)
              [] OTHER -> r.shallow
        sent == (IF o.depth > 0 THEN Window(tips, o.depth, {})
                 ELSE Reach(tips, shallow)) \ have
    IN [r EXCEPT !.commits = @ \cup sent, !.shallow = shallow,
                 !.blobs = IF o.blobless THEN @ ELSE @ \cup sent]

\* resolve_shallow_boundary drops --unshallow and --deepen in a complete
\* repository; the fetched branches are named by refs.
FetchHeads(r, tips, o) ==
    LET e == IF r.shallow = {} THEN "none" ELSE o.ext IN
    [Fetch(r, tips, [o EXCEPT !.ext = e], TRUE) EXCEPT !.refs = @ \cup tips]

\* Exact objects are fetched without negotiation, never move the boundary on
\* their own, and leave no ref.
FetchObjects(r, commits, blobs, o) ==
    LET f == IF commits = {} THEN r
             ELSE Fetch(r, commits, [o EXCEPT !.ext = "none"], FALSE)
    IN [f EXCEPT !.blobs = @ \cup blobs]

-----------------------------------------------------------------------------
(* What the node can tell about its repository                             *)

\* Mutant of WindowReady: the shallow boundary is not looked at.
WindowReadyPresent(c, d) ==
    /\ d <= MaxLocalDepth
    /\ Window({c}, d, {}) \subseteq repo.commits

\* depth_window_ready_for_serving_no_lazy
WindowReady(c, d) ==
    /\ d <= MaxLocalDepth
    /\ Window({c}, d, {}) \subseteq repo.commits
    /\ Window({c}, d - 1, {}) \cap repo.shallow = {}

\* commit_history_complete_no_lazy
HistoryComplete(r, c) ==
    r.shallow = {} /\ Reach({c}, {}) \subseteq (r.commits \cap r.blobs)

\* depth1_snapshots_complete_no_lazy
SnapshotsComplete(i) ==
    i.wants \subseteq (repo.commits \cap repo.blobs) /\ i.blobs \subseteq repo.blobs

\* deepen_boundary_satisfied
BoundarySatisfied(i) ==
    /\ i.from # {}
    /\ i.depth <= MaxLocalDepth
    /\ repo.shallow = {} \/ \A b \in i.from :
            /\ Window({b}, i.depth, {}) \subseteq repo.commits
            /\ Window({b}, i.depth, {}) \cap repo.shallow = {}

Deepens(i) == i.from # {} /\ i.depth > 0

\* Mutant of Options: the history extension replaces the refetch.
OptionsExtend(q) ==
    [blobless |-> q.intent.blobless,
     depth |-> IF q.ext = "none" THEN q.intent.depth ELSE 0,
     by |-> q.intent.depth,
     ext |-> q.ext,
     refetch |-> (q.force \/ q.refetch) /\ q.ext = "none"]

\* fetch_options once the history extension is known
Options(q) ==
    [blobless |-> q.intent.blobless,
     depth |-> IF q.ext = "none" THEN q.intent.depth ELSE 0,
     by |-> q.intent.depth,
     ext |-> q.ext,
     refetch |-> q.force \/ (q.refetch /\ q.ext = "none")]

\* needs_full_object_history
FullHistory(q) == ~q.intent.blobless /\ Options(q).depth = 0 /\ q.ext # "deepen"

\* Objects are there and their marker or ref is not.
Unmarked == {"fetched", "retry", "mark", "teeMark"}

Become(w, q) == req' = [req EXCEPT ![w] = q]

\* A step of w that changes the repository, seen by every request under way.
BecomeAndChange(w, q, r) ==
    /\ repo' = r
    /\ req' = [v \in Workers |->
                 IF v = w THEN q
                 ELSE [req[v] EXCEPT !.raced = req[v].pc # "idle" /\ (@ \/ r # repo)]]

\* The request ends; only one that serves has somebody to answer.
Reply(w, how) ==
    /\ answer' = IF req[w].serve
                 THEN [answer EXCEPT ![w] = [intent |-> req[w].intent,
                                             raced |-> req[w].raced, how |-> how]]
                 ELSE answer
    /\ mutation' = IF mutation = w THEN Nobody ELSE mutation

End(w, how) == Become(w, Idle) /\ Reply(w, how)

-----------------------------------------------------------------------------
(* git_repo_post and prepare_upload_pack_from_cache                        *)

\* A clone or fetch arrives; a header decides whether a miss is proxied.
Begin(w) ==
    /\ req[w].pc = "idle"
    /\ requests < MaxRequests
    /\ requests' = requests + 1
    /\ \E i \in Intents, pc \in {"prepare", "ensure"} :
        Become(w, [Idle EXCEPT !.pc = pc, !.intent = i, !.serve = TRUE,
                               !.raced = \E v \in Workers : req[v].pc \in Unmarked])
    /\ answer' = [answer EXCEPT ![w] = NoAnswer]
    /\ UNCHANGED <<repo, mutation, tasks, doomed, faults, untrusted>>

\* ensure_repo_dir creates a missing repository under the mutation lock.
RepoDirReady == repo.exists \/ mutation = Nobody
RepoDir == [repo EXCEPT !.exists = TRUE]

\* The files are read before the RepoLock is taken.
PrepareFromCache(w) ==
    LET q == req[w]  i == q.intent IN
    /\ q.pc = "prepare"
    /\ RepoDirReady
    /\ BecomeAndChange(w,
         IF ~i.blobless /\ repo.partial /\ ~(i.depth = 1 /\ SnapshotsComplete(i))
         THEN [q EXCEPT !.pc = "proxied"]
         ELSE [q EXCEPT !.pc = "prepareWants",
                        !.shallowMiss = repo.shallow # {} /\ (i.depth = 0 \/ Deepens(i))],
         RepoDir)
    /\ UNCHANGED <<mutation, tasks, doomed, answer, requests, faults, untrusted>>

\* Each want is exposed as it is found; the first that is not there declines.
PrepareWants(w) ==
    LET q == req[w]  i == q.intent
        ready == {c \in i.wants : /\ c \in repo.commits /\ ~q.shallowMiss
                                  /\ i.depth > 1 => WindowReady(c, i.depth)} IN
    /\ q.pc = "prepareWants"
    /\ repo.exists
    /\ IF ready = i.wants /\ i.blobs \subseteq repo.blobs
       THEN BecomeAndChange(w, [q EXCEPT !.pc = "ensure"], [repo EXCEPT !.refs = @ \cup i.wants])
       ELSE \E found \in SUBSET ready :
                BecomeAndChange(w, [q EXCEPT !.pc = "proxied"], [repo EXCEPT !.refs = @ \cup found])
    /\ UNCHANGED <<mutation, tasks, doomed, answer, requests, faults, untrusted>>

\* proxy_upload_pack_to_upstream: the client is answered from upstream and
\* the request goes on in the background, with a tee of the response when
\* that is without a depth; or the proxy is not available.
Proxy(w) ==
    LET q == req[w]  i == q.intent
        later == [q EXCEPT !.serve = FALSE, !.shallowMiss = FALSE] IN
    /\ q.pc = "proxied"
    /\ \/ /\ \/ Become(w, [later EXCEPT !.pc = "ensure"])
             \/ /\ i.depth = 0 /\ i.from = {}
                /\ Become(w, [later EXCEPT !.pc = "tee"])
          /\ answer' = [answer EXCEPT ![w] = [intent |-> i, raced |-> FALSE, how |-> "proxied"]]
       \/ /\ Become(w, [q EXCEPT !.pc = "ensure", !.shallowMiss = FALSE])
          /\ UNCHANGED answer
    /\ UNCHANGED <<repo, mutation, tasks, doomed, requests, faults, untrusted>>

\* Mutant of TeeIndex: the locks are kept when the import is deferred.
TeeIndexKeepsLock(w) ==
    LET q == req[w]  i == q.intent  pack == Reach(i.wants, {})
        blobs == i.blobs \cup (IF i.blobless THEN {} ELSE pack) IN
    /\ q.pc = "tee"
    /\ mutation = Nobody
    /\ mutation' = w
    /\ IF ~i.blobless /\ repo.partial
       THEN Become(w, [q EXCEPT !.pc = "ensure"]) /\ UNCHANGED <<repo, doomed>>
       ELSE /\ BecomeAndChange(w, [q EXCEPT !.pc = "teeMark", !.locked = TRUE],
                 [RepoDir EXCEPT !.commits = @ \cup pack, !.blobs = @ \cup blobs])
            /\ doomed' = [commits |-> pack \ repo.commits, blobs |-> blobs \ repo.blobs]
    /\ UNCHANGED <<tasks, answer, requests, faults, untrusted>>

\* import_proxied_upload_pack, up to index-pack.  Deferred to the warm fetch
\* when a full pack meets a partial repository.
TeeIndex(w) ==
    LET q == req[w]  i == q.intent  pack == Reach(i.wants, {})
        blobs == i.blobs \cup (IF i.blobless THEN {} ELSE pack) IN
    /\ q.pc = "tee"
    /\ mutation = Nobody
    /\ IF ~i.blobless /\ repo.partial
       THEN /\ Become(w, [q EXCEPT !.pc = "ensure"])
            /\ UNCHANGED <<repo, mutation, doomed>>
       ELSE /\ BecomeAndChange(w, [q EXCEPT !.pc = "teeMark", !.locked = TRUE],
                 [RepoDir EXCEPT !.commits = @ \cup pack, !.blobs = @ \cup blobs])
            /\ doomed' = [commits |-> pack \ repo.commits, blobs |-> blobs \ repo.blobs]
            /\ mutation' = w
    /\ UNCHANGED <<tasks, answer, requests, faults, untrusted>>

\* finish_tee_import: marker, refs, background tasks.
TeeMark(w) ==
    LET q == req[w]  i == q.intent IN
    /\ q.pc = "teeMark"
    /\ BecomeAndChange(w, Idle, [repo EXCEPT !.partial = @ \/ i.blobless, !.refs = @ \cup i.wants])
    /\ mutation' = Nobody
    /\ doomed' = Nothing
    /\ tasks' = {"fsck", Maintenance}
    /\ UNCHANGED <<answer, requests, faults, untrusted>>

\* One of its wants cannot be prepared: the pack is removed, the marker and the
\* refs of the wants before it are not, and the warm fetch takes over.
TeeMarkFails(w) ==
    LET q == req[w]  i == q.intent IN
    /\ q.pc = "teeMark"
    /\ faults < MaxFaults
    /\ faults' = faults + 1
    /\ \E named \in SUBSET i.wants :
        BecomeAndChange(w, [q EXCEPT !.pc = "ensure", !.locked = FALSE],
          [repo EXCEPT !.commits = @ \ doomed.commits, !.blobs = @ \ doomed.blobs,
                       !.partial = @ \/ i.blobless, !.refs = @ \cup named])
    /\ mutation' = Nobody
    /\ doomed' = Nothing
    /\ untrusted' = (untrusted \/ q.raced \/ \E v \in Workers \ {w} : req[v].pc # "idle")
    /\ UNCHANGED <<tasks, answer, requests>>

-----------------------------------------------------------------------------
(* ensure_wants_read_through                                               *)

EnsureRepoDir(w) ==
    /\ req[w].pc = "ensure"
    /\ RepoDirReady
    /\ BecomeAndChange(w, [req[w] EXCEPT !.pc = "lock"], RepoDir)
    /\ UNCHANGED <<mutation, tasks, doomed, answer, requests, faults, untrusted>>

\* Mutant of LockRepo: the guard is dropped where it was taken.
LockRepoDropsGuard(w) ==
    /\ req[w].pc = "lock"
    /\ Become(w, [req[w] EXCEPT !.pc = "markers"])
    /\ UNCHANGED <<repo, mutation, tasks, doomed, answer, requests, faults, untrusted>>

LockRepo(w) ==
    /\ req[w].pc = "lock"
    /\ Become(w, [req[w] EXCEPT !.pc = "markers", !.locked = TRUE])
    /\ UNCHANGED <<repo, mutation, tasks, doomed, answer, requests, faults, untrusted>>

ReadMarkers(w) ==
    LET q == req[w]  i == q.intent IN
    /\ q.pc = "markers"
    /\ Become(w, [q EXCEPT
            !.pc = "boundary",
            !.force = /\ ~i.blobless /\ repo.partial
                      /\ ~(i.depth = 1 /\ SnapshotsComplete(i)),
            !.marked = ~i.blobless /\ i.depth = 0 /\ repo.suspect])
    /\ UNCHANGED <<repo, mutation, tasks, doomed, answer, requests, faults, untrusted>>

\* Mutant of ReadBoundary: only a deepen request extends a shallow cache.
ReadBoundaryDeepen(w) ==
    LET q == req[w]  i == q.intent IN
    /\ q.pc = "boundary"
    /\ Become(w, [q EXCEPT
            !.pc = "classify",
            !.ext = IF repo.shallow = {} \/ ~Deepens(i) \/ BoundarySatisfied(i)
                    THEN "none" ELSE "unshallow"])
    /\ UNCHANGED <<repo, mutation, tasks, doomed, answer, requests, faults, untrusted>>

\* history_extension
ReadBoundary(w) ==
    LET q == req[w]  i == q.intent IN
    /\ q.pc = "boundary"
    /\ Become(w, [q EXCEPT
            !.pc = "classify",
            !.ext = IF repo.shallow = {} THEN "none"
                    ELSE IF i.depth = 0 THEN "unshallow"
                    ELSE IF ~Deepens(i) THEN "none"
                    ELSE IF q.force \/ i.depth > MaxLocalDepth THEN "unshallow"
                    ELSE IF BoundarySatisfied(i) THEN "none" ELSE "deepen"])
    /\ UNCHANGED <<repo, mutation, tasks, doomed, answer, requests, faults, untrusted>>

\* Where a request goes once everything in cold has been looked at.
Onward(q) ==
    IF q.cold # {} THEN [q EXCEPT !.pc = "hydrate"]
    ELSE [q EXCEPT !.pc = IF q.pending \cup q.blobs # {} THEN "mutation" ELSE "finish",
                   !.proven = {}]

\* The request goes on as q, unless something is missing and read-through
\* is disabled.
ProceedOrMiss(w, missing, q, r) ==
    IF missing /\ ~CommitReadThrough
    THEN BecomeAndChange(w, Idle, r) /\ Reply(w, "error")
    ELSE BecomeAndChange(w, q, r) /\ UNCHANGED <<answer, mutation>>

\* Wants the repository holds are exposed, the rest is to hydrate or to fetch.
\* A commit that is there without its depth or its closure is fetched even when
\* read-through is disabled.
Classify(w) ==
    LET q == req[w]  i == q.intent
        hot == {c \in i.wants \cap repo.commits : ~q.force /\ q.ext = "none"}
        noWindow == {c \in hot : i.depth > 1 /\ ~WindowReady(c, i.depth)}
        suspect == q.marked /\ FullHistory(q)
        holes == {c \in hot \ noWindow : suspect /\ ~HistoryComplete(repo, c)}
        hydrate == {c \in i.wants \ hot : /\ ~q.force /\ q.ext = "none" /\ q.serve
                                          /\ ~i.blobless /\ Manifest[c] # {}}
        absent == i.wants \ (hot \cup hydrate)
        pending == absent \cup noWindow \cup holes
        blobs == i.blobs \ repo.blobs IN
    /\ q.pc = "classify"
    /\ repo.exists
    /\ ProceedOrMiss(w, absent \cup blobs # {},
         Onward([q EXCEPT !.cold = hydrate, !.pending = pending, !.blobs = blobs,
                          !.refetch = q.force \/ noWindow \cup holes # {},
                          !.verify = q.marked \/ holes # {},
                          !.hotClosure = suspect /\ hot # {} /\ holes = {}]),
         [repo EXCEPT !.refs = @ \cup (hot \ (noWindow \cup holes))])
    /\ UNCHANGED <<tasks, doomed, requests, faults, untrusted>>

\* hydrate_commit_in_repo: the packs of the generation are downloaded; a
\* full-history want whose closure they do not hold is fetched after all.  One
\* want that is whole vouches for the others of its generation.
Hydrate(w) ==
    LET q == req[w] IN
    /\ q.pc = "hydrate"
    /\ repo.exists
    /\ \E c \in q.cold :
        LET r == [repo EXCEPT !.commits = @ \cup Manifest[c],
                              !.blobs = @ \cup Manifest[c], !.refs = @ \cup {c}]
            rest == [q EXCEPT !.cold = @ \ {c}] IN
        /\ IF FullHistory(q) /\ Manifest[c] \notin q.proven => HistoryComplete(r, c)
           THEN ProceedOrMiss(w, FALSE, Onward([rest EXCEPT !.proven = @ \cup {Manifest[c]}]), r)
           ELSE ProceedOrMiss(w, TRUE,
                  Onward([rest EXCEPT !.pending = @ \cup {c}, !.verify = TRUE, !.refetch = TRUE]),
                  [r EXCEPT !.suspect = TRUE])
        /\ doomed' = [commits |-> doomed.commits \ Manifest[c],
                      blobs |-> doomed.blobs \ Manifest[c]]
        /\ untrusted' = (untrusted \/ (~FullHistory(q) /\ ~(Reach({c}, r.shallow) \subseteq r.commits)))
    /\ UNCHANGED <<tasks, requests, faults>>

\* The generation was swept or the store is unavailable.
HydrateMisses(w) ==
    LET q == req[w] IN
    /\ q.pc = "hydrate"
    /\ faults < MaxFaults
    /\ faults' = faults + 1
    /\ \E c \in q.cold :
        ProceedOrMiss(w, TRUE, Onward([q EXCEPT !.cold = @ \ {c}, !.pending = @ \cup {c}]), repo)
    /\ UNCHANGED <<tasks, doomed, requests, untrusted>>

\* The repository was evicted since ensure_repo_dir.
Evicted(w) ==
    /\ req[w].pc \in {"prepareWants", "classify"}
    /\ ~repo.exists
    /\ End(w, "error")
    /\ UNCHANGED <<repo, tasks, doomed, requests, faults, untrusted>>

LockMutation(w) ==
    /\ req[w].pc = "mutation"
    /\ mutation = Nobody
    /\ mutation' = w
    /\ Become(w, [req[w] EXCEPT !.pc = "fetch"])
    /\ UNCHANGED <<repo, tasks, doomed, answer, requests, faults, untrusted>>

Proven(i, c) == {b \in Branches : i.proof[b] = c}

\* branch_for_commit
BranchFor(i, c) == CHOOSE b \in Proven(i, c) : TRUE

\* raw_objects: pending commits the proof does not advertise.
Raw(q) == {c \in q.pending : Proven(q.intent, c) = {}}

\* batched_read_through_fetch: advertised branches by refspec, the rest raw.
BatchedFetch(w) ==
    LET q == req[w]  i == q.intent  raw == Raw(q)
        tips == {Tips[BranchFor(i, c)] : c \in q.pending \ raw}
        r == IF tips = {} THEN repo ELSE FetchHeads(repo, tips, Options(q)) IN
    /\ q.pc = "fetch"
    /\ BecomeAndChange(w, [q EXCEPT !.pc = "fetched"], FetchObjects(r, raw, q.blobs, Options(q)))
    /\ UNCHANGED <<mutation, tasks, doomed, answer, requests, faults, untrusted>>

\* One of the two fetches fails and all heads are fetched instead; the raw fetch
\* is tried all the same.
FetchAllHeads(w) ==
    LET q == req[w]  r == FetchHeads(repo, {Tips[b] : b \in Branches}, Options(q)) IN
    /\ q.pc = "fetch"
    /\ faults < MaxFaults
    /\ faults' = faults + 1
    /\ \E after \in {r, FetchObjects(r, Raw(q), q.blobs, Options(q))} :
        BecomeAndChange(w, [q EXCEPT !.pc = "fetched", !.allHeads = TRUE], after)
    /\ UNCHANGED <<mutation, tasks, doomed, answer, requests, untrusted>>

\* prepare_fetched_direct_want for every pending want.
PrepareFetched(w) ==
    LET q == req[w]
        missing == q.pending \ repo.commits IN
    /\ q.pc = "fetched"
    /\ BecomeAndChange(w,
         [q EXCEPT !.cold = missing,
                   !.pc = IF missing = {} /\ q.blobs \subseteq repo.blobs THEN "mark" ELSE "retry"],
         [repo EXCEPT !.refs = @ \cup (q.pending \cap repo.commits)])
    /\ UNCHANGED <<mutation, tasks, doomed, answer, requests, faults, untrusted>>

\* Missing wants are fetched as exact objects; when that fails, all heads are
\* fetched, unless they were; what is still missing then ends the request.
Retry(w) ==
    LET q == req[w]  o == Options(q)
        Prepared(r) ==
            IF q.cold \subseteq r.commits /\ q.blobs \subseteq r.blobs
            THEN /\ BecomeAndChange(w, [q EXCEPT !.pc = "mark", !.cold = {}],
                                    [r EXCEPT !.refs = @ \cup q.cold])
                 /\ UNCHANGED <<answer, mutation, untrusted>>
            ELSE repo' = r /\ End(w, "error") /\ untrusted' = TRUE IN
    /\ q.pc = "retry"
    /\ \/ Prepared(FetchObjects(repo, q.cold, q.blobs \ repo.blobs, o)) /\ UNCHANGED faults
       \/ /\ faults < MaxFaults /\ faults' = faults + 1
          /\ IF q.allHeads THEN End(w, "error") /\ untrusted' = TRUE /\ UNCHANGED repo
             ELSE Prepared(FetchHeads(repo, {Tips[b] : b \in Branches}, o))
    /\ UNCHANGED <<tasks, doomed, requests>>

\* Closure verification, then the markers.
Mark(w) ==
    LET q == req[w]
        verify == q.verify /\ FullHistory(q)
        whole == \A c \in q.pending : HistoryComplete(repo, c)
        clear == ~q.intent.blobless /\ q.force /\ Options(q).depth = 0 IN
    /\ q.pc = "mark"
    /\ IF verify /\ ~whole
       THEN /\ repo' = [repo EXCEPT !.suspect = TRUE]
            /\ End(w, "error")
            /\ UNCHANGED <<tasks, untrusted>>
       ELSE /\ BecomeAndChange(w, [q EXCEPT !.pc = "finish"],
                 [repo EXCEPT
                    !.suspect = @ /\ ~verify,
                    !.partial = q.intent.blobless \/ (@ /\ ~clear)])
            /\ untrusted' = (untrusted \/ (clear /\ q.raced))
            /\ mutation' = Nobody
            /\ tasks' = {"fsck", Maintenance}
            /\ UNCHANGED answer
    /\ UNCHANGED <<doomed, requests, faults>>

\* The RepoLock is dropped before upload-pack is started.
Finish(w) ==
    LET q == req[w] IN
    /\ q.pc = "finish"
    /\ BecomeAndChange(w, IF q.serve THEN [q EXCEPT !.pc = "spawn", !.locked = FALSE] ELSE Idle,
                       [repo EXCEPT !.suspect = @ /\ ~q.hotClosure])
    /\ UNCHANGED <<mutation, tasks, doomed, answer, requests, faults, untrusted>>

-----------------------------------------------------------------------------
(* upload-pack                                                             *)

Horizon(i) == IF i.depth = 0 THEN Cardinality(Commits) ELSE i.depth

\* What upload-pack makes of an intent: it dies on an object it has not got,
\* and stops at the shallow boundary without a word.
UploadPack(i) ==
    LET sent == Window(i.wants, Horizon(i), repo.shallow) IN
    IF \/ ~(sent \subseteq repo.commits) \/ ~(i.blobs \subseteq repo.blobs)
       \/ ~i.blobless /\ ~(sent \subseteq repo.blobs)
    THEN "dies"
    ELSE IF sent = Window(i.wants, Horizon(i), {}) THEN "whole" ELSE "cut"

\* handle_upload_pack after the wants are prepared.
Spawn(w) ==
    /\ req[w].pc = "spawn"
    /\ End(w, IF repo.exists THEN UploadPack(req[w].intent) ELSE "error")
    /\ UNCHANGED <<repo, tasks, doomed, requests, faults, untrusted>>

-----------------------------------------------------------------------------
(* Background work and faults                                              *)

\* enqueue_direct_fsck's task: nothing changes but the in-flight set.
Fsck ==
    /\ "fsck" \in tasks
    /\ mutation = Nobody
    /\ tasks' = tasks \ {"fsck"}
    /\ UNCHANGED <<repo, mutation, doomed, req, answer, requests, faults, untrusted>>

Unreached ==
    LET lost == repo.commits \ Reach(repo.refs, repo.shallow)
    IN [commits |-> lost, blobs |-> lost]

\* Mutant of StartRepack: the mutation lock is not waited for.
StartRepackUnlocked ==
    /\ Maintenance \in tasks
    /\ mutation' = Maintenance
    /\ doomed' = Unreached
    /\ UNCHANGED <<repo, tasks, req, answer, requests, faults, untrusted>>

\* repack -a -d walks from the refs it finds at its start ...
StartRepack ==
    /\ Maintenance \in tasks
    /\ mutation = Nobody
    /\ mutation' = Maintenance
    /\ doomed' = Unreached
    /\ UNCHANGED <<repo, tasks, req, answer, requests, faults, untrusted>>

Disturb(r) ==
    /\ repo' = r
    /\ req' = [v \in Workers |->
                 [req[v] EXCEPT !.raced = req[v].pc # "idle" /\ (@ \/ r # repo)]]

\* ... and deletes the old packs with what it did not copy.
FinishRepack ==
    /\ mutation = Maintenance
    /\ Disturb([repo EXCEPT !.commits = @ \ doomed.commits, !.blobs = @ \ doomed.blobs])
    /\ mutation' = Nobody
    /\ tasks' = tasks \ {Maintenance}
    /\ doomed' = Nothing
    /\ UNCHANGED <<answer, requests, faults, untrusted>>

Fault == faults < MaxFaults /\ faults' = faults + 1

\* The disk manager evicts a repository nobody holds a RepoLock on.
Evict ==
    /\ repo.exists
    /\ \A w \in Workers : ~req[w].locked
    /\ Fault
    /\ Disturb(NoRepo)
    /\ doomed' = Nothing
    /\ UNCHANGED <<mutation, tasks, answer, requests, untrusted>>

\* The client goes away and the handler is dropped where it stands.
Drop(w) ==
    /\ req[w].pc # "idle"
    /\ Fault
    /\ req' = [req EXCEPT ![w] = Idle]
    /\ mutation' = IF mutation = w THEN Nobody ELSE mutation
    /\ doomed' = IF mutation = w THEN Nothing ELSE doomed
    /\ untrusted' = (untrusted \/ req[w].pc \in Unmarked)
    /\ UNCHANGED <<repo, tasks, answer, requests>>

\* The process restarts: the in-flight sets and the locks are gone.
Restart ==
    /\ \/ \E w \in Workers : req[w].pc # "idle"
       \/ tasks # {}
    /\ Fault
    /\ req' = [w \in Workers |-> Idle]
    /\ mutation' = Nobody
    /\ tasks' = {}
    /\ doomed' = Nothing
    /\ untrusted' = (untrusted \/ \E w \in Workers : req[w].pc \in Unmarked)
    /\ UNCHANGED <<repo, answer, requests>>

-----------------------------------------------------------------------------
Step(w) ==
    \/ PrepareFromCache(w) \/ PrepareWants(w) \/ Proxy(w)
    \/ TeeIndex(w) \/ TeeMark(w) \/ TeeMarkFails(w) \/ EnsureRepoDir(w) \/ LockRepo(w) \/ ReadMarkers(w) \/ ReadBoundary(w)
    \/ Classify(w) \/ Hydrate(w) \/ HydrateMisses(w) \/ Evicted(w)
    \/ LockMutation(w) \/ BatchedFetch(w) \/ FetchAllHeads(w)
    \/ PrepareFetched(w) \/ Retry(w) \/ Mark(w) \/ Finish(w) \/ Spawn(w)

Background == Fsck \/ StartRepack \/ FinishRepack

Next ==
    \/ \E w \in Workers : Begin(w) \/ Step(w) \/ Drop(w)
    \/ Background
    \/ Evict
    \/ Restart

Spec == Init /\ [][Next]_vars

-----------------------------------------------------------------------------
(* Properties                                                              *)

\* A clone without a depth gets all of its history: it is not cut at the
\* shallow boundary of the cache, and an unfiltered one does not die on a
\* missing object.  Nothing is said of a request the repository changed under.
FullClonesWhole ==
    \A w \in Workers :
        LET a == answer[w] IN
        a.intent.depth = 0 /\ ~a.raced /\ ~untrusted =>
            a.how # "cut" /\ (a.how = "dies" => a.intent.blobless)

\* A clone of a given depth, on a current ref proof, gets that depth.
DepthServed ==
    \A w \in Workers :
        LET a == answer[w] IN
        a.intent.depth > 0 /\ a.intent.from = {} /\ a.intent.proof = Tips
            /\ ~a.raced /\ ~untrusted => a.how \notin {"cut", "dies"}

\* Branch tips, on a proof of the refs that is current.
WantsTips(i) == i.proof = Tips /\ i.wants \subseteq {Tips[b] : b \in Branches}

\* "An unfiltered, undepthed refetch re-downloads full objects for every
\* requested want": a request that clears the partial-hydration marker, whatever
\* it did to the shallow boundary, had to fetch twice or saw change between its
\* look at the marker and its lock, leaves every commit that its wants reach
\* with its blobs.  (The other refs of the repository may still be partial.)
RefetchedWantsWhole ==
    [][\A w \in Workers :
        LET q == req[w] IN
        q.pc = "mark" /\ req'[w].pc = "finish" /\ repo.partial /\ ~repo'.partial
            /\ WantsTips(q.intent) =>
                Reach(q.intent.wants, repo'.shallow) \subseteq (repo'.commits \cap repo'.blobs)]_vars

\* What a request had fetched and named by a ref is there until the request
\* starts upload-pack: no repack, which drops what no ref reached when it
\* started, and no eviction takes it away, though Mark gives up the mutation lock.
FetchedKept ==
    \A w \in Workers :
        req[w].pc \in {"mark", "finish"} => req[w].pending \subseteq (repo.commits \cap repo.refs)

\* Whoever holds the mutation lock, which is not re-entrant and which a cold
\* ensure_repo_dir takes as well, can go on: nobody waits for ever, since the
\* lock is all that requests wait for.
LockHolderProceeds == \A w \in Workers : mutation = w => ENABLED Step(w)

=============================================================================
