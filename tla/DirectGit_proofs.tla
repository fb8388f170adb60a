-------------------------- MODULE DirectGit_proofs --------------------------
(***************************************************************************)
(* Proofs about DirectGit, for any finite history, any set of workers and  *)
(* intents and all bounds: types, that what a request fetched is there     *)
(* until the request starts upload-pack, and that a refetch which clears   *)
(* the partial-hydration marker made the wants of its request whole.       *)
(***************************************************************************)
EXTENDS DirectGit, FiniteSetTheorems, NaturalsInduction, WellFoundedInduction, TLAPS

-----------------------------------------------------------------------------
(* Windows                                                                 *)

Walk(S, cut, i, W) ==
    IF i = 0 THEN {}
    ELSE IF i = 1 THEN S
    ELSE W[i - 1] \cup UNION {Parents[c] : c \in W[i - 1] \ cut}
IsWalk(S, cut, d, W) == W = [i \in 0 .. d |-> Walk(S, cut, i, W)]
TheWalk(S, cut, d) == CHOOSE W : IsWalk(S, cut, d, W)

\* Induction over the naturals in the form the provers can use.
LEMMA LeastNat ==
    ASSUME NEW Bad \in SUBSET Nat, Bad # {}
    PROVE  \E n \in Bad : \A m \in Bad : n <= m
<1> DEFINE R == {p \in Nat \X Nat : p[1] < p[2]}
<1>1. IsWellFoundedOn(R, Nat)
  BY NatLessThanWellFounded, Zenon DEF OpToRel
<1>2. PICK n \in Bad : \A m \in Bad : ~(<<m, n>> \in R)
  <2> HIDE DEF R
  <2> QED BY <1>1, WFMin
<1>3. ASSUME NEW m \in Bad PROVE n <= m
  <2>1. m \in Nat /\ n \in Nat /\ ~(<<m, n>> \in R)
    BY <1>2
  <2> QED BY <2>1
<1> QED
  BY <1>3

\* The recursive function of Window exists.
LEMMA WalkExists ==
    ASSUME NEW S, NEW cut, NEW d \in Nat
    PROVE  IsWalk(S, cut, d, TheWalk(S, cut, d))
<1> DEFINE Bad == {n \in Nat : \A W : ~IsWalk(S, cut, n, W)}
<1>1. SUFFICES ASSUME Bad # {} PROVE FALSE
  BY DEF TheWalk
<1>2. PICK n \in Bad : \A m \in Bad : n <= m
  <2> HIDE DEF Bad
  <2>1. Bad \in SUBSET Nat BY DEF Bad
  <2> QED BY <1>1, <2>1, LeastNat
<1>3. n # 0
  <2>1. IsWalk(S, cut, 0, [i \in 0 .. 0 |-> {}])
    BY DEF IsWalk, Walk
  <2> QED BY <2>1
<1>4. PICK W : IsWalk(S, cut, n - 1, W)
  BY <1>2, <1>3
<1> DEFINE V == [i \in 0 .. n |-> Walk(S, cut, i, W)]
<1>5. \A i \in 0 .. n - 1 : V[i] = W[i]
  BY <1>4 DEF IsWalk
<1>6. \A i \in 0 .. n : Walk(S, cut, i, V) = Walk(S, cut, i, W)
  <2> SUFFICES ASSUME NEW i \in 0 .. n PROVE Walk(S, cut, i, V) = Walk(S, cut, i, W)
    OBVIOUS
  <2>1. i <= 1 \/ (i - 1 \in 0 .. n - 1)
    OBVIOUS
  <2>2. CASE i <= 1
    BY <2>2 DEF Walk
  <2>3. CASE i > 1
    <3>1. V[i - 1] = W[i - 1]
      BY <1>5, <2>1, <2>3
    <3> HIDE DEF V
    <3> QED BY <3>1 DEF Walk
  <2> QED BY <2>2, <2>3
<1>7. IsWalk(S, cut, n, V)
  <2>1. V = [i \in 0 .. n |-> Walk(S, cut, i, V)]
    BY <1>6
  <2> HIDE DEF V
  <2> QED BY <2>1 DEF IsWalk
<1> QED
  BY <1>7

\* A window stays within history and holds the commits it starts from.
LEMMA WindowType ==
    ASSUME NEW S \in SUBSET Commits, NEW cut, NEW d \in Nat
    PROVE  /\ Window(S, d, cut) \subseteq Commits
           /\ d > 0 => S \subseteq Window(S, d, cut)
<1> DEFINE W == TheWalk(S, cut, d)
           Bad == {i \in 0 .. d : ~(W[i] \subseteq Commits /\ (i > 0 => S \subseteq W[i]))}
<1>1. W = [i \in 0 .. d |-> Walk(S, cut, i, W)]
  BY WalkExists DEF IsWalk
<1>2. Window(S, d, cut) = W[d]
  BY Zenon DEF Window, TheWalk, IsWalk, Walk
<1> HIDE DEF W
<1>3. SUFFICES ASSUME Bad # {} PROVE FALSE
  BY <1>2
<1>4. PICK i \in Bad : \A j \in Bad : i <= j
  <2> HIDE DEF Bad
  <2>1. Bad \in SUBSET Nat BY DEF Bad
  <2> QED BY <1>3, <2>1, LeastNat
<1>5. i \in 0 .. d /\ W[i] = Walk(S, cut, i, W)
  BY <1>1
<1>6. CASE i <= 1
  BY <1>5, <1>6 DEF Walk
<1>7. CASE i > 1
  <2>1. W[i - 1] \subseteq Commits /\ S \subseteq W[i - 1]
    BY <1>4, <1>7
  <2>2. W[i] = W[i - 1] \cup UNION {Parents[c] : c \in W[i - 1] \ cut}
    BY <1>5, <1>7 DEF Walk
  <2>3. \A c \in Commits : Parents[c] \subseteq Commits
    BY DirectGitAssumption
  <2>4. UNION {Parents[c] : c \in W[i - 1] \ cut} \subseteq Commits
    BY <2>1, <2>3
  <2> QED
    BY <2>1, <2>2, <2>4
<1> QED
  BY <1>5, <1>6, <1>7


\* A depth that looks at all of a finite history is a natural number.
LEMMA Depths == Cardinality(Commits) \in Nat
BY DirectGitAssumption, FS_CardinalityType

\* What commits reach are commits, themselves included.
LEMMA ReachType ==
    ASSUME NEW S \in SUBSET Commits, NEW cut
    PROVE  Reach(S, cut) \subseteq Commits /\ S \subseteq Reach(S, cut)
<1>1. Reach(S, cut) \subseteq Commits
  BY Depths, WindowType DEF Reach
<1>2. CASE S = {}
  BY <1>1, <1>2
<1>3. CASE S # {}
  <2>1. Cardinality(Commits) > 0
    BY <1>3, Depths, DirectGitAssumption, FS_EmptySet
  <2> QED BY <1>1, <2>1, Depths, WindowType DEF Reach
<1> QED BY <1>2, <1>3

\* A shallow boundary is made of commits.
LEMMA EdgeType ==
    ASSUME NEW S \in SUBSET Commits, NEW d \in Nat
    PROVE  Edge(S, d) \subseteq Commits
BY WindowType DEF Edge

\* What a fetch may do to the repository: add objects, move the boundary.
Grows(r, f) ==
    /\ f \in Repo
    /\ r.exists => f.exists
    /\ r.commits \subseteq f.commits
    /\ r.refs \subseteq f.refs

FetchOptions ==
    [blobless : BOOLEAN, depth : Nat, by : Nat, ext : {"none", "unshallow", "deepen"},
     refetch : BOOLEAN]

\* fetch_options of a typed request are fetch options.
LEMMA OptionsType == ASSUME NEW q \in Request PROVE Options(q) \in FetchOptions
<1>1. q.intent \in Intent /\ q.ext \in {"none", "unshallow", "deepen"}
  BY DEF Request
<1>2. q.intent.depth \in Nat /\ q.intent.blobless \in BOOLEAN
  BY <1>1, Depths DEF Intent
<1>3. (q.force \/ (q.refetch /\ q.ext = "none")) \in BOOLEAN
  OBVIOUS
<1> QED
  BY <1>1, <1>2, <1>3 DEF Options, FetchOptions

\* Objects and a boundary added to a repository leave a repository that has grown.
LEMMA GrownType ==
    ASSUME NEW r \in Repo, NEW C \in SUBSET Commits, NEW B \in SUBSET Commits,
           NEW S \in SUBSET Commits, NEW f,
           f = [r EXCEPT !.commits = r.commits \cup C, !.shallow = S, !.blobs = B]
    PROVE  Grows(r, f)
BY DEF Repo, Grows

\* git fetch keeps every object and ref of the repository.
LEMMA FetchType ==
    ASSUME NEW r \in Repo, NEW tips \in SUBSET Commits, NEW o \in FetchOptions,
           NEW negotiate \in BOOLEAN
    PROVE  Grows(r, Fetch(r, tips, o, negotiate))
<1> DEFINE have == IF negotiate /\ ~o.refetch THEN Reach(r.refs \cap r.commits, r.shallow) ELSE {}
           inside == r.shallow \cap Reach(tips, {})
           shallow ==
               CASE o.depth > 0 ->
                       (r.shallow \ Window(tips, o.depth, {})) \cup Edge(tips, o.depth)
                 [] o.depth = 0 /\ o.ext = "unshallow" -> r.shallow \ inside
                 [] o.depth = 0 /\ o.ext = "deepen" ->
                       (r.shallow \ inside) \cup Edge(inside, o.by + 1)
                 [] OTHER -> r.shallow
           sent == (IF o.depth > 0 THEN Window(tips, o.depth, {})
                    ELSE Reach(tips, shallow)) \ have
           blobs == IF o.blobless THEN r.blobs ELSE r.blobs \cup sent
<1>1. r.shallow \in SUBSET Commits /\ r.blobs \in SUBSET Commits
  BY DEF Repo
<1>2. o.depth \in Nat /\ o.by + 1 \in Nat
  BY DEF FetchOptions
<1>3. inside \in SUBSET Commits
  BY <1>1
<1>4. Edge(tips, o.depth) \subseteq Commits /\ Edge(inside, o.by + 1) \subseteq Commits
  <2> HIDE DEF inside
  <2> QED BY <1>2, <1>3, EdgeType
<1>5. shallow \in SUBSET Commits
  BY <1>1, <1>4
<1>6. sent \in SUBSET Commits
  <2>1. Window(tips, o.depth, {}) \subseteq Commits
    BY <1>2, WindowType
  <2>2. Reach(tips, shallow) \subseteq Commits
    <3> HIDE DEF shallow
    <3> QED BY ReachType
  <2> HIDE DEF shallow, have
  <2> QED BY <2>1, <2>2
<1>7. blobs \in SUBSET Commits
  <2> HIDE DEF sent
  <2> QED BY <1>1, <1>6
<1>8. Fetch(r, tips, o, negotiate)
        = [r EXCEPT !.commits = r.commits \cup sent, !.shallow = shallow, !.blobs = blobs]
  BY Zenon DEF Fetch
<1> HIDE DEF sent, shallow, blobs
<1> QED
  BY <1>5, <1>6, <1>7, <1>8, GrownType

\* So does a fetch of branches, which names their tips by refs.
LEMMA FetchHeadsType ==
    ASSUME NEW r \in Repo, NEW tips \in SUBSET Commits, NEW o \in FetchOptions
    PROVE  Grows(r, FetchHeads(r, tips, o))
<1> DEFINE e == IF r.shallow = {} THEN "none" ELSE o.ext
           p == [o EXCEPT !.ext = e]
           f == Fetch(r, tips, p, TRUE)
<1>1. p \in FetchOptions
  BY DEF FetchOptions
<1>2. Grows(r, f)
  <2> HIDE DEF p
  <2> QED BY <1>1, FetchType
<1>3. FetchHeads(r, tips, o) = [f EXCEPT !.refs = f.refs \cup tips]
  BY Zenon DEF FetchHeads
<1> HIDE DEF f
<1> QED
  BY <1>2, <1>3 DEF Grows, Repo

\* So does a fetch of exact objects.
LEMMA FetchObjectsType ==
    ASSUME NEW r \in Repo, NEW commits \in SUBSET Commits, NEW blobs \in SUBSET Commits,
           NEW o \in FetchOptions
    PROVE  Grows(r, FetchObjects(r, commits, blobs, o))
<1> DEFINE p == [o EXCEPT !.ext = "none"]
           f == IF commits = {} THEN r ELSE Fetch(r, commits, p, FALSE)
<1>1. p \in FetchOptions
  BY DEF FetchOptions
<1>2. Grows(r, r)
  BY DEF Grows
<1>3. Grows(r, f)
  <2>1. Grows(r, Fetch(r, commits, p, FALSE))
    <3> HIDE DEF p
    <3> QED BY <1>1, FetchType
  <2> QED BY <1>2, <2>1
<1>4. FetchObjects(r, commits, blobs, o) = [f EXCEPT !.blobs = f.blobs \cup blobs]
  BY Zenon DEF FetchObjects
<1> HIDE DEF f
<1> QED
  BY <1>3, <1>4 DEF Grows, Repo


-----------------------------------------------------------------------------
(* The inductive invariant                                                 *)

HoldsRepo == {"markers", "boundary", "classify", "hydrate", "mutation", "fetch",
              "fetched", "retry", "mark", "finish", "teeMark"}
Writes == {"hydrate", "mutation", "fetch", "fetched", "retry", "mark", "finish", "teeMark"}
HoldsMutation == {"fetch", "fetched", "retry", "mark", "teeMark"}

\* Where request q of worker w holds which lock, and what of its wants is in
\* repository r and safe from the repack that will drop d.
Safe(w, q, m, r, d) ==
    /\ q.pc \in HoldsRepo => q.locked
    /\ q.pc \in Writes => r.exists
    /\ q.pc \in HoldsMutation => m = w
    /\ q.pc = "retry" => (q.pending \ q.cold) \subseteq (r.commits \cap r.refs)
    /\ q.pc \in {"mark", "finish"} =>
         /\ q.pending \subseteq (r.commits \cap r.refs)
         /\ q.pending \cap d.commits = {}

DirectInv ==
    /\ DirectTypeOK
    /\ \A w \in Workers : Safe(w, req[w], mutation, repo, doomed)
    /\ mutation = Nobody => doomed = Nothing
    /\ \A w \in Workers : mutation = w /\ req[w].pc # "teeMark" => doomed = Nothing

\* Less is to be taken away.
Less(d, e) == d \in Objects /\ d.commits \subseteq e.commits /\ d.blobs \subseteq e.blobs

LEMMA NothingType == Nothing \in Objects
BY DEF Nothing, Objects

LEMMA LessSame == ASSUME NEW d \in Objects PROVE Less(d, d)
BY DEF Less

LEMMA LessNothing == ASSUME NEW d, NEW e, Less(d, e), e = Nothing PROVE d = Nothing
BY DEF Less, Nothing, Objects

\* A worker without a request is typed.
LEMMA IdleType == Idle \in Request
<1>1. Idle.intent \in Intent
  BY DirectGitAssumption DEF Idle
<1> QED
  BY <1>1 DEF Idle, Request

\* So is the answer it has not given,
LEMMA NoAnswerType == NoAnswer \in Answer
BY IdleType DEF NoAnswer, Answer, Request

\* and the repository that is not there.
LEMMA NoRepoType == NoRepo \in Repo
BY DEF NoRepo, Repo

\* The invariant holds on a cold repository and on every warmed one.
LEMMA DirectInvInit == Init => DirectInv
<1> SUFFICES ASSUME Init PROVE DirectInv
  OBVIOUS
<1>1. repo \in Repo /\ (repo.exists \/ repo = NoRepo)
  BY DirectGitAssumption, NoRepoType DEF Init
<1>2. DirectTypeOK
  <2>1. untrusted \in BOOLEAN /\ tasks \subseteq {"fsck", Maintenance} /\ doomed \in Objects
    BY NothingType DEF Init
  <2>2. req \in [Workers -> Request] /\ answer \in [Workers -> Answer]
    BY IdleType, NoAnswerType DEF Init
  <2>3. requests \in 0 .. MaxRequests /\ faults \in 0 .. MaxFaults
        /\ mutation \in Workers \cup {Nobody, Maintenance}
    BY DirectGitAssumption DEF Init
  <2> QED
    BY <1>1, <2>1, <2>2, <2>3 DEF DirectTypeOK
<1>3. \A w \in Workers : req[w] = Idle /\ req[w].pc = "idle"
  BY DEF Init, Idle
<1> QED
  BY <1>2, <1>3 DEF DirectInv, Safe, HoldsRepo, Writes, HoldsMutation, Init

\* What the other workers do not see of a step of w.
Like(a, b) ==
    /\ b.pc = a.pc /\ b.locked = a.locked
    /\ b.pending = a.pending /\ b.cold = a.cold

\* What a step of w does not take away: only an import takes note of what goes
\* with its pack, objects that nobody relies on yet.
Spares(w) ==
    \/ Less(doomed', doomed) /\ req[w].pc # "teeMark"
    \/ doomed' = Nothing

Imports(w) ==
    /\ mutation = Nobody /\ mutation' = w /\ req'[w].pc = "teeMark"
    /\ doomed' \in Objects /\ doomed'.commits \cap repo.commits = {}

\* What a step of w may do, as far as the invariant is concerned.
Effect(w) ==
    /\ req' \in [Workers -> Request]
    /\ \A v \in Workers \ {w} : Like(req[v], req'[v])
    /\ Grows(repo, repo') /\ (repo'.exists \/ repo' = NoRepo)
    /\ Spares(w) \/ Imports(w)
    /\ mutation' = mutation \/ (mutation \in {Nobody, w} /\ mutation' \in {Nobody, w})
    /\ Safe(w, req'[w], mutation', repo', doomed')

\* A step with such an effect keeps the invariant: no other request loses what it
\* relies on, since objects and refs only grow and the mutation lock has one holder.
LEMMA EffectKeeps ==
    ASSUME DirectInv, NEW w \in Workers, Effect(w), answer' \in [Workers -> Answer],
           tasks' \subseteq {"fsck", Maintenance}, requests' \in 0 .. MaxRequests,
           faults' \in 0 .. MaxFaults, untrusted' \in BOOLEAN
    PROVE  DirectInv'
<1>1. Workers \cap {Nobody, Maintenance} = {} /\ Nobody # Maintenance
  BY DirectGitAssumption DEF Nobody, Maintenance
<1>2. mutation' \in Workers \cup {Nobody, Maintenance}
  BY DEF Effect, DirectInv, DirectTypeOK
<1>3. doomed \in Objects /\ doomed' \in Objects
  BY NothingType DEF Effect, Spares, Imports, Less, DirectInv, DirectTypeOK
<1>4. DirectTypeOK'
  BY <1>2, <1>3 DEF Effect, DirectInv, DirectTypeOK, Grows
<1>5. mutation' = Nobody => doomed' = Nothing
  <2> SUFFICES ASSUME mutation' = Nobody PROVE doomed' = Nothing
    OBVIOUS
  <2>1. Spares(w) /\ mutation \in {Nobody, w}
    BY <1>1 DEF Effect, Imports
  <2>2. req[w].pc # "teeMark" => doomed = Nothing
    BY <2>1 DEF DirectInv
  <2> QED BY <2>1, <2>2, LessNothing DEF Spares
<1>6. ASSUME NEW v \in Workers, mutation' = v, req'[v].pc # "teeMark" PROVE doomed' = Nothing
  <2>1. CASE v # w
    <3>1. mutation = v /\ Spares(w)
      BY <1>1, <1>6, <2>1 DEF Effect, Imports
    <3>2. req'[v].pc = req[v].pc
      BY <2>1 DEF Effect, Like
    <3>3. doomed = Nothing
      BY <1>6, <3>1, <3>2 DEF DirectInv
    <3> QED BY <3>1, <3>3, LessNothing DEF Spares
  <2>2. CASE v = w
    <3>1. mutation \in {Nobody, w} /\ Spares(w)
      BY <1>1, <1>6, <2>2 DEF Effect, Imports
    <3>2. req[w].pc # "teeMark" => doomed = Nothing
      BY <3>1 DEF DirectInv
    <3> QED BY <3>1, <3>2, LessNothing DEF Spares
  <2> QED BY <2>1, <2>2
<1>7. ASSUME NEW v \in Workers, v # w PROVE Safe(v, req'[v], mutation', repo', doomed')
  <2>1. Safe(v, req[v], mutation, repo, doomed)
    BY DEF DirectInv
  <2>2. Like(req[v], req'[v])
    BY <1>7 DEF Effect
  <2>3. req[v].pc \in HoldsMutation => mutation' = v
    BY <1>1, <1>7, <2>1 DEF Effect, Safe
  <2>4. ASSUME req[v].pc \in {"mark", "finish"} PROVE req[v].pending \cap doomed'.commits = {}
    <3>1. req[v].pending \subseteq repo.commits /\ req[v].pending \cap doomed.commits = {}
      BY <2>1, <2>4 DEF Safe
    <3> QED BY <3>1 DEF Effect, Spares, Imports, Less, Nothing
  <2> QED
    BY <2>1, <2>2, <2>3, <2>4 DEF Safe, Like, Effect, Grows
<1>8. Safe(w, req'[w], mutation', repo', doomed')
  BY DEF Effect
<1> QED
  BY <1>4, <1>5, <1>6, <1>7, <1>8 DEF DirectInv

\* Most steps take nothing of that away or back.
LEMMA SparesSame ==
    ASSUME DirectInv, NEW w \in Workers, req[w].pc # "teeMark", doomed' = doomed
    PROVE  Spares(w)
BY LessSame DEF Spares, DirectInv, DirectTypeOK

\* That the repository changed under a request disturbs nothing it relies on.
LEMMA RacedLike ==
    ASSUME NEW q \in Request, NEW b \in BOOLEAN
    PROVE  [q EXCEPT !.raced = b] \in Request /\ Like(q, [q EXCEPT !.raced = b])
BY DEF Request, Like

\* Growing includes standing still,
LEMMA GrowsSame == ASSUME NEW r \in Repo PROVE Grows(r, r)
BY DEF Grows

\* and composes.
LEMMA GrowsTwice ==
    ASSUME NEW r, NEW f, NEW g, Grows(r, f), Grows(f, g) PROVE Grows(r, g)
BY DEF Grows

\* A step of w that changes the repository, and whose new request is safe.
LEMMA ChangeEffect ==
    ASSUME DirectInv, NEW w \in Workers, NEW q \in Request, NEW r, Grows(repo, r),
           r.exists \/ r = NoRepo, BecomeAndChange(w, q, r), Spares(w) \/ Imports(w),
           mutation' = mutation \/ (mutation \in {Nobody, w} /\ mutation' \in {Nobody, w}),
           Safe(w, q, mutation', r, doomed')
    PROVE  Effect(w)
<1>1. req \in [Workers -> Request]
  BY DEF DirectInv, DirectTypeOK
<1>2. ASSUME NEW v \in Workers, v # w
      PROVE  req'[v] \in Request /\ Like(req[v], req'[v])
  <2>1. PICK b \in BOOLEAN : req'[v] = [req[v] EXCEPT !.raced = b]
    BY <1>2 DEF BecomeAndChange
  <2> QED
    BY <1>1, <2>1, RacedLike
<1>3. req'[w] = q
  BY DEF BecomeAndChange
<1>4. req' \in [Workers -> Request]
  <2>1. \A v \in Workers : req'[v] \in Request
    BY <1>2, <1>3
  <2>2. req' = [v \in Workers |-> req'[v]]
    BY DEF BecomeAndChange
  <2> QED BY <2>1, <2>2
<1>5. repo' = r
  BY DEF BecomeAndChange
<1> QED
  BY <1>2, <1>3, <1>4, <1>5 DEF Effect

\* A step of w that leaves the repository alone.
LEMMA BecomeEffect ==
    ASSUME DirectInv, NEW w \in Workers, NEW q \in Request, Become(w, q),
           repo' = repo, Spares(w),
           mutation' = mutation \/ (mutation \in {Nobody, w} /\ mutation' \in {Nobody, w}),
           Safe(w, q, mutation', repo, doomed')
    PROVE  Effect(w)
<1>1. req \in [Workers -> Request] /\ repo \in Repo /\ (repo.exists \/ repo = NoRepo)
  BY DEF DirectInv, DirectTypeOK
<1>2. req'[w] = q /\ req' \in [Workers -> Request] /\ \A v \in Workers \ {w} : req'[v] = req[v]
  BY <1>1 DEF Become
<1> QED
  BY <1>1, <1>2, GrowsSame DEF Effect, Like

\* A worker without a request relies on nothing.
LEMMA IdleSafe ==
    ASSUME NEW w, NEW m, NEW r, NEW d PROVE Safe(w, Idle, m, r, d)
<1>1. Idle.pc = "idle"
  BY DEF Idle
<1> QED
  BY <1>1 DEF Safe, HoldsRepo, Writes, HoldsMutation

\* What the client of a request that ends is told,
LEMMA ReplyType ==
    ASSUME DirectInv, NEW w \in Workers, NEW how \in {"error", "whole", "cut", "dies"},
           Reply(w, how)
    PROVE  answer' \in [Workers -> Answer] /\ mutation' \in {mutation, Nobody}
           /\ (mutation' = mutation \/ mutation = w)
<1>1. req \in [Workers -> Request] /\ answer \in [Workers -> Answer]
  BY DEF DirectInv, DirectTypeOK
<1>2. [intent |-> req[w].intent, raced |-> req[w].raced, how |-> how] \in Answer
  BY <1>1 DEF Request, Answer
<1> QED
  BY <1>1, <1>2 DEF Reply

\* and its end.
LEMMA EndEffect ==
    ASSUME DirectInv, NEW w \in Workers, NEW how \in {"error", "whole", "cut", "dies"},
           End(w, how), Grows(repo, repo'), repo'.exists \/ repo' = NoRepo, Spares(w)
    PROVE  Effect(w) /\ answer' \in [Workers -> Answer]
<1>1. req \in [Workers -> Request]
  BY DEF DirectInv, DirectTypeOK
<1>2. req'[w] = Idle /\ req' \in [Workers -> Request] /\ \A v \in Workers \ {w} : req'[v] = req[v]
  BY <1>1, IdleType DEF End, Become
<1>3. answer' \in [Workers -> Answer]
      /\ (mutation' = mutation \/ (mutation \in {Nobody, w} /\ mutation' \in {Nobody, w}))
  BY ReplyType DEF End
<1> QED
  BY <1>2, <1>3, IdleSafe DEF Effect, Like


-----------------------------------------------------------------------------
(* The steps of a request                                                  *)

\* What the invariant says of one worker.
LEMMA Typed ==
    ASSUME DirectInv, NEW w \in Workers
    PROVE  /\ req[w] \in Request /\ req[w].intent \in Intent
           /\ repo \in Repo /\ (repo.exists \/ repo = NoRepo)
           /\ Safe(w, req[w], mutation, repo, doomed)
           /\ answer \in [Workers -> Answer] /\ tasks \subseteq {"fsck", Maintenance}
           /\ requests \in 0 .. MaxRequests /\ faults \in 0 .. MaxFaults
           /\ untrusted \in BOOLEAN
BY DEF DirectInv, DirectTypeOK, Request

\* The wants of an intent are commits.
LEMMA IntentType ==
    ASSUME NEW i \in Intent
    PROVE  i.wants \in SUBSET Commits /\ i.blobs \in SUBSET Commits /\ i.depth \in Nat
BY Depths DEF Intent

\* git_repo_post: a request starts without locks.
LEMMA BeginKeeps == ASSUME DirectInv, NEW w \in Workers, Begin(w) PROVE DirectInv'
<1>1. PICK i \in Intents, pc \in {"prepare", "ensure"} :
        Become(w, [Idle EXCEPT !.pc = pc, !.intent = i, !.serve = TRUE,
                               !.raced = \E v \in Workers : req[v].pc \in Unmarked])
  BY DEF Begin
<1> DEFINE b == \E v \in Workers : req[v].pc \in Unmarked
           q == [Idle EXCEPT !.pc = pc, !.intent = i, !.serve = TRUE, !.raced = b]
<1>2. b \in BOOLEAN /\ i \in Intent
  BY DirectGitAssumption
<1>3. q \in Request /\ q.pc = pc
  <2> HIDE DEF b
  <2> QED BY <1>2, IdleType DEF Request
<1>4. Safe(w, q, mutation', repo, doomed)
  <2> HIDE DEF q
  <2> QED BY <1>3 DEF Safe, HoldsRepo, Writes, HoldsMutation
<1>5. Effect(w)
  <2>1. Become(w, q) /\ repo' = repo /\ doomed' = doomed /\ mutation' = mutation /\ Spares(w)
    BY <1>1, SparesSame DEF Begin
  <2> HIDE DEF q
  <2> QED BY <1>3, <1>4, <2>1, BecomeEffect
<1>6. requests' \in 0 .. MaxRequests
  BY Typed, DirectGitAssumption DEF Begin
<1>7. answer' \in [Workers -> Answer] /\ tasks' = tasks /\ faults' = faults /\ untrusted' = untrusted
  BY Typed, NoAnswerType DEF Begin
<1> QED
  BY <1>5, <1>6, <1>7, Typed, EffectKeeps, SMTT(60)

\* ensure_repo_dir adds a directory and takes nothing away.
LEMMA RepoDirGrows ==
    ASSUME DirectInv PROVE Grows(repo, RepoDir) /\ RepoDir.exists
BY DEF DirectInv, DirectTypeOK, RepoDir, Grows, Repo

\* A step that does not end a request and leaves the counters alone.
LEMMA QuietKeeps ==
    ASSUME DirectInv, NEW w \in Workers, Effect(w),
           UNCHANGED <<answer, requests, faults, untrusted>>, tasks' \subseteq {"fsck", Maintenance}
    PROVE  DirectInv'
BY Typed, EffectKeeps

\* prepare_upload_pack_from_cache, up to its RepoLock.
LEMMA PrepareFromCacheKeeps ==
    ASSUME DirectInv, NEW w \in Workers, PrepareFromCache(w) PROVE DirectInv'
<1> DEFINE q == req[w]
           i == q.intent
           p == IF ~i.blobless /\ repo.partial /\ ~(i.depth = 1 /\ SnapshotsComplete(i))
                THEN [q EXCEPT !.pc = "proxied"]
                ELSE [q EXCEPT !.pc = "prepareWants",
                               !.shallowMiss = repo.shallow # {} /\ (i.depth = 0 \/ Deepens(i))]
<1>1. BecomeAndChange(w, p, RepoDir) /\ mutation' = mutation /\ doomed' = doomed /\ Spares(w)
  BY SparesSame DEF PrepareFromCache
<1>2. (repo.shallow # {} /\ (i.depth = 0 \/ Deepens(i))) \in BOOLEAN
  OBVIOUS
<1>3. p \in Request /\ p.pc \in {"proxied", "prepareWants"}
  <2>1. [q EXCEPT !.pc = "proxied"] \in Request /\ [q EXCEPT !.pc = "proxied"].pc = "proxied"
    BY Typed DEF Request
  <2>2. ASSUME NEW b \in BOOLEAN
        PROVE  LET n == [q EXCEPT !.pc = "prepareWants", !.shallowMiss = b] IN
               n \in Request /\ n.pc = "prepareWants"
    <3>1. q \in Request
      BY Typed
    <3> QED BY <3>1 DEF Request
  <2> QED BY <1>2, <2>1, <2>2
<1>4. Safe(w, p, mutation', RepoDir, doomed')
  <2> HIDE DEF p
  <2> QED BY <1>3 DEF Safe, HoldsRepo, Writes, HoldsMutation
<1>5. Effect(w)
  <2> HIDE DEF p
  <2> QED BY <1>1, <1>3, <1>4, RepoDirGrows, ChangeEffect
<1> QED
  BY <1>5, Typed, QuietKeeps DEF PrepareFromCache

\* A commit exposed by a ref takes nothing away.
LEMMA RefsGrow ==
    ASSUME DirectInv, repo.exists, NEW S \in SUBSET Commits, NEW r,
           r = [repo EXCEPT !.refs = repo.refs \cup S]
    PROVE  Grows(repo, r) /\ r.exists /\ r.commits = repo.commits /\ S \subseteq r.refs
BY DEF DirectInv, DirectTypeOK, Grows, Repo

\* The wants that prepare_upload_pack_from_cache exposes.
LEMMA PrepareWantsKeeps ==
    ASSUME DirectInv, NEW w \in Workers, PrepareWants(w) PROVE DirectInv'
<1> DEFINE q == req[w]
           i == q.intent
<1>1. PICK S \in SUBSET i.wants, pc \in {"ensure", "proxied"} :
        BecomeAndChange(w, [q EXCEPT !.pc = pc], [repo EXCEPT !.refs = repo.refs \cup S])
  BY DEF PrepareWants
<1> DEFINE p == [q EXCEPT !.pc = pc]
           r == [repo EXCEPT !.refs = repo.refs \cup S]
<1>2. S \in SUBSET Commits /\ repo.exists /\ mutation' = mutation /\ doomed' = doomed /\ Spares(w)
  BY Typed, IntentType, SparesSame DEF PrepareWants
<1>3. p \in Request /\ p.pc = pc
  BY Typed DEF Request
<1>4. Grows(repo, r) /\ r.exists
  BY <1>2, RefsGrow
<1> HIDE DEF p, r
<1>5. Safe(w, p, mutation', r, doomed')
  BY <1>3 DEF Safe, HoldsRepo, Writes, HoldsMutation
<1>6. Effect(w)
  <2>1. BecomeAndChange(w, p, r)
    BY <1>1 DEF p, r
  <2> QED BY <1>2, <1>3, <1>4, <1>5, <2>1, ChangeEffect
<1> QED
  BY <1>6, Typed, QuietKeeps DEF PrepareWants


\* Outside of these locks a request claims nothing.
LEMMA OutsideSafe ==
    ASSUME NEW w, NEW q, NEW m, NEW r, NEW d,
           q.pc \in {"idle", "prepare", "prepareWants", "proxied", "tee", "ensure", "lock", "spawn"}
    PROVE  Safe(w, q, m, r, d)
BY DEF Safe, HoldsRepo, Writes, HoldsMutation

\* proxy_upload_pack_to_upstream.
LEMMA ProxyKeeps == ASSUME DirectInv, NEW w \in Workers, Proxy(w) PROVE DirectInv'
<1> DEFINE q == req[w]
<1>1. PICK pc \in {"ensure", "tee"}, serve \in BOOLEAN :
        Become(w, [q EXCEPT !.pc = pc, !.serve = serve, !.shallowMiss = FALSE])
  <2>0. q \in Request
    BY Typed
  <2>1. ASSUME NEW pc \in {"ensure", "tee"},
               Become(w, [[q EXCEPT !.serve = FALSE, !.shallowMiss = FALSE] EXCEPT !.pc = pc])
        PROVE  Become(w, [q EXCEPT !.pc = pc, !.serve = FALSE, !.shallowMiss = FALSE])
    <3>1. [[q EXCEPT !.serve = FALSE, !.shallowMiss = FALSE] EXCEPT !.pc = pc]
            = [q EXCEPT !.pc = pc, !.serve = FALSE, !.shallowMiss = FALSE]
      BY <2>0 DEF Request
    <3> QED BY <2>1, <3>1
  <2>2. ASSUME Become(w, [q EXCEPT !.pc = "ensure", !.shallowMiss = FALSE])
        PROVE  Become(w, [q EXCEPT !.pc = "ensure", !.serve = q.serve, !.shallowMiss = FALSE])
    <3>1. [q EXCEPT !.pc = "ensure", !.shallowMiss = FALSE]
            = [q EXCEPT !.pc = "ensure", !.serve = q.serve, !.shallowMiss = FALSE]
      BY <2>0 DEF Request
    <3> QED BY <2>2, <3>1
  <2>3. q.serve \in BOOLEAN
    BY <2>0 DEF Request
  <2>4. \/ Become(w, [[q EXCEPT !.serve = FALSE, !.shallowMiss = FALSE] EXCEPT !.pc = "ensure"])
        \/ Become(w, [[q EXCEPT !.serve = FALSE, !.shallowMiss = FALSE] EXCEPT !.pc = "tee"])
        \/ Become(w, [q EXCEPT !.pc = "ensure", !.shallowMiss = FALSE])
    BY DEF Proxy
  <2> QED BY <2>1, <2>2, <2>3, <2>4
<1> DEFINE p == [q EXCEPT !.pc = pc, !.serve = serve, !.shallowMiss = FALSE]
<1>2. p \in Request /\ p.pc = pc
  <2>1. q \in Request
    BY Typed
  <2> QED BY <2>1, ZenonT(60) DEF Request
<1>3. Effect(w)
  <2>1. Become(w, p) /\ repo' = repo /\ mutation' = mutation /\ Spares(w)
    BY <1>1, SparesSame DEF Proxy
  <2> HIDE DEF p
  <2>2. Safe(w, p, mutation', repo, doomed')
    BY <1>2, OutsideSafe
  <2> QED BY <1>2, <2>1, <2>2, BecomeEffect
<1>4. answer' \in [Workers -> Answer]
  <2>1. [intent |-> q.intent, raced |-> FALSE, how |-> "proxied"] \in Answer
    BY Typed DEF Answer
  <2> QED BY <2>1, Typed DEF Proxy
<1> QED
  BY <1>3, <1>4, Typed, EffectKeeps DEF Proxy

\* import_proxied_upload_pack takes both locks before index-pack.
LEMMA TeeIndexKeeps == ASSUME DirectInv, NEW w \in Workers, TeeIndex(w) PROVE DirectInv'
<1> DEFINE q == req[w]
           i == q.intent
           pack == Reach(i.wants, {})
           blobs == i.blobs \cup (IF i.blobless THEN {} ELSE pack)
           r == [RepoDir EXCEPT !.commits = RepoDir.commits \cup pack,
                                !.blobs = RepoDir.blobs \cup blobs]
           p == [q EXCEPT !.pc = "teeMark", !.locked = TRUE]
<1>1. q \in Request /\ mutation = Nobody /\ q.pc = "tee"
      /\ UNCHANGED <<tasks, answer, requests, faults, untrusted>>
  BY Typed DEF TeeIndex
<1>2. \/ Become(w, [q EXCEPT !.pc = "ensure"]) /\ UNCHANGED <<repo, mutation, doomed>>
      \/ /\ BecomeAndChange(w, p, r) /\ mutation' = w
         /\ doomed' = [commits |-> pack \ repo.commits, blobs |-> blobs \ repo.blobs]
  BY Zenon DEF TeeIndex
<1>3. CASE Become(w, [q EXCEPT !.pc = "ensure"]) /\ UNCHANGED <<repo, mutation, doomed>>
  <2> DEFINE e == [q EXCEPT !.pc = "ensure"]
  <2>1. e \in Request /\ e.pc = "ensure"
    BY <1>1 DEF Request
  <2>2. Become(w, e) /\ Spares(w)
    BY <1>1, <1>3, SparesSame
  <2> HIDE DEF e
  <2>3. Effect(w)
    BY <1>3, <2>1, <2>2, OutsideSafe, BecomeEffect
  <2> QED
    BY <1>1, <2>3, Typed, QuietKeeps
<1>4. CASE /\ BecomeAndChange(w, p, r) /\ mutation' = w
           /\ doomed' = [commits |-> pack \ repo.commits, blobs |-> blobs \ repo.blobs]
  <2>1. p \in Request /\ p.pc = "teeMark" /\ p.locked
    BY <1>1 DEF Request
  <2>2. pack \in SUBSET Commits /\ i.blobs \in SUBSET Commits
    BY Typed, IntentType, ReachType
  <2>3. blobs \in SUBSET Commits
    <3> HIDE DEF pack
    <3> QED BY <2>2
  <2>4. Grows(repo, RepoDir) /\ RepoDir.exists /\ RepoDir \in Repo
    BY RepoDirGrows DEF Grows
  <2> HIDE DEF pack, blobs
  <2>5. r \in Repo /\ r.exists = RepoDir.exists /\ RepoDir.commits \subseteq r.commits
        /\ r.refs = RepoDir.refs
    BY <2>2, <2>3, <2>4 DEF Repo
  <2>6. Grows(repo, r) /\ r.exists
    BY <2>4, <2>5 DEF Grows
  <2>7. BecomeAndChange(w, p, r) /\ req'[w] = p
    BY <1>4 DEF BecomeAndChange
  <2>8. doomed' \in Objects /\ doomed'.commits \cap repo.commits = {}
    BY <1>4, <2>2, <2>3 DEF Objects
  <2> HIDE DEF p, r
  <2>9. Imports(w)
    BY <1>1, <1>4, <2>1, <2>7, <2>8 DEF Imports
  <2>10. Safe(w, p, mutation', r, doomed')
    BY <1>4, <2>1, <2>6 DEF Safe
  <2>11. Effect(w)
    BY <1>1, <1>4, <2>1, <2>6, <2>7, <2>9, <2>10, ChangeEffect
  <2> QED
    BY <1>1, <2>11, Typed, QuietKeeps
<1> HIDE DEF p, r
<1> QED
  BY <1>2, <1>3, <1>4

\* finish_tee_import gives them up.
LEMMA TeeMarkKeeps == ASSUME DirectInv, NEW w \in Workers, TeeMark(w) PROVE DirectInv'
<1> DEFINE i == req[w].intent
           partial == repo.partial \/ i.blobless
           r == [repo EXCEPT !.partial = partial, !.refs = repo.refs \cup i.wants]
<1>1. BecomeAndChange(w, Idle, r) /\ mutation' = Nobody /\ doomed' = Nothing
      /\ tasks' = {"fsck", Maintenance}
  BY DEF TeeMark
<1>2. repo.exists /\ mutation = w
  BY Typed DEF TeeMark, Safe, Writes, HoldsMutation
<1>3. partial \in BOOLEAN /\ i.wants \in SUBSET Commits /\ repo \in Repo
  BY Typed, IntentType
<1>4. Grows(repo, r) /\ r.exists
  <2> HIDE DEF partial
  <2> QED BY <1>2, <1>3 DEF Grows, Repo
<1> HIDE DEF r
<1>5. Effect(w)
  BY <1>1, <1>2, <1>4, IdleType, IdleSafe, ChangeEffect DEF Spares
<1> QED
  BY <1>1, <1>5, QuietKeeps DEF TeeMark

\* An import that fails takes its pack away, on which no other request relies.
LEMMA TeeMarkFailsKeeps ==
    ASSUME DirectInv, NEW w \in Workers, TeeMarkFails(w) PROVE DirectInv'
<1> DEFINE q == req[w]
           i == q.intent
           p == [q EXCEPT !.pc = "ensure", !.locked = FALSE]
           partial == repo.partial \/ i.blobless
           r(named) == [repo EXCEPT !.commits = repo.commits \ doomed.commits,
                                    !.blobs = repo.blobs \ doomed.blobs,
                                    !.partial = partial, !.refs = repo.refs \cup named]
<1>1. PICK named \in SUBSET i.wants : BecomeAndChange(w, p, r(named))
  BY DEF TeeMarkFails
<1> DEFINE f == r(named)
<1>2. q.pc = "teeMark" /\ mutation' = Nobody /\ doomed' = Nothing
      /\ UNCHANGED <<tasks, answer, requests>>
  BY DEF TeeMarkFails
<1>3. q \in Request /\ repo \in Repo /\ repo.exists /\ mutation = w
  BY <1>2, Typed DEF Safe, Writes, HoldsMutation
<1>4. faults' \in 0 .. MaxFaults /\ untrusted' \in BOOLEAN
  BY Typed, DirectGitAssumption DEF TeeMarkFails
<1>5. named \in SUBSET Commits /\ partial \in BOOLEAN
  BY <1>3, Typed, IntentType
<1>6. f \in Repo /\ f.exists /\ f.commits = repo.commits \ doomed.commits
      /\ repo.refs \subseteq f.refs
  <2> HIDE DEF partial
  <2> QED BY <1>3, <1>5 DEF Repo
<1>7. p \in Request /\ p.pc = "ensure"
  <2>1. q \in Request
    BY <1>3
  <2> QED BY <2>1 DEF Request
<1>8. BecomeAndChange(w, p, f)
  BY <1>1
<1> HIDE DEF p, f
<1>9. ASSUME NEW v \in Workers, v # w PROVE req'[v] \in Request /\ Like(req[v], req'[v])
  <2>1. PICK b \in BOOLEAN : req'[v] = [req[v] EXCEPT !.raced = b]
    BY <1>8, <1>9 DEF BecomeAndChange
  <2>2. req[v] \in Request
    BY Typed
  <2> QED BY <2>1, <2>2, RacedLike
<1>10. req'[w] = p /\ repo' = f
  BY <1>8 DEF BecomeAndChange
<1>11. req' \in [Workers -> Request]
  <2>1. \A v \in Workers : req'[v] \in Request
    BY <1>7, <1>9, <1>10
  <2>2. req' = [v \in Workers |-> req'[v]]
    BY <1>8 DEF BecomeAndChange
  <2> QED BY <2>1, <2>2
<1>12. DirectTypeOK'
  BY <1>2, <1>4, <1>6, <1>10, <1>11, NothingType DEF DirectInv, DirectTypeOK
<1>13. ASSUME NEW v \in Workers PROVE Safe(v, req'[v], mutation', repo', doomed')
  <2>1. CASE v = w
    BY <1>7, <1>10, <2>1, OutsideSafe
  <2>2. CASE v # w
    <3>1. Safe(v, req[v], mutation, repo, doomed) /\ Like(req[v], req'[v])
      BY <1>9, <2>2 DEF DirectInv
    <3>2. req[v].pc \notin HoldsMutation
      BY <1>3, <2>2, <3>1 DEF Safe
    <3> QED
      BY <1>2, <1>6, <1>10, <3>1, <3>2 DEF Safe, Like, HoldsMutation, Nothing
  <2> QED BY <2>1, <2>2
<1>14. doomed' = Nothing
  BY <1>2
<1> QED
  BY <1>12, <1>13, <1>14 DEF DirectInv

\* ensure_repo_dir, before the RepoLock.
LEMMA EnsureRepoDirKeeps ==
    ASSUME DirectInv, NEW w \in Workers, EnsureRepoDir(w) PROVE DirectInv'
<1> DEFINE p == [req[w] EXCEPT !.pc = "lock"]
<1>1. BecomeAndChange(w, p, RepoDir) /\ mutation' = mutation /\ Spares(w)
  BY SparesSame DEF EnsureRepoDir
<1>2. p \in Request /\ p.pc = "lock"
  BY Typed, SMTT(60) DEF Request
<1> HIDE DEF p
<1>3. Effect(w)
  BY <1>1, <1>2, RepoDirGrows, OutsideSafe, ChangeEffect
<1> QED
  BY <1>3, Typed, QuietKeeps DEF EnsureRepoDir

\* A step that only moves on, holding the RepoLock.
LEMMA LockedSafe ==
    ASSUME NEW w, NEW q, NEW m, NEW r, NEW d,
           q.pc \in {"markers", "boundary", "classify"}, q.locked
    PROVE  Safe(w, q, m, r, d)
BY DEF Safe, HoldsRepo, Writes, HoldsMutation

\* The RepoLock is taken.
LEMMA LockRepoKeeps == ASSUME DirectInv, NEW w \in Workers, LockRepo(w) PROVE DirectInv'
<1> DEFINE p == [req[w] EXCEPT !.pc = "markers", !.locked = TRUE]
<1>1. Become(w, p) /\ mutation' = mutation /\ Spares(w) /\ repo' = repo
  BY SparesSame DEF LockRepo
<1>2. p \in Request /\ p.pc = "markers" /\ p.locked
  <2>1. req[w] \in Request
    BY Typed
  <2> QED BY <2>1 DEF Request
<1> HIDE DEF p
<1>3. Effect(w)
  BY <1>1, <1>2, LockedSafe, BecomeEffect
<1> QED
  BY <1>3, Typed, QuietKeeps DEF LockRepo

\* The markers are read under it,
LEMMA ReadMarkersKeeps == ASSUME DirectInv, NEW w \in Workers, ReadMarkers(w) PROVE DirectInv'
<1> DEFINE q == req[w]
           i == q.intent
           force == ~i.blobless /\ repo.partial /\ ~(i.depth = 1 /\ SnapshotsComplete(i))
           marked == ~i.blobless /\ i.depth = 0 /\ repo.suspect
           p == [q EXCEPT !.pc = "boundary", !.force = force, !.marked = marked]
<1>1. Become(w, p) /\ mutation' = mutation /\ doomed' = doomed /\ repo' = repo
  BY Zenon DEF ReadMarkers
<1>0. Spares(w)
  BY <1>1, SparesSame DEF ReadMarkers
<1>2. force \in BOOLEAN /\ marked \in BOOLEAN /\ q \in Request
  BY Typed
<1>3. q.locked
  BY Typed DEF ReadMarkers, Safe, HoldsRepo
<1>4. p \in Request /\ p.pc = "boundary" /\ p.locked
  <2> HIDE DEF force, marked
  <2> QED BY <1>2, <1>3, ZenonT(60) DEF Request
<1> HIDE DEF p
<1>5. Effect(w)
  BY <1>0, <1>1, <1>4, LockedSafe, BecomeEffect
<1> QED
  BY <1>5, Typed, QuietKeeps DEF ReadMarkers

\* and the shallow file.
LEMMA ReadBoundaryKeeps == ASSUME DirectInv, NEW w \in Workers, ReadBoundary(w) PROVE DirectInv'
<1> DEFINE q == req[w]
<1>1. PICK e \in {"none", "unshallow", "deepen"} :
        Become(w, [q EXCEPT !.pc = "classify", !.ext = e])
  BY DEF ReadBoundary
<1> DEFINE p == [q EXCEPT !.pc = "classify", !.ext = e]
<1>2. q \in Request
  BY Typed
<1>3. q.locked
  BY Typed DEF ReadBoundary, Safe, HoldsRepo
<1>4. p \in Request /\ p.pc = "classify" /\ p.locked
  BY <1>2, <1>3 DEF Request
<1>5. Become(w, p) /\ mutation' = mutation /\ Spares(w) /\ repo' = repo
  BY <1>1, SparesSame DEF ReadBoundary
<1> HIDE DEF p
<1>6. Effect(w)
  BY <1>4, <1>5, LockedSafe, BecomeEffect
<1> QED
  BY <1>6, Typed, QuietKeeps DEF ReadBoundary


\* A request with nothing left to hydrate goes to the mutation lock, or on to serve
\* when nothing is pending.
LEMMA OnwardSafe ==
    ASSUME NEW q \in Request, q.locked, NEW r, r.exists, NEW w, NEW m, NEW d
    PROVE  Onward(q) \in Request /\ Safe(w, Onward(q), m, r, d)
<1> DEFINE pc == IF q.pending \cup q.blobs # {} THEN "mutation" ELSE "finish"
<1>1. CASE q.cold # {}
  <2> DEFINE p == [q EXCEPT !.pc = "hydrate"]
  <2>1. p \in Request /\ p.pc = "hydrate" /\ p.locked
    BY DEF Request
  <2>2. Onward(q) = p
    BY <1>1 DEF Onward
  <2> HIDE DEF p
  <2> QED
    BY <2>1, <2>2 DEF Safe, HoldsMutation
<1>2. CASE q.cold = {}
  <2> DEFINE p == [q EXCEPT !.pc = pc, !.proven = {}]
  <2>1. pc \in {"mutation", "finish"} /\ (pc = "finish" => q.pending = {})
    OBVIOUS
  <2>2. p \in Request /\ p.pc = pc /\ p.locked /\ p.pending = q.pending
    <3> HIDE DEF pc
    <3> QED BY <2>1 DEF Request
  <2>3. Onward(q) = p
    BY <1>2 DEF Onward
  <2> HIDE DEF p
  <2> QED
    BY <2>1, <2>2, <2>3 DEF Safe, HoldsMutation
<1> QED
  BY <1>1, <1>2

\* It does so, or ends with an error.
LEMMA ProceedKeeps ==
    ASSUME DirectInv, NEW w \in Workers, NEW q \in Request, q.locked, NEW r, Grows(repo, r), r.exists,
           NEW missing, ProceedOrMiss(w, missing, Onward(q), r), Spares(w),
           tasks' = tasks, requests' = requests, faults' \in 0 .. MaxFaults, untrusted' \in BOOLEAN
    PROVE  DirectInv'
<1>1. CASE BecomeAndChange(w, Idle, r) /\ Reply(w, "error")
  <2>1. answer' \in [Workers -> Answer]
        /\ (mutation' = mutation \/ (mutation \in {Nobody, w} /\ mutation' \in {Nobody, w}))
    BY <1>1, ReplyType
  <2>2. Effect(w)
    BY <1>1, <2>1, IdleType, IdleSafe, ChangeEffect
  <2> QED
    BY <2>1, <2>2, Typed, EffectKeeps
<1>2. CASE BecomeAndChange(w, Onward(q), r) /\ UNCHANGED <<answer, mutation>>
  <2>1. Effect(w)
    BY <1>2, OnwardSafe, ChangeEffect
  <2> QED
    BY <1>2, <2>1, Typed, EffectKeeps
<1> QED
  BY <1>1, <1>2 DEF ProceedOrMiss

\* The wants are classified, and the hot ones exposed.
LEMMA ClassifyKeeps == ASSUME DirectInv, NEW w \in Workers, Classify(w) PROVE DirectInv'
<1> DEFINE q == req[w]
           i == q.intent
           hot == {c \in i.wants \cap repo.commits : ~q.force /\ q.ext = "none"}
           noWindow == {c \in hot : i.depth > 1 /\ ~WindowReady(c, i.depth)}
           suspect == q.marked /\ FullHistory(q)
           holes == {c \in hot \ noWindow : suspect /\ ~HistoryComplete(repo, c)}
           hydrate == {c \in i.wants \ hot : /\ ~q.force /\ q.ext = "none" /\ q.serve
                                             /\ ~i.blobless /\ Manifest[c] # {}}
           absent == i.wants \ (hot \cup hydrate)
           pending == absent \cup noWindow \cup holes
           blobs == i.blobs \ repo.blobs
           refetch == q.force \/ noWindow \cup holes # {}
           verify == q.marked \/ holes # {}
           hotClosure == suspect /\ hot # {} /\ holes = {}
           p == [q EXCEPT !.cold = hydrate, !.pending = pending, !.blobs = blobs,
                          !.refetch = refetch, !.verify = verify, !.hotClosure = hotClosure]
           S == hot \ (noWindow \cup holes)
           r == [repo EXCEPT !.refs = repo.refs \cup S]
<1>1. ProceedOrMiss(w, absent \cup blobs # {}, Onward(p), r)
  BY ZenonT(60) DEF Classify
<1>2. repo.exists /\ UNCHANGED <<tasks, doomed, requests, faults, untrusted>> /\ q.pc = "classify"
  BY ZenonT(60) DEF Classify
<1>3. q \in Request /\ q.locked /\ i.wants \in SUBSET Commits /\ i.blobs \in SUBSET Commits
  BY <1>2, Typed, IntentType DEF Safe, HoldsRepo
<1>4. hot \subseteq i.wants /\ noWindow \subseteq i.wants /\ holes \subseteq i.wants
      /\ hydrate \subseteq i.wants
  OBVIOUS
<1> HIDE DEF hot, noWindow, holes, hydrate
<1>5. pending \in SUBSET Commits /\ hydrate \in SUBSET Commits /\ S \in SUBSET Commits
      /\ blobs \in SUBSET Commits
  BY <1>3, <1>4
<1>6. refetch \in BOOLEAN /\ verify \in BOOLEAN /\ hotClosure \in BOOLEAN
  OBVIOUS
<1> HIDE DEF pending, absent, S, blobs, refetch, verify, hotClosure
<1>7. p \in Request /\ p.locked
  <2>1. p \in Request
    BY <1>3, <1>5, <1>6, ZenonT(60) DEF Request
  <2>2. p.locked
    BY <1>3 DEF Request
  <2> QED BY <2>1, <2>2
<1>8. Grows(repo, r) /\ r.exists
  BY <1>2, <1>5, RefsGrow
<1>9. Spares(w)
  BY <1>2, SparesSame
<1> HIDE DEF p, r
<1> QED
  BY <1>1, <1>2, <1>7, <1>8, <1>9, Typed, ProceedKeeps

\* hydrate_commit_in_repo adds packs, which a running repack does not know.
LEMMA HydrateKeeps == ASSUME DirectInv, NEW w \in Workers, Hydrate(w) PROVE DirectInv'
<1> DEFINE q == req[w]
           packs(c) == [repo EXCEPT !.commits = repo.commits \cup Manifest[c],
                                    !.blobs = repo.blobs \cup Manifest[c],
                                    !.refs = repo.refs \cup {c}]
           rest(c) == [q EXCEPT !.cold = q.cold \ {c}]
<1>1. PICK c \in q.cold :
        /\ \/ ProceedOrMiss(w, FALSE, Onward([rest(c) EXCEPT !.proven = @ \cup {Manifest[c]}]), packs(c))
           \/ ProceedOrMiss(w, TRUE,
                Onward([rest(c) EXCEPT !.pending = @ \cup {c}, !.verify = TRUE, !.refetch = TRUE]),
                [packs(c) EXCEPT !.suspect = TRUE])
        /\ doomed' = [commits |-> doomed.commits \ Manifest[c],
                      blobs |-> doomed.blobs \ Manifest[c]]
        /\ untrusted' \in BOOLEAN
  BY DEF Hydrate
<1>2. repo.exists /\ UNCHANGED <<tasks, requests, faults>>
  BY DEF Hydrate
<1>3. q \in Request /\ q.locked /\ repo \in Repo
  BY Typed DEF Hydrate, Safe, HoldsRepo
<1>4. c \in Commits /\ Manifest[c] \in SUBSET Commits
  BY <1>3, DirectGitAssumption DEF Request
<1> DEFINE r == packs(c)
           t == rest(c)
           r2 == [r EXCEPT !.suspect = TRUE]
<1>5. r \in Repo /\ Grows(repo, r) /\ r.exists
  BY <1>2, <1>3, <1>4 DEF Repo, Grows
<1>6. t \in Request /\ t.locked
  BY <1>3 DEF Request
<1> DEFINE a == [t EXCEPT !.proven = t.proven \cup {Manifest[c]}]
           b == [t EXCEPT !.pending = t.pending \cup {c}, !.verify = TRUE, !.refetch = TRUE]
<1>7. \/ ProceedOrMiss(w, FALSE, Onward(a), r)
      \/ ProceedOrMiss(w, TRUE, Onward(b), r2)
  BY <1>1
<1> HIDE DEF r, t
<1>8. Grows(repo, r2) /\ r2.exists
  BY <1>5 DEF Repo, Grows
<1>9. a \in Request /\ a.locked
  BY <1>4, <1>6 DEF Request
<1>10. b \in Request /\ b.locked
  BY <1>4, <1>6 DEF Request
<1> HIDE DEF a, b, r2
<1>11. tasks' = tasks /\ requests' = requests /\ faults' \in 0 .. MaxFaults
       /\ untrusted' \in BOOLEAN
  BY <1>1, <1>2, Typed
<1>14. Spares(w)
  <2>1. doomed \in Objects
    BY DEF DirectInv, DirectTypeOK
  <2>2. Less(doomed', doomed)
    BY <1>1, <2>1 DEF Less, Objects
  <2> QED BY <2>2 DEF Spares, Hydrate
<1>12. CASE ProceedOrMiss(w, FALSE, Onward(a), r)
  BY <1>5, <1>9, <1>11, <1>12, <1>14, ProceedKeeps
<1>13. CASE ProceedOrMiss(w, TRUE, Onward(b), r2)
  BY <1>8, <1>10, <1>11, <1>13, <1>14, ProceedKeeps
<1> QED
  BY <1>7, <1>12, <1>13

\* A hydrate that misses.
LEMMA HydrateMissesKeeps ==
    ASSUME DirectInv, NEW w \in Workers, HydrateMisses(w) PROVE DirectInv'
<1> DEFINE q == req[w]
<1>1. PICK c \in q.cold :
        ProceedOrMiss(w, TRUE,
          Onward([q EXCEPT !.cold = q.cold \ {c}, !.pending = q.pending \cup {c}]), repo)
  BY DEF HydrateMisses
<1> DEFINE cold == q.cold \ {c}
           pending == q.pending \cup {c}
           p == [q EXCEPT !.cold = cold, !.pending = pending]
<1>2. q \in Request /\ q.locked /\ repo.exists /\ repo \in Repo
  BY Typed DEF HydrateMisses, Safe, HoldsRepo, Writes
<1>3. p \in Request /\ p.locked
  <2>1. cold \in SUBSET Commits /\ pending \in SUBSET Commits
    BY <1>2 DEF Request
  <2> HIDE DEF cold, pending
  <2> QED BY <1>2, <2>1 DEF Request
<1>4. ProceedOrMiss(w, TRUE, Onward(p), repo)
  BY <1>1
<1>5. faults' \in 0 .. MaxFaults
  BY Typed, DirectGitAssumption DEF HydrateMisses
<1>6. UNCHANGED <<tasks, requests, untrusted>> /\ Spares(w)
  BY SparesSame DEF HydrateMisses
<1> HIDE DEF p
<1> QED
  BY <1>2, <1>3, <1>4, <1>5, <1>6, Typed, GrowsSame, ProceedKeeps

\* A request that finds its repository evicted ends.
LEMMA EvictedKeeps == ASSUME DirectInv, NEW w \in Workers, Evicted(w) PROVE DirectInv'
<1>1. Effect(w) /\ answer' \in [Workers -> Answer]
  <2>1. Grows(repo, repo') /\ (repo'.exists \/ repo' = NoRepo)
    BY Typed, GrowsSame DEF Evicted
  <2>2. Spares(w)
    BY SparesSame DEF Evicted
  <2> QED BY <2>1, <2>2, EndEffect DEF Evicted
<1> QED
  BY <1>1, Typed, EffectKeeps DEF Evicted

\* The mutation lock is taken when nobody has it.
LEMMA LockMutationKeeps ==
    ASSUME DirectInv, NEW w \in Workers, LockMutation(w) PROVE DirectInv'
<1> DEFINE p == [req[w] EXCEPT !.pc = "fetch"]
<1>1. Become(w, p) /\ mutation = Nobody /\ mutation' = w /\ Spares(w) /\ repo' = repo
  BY SparesSame DEF LockMutation
<1>2. req[w] \in Request /\ req[w].locked /\ repo.exists
  BY Typed DEF LockMutation, Safe, HoldsRepo, Writes
<1>3. p \in Request /\ p.pc = "fetch" /\ p.locked
  BY <1>2 DEF Request
<1> HIDE DEF p
<1>4. Safe(w, p, mutation', repo, doomed')
  BY <1>1, <1>2, <1>3 DEF Safe
<1>5. Effect(w)
  BY <1>1, <1>3, <1>4, BecomeEffect
<1> QED
  BY <1>5, Typed, QuietKeeps DEF LockMutation


\* A fetch under the mutation lock.
LEMMA FetchedSafe ==
    ASSUME DirectInv, NEW w \in Workers, req[w].pc = "fetch", NEW p \in Request,
           p.pc = "fetched", p.locked, NEW r, Grows(repo, r), BecomeAndChange(w, p, r),
           UNCHANGED <<mutation, doomed>>
    PROVE  Effect(w)
<1>1. repo.exists /\ mutation = w
  BY Typed DEF Safe, Writes, HoldsMutation
<1>2. r.exists
  BY <1>1 DEF Grows
<1>3. Safe(w, p, mutation', r, doomed')
  BY <1>1, <1>2 DEF Safe
<1>4. Spares(w)
  BY SparesSame
<1> QED
  BY <1>2, <1>3, <1>4, ChangeEffect

\* batched_read_through_fetch.
LEMMA BatchedFetchKeeps ==
    ASSUME DirectInv, NEW w \in Workers, BatchedFetch(w) PROVE DirectInv'
<1> DEFINE q == req[w]
           i == q.intent
           raw == Raw(q)
           tips == {Tips[BranchFor(i, c)] : c \in q.pending \ raw}
           o == Options(q)
           r == IF tips = {} THEN repo ELSE FetchHeads(repo, tips, o)
           f == FetchObjects(r, raw, q.blobs, o)
           p == [q EXCEPT !.pc = "fetched"]
<1>1. BecomeAndChange(w, p, f) /\ UNCHANGED <<mutation, tasks, doomed, answer, requests, faults, untrusted>>
      /\ q.pc = "fetch"
  BY Zenon DEF BatchedFetch
<1>2. q \in Request /\ q.locked /\ repo \in Repo
  BY <1>1, Typed DEF Safe, HoldsRepo
<1>3. raw \in SUBSET Commits /\ q.blobs \in SUBSET Commits /\ o \in FetchOptions
  BY <1>2, OptionsType DEF Raw, Request
<1>4. tips \in SUBSET Commits
  <2>1. \A c \in q.pending \ raw : BranchFor(i, c) \in Branches
    BY DEF BranchFor, Raw, Proven
  <2> QED BY <2>1, DirectGitAssumption
<1> HIDE DEF raw, tips, o
<1>5. Grows(repo, r)
  BY <1>2, <1>3, <1>4, FetchHeadsType, GrowsSame
<1>6. Grows(repo, f)
  <2> HIDE DEF r
  <2>1. r \in Repo
    BY <1>5 DEF Grows
  <2> QED BY <1>3, <1>5, <2>1, FetchObjectsType, GrowsTwice
<1>7. p \in Request /\ p.pc = "fetched" /\ p.locked
  BY <1>2 DEF Request
<1> HIDE DEF p, f
<1>8. Effect(w)
  BY <1>1, <1>6, <1>7, FetchedSafe
<1> QED
  BY <1>1, <1>8, Typed, QuietKeeps

\* Upstream's tips are commits.
LEMMA AllTips == {Tips[b] : b \in Branches} \in SUBSET Commits
BY DirectGitAssumption

\* Its fallback to all heads.
LEMMA FetchAllHeadsKeeps ==
    ASSUME DirectInv, NEW w \in Workers, FetchAllHeads(w) PROVE DirectInv'
<1> DEFINE q == req[w]
           tips == {Tips[b] : b \in Branches}
           o == Options(q)
           r == FetchHeads(repo, tips, o)
           f == FetchObjects(r, Raw(q), q.blobs, o)
           p == [q EXCEPT !.pc = "fetched", !.allHeads = TRUE]
<1>1. /\ q.pc = "fetch" /\ UNCHANGED <<mutation, tasks, doomed, answer, requests, untrusted>>
      /\ BecomeAndChange(w, p, r) \/ BecomeAndChange(w, p, f)
  BY Zenon DEF FetchAllHeads
<1>2. faults' \in 0 .. MaxFaults
  BY Typed, DirectGitAssumption DEF FetchAllHeads
<1>3. q \in Request /\ q.locked /\ repo \in Repo
  BY <1>1, Typed DEF Safe, HoldsRepo
<1>4. Raw(q) \in SUBSET Commits /\ q.blobs \in SUBSET Commits /\ o \in FetchOptions
  BY <1>3, OptionsType DEF Raw, Request
<1>5. tips \in SUBSET Commits
  BY AllTips
<1> HIDE DEF tips, o
<1>6. Grows(repo, r)
  BY <1>3, <1>4, <1>5, FetchHeadsType
<1>7. Grows(repo, f)
  <2> HIDE DEF r
  <2>1. r \in Repo
    BY <1>6 DEF Grows
  <2> QED BY <1>4, <1>6, <2>1, FetchObjectsType, GrowsTwice
<1>8. p \in Request /\ p.pc = "fetched" /\ p.locked
  BY <1>3 DEF Request
<1> HIDE DEF p, f, r
<1>9. Effect(w)
  BY <1>1, <1>6, <1>7, <1>8, FetchedSafe
<1> QED
  BY <1>1, <1>2, <1>9, Typed, EffectKeeps

\* prepare_fetched_direct_want names by a ref what the fetch brought; no repack is
\* running, since this request holds the mutation lock.
LEMMA PrepareFetchedKeeps ==
    ASSUME DirectInv, NEW w \in Workers, PrepareFetched(w) PROVE DirectInv'
<1> DEFINE q == req[w]
           missing == q.pending \ repo.commits
           pc == IF missing = {} /\ q.blobs \subseteq repo.blobs THEN "mark" ELSE "retry"
           p == [q EXCEPT !.cold = missing, !.pc = pc]
           S == q.pending \cap repo.commits
           r == [repo EXCEPT !.refs = repo.refs \cup S]
<1>1. q.pc = "fetched" /\ BecomeAndChange(w, p, r)
      /\ UNCHANGED <<mutation, tasks, doomed, answer, requests, faults, untrusted>>
  BY Zenon DEF PrepareFetched
<1>2. q \in Request /\ q.locked /\ repo.exists /\ mutation = w
  BY <1>1, Typed DEF Safe, HoldsRepo, Writes, HoldsMutation
<1>3. doomed = Nothing /\ Spares(w)
  BY <1>1, <1>2, SparesSame DEF DirectInv
<1>4. missing \in SUBSET Commits /\ S \in SUBSET Commits /\ pc \in {"mark", "retry"}
      /\ (pc = "mark" => missing = {})
  BY <1>2 DEF Request
<1>5. p \in Request /\ p.pc = pc /\ p.locked /\ p.cold = missing /\ p.pending = q.pending
  <2> HIDE DEF missing, pc
  <2> QED BY <1>2, <1>4 DEF Request
<1>6. Grows(repo, r) /\ r.exists /\ r.commits = repo.commits /\ S \subseteq r.refs
  <2> HIDE DEF S
  <2> QED BY <1>2, <1>4, RefsGrow
<1> HIDE DEF p, r, pc
<1>7. Safe(w, p, mutation', r, doomed')
  BY <1>1, <1>2, <1>3, <1>4, <1>5, <1>6 DEF Safe, Nothing
<1>8. Effect(w)
  BY <1>1, <1>3, <1>5, <1>6, <1>7, ChangeEffect
<1> QED
  BY <1>1, <1>8, Typed, QuietKeeps

\* What was missing is fetched again and named, or the request ends.
LEMMA RetryKeeps == ASSUME DirectInv, NEW w \in Workers, Retry(w) PROVE DirectInv'
<1> DEFINE q == req[w]
           o == Options(q)
           p == [q EXCEPT !.pc = "mark", !.cold = {}]
           Prepared(r) ==
             \/ /\ q.cold \subseteq r.commits
                /\ BecomeAndChange(w, p, [r EXCEPT !.refs = r.refs \cup q.cold])
                /\ UNCHANGED <<answer, mutation, untrusted>>
             \/ repo' = r /\ End(w, "error") /\ untrusted' = TRUE
<1>0. q.pc = "retry" /\ UNCHANGED <<tasks, doomed, requests>>
  BY DEF Retry
<1>1. \/ Prepared(FetchObjects(repo, q.cold, q.blobs \ repo.blobs, o))
      \/ End(w, "error") /\ untrusted' = TRUE /\ UNCHANGED repo
      \/ Prepared(FetchHeads(repo, {Tips[b] : b \in Branches}, o))
  BY Zenon DEF Retry
<1>2. faults' \in 0 .. MaxFaults
  BY Typed, DirectGitAssumption DEF Retry
<1>3. q \in Request /\ q.locked /\ repo \in Repo /\ repo.exists /\ mutation = w
      /\ (q.pending \ q.cold) \subseteq (repo.commits \cap repo.refs)
  BY <1>0, Typed DEF Safe, HoldsRepo, Writes, HoldsMutation
<1>4. doomed = Nothing /\ Spares(w)
  BY <1>0, <1>3, SparesSame DEF DirectInv
<1>5. o \in FetchOptions /\ q.cold \in SUBSET Commits /\ q.blobs \ repo.blobs \in SUBSET Commits
  BY <1>3, OptionsType DEF Request
<1>6. p \in Request /\ p.pc = "mark" /\ p.locked /\ p.pending = q.pending
  BY <1>3 DEF Request
<1> HIDE DEF o, p
<1>7. ASSUME End(w, "error"), untrusted' = TRUE, Grows(repo, repo')
      PROVE  DirectInv'
  <2>1. repo'.exists
    BY <1>3, <1>7 DEF Grows
  <2>2. Effect(w) /\ answer' \in [Workers -> Answer]
    BY <1>0, <1>4, <1>7, <2>1, EndEffect
  <2> QED
    BY <1>0, <1>2, <1>7, <2>2, Typed, EffectKeeps
<1>8. ASSUME NEW r, Grows(repo, r), Prepared(r) PROVE DirectInv'
  <2>1. CASE repo' = r /\ End(w, "error") /\ untrusted' = TRUE
    BY <1>7, <1>8, <2>1
  <2> DEFINE f == [r EXCEPT !.refs = r.refs \cup q.cold]
  <2>2. CASE /\ q.cold \subseteq r.commits
             /\ BecomeAndChange(w, p, f)
             /\ UNCHANGED <<answer, mutation, untrusted>>
    <3>1. f \in Repo /\ f.exists /\ f.commits = r.commits /\ f.refs = r.refs \cup q.cold
          /\ Grows(repo, f)
      BY <1>3, <1>5, <1>8 DEF Grows, Repo
    <3> HIDE DEF f
    <3>2. q.pending \subseteq (f.commits \cap f.refs)
      BY <1>3, <1>8, <2>2, <3>1 DEF Grows
    <3>3. Safe(w, p, mutation', f, doomed')
      BY <1>0, <1>3, <1>4, <1>6, <2>2, <3>1, <3>2 DEF Safe, Nothing
    <3>4. Effect(w)
      BY <1>0, <1>4, <1>6, <2>2, <3>1, <3>3, ChangeEffect
    <3> QED
      BY <1>0, <1>2, <2>2, <3>4, Typed, EffectKeeps
  <2> QED
    BY <1>8, <2>1, <2>2
<1>9. Grows(repo, FetchObjects(repo, q.cold, q.blobs \ repo.blobs, o))
  BY <1>3, <1>5, FetchObjectsType
<1>10. Grows(repo, FetchHeads(repo, {Tips[b] : b \in Branches}, o))
  BY <1>3, <1>5, AllTips, FetchHeadsType
<1>11. CASE End(w, "error") /\ untrusted' = TRUE /\ UNCHANGED repo
  BY <1>3, <1>7, <1>11, GrowsSame
<1> HIDE DEF Prepared
<1> QED
  BY <1>1, <1>8, <1>9, <1>10, <1>11


\* The markers are written and the mutation lock given up; the wants are named by then.
LEMMA MarkKeeps == ASSUME DirectInv, NEW w \in Workers, Mark(w) PROVE DirectInv'
<1> DEFINE q == req[w]
           verify == q.verify /\ FullHistory(q)
           whole == \A c \in q.pending : HistoryComplete(repo, c)
           clear == ~q.intent.blobless /\ q.force /\ Options(q).depth = 0
           suspect == repo.suspect /\ ~verify
           partial == q.intent.blobless \/ (repo.partial /\ ~clear)
           p == [q EXCEPT !.pc = "finish"]
           r == [repo EXCEPT !.suspect = suspect, !.partial = partial]
           f == [repo EXCEPT !.suspect = TRUE]
<1>1. q.pc = "mark" /\ UNCHANGED <<doomed, requests, faults>>
  BY DEF Mark
<1>2. \/ repo' = f /\ End(w, "error") /\ UNCHANGED <<tasks, untrusted>>
      \/ /\ BecomeAndChange(w, p, r) /\ untrusted' = (untrusted \/ (clear /\ q.raced))
         /\ mutation' = Nobody /\ tasks' = {"fsck", Maintenance} /\ UNCHANGED answer
  BY Zenon DEF Mark
<1>3. /\ q \in Request /\ q.locked /\ repo \in Repo /\ repo.exists /\ mutation = w
      /\ q.pending \subseteq (repo.commits \cap repo.refs) /\ q.pending \cap doomed.commits = {}
  BY <1>1, Typed DEF Safe, HoldsRepo, Writes, HoldsMutation
<1>6. Spares(w)
  BY <1>1, SparesSame
<1>4. CASE repo' = f /\ End(w, "error") /\ UNCHANGED <<tasks, untrusted>>
  <2>1. Grows(repo, f) /\ f.exists
    BY <1>3 DEF Grows, Repo
  <2>2. Grows(repo, repo') /\ repo'.exists
    BY <1>4, <2>1
  <2>3. Effect(w) /\ answer' \in [Workers -> Answer]
    BY <1>1, <1>4, <1>6, <2>2, EndEffect
  <2> QED
    BY <1>1, <1>4, <2>3, Typed, EffectKeeps
<1>5. CASE /\ BecomeAndChange(w, p, r) /\ untrusted' = (untrusted \/ (clear /\ q.raced))
           /\ mutation' = Nobody /\ tasks' = {"fsck", Maintenance} /\ UNCHANGED answer
  <2>1. suspect \in BOOLEAN /\ partial \in BOOLEAN /\ untrusted' \in BOOLEAN
    BY <1>5
  <2>2. p \in Request /\ p.pc = "finish" /\ p.locked /\ p.pending = q.pending
    BY <1>3 DEF Request
  <2>3. Grows(repo, r) /\ r.exists
    <3> HIDE DEF suspect, partial
    <3> QED BY <1>3, <2>1 DEF Grows, Repo
  <2> HIDE DEF p, r, f, clear
  <2>4. Safe(w, p, mutation', r, doomed')
    BY <1>1, <1>3, <2>2, <2>3 DEF Safe, Grows, HoldsMutation
  <2>5. Effect(w)
    BY <1>1, <1>3, <1>5, <1>6, <2>2, <2>3, <2>4, ChangeEffect
  <2> QED
    BY <1>1, <1>5, <2>1, <2>5, Typed, EffectKeeps
<1> HIDE DEF p, r, f, clear
<1> QED
  BY <1>2, <1>4, <1>5

\* The RepoLock is dropped before upload-pack.
LEMMA FinishKeeps == ASSUME DirectInv, NEW w \in Workers, Finish(w) PROVE DirectInv'
<1> DEFINE q == req[w]
           suspect == repo.suspect /\ ~q.hotClosure
           p == IF q.serve THEN [q EXCEPT !.pc = "spawn", !.locked = FALSE] ELSE Idle
           r == [repo EXCEPT !.suspect = suspect]
<1>1. q.pc = "finish" /\ BecomeAndChange(w, p, r)
      /\ UNCHANGED <<mutation, tasks, doomed, answer, requests, faults, untrusted>>
  BY Zenon DEF Finish
<1>2. q \in Request /\ repo \in Repo /\ repo.exists
  BY <1>1, Typed DEF Safe, Writes
<1>3. p \in Request /\ p.pc \in {"idle", "spawn"}
  <2>1. [q EXCEPT !.pc = "spawn", !.locked = FALSE] \in Request
        /\ [q EXCEPT !.pc = "spawn", !.locked = FALSE].pc = "spawn"
    BY <1>2 DEF Request
  <2>2. Idle.pc = "idle"
    BY DEF Idle
  <2> QED BY <2>1, <2>2, IdleType
<1>4. Grows(repo, r) /\ r.exists
  <2>1. suspect \in BOOLEAN
    OBVIOUS
  <2> HIDE DEF suspect
  <2> QED BY <1>2, <2>1 DEF Grows, Repo
<1> HIDE DEF p, r
<1>5. Effect(w)
  <2>1. Spares(w)
    BY <1>1, SparesSame
  <2> QED BY <1>1, <1>3, <1>4, <2>1, OutsideSafe, ChangeEffect
<1> QED
  BY <1>1, <1>5, Typed, QuietKeeps

\* upload-pack runs, or finds no repository.
LEMMA SpawnKeeps == ASSUME DirectInv, NEW w \in Workers, Spawn(w) PROVE DirectInv'
<1>1. PICK how \in {"error", "whole", "cut", "dies"} : End(w, how)
  BY DEF Spawn, UploadPack
<1>2. Effect(w) /\ answer' \in [Workers -> Answer]
  <2>1. Grows(repo, repo') /\ (repo'.exists \/ repo' = NoRepo)
    BY Typed, GrowsSame DEF Spawn
  <2>2. Spares(w)
    BY SparesSame DEF Spawn
  <2> QED BY <1>1, <2>1, <2>2, EndEffect
<1> QED
  BY <1>2, Typed, EffectKeeps DEF Spawn

\* A dropped handler gives up its locks.
LEMMA DropKeeps == ASSUME DirectInv, NEW w \in Workers, Drop(w) PROVE DirectInv'
<1>1. Become(w, Idle) /\ repo' = repo /\ UNCHANGED <<tasks, answer, requests>>
  BY DEF Drop, Become
<1>2. mutation' = mutation \/ (mutation = w /\ mutation' = Nobody)
  BY DEF Drop
<1>6. Spares(w)
  <2>1. CASE mutation = w
    BY <2>1 DEF Drop, Spares
  <2>2. CASE mutation # w
    <3>1. req[w].pc # "teeMark"
      BY <2>2, Typed DEF Safe, HoldsMutation
    <3> QED BY <2>2, <3>1, SparesSame DEF Drop
  <2> QED BY <2>1, <2>2
<1>3. Effect(w)
  BY <1>1, <1>2, <1>6, IdleType, IdleSafe, BecomeEffect
<1>4. faults' \in 0 .. MaxFaults
  BY Typed, DirectGitAssumption DEF Drop, Fault
<1>5. untrusted' \in BOOLEAN
  BY DEF Drop
<1> QED
  BY <1>1, <1>3, <1>4, <1>5, Typed, EffectKeeps

\* Every step of a request keeps the invariant.
LEMMA StepKeeps == ASSUME DirectInv, NEW w \in Workers, Step(w) PROVE DirectInv'
BY PrepareFromCacheKeeps, PrepareWantsKeeps, ProxyKeeps, TeeIndexKeeps, TeeMarkKeeps,
   TeeMarkFailsKeeps, EnsureRepoDirKeeps, LockRepoKeeps, ReadMarkersKeeps, ReadBoundaryKeeps, ClassifyKeeps,
   HydrateKeeps, HydrateMissesKeeps, EvictedKeeps, LockMutationKeeps, BatchedFetchKeeps,
   FetchAllHeadsKeeps, PrepareFetchedKeeps, RetryKeeps, MarkKeeps, FinishKeeps, SpawnKeeps
   DEF Step

-----------------------------------------------------------------------------
(* Background work and faults                                              *)

\* The background fsck changes nothing a request relies on.
LEMMA FsckKeeps == ASSUME DirectInv, Fsck PROVE DirectInv'
<1>1. DirectTypeOK'
  BY DEF DirectInv, DirectTypeOK, Fsck
<1> QED
  BY <1>1 DEF DirectInv, Fsck

\* A repack starts while nobody holds the mutation lock; what a request is about
\* to serve is named by a ref, so that the repack reaches it.
LEMMA StartRepackKeeps == ASSUME DirectInv, StartRepack PROVE DirectInv'
<1>1. repo \in Repo /\ mutation = Nobody /\ mutation' = Maintenance
      /\ UNCHANGED <<repo, tasks, req, answer, requests, faults, untrusted>>
      /\ doomed' = Unreached
  BY DEF DirectInv, DirectTypeOK, StartRepack
<1>2. repo.refs \subseteq Reach(repo.refs, repo.shallow) /\ doomed' \in Objects
      /\ doomed'.commits = repo.commits \ Reach(repo.refs, repo.shallow)
  BY <1>1, ReachType DEF Repo, Unreached, Objects
<1>3. DirectTypeOK'
  BY <1>1, <1>2 DEF DirectInv, DirectTypeOK
<1>4. ASSUME NEW w \in Workers PROVE Safe(w, req'[w], mutation', repo', doomed')
  <2>1. Safe(w, req[w], mutation, repo, doomed)
    BY DEF DirectInv
  <2>2. req[w].pc \notin HoldsMutation
    BY <1>1, <2>1, DirectGitAssumption DEF Safe
  <2>3. req[w].pc \in {"mark", "finish"} => req[w].pending \cap doomed'.commits = {}
    BY <1>1, <1>2, <2>1 DEF Safe
  <2> QED
    BY <1>1, <2>1, <2>2, <2>3 DEF Safe
<1>5. mutation' # Nobody /\ \A w \in Workers : mutation' # w
  BY <1>1, DirectGitAssumption DEF Nobody, Maintenance
<1> QED
  BY <1>1, <1>3, <1>4, <1>5 DEF DirectInv

\* Every request goes on as it was when the repository changes under it.
LEMMA DisturbLike ==
    ASSUME DirectInv, NEW r, Disturb(r)
    PROVE  req' \in [Workers -> Request] /\ \A v \in Workers : Like(req[v], req'[v])
<1>1. req \in [Workers -> Request]
  BY DEF DirectInv, DirectTypeOK
<1>2. ASSUME NEW v \in Workers PROVE req'[v] \in Request /\ Like(req[v], req'[v])
  <2>1. PICK b \in BOOLEAN : req'[v] = [req[v] EXCEPT !.raced = b]
    BY DEF Disturb
  <2> QED
    BY <1>1, <2>1, RacedLike
<1>3. req' = [v \in Workers |-> req'[v]]
  BY DEF Disturb
<1> QED
  BY <1>2, <1>3

\* The repack drops what it did not reach, which no request relies on.
LEMMA FinishRepackKeeps == ASSUME DirectInv, FinishRepack PROVE DirectInv'
<1> DEFINE r == [repo EXCEPT !.commits = repo.commits \ doomed.commits,
                             !.blobs = repo.blobs \ doomed.blobs]
<1>1. mutation = Maintenance /\ Disturb(r) /\ mutation' = Nobody /\ doomed' = Nothing
      /\ tasks' = tasks \ {Maintenance} /\ UNCHANGED <<answer, requests, faults, untrusted>>
  BY DEF FinishRepack
<1>2. repo \in Repo /\ (repo.exists \/ repo = NoRepo)
  BY DEF DirectInv, DirectTypeOK
<1>3. r \in Repo /\ r.exists = repo.exists /\ r.commits = repo.commits \ doomed.commits
      /\ r.refs = repo.refs /\ (repo = NoRepo => r = NoRepo)
  <2>1. r \in Repo /\ r.exists = repo.exists /\ r.commits = repo.commits \ doomed.commits
        /\ r.refs = repo.refs
    BY <1>2 DEF Repo
  <2>2. ASSUME repo = NoRepo PROVE r = NoRepo
    <3>1. repo.commits \ doomed.commits = {} /\ repo.blobs \ doomed.blobs = {}
      BY <2>2 DEF NoRepo
    <3>2. repo.commits = {} /\ repo.blobs = {}
      BY <2>2 DEF NoRepo
    <3>3. [repo EXCEPT !.commits = repo.commits, !.blobs = repo.blobs] = repo
      BY <1>2 DEF Repo
    <3> QED BY <2>2, <3>1, <3>2, <3>3
  <2> QED BY <2>1, <2>2
<1>4. repo' = r
  BY <1>1 DEF Disturb
<1> HIDE DEF r
<1>5. req' \in [Workers -> Request] /\ \A v \in Workers : Like(req[v], req'[v])
  BY <1>1, DisturbLike
<1>6. DirectTypeOK'
  BY <1>1, <1>2, <1>3, <1>4, <1>5, NothingType DEF DirectInv, DirectTypeOK
<1>7. ASSUME NEW w \in Workers PROVE Safe(w, req'[w], mutation', repo', doomed')
  <2>1. Safe(w, req[w], mutation, repo, doomed) /\ Like(req[w], req'[w])
    BY <1>5 DEF DirectInv
  <2>2. req[w].pc \notin HoldsMutation
    BY <1>1, <2>1, DirectGitAssumption DEF Safe
  <2> QED
    BY <1>1, <1>3, <1>4, <2>1, <2>2 DEF Safe, Like, HoldsMutation, Nothing
<1> QED
  BY <1>1, <1>6, <1>7 DEF DirectInv

\* An eviction finds no request that relies on the repository.
LEMMA EvictKeeps == ASSUME DirectInv, Evict PROVE DirectInv'
<1>1. Disturb(NoRepo) /\ doomed' = Nothing /\ UNCHANGED <<mutation, tasks, answer, requests, untrusted>>
  BY DEF Evict
<1>2. repo' = NoRepo /\ faults' \in 0 .. MaxFaults
  BY <1>1, DirectGitAssumption DEF Disturb, Evict, Fault, DirectInv, DirectTypeOK
<1>3. req' \in [Workers -> Request] /\ \A v \in Workers : Like(req[v], req'[v])
  BY <1>1, DisturbLike
<1>4. DirectTypeOK'
  BY <1>1, <1>2, <1>3, NoRepoType, NothingType DEF DirectInv, DirectTypeOK
<1>5. ASSUME NEW w \in Workers PROVE Safe(w, req'[w], mutation', repo', doomed')
  <2>1. Safe(w, req[w], mutation, repo, doomed) /\ Like(req[w], req'[w]) /\ ~req[w].locked
    BY <1>3 DEF DirectInv, Evict
  <2>2. req[w].pc \notin HoldsRepo
    BY <2>1 DEF Safe
  <2> QED
    BY <2>1, <2>2 DEF Safe, Like, HoldsRepo, Writes, HoldsMutation
<1> QED
  BY <1>1, <1>4, <1>5 DEF DirectInv

\* After a restart no request is left.
LEMMA RestartKeeps == ASSUME DirectInv, Restart PROVE DirectInv'
<1>1. req' = [w \in Workers |-> Idle] /\ mutation' = Nobody /\ tasks' = {} /\ doomed' = Nothing
      /\ UNCHANGED <<repo, answer, requests>>
  BY DEF Restart
<1>2. untrusted' \in BOOLEAN /\ faults' \in 0 .. MaxFaults
  BY DirectGitAssumption DEF Restart, Fault, DirectInv, DirectTypeOK
<1>3. DirectTypeOK'
  BY <1>1, <1>2, IdleType, NothingType DEF DirectInv, DirectTypeOK
<1> QED
  BY <1>1, <1>3, IdleSafe DEF DirectInv

\* Every step of the specification keeps the invariant.
LEMMA DirectInvStep == DirectInv /\ [Next]_vars => DirectInv'
<1> SUFFICES ASSUME DirectInv, [Next]_vars PROVE DirectInv'
  OBVIOUS
<1>1. CASE UNCHANGED vars
  BY <1>1 DEF DirectInv, DirectTypeOK, vars
<1>2. CASE \E w \in Workers : Begin(w) \/ Step(w) \/ Drop(w)
  BY <1>2, BeginKeeps, StepKeeps, DropKeeps
<1>3. CASE Background \/ Evict \/ Restart
  BY <1>3, FsckKeeps, StartRepackKeeps, FinishRepackKeeps, EvictKeeps, RestartKeeps DEF Background
<1> QED
  BY <1>1, <1>2, <1>3 DEF Next

\* The invariant holds throughout.
LEMMA DirectInvariant == Spec => []DirectInv
BY DirectInvInit, DirectInvStep, PTL DEF Spec

\* Every variable keeps its type, and the repository's files live and die with
\* its directory: no request writes into a repository evicted under it.
THEOREM DirectTypeCorrect == Spec => []DirectTypeOK
<1>1. DirectInv => DirectTypeOK
  BY DEF DirectInv
<1> QED
  BY <1>1, DirectInvariant, PTL

\* What ensure_wants_read_through fetched and named by a ref is there until the
\* request starts upload-pack, whatever repacks, evictions, other requests and
\* restarts happen meanwhile.
THEOREM FetchedAlwaysKept == Spec => []FetchedKept
<1>1. DirectInv => FetchedKept
  BY DEF DirectInv, Safe, FetchedKept
<1> QED
  BY <1>1, DirectInvariant, PTL

-----------------------------------------------------------------------------
(* A refetch                                                               *)

\* More commits to start from reach no fewer.
LEMMA WindowMonotone ==
    ASSUME NEW S, NEW T, S \subseteq T, NEW cut, NEW d \in Nat
    PROVE  Window(S, d, cut) \subseteq Window(T, d, cut)
<1> DEFINE V == TheWalk(S, cut, d)
           W == TheWalk(T, cut, d)
           Bad == {i \in 0 .. d : ~(V[i] \subseteq W[i])}
<1>1. V = [i \in 0 .. d |-> Walk(S, cut, i, V)] /\ W = [i \in 0 .. d |-> Walk(T, cut, i, W)]
  BY WalkExists DEF IsWalk
<1>2. Window(S, d, cut) = V[d] /\ Window(T, d, cut) = W[d]
  BY Zenon DEF Window, TheWalk, IsWalk, Walk
<1> HIDE DEF V, W
<1>3. SUFFICES ASSUME Bad # {} PROVE FALSE
  BY <1>2
<1>4. PICK i \in Bad : \A j \in Bad : i <= j
  <2> HIDE DEF Bad
  <2>1. Bad \in SUBSET Nat BY DEF Bad
  <2> QED BY <1>3, <2>1, LeastNat
<1>5. i \in 0 .. d /\ V[i] = Walk(S, cut, i, V) /\ W[i] = Walk(T, cut, i, W)
  BY <1>1
<1>6. CASE i <= 1
  BY <1>4, <1>5, <1>6 DEF Walk
<1>7. CASE i > 1
  <2>1. V[i - 1] \subseteq W[i - 1]
    BY <1>4, <1>7
  <2>2. V[i] = V[i - 1] \cup UNION {Parents[c] : c \in V[i - 1] \ cut}
        /\ W[i] = W[i - 1] \cup UNION {Parents[c] : c \in W[i - 1] \ cut}
    BY <1>5, <1>7 DEF Walk
  <2>3. V[i] \subseteq W[i]
    BY <2>1, <2>2
  <2> QED
    BY <1>4, <2>3
<1> QED
  BY <1>5, <1>6, <1>7

\* Nothing is reached from nowhere.
LEMMA WindowOfNothing ==
    ASSUME NEW cut, NEW d \in Nat PROVE Window({}, d, cut) = {}
<1> DEFINE V == TheWalk({}, cut, d)
           Bad == {i \in 0 .. d : V[i] # {}}
<1>1. V = [i \in 0 .. d |-> Walk({}, cut, i, V)]
  BY WalkExists DEF IsWalk
<1>2. Window({}, d, cut) = V[d]
  BY Zenon DEF Window, TheWalk, IsWalk, Walk
<1> HIDE DEF V
<1>3. SUFFICES ASSUME Bad # {} PROVE FALSE
  BY <1>2
<1>4. PICK i \in Bad : \A j \in Bad : i <= j
  <2> HIDE DEF Bad
  <2>1. Bad \in SUBSET Nat BY DEF Bad
  <2> QED BY <1>3, <2>1, LeastNat
<1>5. i \in 0 .. d /\ V[i] = Walk({}, cut, i, V)
  BY <1>1
<1>6. CASE i <= 1
  BY <1>4, <1>5, <1>6 DEF Walk
<1>7. CASE i > 1
  <2>1. V[i - 1] = {}
    BY <1>4, <1>7
  <2>2. V[i] = V[i - 1] \cup UNION {Parents[c] : c \in V[i - 1] \ cut}
    BY <1>5, <1>7 DEF Walk
  <2> QED
    BY <1>4, <2>1, <2>2
<1> QED
  BY <1>5, <1>6, <1>7

\* r has all that S reaches within its shallow boundary, blobs included.
Whole(S, r) == Reach(S, r.shallow) \subseteq (r.commits \cap r.blobs)

LEMMA WholeFewer == ASSUME NEW S, NEW T, S \subseteq T, NEW r, Whole(T, r) PROVE Whole(S, r)
BY Depths, WindowMonotone DEF Whole, Reach

LEMMA WholeNothing == ASSUME NEW r PROVE Whole({}, r)
BY Depths, WindowOfNothing DEF Whole, Reach

\* f is r with more objects and the same boundary.
Adds(r, f) ==
    /\ f.shallow = r.shallow
    /\ r.commits \subseteq f.commits
    /\ r.blobs \subseteq f.blobs

LEMMA AddsWhole == ASSUME NEW S, NEW r, NEW f, Whole(S, r), Adds(r, f) PROVE Whole(S, f)
BY DEF Whole, Adds

LEMMA AddsSame ==
    ASSUME NEW r, NEW f, f.shallow = r.shallow, f.commits = r.commits, f.blobs = r.blobs
    PROVE  Adds(r, f)
BY DEF Adds

\* What a fetch makes of the shallow boundary, and what it brings.
Cut(r, tips, o) ==
    LET inside == r.shallow \cap Reach(tips, {}) IN
    CASE o.depth > 0 -> (r.shallow \ Window(tips, o.depth, {})) \cup Edge(tips, o.depth)
      [] o.depth = 0 /\ o.ext = "unshallow" -> r.shallow \ inside
      [] o.depth = 0 /\ o.ext = "deepen" -> (r.shallow \ inside) \cup Edge(inside, o.by + 1)
      [] OTHER -> r.shallow

Sent(r, tips, o, negotiate) ==
    (IF o.depth > 0 THEN Window(tips, o.depth, {}) ELSE Reach(tips, Cut(r, tips, o)))
        \ (IF negotiate /\ ~o.refetch THEN Reach(r.refs \cap r.commits, r.shallow) ELSE {})

\* f is r after such a fetch.
IsFetch(r, tips, o, negotiate, f) ==
    /\ f.commits = r.commits \cup Sent(r, tips, o, negotiate)
    /\ f.shallow = Cut(r, tips, o)
    /\ f.blobs = IF o.blobless THEN r.blobs ELSE r.blobs \cup Sent(r, tips, o, negotiate)

LEMMA FetchIs ==
    ASSUME NEW r \in Repo, NEW tips, NEW o, NEW negotiate
    PROVE  IsFetch(r, tips, o, negotiate, Fetch(r, tips, o, negotiate))
<1> DEFINE c == r.commits \cup Sent(r, tips, o, negotiate)
           s == Cut(r, tips, o)
           b == IF o.blobless THEN r.blobs ELSE r.blobs \cup Sent(r, tips, o, negotiate)
           f == Fetch(r, tips, o, negotiate)
<1>1. f = [r EXCEPT !.commits = c, !.shallow = s, !.blobs = b]
  BY Zenon DEF Fetch, Sent, Cut
<1> HIDE DEF c, s, b, f
<1>2. f.commits = c /\ f.shallow = s /\ f.blobs = b
  BY <1>1 DEF Repo
<1>3. IsFetch(r, tips, o, negotiate, f)
  BY <1>2, Zenon DEF IsFetch, c, s, b
<1> QED
  BY <1>3 DEF f

\* An unfiltered refetch without a depth leaves whole what it starts from,
LEMMA RefetchIsWhole ==
    ASSUME NEW r \in Repo, NEW tips, NEW o, NEW negotiate,
           o.depth = 0, ~o.blobless, o.refetch
    PROVE  Whole(tips, Fetch(r, tips, o, negotiate))
<1> DEFINE f == Fetch(r, tips, o, negotiate)
<1>1. IsFetch(r, tips, o, negotiate, f)
  BY FetchIs
<1> HIDE DEF f
<1>2. Sent(r, tips, o, negotiate) = Reach(tips, f.shallow)
  BY <1>1 DEF IsFetch, Sent
<1>3. Whole(tips, f)
  BY <1>1, <1>2 DEF IsFetch, Whole
<1> QED
  BY <1>3 DEF f

\* The options with which fetch_refs fetches, and its objects.
HeadsOptions(r, o) == [o EXCEPT !.ext = IF r.shallow = {} THEN "none" ELSE o.ext]

LEMMA HeadsOptionsAre ==
    ASSUME NEW r, NEW o \in FetchOptions
    PROVE  /\ HeadsOptions(r, o) \in FetchOptions
           /\ HeadsOptions(r, o).depth = o.depth
           /\ HeadsOptions(r, o).blobless <=> o.blobless
           /\ HeadsOptions(r, o).refetch <=> o.refetch
<1> DEFINE e == IF r.shallow = {} THEN "none" ELSE o.ext
           p == [o EXCEPT !.ext = e]
<1>1. e \in {"none", "unshallow", "deepen"}
  BY DEF FetchOptions
<1>2. HeadsOptions(r, o) = p
  BY Zenon DEF HeadsOptions
<1> HIDE DEF e
<1>3. p \in FetchOptions /\ p.depth = o.depth
  BY <1>1 DEF FetchOptions
<1>4. (p.blobless <=> o.blobless) /\ (p.refetch <=> o.refetch)
  BY DEF FetchOptions
<1> HIDE DEF p
<1> QED
  BY <1>2, <1>3, <1>4

\* one of branches too,
LEMMA HeadsRefetchIsWhole ==
    ASSUME NEW r \in Repo, NEW tips \in SUBSET Commits, NEW o \in FetchOptions,
           o.depth = 0, ~o.blobless, o.refetch
    PROVE  Whole(tips, FetchHeads(r, tips, o))
<1> DEFINE p == HeadsOptions(r, o)
           f == Fetch(r, tips, p, TRUE)
           h == FetchHeads(r, tips, o)
<1>1. p \in FetchOptions /\ p.depth = 0 /\ ~p.blobless /\ p.refetch
  BY HeadsOptionsAre
<1>2. h = [f EXCEPT !.refs = f.refs \cup tips]
  BY Zenon DEF FetchHeads, HeadsOptions
<1> HIDE DEF p
<1>3. f \in Repo /\ Whole(tips, f)
  BY <1>1, FetchType, RefetchIsWhole DEF Grows
<1> HIDE DEF f, h
<1>4. Adds(f, h)
  BY <1>2, <1>3, AddsSame DEF Repo
<1>5. Whole(tips, h)
  BY <1>3, <1>4, AddsWhole
<1> QED
  BY <1>5 DEF h

\* and exact objects, fetched without a depth, are only added.
LEMMA ObjectsAdd ==
    ASSUME NEW r \in Repo, NEW commits \in SUBSET Commits, NEW blobs \in SUBSET Commits,
           NEW o \in FetchOptions, o.depth = 0
    PROVE  Adds(r, FetchObjects(r, commits, blobs, o))
<1> DEFINE p == [o EXCEPT !.ext = "none"]
           g == Fetch(r, commits, p, FALSE)
           f == IF commits = {} THEN r ELSE g
           h == FetchObjects(r, commits, blobs, o)
<1>1. p \in FetchOptions /\ p.depth = 0 /\ p.ext = "none"
  BY DEF FetchOptions
<1>2. h = [f EXCEPT !.blobs = f.blobs \cup blobs]
  BY Zenon DEF FetchObjects
<1> HIDE DEF p
<1>3. g \in Repo /\ IsFetch(r, commits, p, FALSE, g)
  BY <1>1, FetchType, FetchIs DEF Grows
<1> HIDE DEF g, h
<1>4. Adds(r, g)
  <2>1. g.shallow = r.shallow
    BY <1>1, <1>3 DEF IsFetch, Cut
  <2>2. r.commits \subseteq g.commits
    BY <1>3 DEF IsFetch
  <2>3. r.blobs \subseteq g.blobs
    <3>1. CASE p.blobless
      BY <1>3, <3>1 DEF IsFetch
    <3>2. CASE ~p.blobless
      BY <1>3, <3>2 DEF IsFetch
    <3> QED BY <3>1, <3>2
  <2> QED BY <2>1, <2>2, <2>3 DEF Adds
<1>5. f \in Repo /\ Adds(r, f)
  BY <1>3, <1>4, AddsSame
<1> HIDE DEF f
<1>6. h.shallow = f.shallow /\ h.commits = f.commits /\ h.blobs = f.blobs \cup blobs
  BY <1>2, <1>5 DEF Repo
<1>7. Adds(r, h)
  BY <1>5, <1>6 DEF Adds
<1> QED
  BY <1>7 DEF h

-----------------------------------------------------------------------------
(* The request that refetches                                              *)

\* The request fetches without a depth.
FullDepth(q) == q.ext # "none" \/ q.intent.depth = 0

LEMMA OptionsAre ==
    ASSUME NEW q \in Request
    PROVE  /\ Options(q) \in FetchOptions
           /\ ~q.intent.blobless => ~Options(q).blobless
           /\ Options(q).depth = 0 <=> FullDepth(q)
           /\ q.force => Options(q).refetch
<1>1. Options(q) \in FetchOptions
  BY OptionsType
<1>2. ~q.intent.blobless => ~Options(q).blobless
  BY DEF Options
<1>3. Options(q).depth = 0 <=> FullDepth(q)
  BY DEF Options, FullDepth
<1>4. q.force => Options(q).refetch
  BY DEF Options
<1> QED
  BY <1>1, <1>2, <1>3, <1>4

Settling == {"fetched", "retry", "mark"}

\* It will clear the marker, and wants branch tips.
Clears(q) == q.force /\ FullDepth(q) /\ WantsTips(q.intent)

\* A forced refetch hydrates nothing, fetches all of its wants, and has them whole in
\* repository r from its fetch to its marker.
Refetched(q, r) ==
    /\ q.force => ~q.intent.blobless
    /\ q.pc = "hydrate" => ~q.force
    /\ q.force /\ q.pc \in {"mutation", "fetch"} => q.pending = q.intent.wants
    /\ Clears(q) /\ q.pc \in Settling => Whole(q.intent.wants, r)

RefetchInv == \A w \in Workers : Refetched(req[w], repo)

\* Request b is request a, seen by others.
AsWas(a, b) ==
    /\ b.pc = a.pc /\ b.intent = a.intent /\ b.ext = a.ext /\ b.pending = a.pending
    /\ b.force = a.force

LEMMA AsWasRefetched ==
    ASSUME NEW a, NEW b, NEW r, NEW f, AsWas(a, b), Refetched(a, r),
           Adds(r, f) \/ a.pc \notin Settling
    PROVE  Refetched(b, f)
<1>1. Clears(b) => Clears(a)
  BY DEF AsWas, Clears, FullDepth
<1>2. ASSUME Clears(b), b.pc \in Settling PROVE Whole(b.intent.wants, f)
  <2>1. Whole(a.intent.wants, r) /\ Adds(r, f) /\ b.intent = a.intent
    BY <1>1, <1>2 DEF AsWas, Refetched
  <2> QED BY <2>1, AddsWhole
<1> QED
  BY <1>2 DEF AsWas, Refetched

LEMMA RacedAsWas ==
    ASSUME NEW q \in Request, NEW b PROVE AsWas(q, [q EXCEPT !.raced = b])
BY DEF Request, AsWas

\* A step of w keeps the invariant if w does and if it adds to the repository or
\* changes it under the mutation lock.
LEMMA StepRefetched ==
    ASSUME DirectInv, RefetchInv, NEW w \in Workers,
           \A v \in Workers \ {w} : AsWas(req[v], req'[v]),
           Adds(repo, repo') \/ mutation = w, Refetched(req'[w], repo')
    PROVE  RefetchInv'
<1>1. ASSUME NEW v \in Workers, v # w PROVE Refetched(req'[v], repo')
  <2>1. Refetched(req[v], repo) /\ AsWas(req[v], req'[v])
    BY <1>1 DEF RefetchInv
  <2>2. req[v].pc \in Settling => mutation = v
    BY Typed DEF Safe, HoldsMutation, Settling
  <2> QED BY <1>1, <2>1, <2>2, AsWasRefetched
<1> QED
  BY <1>1 DEF RefetchInv

LEMMA ChangeRefetched ==
    ASSUME DirectInv, RefetchInv, NEW w \in Workers, NEW q, NEW r, BecomeAndChange(w, q, r),
           Adds(repo, r) \/ mutation = w, Refetched(q, r)
    PROVE  RefetchInv'
<1>1. ASSUME NEW v \in Workers, v # w PROVE AsWas(req[v], req'[v])
  <2> DEFINE raced == req[v].pc # "idle" /\ (req[v].raced \/ r # repo)
  <2>1. req'[v] = [req[v] EXCEPT !.raced = raced]
    BY <1>1 DEF BecomeAndChange
  <2> HIDE DEF raced
  <2> QED BY <2>1, Typed, RacedAsWas
<1>2. req'[w] = q /\ repo' = r
  BY DEF BecomeAndChange
<1> QED
  BY <1>1, <1>2, StepRefetched

LEMMA BecomeRefetched ==
    ASSUME DirectInv, RefetchInv, NEW w \in Workers, NEW q, Become(w, q),
           Adds(repo, repo') \/ mutation = w, Refetched(q, repo')
    PROVE  RefetchInv'
<1>1. req \in [Workers -> Request]
  BY DEF DirectInv, DirectTypeOK
<1>2. req'[w] = q /\ \A v \in Workers \ {w} : req'[v] = req[v]
  BY <1>1 DEF Become
<1>3. \A v \in Workers \ {w} : AsWas(req[v], req'[v])
  BY <1>2 DEF AsWas
<1> QED
  BY <1>2, <1>3, StepRefetched

\* Outside of the refetch nothing is claimed but that it is not filtered.
Rest == {"idle", "prepare", "prepareWants", "proxied", "tee", "teeMark", "ensure", "lock",
         "markers", "boundary", "classify", "finish", "spawn"}

LEMMA RestRefetched ==
    ASSUME NEW q, NEW r, q.pc \in Rest, q.force => ~q.intent.blobless
    PROVE  Refetched(q, r)
BY DEF Refetched, Rest, Settling

LEMMA SameRefetched ==
    ASSUME NEW q, NEW r, NEW p, NEW f, Refetched(q, r), p.pc \in Rest, p.force = q.force,
           p.intent = q.intent
    PROVE  Refetched(p, f)
BY RestRefetched DEF Refetched

LEMMA IdleRefetched == ASSUME NEW r PROVE Refetched(Idle, r)
<1>1. Idle.pc = "idle" /\ Idle.force = FALSE
  BY DEF Idle
<1> QED
  BY <1>1, RestRefetched DEF Rest

LEMMA EndRefetched ==
    ASSUME DirectInv, RefetchInv, NEW w \in Workers, NEW how, End(w, how),
           Adds(repo, repo') \/ mutation = w
    PROVE  RefetchInv'
BY IdleRefetched, BecomeRefetched DEF End

LEMMA BeginRefetched ==
    ASSUME DirectInv, RefetchInv, NEW w \in Workers, Begin(w) PROVE RefetchInv'
<1>1. PICK i \in Intents, pc \in {"prepare", "ensure"} :
        Become(w, [Idle EXCEPT !.pc = pc, !.intent = i, !.serve = TRUE,
                               !.raced = \E v \in Workers : req[v].pc \in Unmarked])
  BY DEF Begin
<1> DEFINE b == \E v \in Workers : req[v].pc \in Unmarked
           q == [Idle EXCEPT !.pc = pc, !.intent = i, !.serve = TRUE, !.raced = b]
<1>2. q.pc = pc /\ q.force = FALSE
  <2> HIDE DEF b
  <2> QED BY DEF Idle
<1>3. Become(w, q) /\ repo' = repo
  BY <1>1 DEF Begin
<1> HIDE DEF q
<1>4. Refetched(q, repo') /\ Adds(repo, repo')
  BY <1>2, <1>3, RestRefetched, AddsSame DEF Rest
<1> QED
  BY <1>3, <1>4, BecomeRefetched

\* ensure_repo_dir creates an empty repository.
LEMMA RepoDirAdds == ASSUME DirectInv PROVE Adds(repo, RepoDir)
<1>1. repo \in Repo
  BY DEF DirectInv, DirectTypeOK
<1>2. RepoDir.shallow = repo.shallow /\ RepoDir.blobs = repo.blobs
      /\ RepoDir.commits = repo.commits
  BY <1>1 DEF RepoDir, Repo
<1> QED
  BY <1>2, AddsSame

\* A commit exposed by a ref moves no object.
LEMMA RefsAdd ==
    ASSUME DirectInv, NEW S PROVE Adds(repo, [repo EXCEPT !.refs = repo.refs \cup S])
<1> DEFINE r == [repo EXCEPT !.refs = repo.refs \cup S]
<1>1. repo \in Repo
  BY DEF DirectInv, DirectTypeOK
<1>2. r.shallow = repo.shallow /\ r.blobs = repo.blobs /\ r.commits = repo.commits
  BY <1>1 DEF Repo
<1> QED
  BY <1>2, AddsSame

\* A step that goes on outside of the refetch and changes the repository,
LEMMA RestChange ==
    ASSUME DirectInv, RefetchInv, NEW w \in Workers, NEW q, NEW r, BecomeAndChange(w, q, r),
           Adds(repo, r) \/ mutation = w, q.pc \in Rest, q.intent = req[w].intent,
           q.force = req[w].force
    PROVE  RefetchInv'
<1>1. Refetched(req[w], repo)
  BY DEF RefetchInv
<1>2. Refetched(q, r)
  BY <1>1, SameRefetched
<1> QED
  BY <1>2, ChangeRefetched

\* or leaves it alone.
LEMMA RestBecome ==
    ASSUME DirectInv, RefetchInv, NEW w \in Workers, NEW q, Become(w, q), repo' = repo,
           q.pc \in Rest, q.intent = req[w].intent, q.force = req[w].force
    PROVE  RefetchInv'
<1>1. Refetched(req[w], repo)
  BY DEF RefetchInv
<1>2. Refetched(q, repo')
  BY <1>1, SameRefetched
<1>3. Adds(repo, repo')
  BY AddsSame
<1> QED
  BY <1>2, <1>3, BecomeRefetched

LEMMA PrepareFromCacheRefetched ==
    ASSUME DirectInv, RefetchInv, NEW w \in Workers, PrepareFromCache(w) PROVE RefetchInv'
<1> DEFINE q == req[w]
           i == q.intent
           p == IF ~i.blobless /\ repo.partial /\ ~(i.depth = 1 /\ SnapshotsComplete(i))
                THEN [q EXCEPT !.pc = "proxied"]
                ELSE [q EXCEPT !.pc = "prepareWants",
                               !.shallowMiss = repo.shallow # {} /\ (i.depth = 0 \/ Deepens(i))]
<1>1. BecomeAndChange(w, p, RepoDir)
  BY DEF PrepareFromCache
<1>2. p.pc \in {"proxied", "prepareWants"} /\ p.intent = q.intent /\ p.force = q.force
  <2>1. q \in Request
    BY Typed
  <2>2. [q EXCEPT !.pc = "proxied"].pc = "proxied"
        /\ [q EXCEPT !.pc = "proxied"].intent = q.intent
        /\ [q EXCEPT !.pc = "proxied"].force = q.force
    BY <2>1 DEF Request
  <2>3. ASSUME NEW b
        PROVE  LET n == [q EXCEPT !.pc = "prepareWants", !.shallowMiss = b] IN
               n.pc = "prepareWants" /\ n.intent = q.intent /\ n.force = q.force
    BY <2>1 DEF Request
  <2> HIDE DEF q, i
  <2> QED BY <2>2, <2>3
<1> HIDE DEF p
<1> QED
  BY <1>1, <1>2, RepoDirAdds, RestChange DEF Rest

LEMMA PrepareWantsRefetched ==
    ASSUME DirectInv, RefetchInv, NEW w \in Workers, PrepareWants(w) PROVE RefetchInv'
<1> DEFINE q == req[w]
<1>1. PICK S \in SUBSET q.intent.wants, pc \in {"ensure", "proxied"} :
        BecomeAndChange(w, [q EXCEPT !.pc = pc], [repo EXCEPT !.refs = repo.refs \cup S])
  BY DEF PrepareWants
<1> DEFINE p == [q EXCEPT !.pc = pc]
           r == [repo EXCEPT !.refs = repo.refs \cup S]
<1>2. p.pc = pc /\ p.intent = q.intent /\ p.force = q.force
  BY Typed DEF Request
<1>3. Adds(repo, r)
  BY RefsAdd
<1> HIDE DEF p, r
<1>4. BecomeAndChange(w, p, r)
  BY <1>1 DEF p, r
<1> QED
  BY <1>2, <1>3, <1>4, RestChange DEF Rest

LEMMA ProxyRefetched ==
    ASSUME DirectInv, RefetchInv, NEW w \in Workers, Proxy(w) PROVE RefetchInv'
<1> DEFINE q == req[w]
           later == [q EXCEPT !.serve = FALSE, !.shallowMiss = FALSE]
           a == [later EXCEPT !.pc = "ensure"]
           b == [later EXCEPT !.pc = "tee"]
           c == [q EXCEPT !.pc = "ensure", !.shallowMiss = FALSE]
<1>1. repo' = repo /\ (Become(w, a) \/ Become(w, b) \/ Become(w, c))
  BY Zenon DEF Proxy
<1>2. q \in Request
  BY Typed
<1>3. a.pc = "ensure" /\ a.intent = q.intent /\ a.force = q.force
  BY <1>2 DEF Request
<1>4. b.pc = "tee" /\ b.intent = q.intent /\ b.force = q.force
  BY <1>2 DEF Request
<1>5. c.pc = "ensure" /\ c.intent = q.intent /\ c.force = q.force
  BY <1>2 DEF Request
<1> HIDE DEF a, b, c
<1> QED
  BY <1>1, <1>3, <1>4, <1>5, RestBecome DEF Rest

\* The import of a teed pack adds objects,
LEMMA TeeIndexRefetched ==
    ASSUME DirectInv, RefetchInv, NEW w \in Workers, TeeIndex(w) PROVE RefetchInv'
<1> DEFINE q == req[w]
           i == q.intent
           pack == Reach(i.wants, {})
           blobs == i.blobs \cup (IF i.blobless THEN {} ELSE pack)
           a == [q EXCEPT !.pc = "ensure"]
           p == [q EXCEPT !.pc = "teeMark", !.locked = TRUE]
           r == [RepoDir EXCEPT !.commits = RepoDir.commits \cup pack,
                                !.blobs = RepoDir.blobs \cup blobs]
<1>1. (Become(w, a) /\ repo' = repo) \/ BecomeAndChange(w, p, r)
  BY Zenon DEF TeeIndex
<1>2. q \in Request
  BY Typed
<1>3. CASE Become(w, a) /\ repo' = repo
  <2>1. a.pc = "ensure" /\ a.intent = q.intent /\ a.force = q.force
    BY <1>2 DEF Request
  <2> HIDE DEF a
  <2> QED BY <1>3, <2>1, RestBecome DEF Rest
<1>4. CASE BecomeAndChange(w, p, r)
  <2>1. p.pc = "teeMark" /\ p.intent = q.intent /\ p.force = q.force
    BY <1>2 DEF Request
  <2>2. RepoDir \in Repo /\ Adds(repo, RepoDir)
    BY RepoDirGrows, RepoDirAdds DEF Grows
  <2> HIDE DEF pack, blobs
  <2>3. r.commits = RepoDir.commits \cup pack /\ r.blobs = RepoDir.blobs \cup blobs
        /\ r.shallow = RepoDir.shallow
    BY <2>2 DEF Repo
  <2> HIDE DEF p, r
  <2>4. Adds(repo, r)
    BY <2>2, <2>3 DEF Adds
  <2> QED BY <1>4, <2>1, <2>4, RestChange DEF Rest
<1> QED
  BY <1>1, <1>3, <1>4

\* finish_tee_import works under the mutation lock,
LEMMA TeeMarkRefetched ==
    ASSUME DirectInv, RefetchInv, NEW w \in Workers, TeeMark(w) PROVE RefetchInv'
<1>1. PICK r : BecomeAndChange(w, Idle, r)
  BY DEF TeeMark
<1>2. mutation = w
  BY Typed DEF TeeMark, Safe, HoldsMutation
<1> QED
  BY <1>1, <1>2, IdleRefetched, ChangeRefetched

\* and so does what undoes it.
LEMMA TeeMarkFailsRefetched ==
    ASSUME DirectInv, RefetchInv, NEW w \in Workers, TeeMarkFails(w) PROVE RefetchInv'
<1> DEFINE q == req[w]
           p == [q EXCEPT !.pc = "ensure", !.locked = FALSE]
<1>1. PICK r : BecomeAndChange(w, p, r)
  BY DEF TeeMarkFails
<1>2. mutation = w
  BY Typed DEF TeeMarkFails, Safe, HoldsMutation
<1>3. p.pc = "ensure" /\ p.intent = q.intent /\ p.force = q.force
  BY Typed DEF Request
<1> HIDE DEF p
<1> QED
  BY <1>1, <1>2, <1>3, RestChange DEF Rest

LEMMA EnsureRepoDirRefetched ==
    ASSUME DirectInv, RefetchInv, NEW w \in Workers, EnsureRepoDir(w) PROVE RefetchInv'
<1> DEFINE q == req[w]
           p == [q EXCEPT !.pc = "lock"]
<1>1. BecomeAndChange(w, p, RepoDir)
  BY DEF EnsureRepoDir
<1>2. p.pc = "lock" /\ p.intent = q.intent /\ p.force = q.force
  BY Typed DEF Request
<1> HIDE DEF p
<1> QED
  BY <1>1, <1>2, RepoDirAdds, RestChange DEF Rest

LEMMA LockRepoRefetched ==
    ASSUME DirectInv, RefetchInv, NEW w \in Workers, LockRepo(w) PROVE RefetchInv'
<1> DEFINE q == req[w]
           p == [q EXCEPT !.pc = "markers", !.locked = TRUE]
<1>1. Become(w, p) /\ repo' = repo
  BY DEF LockRepo
<1>2. p.pc = "markers" /\ p.intent = q.intent /\ p.force = q.force
  BY Typed DEF Request
<1> HIDE DEF p
<1> QED
  BY <1>1, <1>2, RestBecome DEF Rest

\* Only an unfiltered request is forced to refetch.
LEMMA ReadMarkersRefetched ==
    ASSUME DirectInv, RefetchInv, NEW w \in Workers, ReadMarkers(w) PROVE RefetchInv'
<1> DEFINE q == req[w]
           i == q.intent
           force == ~i.blobless /\ repo.partial /\ ~(i.depth = 1 /\ SnapshotsComplete(i))
           marked == ~i.blobless /\ i.depth = 0 /\ repo.suspect
           p == [q EXCEPT !.pc = "boundary", !.force = force, !.marked = marked]
<1>1. Become(w, p) /\ repo' = repo
  BY Zenon DEF ReadMarkers
<1>2. q \in Request
  BY Typed
<1>3. p.pc = "boundary" /\ p.intent = i /\ p.force = force
  <2> HIDE DEF force, marked
  <2> QED BY <1>2 DEF Request
<1>4. force => ~i.blobless
  OBVIOUS
<1> HIDE DEF p, force, marked
<1>5. Refetched(p, repo') /\ Adds(repo, repo')
  BY <1>1, <1>3, <1>4, RestRefetched, AddsSame DEF Rest
<1> QED
  BY <1>1, <1>5, BecomeRefetched

LEMMA ReadBoundaryRefetched ==
    ASSUME DirectInv, RefetchInv, NEW w \in Workers, ReadBoundary(w) PROVE RefetchInv'
<1> DEFINE q == req[w]
<1>1. PICK e \in {"none", "unshallow", "deepen"} :
        Become(w, [q EXCEPT !.pc = "classify", !.ext = e])
  BY DEF ReadBoundary
<1> DEFINE p == [q EXCEPT !.pc = "classify", !.ext = e]
<1>2. Become(w, p) /\ repo' = repo
  BY <1>1 DEF ReadBoundary
<1>3. p.pc = "classify" /\ p.intent = q.intent /\ p.force = q.force
  BY Typed DEF Request
<1> HIDE DEF p
<1> QED
  BY <1>2, <1>3, RestBecome DEF Rest

\* A request goes on unchanged in what the refetch looks at.
LEMMA OnwardIs ==
    ASSUME NEW q \in Request
    PROVE  LET p == Onward(q) IN
           /\ p.intent = q.intent /\ p.force = q.force /\ p.pending = q.pending
           /\ p.pc \in {"hydrate", "mutation", "finish"} /\ (p.pc = "hydrate" => q.cold # {})
<1> DEFINE pc == IF q.pending \cup q.blobs # {} THEN "mutation" ELSE "finish"
           a == [q EXCEPT !.pc = "hydrate"]
           b == [q EXCEPT !.pc = pc, !.proven = {}]
<1>1. pc \in {"mutation", "finish"}
  OBVIOUS
<1>2. a.intent = q.intent /\ a.force = q.force /\ a.pending = q.pending /\ a.pc = "hydrate"
  BY DEF Request
<1>3. b.intent = q.intent /\ b.force = q.force /\ b.pending = q.pending /\ b.pc = pc
  <2> HIDE DEF pc
  <2> QED BY DEF Request
<1>4. Onward(q) = IF q.cold # {} THEN a ELSE b
  BY Zenon DEF Onward
<1> HIDE DEF a, b, pc
<1> QED
  BY <1>1, <1>2, <1>3, <1>4

\* It does so without a refetch, or with all of its wants pending.
LEMMA OnwardRefetched ==
    ASSUME NEW q \in Request, NEW r,
           q.force => ~q.intent.blobless /\ q.cold = {} /\ q.pending = q.intent.wants
    PROVE  Refetched(Onward(q), r)
<1> DEFINE p == Onward(q)
<1>1. /\ p.intent = q.intent /\ p.force = q.force /\ p.pending = q.pending
      /\ p.pc \in {"hydrate", "mutation", "finish"} /\ (p.pc = "hydrate" => q.cold # {})
  BY OnwardIs
<1> HIDE DEF p
<1>2. Refetched(p, r)
  BY <1>1 DEF Refetched, Settling
<1> QED
  BY <1>2 DEF p

LEMMA ProceedRefetched ==
    ASSUME DirectInv, RefetchInv, NEW w \in Workers, NEW missing, NEW q, NEW r,
           ProceedOrMiss(w, missing, q, r), Adds(repo, r), Refetched(q, r)
    PROVE  RefetchInv'
<1>1. BecomeAndChange(w, Idle, r) \/ BecomeAndChange(w, q, r)
  BY DEF ProceedOrMiss
<1> QED
  BY <1>1, IdleRefetched, ChangeRefetched

\* A forced request finds nothing hot and hydrates nothing.
LEMMA ClassifyRefetched ==
    ASSUME DirectInv, RefetchInv, NEW w \in Workers, Classify(w) PROVE RefetchInv'
<1> DEFINE q == req[w]
           i == q.intent
           hot == {c \in i.wants \cap repo.commits : ~q.force /\ q.ext = "none"}
           noWindow == {c \in hot : i.depth > 1 /\ ~WindowReady(c, i.depth)}
           suspect == q.marked /\ FullHistory(q)
           holes == {c \in hot \ noWindow : suspect /\ ~HistoryComplete(repo, c)}
           hydrate == {c \in i.wants \ hot : /\ ~q.force /\ q.ext = "none" /\ q.serve
                                             /\ ~i.blobless /\ Manifest[c] # {}}
           absent == i.wants \ (hot \cup hydrate)
           pending == absent \cup noWindow \cup holes
           blobs == i.blobs \ repo.blobs
           refetch == q.force \/ noWindow \cup holes # {}
           verify == q.marked \/ holes # {}
           hotClosure == suspect /\ hot # {} /\ holes = {}
           p == [q EXCEPT !.cold = hydrate, !.pending = pending, !.blobs = blobs,
                          !.refetch = refetch, !.verify = verify, !.hotClosure = hotClosure]
           S == hot \ (noWindow \cup holes)
           r == [repo EXCEPT !.refs = repo.refs \cup S]
<1>1. ProceedOrMiss(w, absent \cup blobs # {}, Onward(p), r)
  BY ZenonT(60) DEF Classify
<1>2. q \in Request /\ i.wants \in SUBSET Commits /\ i.blobs \in SUBSET Commits
  BY Typed, IntentType
<1>3. hot \subseteq i.wants /\ noWindow \subseteq hot /\ holes \subseteq hot
      /\ hydrate \subseteq i.wants /\ (q.force => hot = {} /\ hydrate = {})
  OBVIOUS
<1> HIDE DEF hot, noWindow, holes, hydrate
<1>4. pending \in SUBSET Commits /\ hydrate \in SUBSET Commits /\ blobs \in SUBSET Commits
      /\ (q.force => pending = i.wants)
  BY <1>2, <1>3
<1>5. refetch \in BOOLEAN /\ verify \in BOOLEAN /\ hotClosure \in BOOLEAN
  OBVIOUS
<1> HIDE DEF absent, pending, blobs, refetch, verify, hotClosure, S
<1>6. p \in Request
  BY <1>2, <1>4, <1>5, ZenonT(60) DEF Request
<1>7. p.intent = i /\ p.force = q.force /\ p.cold = hydrate /\ p.pending = pending
  BY <1>2 DEF Request
<1>8. Adds(repo, r)
  BY RefsAdd
<1> HIDE DEF p, r
<1>9. q.force => ~i.blobless
  BY DEF RefetchInv, Refetched
<1>10. Refetched(Onward(p), r)
  BY <1>3, <1>4, <1>6, <1>7, <1>9, OnwardRefetched
<1> QED
  BY <1>1, <1>8, <1>10, ProceedRefetched

\* Only a request that is not forced hydrates.
LEMMA HydrateRefetched ==
    ASSUME DirectInv, RefetchInv, NEW w \in Workers, Hydrate(w) PROVE RefetchInv'
<1> DEFINE q == req[w]
           packs(c) == [repo EXCEPT !.commits = repo.commits \cup Manifest[c],
                                    !.blobs = repo.blobs \cup Manifest[c],
                                    !.refs = repo.refs \cup {c}]
           rest(c) == [q EXCEPT !.cold = q.cold \ {c}]
<1>1. PICK c \in q.cold :
        \/ ProceedOrMiss(w, FALSE, Onward([rest(c) EXCEPT !.proven = @ \cup {Manifest[c]}]), packs(c))
        \/ ProceedOrMiss(w, TRUE,
             Onward([rest(c) EXCEPT !.pending = @ \cup {c}, !.verify = TRUE, !.refetch = TRUE]),
             [packs(c) EXCEPT !.suspect = TRUE])
  BY DEF Hydrate
<1>2. q \in Request /\ repo \in Repo
  BY Typed
<1>3. c \in Commits /\ Manifest[c] \in SUBSET Commits
  BY <1>2, DirectGitAssumption DEF Request
<1>4. ~q.force
  BY DEF Hydrate, RefetchInv, Refetched
<1> DEFINE r == packs(c)
           t == rest(c)
           r2 == [r EXCEPT !.suspect = TRUE]
<1>5. r \in Repo /\ Adds(repo, r)
  <2>1. r \in Repo /\ r.commits = repo.commits \cup Manifest[c]
        /\ r.blobs = repo.blobs \cup Manifest[c] /\ r.shallow = repo.shallow
    BY <1>2, <1>3 DEF Repo
  <2> HIDE DEF r
  <2> QED BY <2>1 DEF Adds
<1>6. t \in Request /\ t.force = q.force
  BY <1>2 DEF Request
<1> DEFINE a == [t EXCEPT !.proven = t.proven \cup {Manifest[c]}]
           b == [t EXCEPT !.pending = t.pending \cup {c}, !.verify = TRUE, !.refetch = TRUE]
<1>7. \/ ProceedOrMiss(w, FALSE, Onward(a), r)
      \/ ProceedOrMiss(w, TRUE, Onward(b), r2)
  BY <1>1
<1> HIDE DEF r, t
<1>8. Adds(repo, r2)
  <2>1. r2.commits = r.commits /\ r2.blobs = r.blobs /\ r2.shallow = r.shallow
    BY <1>5 DEF Repo
  <2> HIDE DEF r2
  <2> QED BY <1>5, <2>1 DEF Adds
<1>9. a \in Request /\ a.force = q.force
  BY <1>3, <1>6 DEF Request
<1>10. b \in Request /\ b.force = q.force
  BY <1>3, <1>6 DEF Request
<1> HIDE DEF a, b, r2
<1>11. Refetched(Onward(a), r) /\ Refetched(Onward(b), r2)
  BY <1>4, <1>9, <1>10, OnwardRefetched
<1> QED
  BY <1>5, <1>7, <1>8, <1>11, ProceedRefetched

LEMMA HydrateMissesRefetched ==
    ASSUME DirectInv, RefetchInv, NEW w \in Workers, HydrateMisses(w) PROVE RefetchInv'
<1> DEFINE q == req[w]
<1>1. PICK c \in q.cold :
        ProceedOrMiss(w, TRUE,
          Onward([q EXCEPT !.cold = q.cold \ {c}, !.pending = q.pending \cup {c}]), repo)
  BY DEF HydrateMisses
<1> DEFINE cold == q.cold \ {c}
           pending == q.pending \cup {c}
           p == [q EXCEPT !.cold = cold, !.pending = pending]
<1>2. q \in Request
  BY Typed
<1>3. p \in Request /\ p.force = q.force
  <2>1. cold \in SUBSET Commits /\ pending \in SUBSET Commits
    BY <1>2 DEF Request
  <2> HIDE DEF cold, pending
  <2> QED BY <1>2, <2>1 DEF Request
<1>4. ProceedOrMiss(w, TRUE, Onward(p), repo)
  BY <1>1
<1>5. ~q.force
  BY DEF HydrateMisses, RefetchInv, Refetched
<1> HIDE DEF p
<1>6. Refetched(Onward(p), repo) /\ Adds(repo, repo)
  BY <1>3, <1>5, OnwardRefetched, AddsSame
<1> QED
  BY <1>4, <1>6, ProceedRefetched

LEMMA EvictedRefetched ==
    ASSUME DirectInv, RefetchInv, NEW w \in Workers, Evicted(w) PROVE RefetchInv'
BY EndRefetched, AddsSame DEF Evicted

LEMMA LockMutationRefetched ==
    ASSUME DirectInv, RefetchInv, NEW w \in Workers, LockMutation(w) PROVE RefetchInv'
<1> DEFINE q == req[w]
           p == [q EXCEPT !.pc = "fetch"]
<1>1. Become(w, p) /\ repo' = repo /\ q.pc = "mutation"
  BY DEF LockMutation
<1>2. p.pc = "fetch" /\ p.intent = q.intent /\ p.force = q.force /\ p.pending = q.pending
  BY Typed DEF Request
<1> HIDE DEF p
<1>3. Refetched(q, repo)
  BY DEF RefetchInv
<1>4. Refetched(p, repo') /\ Adds(repo, repo')
  BY <1>1, <1>2, <1>3, AddsSame DEF Refetched, Settling
<1> QED
  BY <1>1, <1>4, BecomeRefetched

\* A fetch by w under the mutation lock, if it leaves whole what it was to fetch anew.
LEMMA FetchedRefetched ==
    ASSUME DirectInv, RefetchInv, NEW w \in Workers, NEW p, NEW f, BecomeAndChange(w, p, f),
           mutation = w, p.pc \in Settling,
           p.intent = req[w].intent, p.force = req[w].force, p.ext = req[w].ext,
           Clears(req[w]) => Whole(req[w].intent.wants, f)
    PROVE  RefetchInv'
<1>1. Refetched(req[w], repo)
  BY DEF RefetchInv
<1>2. Clears(p) => Clears(req[w])
  BY DEF Clears, FullDepth
<1>3. Refetched(p, f)
  BY <1>1, <1>2 DEF Refetched, Settling
<1> QED
  BY <1>3, ChangeRefetched

\* Upstream's tips of a request that wants them are among all tips.
LEMMA WantsAreTips ==
    ASSUME NEW i, WantsTips(i) PROVE i.wants \subseteq {Tips[b] : b \in Branches}
BY DEF WantsTips

\* batched_read_through_fetch fetches the branches of such wants, on a current proof.
LEMMA BatchedFetchRefetched ==
    ASSUME DirectInv, RefetchInv, NEW w \in Workers, BatchedFetch(w) PROVE RefetchInv'
<1> DEFINE q == req[w]
           i == q.intent
           raw == Raw(q)
           tips == {Tips[BranchFor(i, c)] : c \in q.pending \ raw}
           o == Options(q)
           r == IF tips = {} THEN repo ELSE FetchHeads(repo, tips, o)
           f == FetchObjects(r, raw, q.blobs, o)
           p == [q EXCEPT !.pc = "fetched"]
<1>1. BecomeAndChange(w, p, f) /\ q.pc = "fetch"
  BY Zenon DEF BatchedFetch
<1>2. q \in Request /\ repo \in Repo /\ mutation = w
  BY <1>1, Typed DEF Safe, HoldsMutation
<1>3. /\ o \in FetchOptions /\ (~i.blobless => ~o.blobless) /\ (q.force => o.refetch)
      /\ (o.depth = 0 <=> FullDepth(q))
  BY <1>2, OptionsAre
<1>4. raw \in SUBSET Commits /\ q.blobs \in SUBSET Commits
  BY <1>2 DEF Raw, Request
<1>5. tips \in SUBSET Commits
  <2>1. \A c \in q.pending \ raw : BranchFor(i, c) \in Branches
    BY DEF BranchFor, Raw, Proven
  <2> QED BY <2>1, DirectGitAssumption
<1>6. ASSUME Clears(q) PROVE tips = i.wants /\ ~i.blobless /\ q.force /\ o.depth = 0
  <2>1. q.force /\ ~i.blobless /\ q.pending = i.wants /\ WantsTips(i)
    BY <1>1, <1>6 DEF RefetchInv, Refetched, Clears
  <2>2. \A c \in i.wants : \E b \in Branches : i.proof[b] = c
    BY <2>1 DEF WantsTips
  <2>3. \A c \in i.wants : BranchFor(i, c) \in Proven(i, c)
    BY <2>2 DEF BranchFor, Proven
  <2>4. \A c \in i.wants : Tips[BranchFor(i, c)] = c
    BY <2>1, <2>3 DEF Proven, WantsTips
  <2>5. raw = {}
    BY <2>1, <2>2 DEF Raw, Proven
  <2>6. tips = i.wants
    BY <2>1, <2>4, <2>5
  <2> QED BY <1>3, <1>6, <2>1, <2>6 DEF Clears
<1> HIDE DEF raw, tips, o
<1>7. r \in Repo
  <2>1. FetchHeads(repo, tips, o) \in Repo
    BY <1>2, <1>3, <1>5, FetchHeadsType DEF Grows
  <2> QED BY <1>2, <2>1
<1>8. ASSUME Clears(q) PROVE Whole(i.wants, r)
  <2>1. CASE tips = {}
    BY <1>6, <1>8, <2>1, WholeNothing
  <2>2. CASE tips # {}
    <3>1. Whole(tips, FetchHeads(repo, tips, o))
      BY <1>2, <1>3, <1>5, <1>6, <1>8, HeadsRefetchIsWhole
    <3> QED BY <1>6, <1>8, <2>2, <3>1
  <2> QED BY <2>1, <2>2
<1> HIDE DEF r
<1>9. ASSUME Clears(q) PROVE Whole(i.wants, f)
  <2>1. Adds(r, f)
    BY <1>3, <1>4, <1>6, <1>7, <1>9, ObjectsAdd
  <2> HIDE DEF f
  <2> QED BY <1>8, <1>9, <2>1, AddsWhole
<1>10. p.pc = "fetched" /\ p.intent = i /\ p.force = q.force /\ p.ext = q.ext
  BY <1>2 DEF Request
<1> HIDE DEF p, f
<1> QED
  BY <1>1, <1>2, <1>9, <1>10, FetchedRefetched DEF Settling

\* All heads include them.
LEMMA AllHeadsWhole ==
    ASSUME DirectInv, RefetchInv, NEW w \in Workers, Clears(req[w])
    PROVE  Whole(req[w].intent.wants,
                 FetchHeads(repo, {Tips[b] : b \in Branches}, Options(req[w])))
<1> DEFINE q == req[w]
           i == q.intent
           tips == {Tips[b] : b \in Branches}
           o == Options(q)
           h == FetchHeads(repo, tips, o)
<1>1. q \in Request /\ repo \in Repo /\ tips \in SUBSET Commits
  BY Typed, AllTips
<1>2. q.force /\ ~i.blobless /\ FullDepth(q) /\ i.wants \subseteq tips
  BY WantsAreTips DEF RefetchInv, Refetched, Clears
<1>3. o \in FetchOptions /\ o.depth = 0 /\ ~o.blobless /\ o.refetch
  BY <1>1, <1>2, OptionsAre
<1> HIDE DEF tips, o
<1>4. Whole(tips, h)
  BY <1>1, <1>3, HeadsRefetchIsWhole
<1> HIDE DEF h
<1>5. Whole(i.wants, h)
  BY <1>2, <1>4, WholeFewer
<1> QED
  BY <1>5 DEF h, tips, o

LEMMA FetchAllHeadsRefetched ==
    ASSUME DirectInv, RefetchInv, NEW w \in Workers, FetchAllHeads(w) PROVE RefetchInv'
<1> DEFINE q == req[w]
           i == q.intent
           tips == {Tips[b] : b \in Branches}
           o == Options(q)
           r == FetchHeads(repo, tips, o)
           f == FetchObjects(r, Raw(q), q.blobs, o)
           p == [q EXCEPT !.pc = "fetched", !.allHeads = TRUE]
<1>1. /\ q.pc = "fetch"
      /\ BecomeAndChange(w, p, r) \/ BecomeAndChange(w, p, f)
  BY Zenon DEF FetchAllHeads
<1>2. q \in Request /\ repo \in Repo /\ mutation = w
  BY <1>1, Typed DEF Safe, HoldsMutation
<1>3. o \in FetchOptions /\ (o.depth = 0 <=> FullDepth(q))
  BY <1>2, OptionsAre
<1>4. Raw(q) \in SUBSET Commits /\ q.blobs \in SUBSET Commits
  BY <1>2 DEF Raw, Request
<1>5. Clears(q) => Whole(i.wants, r)
  BY AllHeadsWhole
<1>6. r \in Repo
  <2> HIDE DEF o
  <2> QED BY <1>2, <1>3, AllTips, FetchHeadsType DEF Grows
<1> HIDE DEF tips, o, r
<1>7. ASSUME Clears(q) PROVE Whole(i.wants, f)
  <2>1. Adds(r, f)
    BY <1>3, <1>4, <1>6, <1>7, ObjectsAdd DEF Clears
  <2> HIDE DEF f
  <2> QED BY <1>5, <1>7, <2>1, AddsWhole
<1>8. p.pc = "fetched" /\ p.intent = i /\ p.force = q.force /\ p.ext = q.ext
  BY <1>2 DEF Request
<1> HIDE DEF p, f
<1> QED
  BY <1>1, <1>2, <1>5, <1>7, <1>8, FetchedRefetched DEF Settling

\* From its fetch to its marker such a request has its wants whole.
LEMMA SettlingWhole ==
    ASSUME RefetchInv, NEW w \in Workers, req[w].pc \in Settling, Clears(req[w])
    PROVE  Whole(req[w].intent.wants, repo)
BY DEF RefetchInv, Refetched

LEMMA PrepareFetchedRefetched ==
    ASSUME DirectInv, RefetchInv, NEW w \in Workers, PrepareFetched(w) PROVE RefetchInv'
<1> DEFINE q == req[w]
           missing == q.pending \ repo.commits
           pc == IF missing = {} /\ q.blobs \subseteq repo.blobs THEN "mark" ELSE "retry"
           p == [q EXCEPT !.cold = missing, !.pc = pc]
           S == q.pending \cap repo.commits
           r == [repo EXCEPT !.refs = repo.refs \cup S]
<1>1. q.pc = "fetched" /\ BecomeAndChange(w, p, r)
  BY Zenon DEF PrepareFetched
<1>2. q \in Request /\ pc \in {"mark", "retry"} /\ mutation = w
  BY <1>1, Typed DEF Safe, HoldsMutation
<1>3. p.pc = pc /\ p.intent = q.intent /\ p.force = q.force /\ p.ext = q.ext
  <2> HIDE DEF missing, pc
  <2> QED BY <1>2 DEF Request
<1>4. Adds(repo, r)
  BY RefsAdd
<1> HIDE DEF p, r, pc
<1>5. Clears(q) => Whole(q.intent.wants, r)
  BY <1>1, <1>4, SettlingWhole, AddsWhole DEF Settling
<1> QED
  BY <1>1, <1>2, <1>3, <1>5, FetchedRefetched DEF Settling

\* What is missing is fetched again, or the request ends.
LEMMA RetryRefetched ==
    ASSUME DirectInv, RefetchInv, NEW w \in Workers, Retry(w) PROVE RefetchInv'
<1> DEFINE q == req[w]
           i == q.intent
           o == Options(q)
           heads == {Tips[b] : b \in Branches}
           p == [q EXCEPT !.pc = "mark", !.cold = {}]
           a == FetchObjects(repo, q.cold, q.blobs \ repo.blobs, o)
           b == FetchHeads(repo, heads, o)
           Prepared(r) ==
             \/ BecomeAndChange(w, p, [r EXCEPT !.refs = r.refs \cup q.cold])
             \/ End(w, "error")
<1>1. q.pc = "retry" /\ (Prepared(a) \/ Prepared(b))
  BY Zenon DEF Retry
<1>2. q \in Request /\ repo \in Repo /\ mutation = w
  BY <1>1, Typed DEF Safe, HoldsMutation
<1>3. o \in FetchOptions /\ q.cold \in SUBSET Commits /\ q.blobs \ repo.blobs \in SUBSET Commits
      /\ (o.depth = 0 <=> FullDepth(q))
  BY <1>2, OptionsAre DEF Request
<1>4. p.pc = "mark" /\ p.intent = i /\ p.force = q.force /\ p.ext = q.ext
  BY <1>2 DEF Request
<1>5. Clears(q) => Whole(i.wants, b)
  BY AllHeadsWhole
<1> HIDE DEF o, p
<1>6. a \in Repo /\ b \in Repo
  BY <1>2, <1>3, AllTips, FetchObjectsType, FetchHeadsType DEF Grows
<1>7. ASSUME Clears(q) PROVE Whole(i.wants, a)
  <2>1. Adds(repo, a)
    BY <1>2, <1>3, <1>7, ObjectsAdd DEF Clears
  <2>2. Whole(i.wants, repo)
    BY <1>1, <1>7, SettlingWhole DEF Settling
  <2> HIDE DEF a
  <2> QED BY <2>1, <2>2, AddsWhole
<1> HIDE DEF a, b
<1>8. ASSUME NEW r \in Repo, Clears(q) => Whole(i.wants, r), Prepared(r) PROVE RefetchInv'
  <2> DEFINE f == [r EXCEPT !.refs = r.refs \cup q.cold]
  <2>1. CASE End(w, "error")
    BY <1>2, <2>1, EndRefetched
  <2>2. CASE BecomeAndChange(w, p, f)
    <3>1. f.shallow = r.shallow /\ f.commits = r.commits /\ f.blobs = r.blobs
      BY <1>8 DEF Repo
    <3> HIDE DEF f
    <3>2. Clears(q) => Whole(i.wants, f)
      BY <1>8, <3>1, AddsSame, AddsWhole
    <3> QED BY <1>2, <1>4, <2>2, <3>2, FetchedRefetched DEF Settling
  <2> QED BY <1>8, <2>1, <2>2
<1> HIDE DEF Prepared
<1> QED
  BY <1>1, <1>5, <1>6, <1>7, <1>8

\* The markers are written under the mutation lock.
LEMMA MarkRefetched ==
    ASSUME DirectInv, RefetchInv, NEW w \in Workers, Mark(w) PROVE RefetchInv'
<1> DEFINE q == req[w]
           p == [q EXCEPT !.pc = "finish"]
<1>1. End(w, "error") \/ \E r : BecomeAndChange(w, p, r)
  BY DEF Mark
<1>2. mutation = w
  BY Typed DEF Mark, Safe, HoldsMutation
<1>3. p.pc = "finish" /\ p.intent = q.intent /\ p.force = q.force
  BY Typed DEF Request
<1> HIDE DEF p
<1> QED
  BY <1>1, <1>2, <1>3, EndRefetched, RestChange DEF Rest

LEMMA FinishRefetched ==
    ASSUME DirectInv, RefetchInv, NEW w \in Workers, Finish(w) PROVE RefetchInv'
<1> DEFINE q == req[w]
           suspect == repo.suspect /\ ~q.hotClosure
           s == [q EXCEPT !.pc = "spawn", !.locked = FALSE]
           p == IF q.serve THEN s ELSE Idle
           r == [repo EXCEPT !.suspect = suspect]
<1>1. BecomeAndChange(w, p, r)
  BY Zenon DEF Finish
<1>2. q \in Request /\ repo \in Repo
  BY Typed
<1>3. s.pc = "spawn" /\ s.intent = q.intent /\ s.force = q.force
  BY <1>2 DEF Request
<1>4. r.shallow = repo.shallow /\ r.blobs = repo.blobs /\ r.commits = repo.commits
  <2> HIDE DEF suspect
  <2> QED BY <1>2 DEF Repo
<1> HIDE DEF s, r
<1>5. Refetched(q, repo)
  BY DEF RefetchInv
<1>6. Refetched(s, r)
  BY <1>3, <1>5, SameRefetched DEF Rest
<1>7. Refetched(p, r)
  BY <1>6, IdleRefetched
<1> HIDE DEF p
<1>8. Adds(repo, r)
  BY <1>4, AddsSame
<1> QED
  BY <1>1, <1>7, <1>8, ChangeRefetched

LEMMA SpawnRefetched ==
    ASSUME DirectInv, RefetchInv, NEW w \in Workers, Spawn(w) PROVE RefetchInv'
<1>1. PICK how : End(w, how)
  BY DEF Spawn
<1>2. Adds(repo, repo')
  BY AddsSame DEF Spawn
<1> QED
  BY <1>1, <1>2, EndRefetched

LEMMA DropRefetched ==
    ASSUME DirectInv, RefetchInv, NEW w \in Workers, Drop(w) PROVE RefetchInv'
<1>1. Become(w, Idle) /\ Adds(repo, repo')
  BY AddsSame DEF Drop, Become
<1> QED
  BY <1>1, IdleRefetched, BecomeRefetched

LEMMA StepsRefetched ==
    ASSUME DirectInv, RefetchInv, NEW w \in Workers, Step(w) PROVE RefetchInv'
BY PrepareFromCacheRefetched, PrepareWantsRefetched, ProxyRefetched, TeeIndexRefetched,
   TeeMarkRefetched, TeeMarkFailsRefetched, EnsureRepoDirRefetched, LockRepoRefetched,
   ReadMarkersRefetched, ReadBoundaryRefetched, ClassifyRefetched, HydrateRefetched,
   HydrateMissesRefetched, EvictedRefetched, LockMutationRefetched, BatchedFetchRefetched,
   FetchAllHeadsRefetched, PrepareFetchedRefetched, RetryRefetched, MarkRefetched,
   FinishRefetched, SpawnRefetched DEF Step

\* A repack and an eviction come at nobody who is between a fetch and its marker.
LEMMA DisturbRefetched ==
    ASSUME DirectInv, RefetchInv, NEW r, Disturb(r),
           \A v \in Workers : req[v].pc \notin Settling
    PROVE  RefetchInv'
<1>1. ASSUME NEW v \in Workers PROVE Refetched(req'[v], repo')
  <2> DEFINE raced == req[v].pc # "idle" /\ (req[v].raced \/ r # repo)
  <2>1. req'[v] = [req[v] EXCEPT !.raced = raced]
    BY DEF Disturb
  <2> HIDE DEF raced
  <2>2. AsWas(req[v], req'[v])
    BY <2>1, Typed, RacedAsWas
  <2>3. Refetched(req[v], repo)
    BY DEF RefetchInv
  <2> QED BY <2>2, <2>3, AsWasRefetched
<1> QED
  BY <1>1 DEF RefetchInv

LEMMA FinishRepackRefetched ==
    ASSUME DirectInv, RefetchInv, FinishRepack PROVE RefetchInv'
<1>1. PICK r : Disturb(r)
  BY DEF FinishRepack
<1>2. ASSUME NEW v \in Workers PROVE req[v].pc \notin Settling
  BY Typed, DirectGitAssumption DEF FinishRepack, Safe, HoldsMutation, Settling
<1> QED
  BY <1>1, <1>2, DisturbRefetched

LEMMA EvictRefetched == ASSUME DirectInv, RefetchInv, Evict PROVE RefetchInv'
<1>1. Disturb(NoRepo)
  BY DEF Evict
<1>2. ASSUME NEW v \in Workers PROVE req[v].pc \notin Settling
  BY Typed DEF Evict, Safe, HoldsRepo, Settling
<1> QED
  BY <1>1, <1>2, DisturbRefetched

LEMMA RestartRefetched == ASSUME Restart PROVE RefetchInv'
<1>1. \A w \in Workers : req'[w] = Idle
  BY DEF Restart
<1> QED
  BY <1>1, IdleRefetched DEF RefetchInv

LEMMA RefetchInvInit == Init => RefetchInv
BY IdleRefetched DEF Init, RefetchInv

LEMMA RefetchInvStep ==
    ASSUME DirectInv, RefetchInv, [Next]_vars PROVE RefetchInv'
<1>1. CASE UNCHANGED <<repo, req>>
  BY <1>1 DEF RefetchInv
<1>2. CASE \E w \in Workers : Begin(w) \/ Step(w) \/ Drop(w)
  BY <1>2, BeginRefetched, StepsRefetched, DropRefetched
<1>3. CASE FinishRepack \/ Evict \/ Restart
  BY <1>3, FinishRepackRefetched, EvictRefetched, RestartRefetched
<1> QED
  BY <1>1, <1>2, <1>3 DEF Next, Background, Fsck, StartRepack, vars

\* A step of another one, or of nobody, does not take w from its marker to its end.
LEMMA OnlyMarkFinishes ==
    ASSUME DirectInv, NEW w \in Workers, [Next]_vars, req[w].pc = "mark",
           req'[w].pc = "finish"
    PROVE  Mark(w)
<1>1. req \in [Workers -> Request] /\ req[w] \in Request
  BY DEF DirectInv, DirectTypeOK
<1>2. req'[w] # req[w]
  OBVIOUS
<1>3. ASSUME NEW r, Disturb(r) PROVE FALSE
  <2>1. PICK b : req'[w] = [req[w] EXCEPT !.raced = b]
    BY <1>3 DEF Disturb
  <2> QED BY <1>1, <2>1 DEF Request
<1>4. ASSUME NEW v \in Workers, v # w, NEW q, NEW r, BecomeAndChange(v, q, r) PROVE FALSE
  <2>1. PICK b : req'[w] = [req[w] EXCEPT !.raced = b]
    BY <1>4 DEF BecomeAndChange
  <2> QED BY <1>1, <2>1 DEF Request
<1>5. ASSUME NEW v \in Workers, v # w, NEW q, Become(v, q) PROVE FALSE
  BY <1>1, <1>2, <1>5 DEF Become
<1>6. ASSUME Restart PROVE FALSE
  <2>1. req'[w] = Idle
    BY <1>6 DEF Restart
  <2> QED BY <2>1 DEF Idle
<1>7. ASSUME NEW v \in Workers, v # w, Begin(v) \/ Step(v) \/ Drop(v) PROVE FALSE
  <2>1. (\E q : Become(v, q)) \/ (\E q, r : BecomeAndChange(v, q, r))
    <3>1. CASE Begin(v) \/ Drop(v)
      BY <3>1 DEF Begin, Drop, Become
    <3>2. CASE PrepareFromCache(v) \/ PrepareWants(v) \/ Proxy(v) \/ EnsureRepoDir(v)
      BY <3>2, Zenon DEF PrepareFromCache, PrepareWants, Proxy, EnsureRepoDir
    <3>3. CASE TeeIndex(v) \/ TeeMark(v) \/ TeeMarkFails(v)
      BY <3>3, Zenon DEF TeeIndex, TeeMark, TeeMarkFails
    <3>4. CASE LockRepo(v) \/ ReadMarkers(v) \/ ReadBoundary(v) \/ LockMutation(v)
      BY <3>4, Zenon DEF LockRepo, ReadMarkers, ReadBoundary, LockMutation
    <3>5. CASE Classify(v)
      BY <3>5, Zenon DEF Classify, ProceedOrMiss
    <3>6. CASE Hydrate(v) \/ HydrateMisses(v)
      BY <3>6, Zenon DEF Hydrate, HydrateMisses, ProceedOrMiss
    <3>7. CASE Evicted(v) \/ Spawn(v)
      BY <3>7, Zenon DEF Evicted, Spawn, End
    <3>8. CASE BatchedFetch(v) \/ FetchAllHeads(v) \/ PrepareFetched(v)
      BY <3>8, Zenon DEF BatchedFetch, FetchAllHeads, PrepareFetched
    <3>9. CASE Retry(v)
      BY <3>9, Zenon DEF Retry, End
    <3>10. CASE Mark(v) \/ Finish(v)
      BY <3>10, Zenon DEF Mark, Finish, End
    <3> QED
      BY <1>7, <3>1, <3>2, <3>3, <3>4, <3>5, <3>6, <3>7, <3>8, <3>9, <3>10 DEF Step
  <2> QED BY <1>4, <1>5, <1>7, <2>1
<1>8. ASSUME Begin(w) PROVE FALSE
  BY <1>8 DEF Begin
<1>9. ASSUME Drop(w) PROVE FALSE
  <2>1. req'[w] = Idle
    BY <1>1, <1>9 DEF Drop
  <2> QED BY <2>1 DEF Idle
<1>10. ASSUME Step(w) PROVE Mark(w)
  BY <1>10 DEF Step, PrepareFromCache, PrepareWants, Proxy, TeeIndex, TeeMark, TeeMarkFails,
     EnsureRepoDir, LockRepo, ReadMarkers, ReadBoundary, Classify, Hydrate, HydrateMisses,
     Evicted, LockMutation, BatchedFetch, FetchAllHeads, PrepareFetched, Retry, Finish, Spawn
<1>11. CASE UNCHANGED req
  BY <1>2, <1>11
<1>12. CASE \E v \in Workers : Begin(v) \/ Step(v) \/ Drop(v)
  BY <1>7, <1>8, <1>9, <1>10, <1>12
<1>13. CASE Background \/ Evict
  BY <1>2, <1>3, <1>13 DEF Background, Fsck, StartRepack, FinishRepack, Evict
<1> QED
  BY <1>6, <1>11, <1>12, <1>13 DEF Next, vars

\* A step that clears the marker leaves its wants whole.
LEMMA MarkWhole ==
    ASSUME DirectInv, RefetchInv, NEW w \in Workers, Mark(w), req'[w].pc = "finish",
           repo.partial, ~repo'.partial, WantsTips(req[w].intent)
    PROVE  Whole(req[w].intent.wants, repo')
<1> DEFINE q == req[w]
           i == q.intent
           verify == q.verify /\ FullHistory(q)
           clear == ~i.blobless /\ q.force /\ Options(q).depth = 0
           suspect == repo.suspect /\ ~verify
           partial == i.blobless \/ (repo.partial /\ ~clear)
           r == [repo EXCEPT !.suspect = suspect, !.partial = partial]
<1>1. q.pc = "mark"
  BY DEF Mark
<1>2. q \in Request /\ repo \in Repo /\ req \in [Workers -> Request]
  BY Typed DEF DirectInv, DirectTypeOK
<1>3. End(w, "error") \/ repo' = r
  BY Zenon DEF Mark, BecomeAndChange
<1>4. ~End(w, "error")
  <2>1. Idle.pc = "idle"
    BY DEF Idle
  <2> QED BY <1>2, <2>1 DEF End, Become
<1>5. repo' = r
  BY <1>3, <1>4
<1>6. r.shallow = repo.shallow /\ r.commits = repo.commits /\ r.blobs = repo.blobs
      /\ r.partial = partial
  <2> HIDE DEF suspect, partial
  <2> QED BY <1>2 DEF Repo
<1>7. q.force /\ Options(q).depth = 0
  BY <1>5, <1>6
<1>8. Clears(q)
  BY <1>2, <1>7, OptionsAre DEF Clears
<1>9. Whole(i.wants, repo)
  BY <1>1, <1>8, SettlingWhole DEF Settling
<1> HIDE DEF r
<1> QED
  BY <1>5, <1>6, <1>9, AddsSame, AddsWhole

\* A request that clears the partial-hydration marker, whatever it did to the shallow
\* boundary, had to fetch twice or saw change between its look at the marker and its
\* lock, and whatever other requests, repacks, evictions and restarts do meanwhile,
\* leaves every commit that the branch tips it wants reach with its blobs.
THEOREM RefetchAlwaysWhole == Spec => RefetchedWantsWhole
<1>1. Init => RefetchInv
  BY RefetchInvInit
<1>2. DirectInv /\ RefetchInv /\ [Next]_vars => RefetchInv'
  BY RefetchInvStep
<1>3. DirectInv /\ RefetchInv /\ [Next]_vars =>
        [\A w \in Workers :
            LET q == req[w] IN
            q.pc = "mark" /\ req'[w].pc = "finish" /\ repo.partial /\ ~repo'.partial
                /\ WantsTips(q.intent) =>
                    Reach(q.intent.wants, repo'.shallow)
                        \subseteq (repo'.commits \cap repo'.blobs)]_vars
  BY OnlyMarkFinishes, MarkWhole DEF Whole
<1> QED
  BY <1>1, <1>2, <1>3, DirectInvariant, PTL DEF Spec, RefetchedWantsWhole

=============================================================================
