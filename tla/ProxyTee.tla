------------------------------ MODULE ProxyTee ------------------------------
(***************************************************************************)
(* Cold misses proxied to upstream on one node, and what follows them in   *)
(* the background.  While upstream's upload-pack response streams to the   *)
(* client its pack is demultiplexed and spooled to disk (the tee); when    *)
(* the response has ended the spooled pack is imported, or, whenever       *)
(* anything went wrong with it, the repository is warmed by a fetch of its *)
(* own; then the served commits are published by background materialize    *)
(* jobs, of which there is at most one per commit.                         *)
(*                                                                         *)
(* What the import and the fetch do to the repository is in DirectGit,     *)
(* what a publish does in Publish.                                         *)
(***************************************************************************)
EXTENDS Integers, Sequences, FiniteSets

CONSTANTS
    Responses,        \* the proxied upload-pack responses
    Branches, Commits,
    FirstTips,        \* the branch tips upstream at the start
    LaterTips,        \* ... and after a push
    Kinds,            \* Kinds[r]: the requests that response r may answer
    ChunkSizes,       \* how many units of the wire a chunk may hold
    MaxBytes,         \* max_git_output_bytes, in units
    MaxBuffer,        \* DEMUX_MAX_BUFFER_BYTES, in units
    Capacity,         \* TEE_SPOOL_CHANNEL_CAPACITY
    ImportPermits,    \* permits of direct_git_background_imports
    JobPermits,       \* permits of AsyncMaterializeJobs
    MaxAsync,         \* bound: asynchronous materialize requests
    MaxPanics         \* bound: jobs that panic

\* A response on the wire: a frame is two units, of which a chunk may bring one
\* without the other; a flush and a piece of raw pack data are one.
Unit == [type : {"nak", "ack", "band1", "band2", "band3", "err", "flush", "raw"},
         data : Nat, part : {1, 2}]
Width(u) == IF u.type \in {"flush", "raw"} THEN 1 ELSE 2

\* plan_upload_pack_tee and direct_git_generation_task decide from the request:
\* a whole clone is teed, one without a depth is published.
Kind == [wire : Seq(Unit), sideband : BOOLEAN, tee : BOOLEAN, publish : BOOLEAN,
         wants : SUBSET Branches]

ASSUME ProxyAssumption ==
    /\ IsFiniteSet(Responses) /\ Branches # {}
    /\ FirstTips \in [Branches -> Commits] /\ LaterTips \in [Branches -> Commits]
    /\ \A r \in Responses : Kinds[r] # {} /\ Kinds[r] \subseteq Kind
    /\ ChunkSizes \subseteq Nat \ {0}
    /\ {MaxBytes, MaxBuffer, Capacity, ImportPermits, JobPermits} \subseteq Nat \ {0}
    /\ MaxAsync \in Nat /\ MaxPanics \in Nat

VARIABLES
    tips,         \* the branch tips upstream
    proof,        \* the DirectGitProofCache entry of the repository
    resp,         \* resp[r]: a response, its tee and its follow-up
    job,          \* job[c]: the background materialize job for commit c
    inflight,     \* the keys of AsyncMaterializeJobs::inflight
    published,    \* commits with a complete manifest
    async,        \* asynchronous materialize requests so far
    elsewhere     \* import permits that other repositories hold

vars == <<tips, proof, resp, job, inflight, published, async, elsewhere>>

\* TeeSpoolMsg::Done; a chunk without pack data is not sent.
Done == <<>>

Want == [branch : Branches, commit : Commits]

Response ==
    [stream : {"none", "advertised", "open", "ended", "failed", "dropped"},
     kind : Kind,
     saw : [Branches -> Commits],         \* the advertisement the client saw
     pos : Nat,                           \* units of the wire received
     tee : BOOLEAN,                       \* the tee, with its sender, is alive
     state : {"AwaitNak", "Sideband", "RawPack", "Done", "Failed"},
     buf : Seq(Unit),                     \* PackDemux::buf
     pieces : Nat,                        \* PackDemux::pack_bytes
     queue : Seq(Seq(Nat)),               \* the channel to the spool writer
     writer : {"none", "start", "recv", "output", "nothing"},
     spool : Seq(Nat),                    \* the spool file
     reserved : Nat,                      \* its disk reservations
     warm : BOOLEAN,                      \* warm_task is still in the stream
     spawned : Nat,                       \* follow-ups spawned
     pc : {"none", "writer", "importPermit", "import", "warmPermit", "warm",
           "generation", "job", "check", "fallback", "done"},
     todo : SUBSET Want,                  \* requests of the generation task
     want : SUBSET Want,                  \* the one it is at
     clean : BOOLEAN]                     \* its last warm, jobs and checks succeeded

NoResponse(r) ==
    [stream |-> "none", kind |-> CHOOSE k \in Kinds[r] : TRUE, saw |-> FirstTips, pos |-> 0,
     tee |-> FALSE, state |-> "AwaitNak", buf |-> <<>>, pieces |-> 0, queue |-> <<>>,
     writer |-> "none", spool |-> <<>>, reserved |-> 0, warm |-> FALSE, spawned |-> 0,
     pc |-> "none", todo |-> {}, want |-> {}, clean |-> TRUE]

Job == [pc : {"none", "queued", "running"}, branch : Branches, exact : BOOLEAN]
NoJob == [pc |-> "none", branch |-> CHOOSE b \in Branches : TRUE, exact |-> FALSE]

\* Every job and every reservation is accounted for.
ProxyTypeOK ==
    /\ tips \in {FirstTips, LaterTips}
    /\ proof \in {FirstTips, LaterTips}
    /\ resp \in [Responses -> Response]
    /\ \A r \in Responses : Len(resp[r].queue) <= Capacity
    /\ job \in [Commits -> Job]
    /\ {c \in Commits : job[c].pc # "none"} \subseteq inflight
    /\ inflight \subseteq Commits
    /\ published \subseteq Commits
    /\ async \in 0 .. MaxAsync
    /\ elsewhere \in 0 .. ImportPermits

Init ==
    /\ tips = FirstTips
    /\ proof = FirstTips
    /\ resp = [r \in Responses |-> NoResponse(r)]
    /\ job = [c \in Commits |-> NoJob]
    /\ inflight = {}
    /\ published = {}
    /\ async = 0
    /\ elsewhere = 0

\* The tee is dropped with its demultiplexer and its sender.
DropTee(p) == [p EXCEPT !.tee = FALSE, !.state = "AwaitNak", !.buf = <<>>, !.pieces = 0]

\* The spooled pack and what was known of the response are no longer needed.
Forget(p) == [p EXCEPT !.kind.wire = <<>>, !.spool = <<>>, !.reserved = 0]

Become(r, p) == resp' = [resp EXCEPT ![r] = p]

-----------------------------------------------------------------------------
(* Upstream and the proof cache                                            *)

UpstreamPush ==
    /\ tips # LaterTips
    /\ tips' = LaterTips
    /\ UNCHANGED <<proof, resp, job, inflight, published, async, elsewhere>>

\* git_repo_get: ls-remote, remembered as a proof, shown to the client.
Advertise(r) ==
    /\ resp[r].stream = "none"
    /\ Become(r, [resp[r] EXCEPT !.stream = "advertised", !.saw = tips])
    /\ proof' = tips
    /\ UNCHANGED <<tips, job, inflight, published, async, elsewhere>>

\* direct_git_generation_task: wants that some branch of the proof names.
GenerationWants(k, saw, comparison) ==
    {[branch |-> b, commit |-> c] :
        b \in Branches, c \in {saw[x] : x \in k.wants}}
    \cap {w \in Want : k.publish /\ comparison[w.branch] = w.commit}

\* git_repo_post on a miss, and proxy_upload_pack_to_upstream: upstream has
\* answered and its response is about to be streamed.  The proof may be the one
\* of another client; when it is older than its TTL upstream is asked again.
Post(r) ==
    /\ resp[r].stream = "advertised"
    /\ \E k \in Kinds[r], comparison \in {proof, tips} :
      /\ proof' = comparison
      /\ Become(r, [resp[r] EXCEPT
            !.stream = "open", !.kind = k, !.warm = TRUE, !.saw = FirstTips,
            !.tee = k.tee, !.writer = IF k.tee THEN "start" ELSE "none",
            !.todo = GenerationWants(k, resp[r].saw, comparison)])
    /\ UNCHANGED <<tips, job, inflight, published, async, elsewhere>>

-----------------------------------------------------------------------------
(* PackDemux::feed                                                         *)

Data(units) == [i \in DOMAIN units |-> units[i].data]

\* One frame of the buffer, when it is whole.
ParseFrame(sideband, d) ==
    LET u == d.buf[1]
        rest == SubSeq(d.buf, Width(u) + 1, Len(d.buf))
        on == [d EXCEPT !.buf = rest] IN
    IF d.buf = <<>> \/ Len(d.buf) < Width(u) THEN d
    ELSE CASE u.type = "flush" /\ d.state = "Sideband" ->
                [d EXCEPT !.state = "Done", !.buf = <<>>]
           [] u.type = "flush" /\ d.state = "AwaitNak" -> on
           [] d.state = "AwaitNak" /\ u.type = "nak" /\ sideband ->
                [on EXCEPT !.state = "Sideband"]
           [] d.state = "AwaitNak" /\ u.type = "nak" /\ ~sideband ->
                [d EXCEPT !.state = "RawPack", !.sink = Data(rest), !.buf = <<>>]
           [] d.state = "AwaitNak" /\ u.type = "ack" -> on
           [] d.state = "Sideband" /\ u.type = "band1" -> [on EXCEPT !.sink = Append(@, u.data)]
           [] d.state = "Sideband" /\ u.type = "band2" -> on
           [] OTHER -> [d EXCEPT !.state = "Failed", !.buf = <<>>]

\* The loop over the whole frames: a round for each, and the rest do nothing.
ParseFrames(sideband, d) ==
    LET F[n \in 0 .. Len(d.buf)] == IF n = 0 THEN d ELSE ParseFrame(sideband, F[n - 1])
    IN F[Len(d.buf)]

\* Mutant of Feed: the buffer is cleared, the beginning of a frame with it.
FeedClears(p, chunk) ==
    LET d == [state |-> p.state, buf |-> p.buf \o chunk, sink |-> <<>>] IN
    IF p.state \in {"RawPack", "Done"} THEN [d EXCEPT !.buf = <<>>, !.sink = Data(chunk)]
    ELSE [ParseFrames(p.kind.sideband, d) EXCEPT !.buf = <<>>]

\* feed: the new demux state with the pack data it put into the sink.
Feed(p, chunk) ==
    LET d == [state |-> p.state, buf |-> p.buf \o chunk, sink |-> <<>>] IN
    CASE p.state = "RawPack" -> [d EXCEPT !.buf = <<>>, !.sink = Data(chunk)]
      [] p.state = "Done" -> [d EXCEPT !.buf = <<>>]
      [] OTHER ->
            IF Len(d.buf) > MaxBuffer THEN [d EXCEPT !.state = "Failed", !.buf = <<>>]
            ELSE ParseFrames(p.kind.sideband, d)

PackComplete(p) == p.pieces > 0 /\ p.state \in {"Done", "RawPack", "Sideband"}

-----------------------------------------------------------------------------
(* UpstreamProxyStream                                                     *)

\* Mutant of CanSend: the channel has no bound.
CanSendUnbounded(p) == p.writer \in {"start", "recv"}

\* try_send
CanSend(p) == Len(p.queue) < Capacity /\ p.writer \in {"start", "recv"}

\* tee_chunk: a demux error, a full channel or a writer that is gone ends the
\* tee; the pack data of a chunk is one message.
TeeChunk(p, chunk) ==
    LET d == Feed(p, chunk)
        fed == [p EXCEPT !.state = d.state, !.buf = d.buf, !.pieces = @ + Len(d.sink)] IN
    IF ~p.tee THEN p
    ELSE IF d.state = "Failed" \/ (d.sink # <<>> /\ ~CanSend(p)) THEN DropTee(p)
    ELSE IF d.sink = <<>> THEN fed
    ELSE [fed EXCEPT !.queue = Append(@, d.sink)]

\* poll_next yields a chunk, or an error once the byte limit is passed.
Chunk(r) ==
    LET p == resp[r] IN
    /\ p.stream = "open"
    /\ \E n \in ChunkSizes :
        LET q == [p EXCEPT !.pos = @ + n] IN
        /\ q.pos <= Len(p.kind.wire)
        /\ Become(r, IF q.pos > MaxBytes THEN [q EXCEPT !.stream = "failed"]
                     ELSE TeeChunk(q, SubSeq(p.kind.wire, p.pos + 1, q.pos)))
    /\ UNCHANGED <<tips, proof, job, inflight, published, async, elsewhere>>

\* Mutant of StreamEnds: the warm task is used and not taken.
StreamEndsKeepsWarm(r) ==
    LET p == resp[r]
        ended == [DropTee(p) EXCEPT !.stream = "ended", !.spawned = @ + 1] IN
    /\ p.stream = "open"
    /\ Become(r, IF p.tee /\ PackComplete(p) /\ CanSend(p)
                 THEN [ended EXCEPT !.pc = "writer", !.queue = Append(@, Done)]
                 ELSE [ended EXCEPT !.pc = "warmPermit"])
    /\ UNCHANGED <<tips, proof, job, inflight, published, async, elsewhere>>

\* Upstream closes the response, at its end or before: the tee is finished and
\* its import spawned, or the warm.
StreamEnds(r) ==
    LET p == resp[r]
        ended == [DropTee(p) EXCEPT !.stream = "ended", !.warm = FALSE, !.spawned = @ + 1] IN
    /\ p.stream = "open"
    /\ Become(r, IF p.tee /\ PackComplete(p) /\ CanSend(p)
                 THEN [ended EXCEPT !.pc = "writer", !.queue = Append(@, Done)]
                 ELSE [ended EXCEPT !.pc = "warmPermit"])
    /\ UNCHANGED <<tips, proof, job, inflight, published, async, elsewhere>>

\* Mutant of StreamDropped: the tee outlives the stream, and its sender with it.
StreamDroppedKeepsTee(r) ==
    LET p == resp[r] IN
    /\ p.stream \in {"open", "ended", "failed"}
    /\ Become(r, [p EXCEPT !.stream = "dropped", !.pos = 0, !.warm = FALSE,
                           !.spawned = IF p.warm THEN @ + 1 ELSE @,
                           !.pc = IF p.warm THEN "warmPermit" ELSE @])
    /\ UNCHANGED <<tips, proof, job, inflight, published, async, elsewhere>>

\* Drop: after the end, an error or the byte limit, or when the client goes away.
StreamDropped(r) ==
    LET p == resp[r] IN
    /\ p.stream \in {"open", "ended", "failed"}
    /\ Become(r, [DropTee(p) EXCEPT !.stream = "dropped", !.pos = 0, !.warm = FALSE,
                           !.spawned = IF p.warm THEN @ + 1 ELSE @,
                           !.pc = IF p.warm THEN "warmPermit" ELSE @])
    /\ UNCHANGED <<tips, proof, job, inflight, published, async, elsewhere>>

-----------------------------------------------------------------------------
(* spawn_tee_spool_writer                                                  *)

WriterStops(p) == [Forget(p) EXCEPT !.writer = "nothing", !.queue = <<>>]

\* The first reservation and the spool file.
WriterStarts(r) ==
    LET p == resp[r] IN
    /\ p.writer = "start"
    /\ Become(r, [p EXCEPT !.writer = "recv", !.reserved = 1])
    /\ UNCHANGED <<tips, proof, job, inflight, published, async, elsewhere>>

\* A chunk is appended, under a further reservation; Done flushes the file.
WriterReceives(r) ==
    LET p == resp[r]  m == Head(p.queue) IN
    /\ p.writer = "recv"
    /\ p.queue # <<>>
    /\ Become(r, IF m = Done
                 THEN [p EXCEPT !.writer = "output", !.queue = Tail(@)]
                 ELSE [p EXCEPT !.spool = @ \o m, !.queue = Tail(@), !.reserved = @ + 1])
    /\ UNCHANGED <<tips, proof, job, inflight, published, async, elsewhere>>

\* A reservation is refused, a write fails or the task panics; or the sender is
\* gone and the channel empty.
WriterFails(r) ==
    LET p == resp[r] IN
    /\ \/ p.writer = "start"
       \/ p.writer = "recv" /\ p.queue # <<>>
    /\ Become(r, WriterStops(p))
    /\ UNCHANGED <<tips, proof, job, inflight, published, async, elsewhere>>

WriterAbandoned(r) ==
    LET p == resp[r] IN
    /\ p.writer = "recv" /\ p.queue = <<>> /\ ~p.tee
    /\ Become(r, WriterStops(p))
    /\ UNCHANGED <<tips, proof, job, inflight, published, async, elsewhere>>

-----------------------------------------------------------------------------
(* spawn_tee_import and DirectGitWarmTask::spawn                           *)

ImportPermitFree ==
    Cardinality({r \in Responses : resp[r].pc \in {"import", "warm"}}) + elsewhere < ImportPermits

\* Imports of other repositories come and go.
ImportElsewhere ==
    /\ ImportPermitFree
    /\ elsewhere' = elsewhere + 1
    /\ UNCHANGED <<tips, proof, resp, job, inflight, published, async>>

ImportElsewhereEnds ==
    /\ elsewhere > 0
    /\ elsewhere' = elsewhere - 1
    /\ UNCHANGED <<tips, proof, resp, job, inflight, published, async>>

\* Mutant of AwaitWriter: only an output is waited for.
AwaitOutput(r) ==
    LET p == resp[r] IN
    /\ p.pc = "writer"
    /\ p.writer = "output"
    /\ Become(r, [p EXCEPT !.pc = "importPermit"])
    /\ UNCHANGED <<tips, proof, job, inflight, published, async, elsewhere>>

\* The writer's output is awaited; without one the repository is warmed.
AwaitWriter(r) ==
    LET p == resp[r] IN
    /\ p.pc = "writer"
    /\ p.writer \in {"output", "nothing"}
    /\ Become(r, [p EXCEPT !.pc = IF p.writer = "output" THEN "importPermit" ELSE "warmPermit"])
    /\ UNCHANGED <<tips, proof, job, inflight, published, async, elsewhere>>

AcquireImportPermit(r) ==
    LET p == resp[r] IN
    /\ p.pc \in {"importPermit", "warmPermit"}
    /\ ImportPermitFree
    /\ Become(r, [p EXCEPT !.pc = IF p.pc = "importPermit" THEN "import" ELSE "warm"])
    /\ UNCHANGED <<tips, proof, job, inflight, published, async, elsewhere>>

\* The units that bring pack data: a sideband frame does with its end.
Carries(u) == u.type = "raw" \/ (u.type = "band1" /\ u.part = 2)

\* The pack data of a whole response, or of what was received of it.
Pack(wire) ==
    LET P[i \in 0 .. Len(wire)] ==
            IF i = 0 THEN <<>>
            ELSE IF Carries(wire[i]) THEN Append(P[i - 1], wire[i].data) ELSE P[i - 1]
    IN P[Len(wire)]

\* import_proxied_upload_pack: index-pack accepts a whole pack only, and may
\* fail on that; the reservations are released and a failure is warmed.
Import(r) ==
    LET p == resp[r] IN
    /\ p.pc = "import"
    /\ \/ /\ p.spool = Pack(p.kind.wire)
          /\ Become(r, [Forget(p) EXCEPT !.pc = "generation"])
       \/ Become(r, [Forget(p) EXCEPT !.pc = "warmPermit"])
    /\ UNCHANGED <<tips, proof, job, inflight, published, async, elsewhere>>

\* warm_upload_pack; a failed one is the end of it.
Warm(r) ==
    LET p == resp[r] IN
    /\ p.pc = "warm"
    /\ \/ Become(r, [p EXCEPT !.pc = "generation"])
       \/ Become(r, [p EXCEPT !.pc = "done", !.clean = FALSE])
    /\ UNCHANGED <<tips, proof, job, inflight, published, async, elsewhere>>

-----------------------------------------------------------------------------
(* DirectGitGenerationTask::run                                            *)

\* AsyncMaterializeJobs::spawn, for a key that is not in flight.
SpawnJob(c, j) ==
    /\ inflight' = inflight \cup {c}
    /\ job' = [job EXCEPT ![c] = j]

\* The next request: its job is spawned and awaited, unless one is in flight.
GenerationNext(r) ==
    LET p == resp[r] IN
    /\ p.pc = "generation"
    /\ \/ /\ p.todo = {}
          /\ Become(r, [p EXCEPT !.pc = "done", !.want = {}])
          /\ UNCHANGED <<job, inflight>>
       \/ \E w \in p.todo :
            LET q == [p EXCEPT !.todo = @ \ {w}, !.want = {w}] IN
            IF w.commit \in inflight
            THEN Become(r, [q EXCEPT !.pc = "check"]) /\ UNCHANGED <<job, inflight>>
            ELSE /\ Become(r, [q EXCEPT !.pc = "job"])
                 /\ SpawnJob(w.commit, [pc |-> "queued", branch |-> w.branch, exact |-> FALSE])
    /\ UNCHANGED <<tips, proof, published, async, elsewhere>>

\* Mutant of EnsureServedWantPublished: the branch job is trusted.
TrustBranchJob(r) ==
    LET p == resp[r] IN
    /\ p.pc = "check"
    /\ Become(r, [p EXCEPT !.pc = "generation", !.want = {}])
    /\ UNCHANGED <<tips, proof, job, inflight, published, async, elsewhere>>

\* ensure_served_want_published: the branch may have moved since the client was
\* served; then the commit itself is published.  When its manifest cannot be read
\* that is logged and the task goes on.
EnsureServedWantPublished(r) ==
    LET p == resp[r]  w == CHOOSE w \in p.want : TRUE IN
    /\ p.pc = "check"
    /\ \/ /\ w.commit \in published \cup inflight
          /\ Become(r, [p EXCEPT !.pc = "generation"])
          /\ UNCHANGED <<job, inflight>>
       \/ /\ w.commit \notin published \cup inflight
          /\ Become(r, [p EXCEPT !.pc = "fallback"])
          /\ SpawnJob(w.commit, [pc |-> "queued", branch |-> w.branch, exact |-> TRUE])
       \/ /\ Become(r, [p EXCEPT !.pc = "generation", !.clean = FALSE])
          /\ UNCHANGED <<job, inflight>>
    /\ UNCHANGED <<tips, proof, published, async, elsewhere>>

-----------------------------------------------------------------------------
(* The jobs, also those of /v1/materialize?async=true                      *)

\* resolve, and a job for the commit when it is not cached: its request still
\* names the branch.
MaterializeAsync ==
    /\ async < MaxAsync
    /\ async' = async + 1
    /\ \E b \in Branches :
        /\ tips[b] \notin published \cup inflight
        /\ SpawnJob(tips[b], [pc |-> "queued", branch |-> b, exact |-> FALSE])
    /\ UNCHANGED <<tips, proof, resp, published, elsewhere>>

StartJob(c) ==
    /\ job[c].pc = "queued"
    /\ Cardinality({d \in Commits : job[d].pc = "running"}) < JobPermits
    /\ job' = [job EXCEPT ![c].pc = "running"]
    /\ UNCHANGED <<tips, proof, resp, inflight, published, async, elsewhere>>

\* The generation task that spawned the job of c wakes up.
Awake(c, ok) ==
    resp' = [r \in Responses |->
        LET p == resp[r] IN
        IF p.pc \in {"job", "fallback"} /\ \A w \in p.want : w.commit = c
        THEN [p EXCEPT !.pc = IF p.pc = "job" THEN "check" ELSE "generation",
                       !.clean = @ /\ ok]
        ELSE p]

\* materialize: a branch is resolved again.
FinishJob(c) ==
    LET j == job[c] IN
    /\ j.pc = "running"
    /\ \/ /\ published' = published \cup {IF j.exact THEN c ELSE tips[j.branch]}
          /\ Awake(c, TRUE)
       \/ /\ Awake(c, FALSE)
          /\ UNCHANGED published
    /\ job' = [job EXCEPT ![c] = NoJob]
    /\ inflight' = inflight \ {c}
    /\ UNCHANGED <<tips, proof, async, elsewhere>>

\* A panic skips the removal of the key.
JobPanics(c) ==
    /\ job[c].pc = "running"
    /\ Cardinality({d \in inflight : job[d].pc = "none"}) < MaxPanics
    /\ job' = [job EXCEPT ![c] = NoJob]
    /\ Awake(c, FALSE)
    /\ UNCHANGED <<tips, proof, inflight, published, async, elsewhere>>

-----------------------------------------------------------------------------
Client(r) == Advertise(r) \/ Post(r) \/ Chunk(r) \/ StreamEnds(r) \/ StreamDropped(r)

Writer(r) ==
    \/ WriterStarts(r) \/ WriterReceives(r) \/ WriterFails(r) \/ WriterAbandoned(r)

FollowUp(r) ==
    \/ AwaitWriter(r) \/ AcquireImportPermit(r) \/ Import(r) \/ Warm(r)
    \/ GenerationNext(r) \/ EnsureServedWantPublished(r)

RunJob(c) == StartJob(c) \/ FinishJob(c) \/ JobPanics(c)

Next ==
    \/ \E r \in Responses : Client(r) \/ Writer(r) \/ FollowUp(r)
    \/ \E c \in Commits : RunJob(c)
    \/ MaterializeAsync
    \/ UpstreamPush
    \/ ImportElsewhere
    \/ ImportElsewhereEnds

\* The runtime polls every spawned task and its semaphores are first come, first
\* served; neither upstream nor the client has to keep a response going.
Fairness ==
    /\ \A r \in Responses :
        WF_vars(Writer(r)) /\ WF_vars(FollowUp(r)) /\ SF_vars(AcquireImportPermit(r))
    /\ WF_vars(ImportElsewhereEnds)
    /\ \A c \in Commits : WF_vars(RunJob(c))

Spec == Init /\ [][Next]_vars /\ Fairness

-----------------------------------------------------------------------------
(* Properties                                                              *)

Flatten(q) ==
    LET F[i \in 0 .. Len(q)] == IF i = 0 THEN <<>> ELSE F[i - 1] \o q[i] IN F[Len(q)]

\* What git's pkt-line protocol says of a response: frames are whole and one
\* after the other, only its last frame may be cut short.
WholeFrames(wire) ==
    /\ wire # <<>> => wire[1].part = 1
    /\ \A i \in 1 .. Len(wire) - 1 :
        LET u == wire[i]  next == wire[i + 1] IN
        IF u.part = 1 /\ Width(u) = 2
        THEN next.part = 2 /\ next.type = u.type /\ next.data = u.data
        ELSE next.part = 1

\* After the NAK a sideband response ends with its flush, any other is the pack.
AfterNak(wire, sideband) ==
    \A i, j \in 1 .. Len(wire) :
        wire[i].type = "nak" /\ wire[i].part = 2 /\ i < j =>
            IF sideband THEN wire[j].type = "flush" => j = Len(wire) ELSE wire[j].type = "raw"

WellFormedWires ==
    \A r \in Responses : \A k \in Kinds[r] : WholeFrames(k.wire) /\ AfterNak(k.wire, k.sideband)

\* However upstream cuts its response into chunks, what the tee has spooled and
\* queued is the pack data of the frames received so far, in order.
SpoolFaithful ==
    \A r \in Responses :
        LET p == resp[r] IN
        p.stream = "open" /\ p.tee /\ p.writer # "nothing" =>
            p.spool \o Flatten(p.queue) = Pack(SubSeq(p.kind.wire, 1, p.pos))

\* "The background warm must run regardless of how the proxied stream ends":
\* every response is followed up, by an import or a warm, and only once.
OneFollowUp ==
    \A r \in Responses :
        /\ resp[r].spawned <= 1
        /\ resp[r].stream = "dropped" => resp[r].spawned = 1

\* Once the stream is gone its follow-up comes to an end, through permits that
\* other imports and jobs hold.
FollowUpEnds ==
    \A r \in Responses : (resp[r].stream = "dropped") ~> (resp[r].pc = "done")

\* Once the stream is gone the disk reservations of its spool come back.
ReservationsReturned ==
    \A r \in Responses : (resp[r].stream = "dropped") ~> (resp[r].reserved = 0)

\* A generation task whose jobs and checks succeeded leaves a wanted commit only
\* when it is published, though its branch moved meanwhile, or when somebody
\* else's job for it is in flight.
ServedWantPublished ==
    [][\A r \in Responses :
        resp[r].pc \in {"check", "fallback"} /\ resp'[r].pc = "generation" /\ resp'[r].clean =>
            \A w \in resp[r].want : w.commit \in published' \cup inflight]_vars

=============================================================================
