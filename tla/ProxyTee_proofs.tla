--------------------------- MODULE ProxyTee_proofs ---------------------------
(***************************************************************************)
(* Proofs about ProxyTee, for any responses, requests, chunk sizes and     *)
(* bounds: types with the bounds of the channel and the permits, one       *)
(* follow-up for each response, that what was served is published, and, on *)
(* well-formed wires, that the tee spools the pack upstream sent.          *)
(***************************************************************************)
EXTENDS ProxyTee, FiniteSetTheorems, NaturalsInduction, WellFoundedInduction,
        SequenceTheorems, TLAPS

-----------------------------------------------------------------------------
(* The demultiplexer                                                       *)

Demux == [state : {"AwaitNak", "Sideband", "RawPack", "Done", "Failed"},
          buf : Seq(Unit), sink : Seq(Nat)]

\* Induction over the naturals in the form the provers can use.
LEMMA LeastNat ==
    ASSUME NEW Bad \in SUBSET Nat, Bad # {}
    PROVE  \E n \in Bad : \A m \in Bad : n <= m
<1> DEFINE R == {p \in Nat \X Nat : p[1] < p[2]}
<1>1. IsWellFoundedOn(R, Nat)
  BY NatLessThanWellFounded, Zenon DEF OpToRel
<1>2. PICK n \in Bad : \A m \in Bad : ~(<<m, n>> \in R)
  <2> HIDE DEF R
  <2> QED BY <1>1, WFMin
<1>3. ASSUME NEW m \in Bad PROVE n <= m
  <2>1. m \in Nat /\ n \in Nat /\ ~(<<m, n>> \in R)
    BY <1>2
  <2> QED BY <2>1
<1> QED
  BY <1>3

\* Pack data is data.
LEMMA DataType == ASSUME NEW units \in Seq(Unit) PROVE Data(units) \in Seq(Nat)
<1>1. ASSUME NEW i \in 1 .. Len(units) PROVE units[i].data \in Nat
  <2>1. units[i] \in Unit
    OBVIOUS
  <2> QED BY <2>1 DEF Unit
<1>2. Data(units) = [i \in 1 .. Len(units) |-> units[i].data]
  BY DEF Data
<1> QED
  BY <1>1, <1>2

\* One frame leaves a demultiplexer.
LEMMA ParseFrameType ==
    ASSUME NEW sideband, NEW d \in Demux PROVE ParseFrame(sideband, d) \in Demux
<1> DEFINE u == d.buf[1]
           rest == SubSeq(d.buf, Width(u) + 1, Len(d.buf))
           on == [d EXCEPT !.buf = rest]
<1>0. d.buf \in Seq(Unit) /\ <<>> \in Seq(Unit)
  BY DEF Demux
<1>1. CASE d.buf = <<>> \/ Len(d.buf) < Width(u)
  BY <1>1 DEF ParseFrame
<1>2. CASE ~(d.buf = <<>> \/ Len(d.buf) < Width(u))
  <2>1. u \in Unit /\ Width(u) \in {1, 2} /\ Width(u) <= Len(d.buf)
    BY <1>0, <1>2 DEF Width
  <2>2. rest \in Seq(Unit)
    BY <1>0, <2>1
  <2> DEFINE data == Data(rest)
  <2>3. data \in Seq(Nat)
    BY <2>2, DataType
  <2> HIDE DEF rest
  <2>4. on \in Demux
    BY <2>2 DEF Demux
  <2>5. u.data \in Nat
    BY <2>1 DEF Unit
  <2> DEFINE n == u.data
  <2>6. [d EXCEPT !.state = "Done", !.buf = <<>>] \in Demux
    BY <1>0 DEF Demux
  <2>7. [on EXCEPT !.state = "Sideband"] \in Demux
    <3> HIDE DEF on
    <3> QED BY <2>4 DEF Demux
  <2>8. [d EXCEPT !.state = "RawPack", !.sink = data, !.buf = <<>>] \in Demux
    <3> HIDE DEF data
    <3> QED BY <1>0, <2>3 DEF Demux
  <2>9. [on EXCEPT !.sink = Append(on.sink, n)] \in Demux
    <3> HIDE DEF on, n
    <3>1. on.sink \in Seq(Nat) /\ n \in Nat
      BY <2>4, <2>5 DEF Demux, n
    <3>2. Append(on.sink, n) \in Seq(Nat)
      BY <3>1
    <3> QED BY <2>4, <3>2 DEF Demux
  <2>10. [d EXCEPT !.state = "Failed", !.buf = <<>>] \in Demux
    BY <1>0 DEF Demux
  <2>11. ParseFrame(sideband, d) \in
           {[d EXCEPT !.state = "Done", !.buf = <<>>], on, [on EXCEPT !.state = "Sideband"],
            [d EXCEPT !.state = "RawPack", !.sink = data, !.buf = <<>>],
            [on EXCEPT !.sink = Append(on.sink, n)],
            [d EXCEPT !.state = "Failed", !.buf = <<>>]}
    BY <1>2 DEF ParseFrame, rest
  <2> HIDE DEF on, data, n
  <2> QED
    BY <2>4, <2>6, <2>7, <2>8, <2>9, <2>10, <2>11
<1> QED
  BY <1>1, <1>2

Rounds(sideband, d, n, F) == IF n = 0 THEN d ELSE ParseFrame(sideband, F[n - 1])
IsLoop(sideband, d, k, F) == F = [n \in 0 .. k |-> Rounds(sideband, d, n, F)]
TheLoop(sideband, d, k) == CHOOSE F : IsLoop(sideband, d, k, F)

\* The recursive function of the loop exists.
LEMMA LoopExists ==
    ASSUME NEW sideband, NEW d, NEW k \in Nat
    PROVE  IsLoop(sideband, d, k, TheLoop(sideband, d, k))
<1> DEFINE Bad == {n \in Nat : \A F : ~IsLoop(sideband, d, n, F)}
<1>1. SUFFICES ASSUME Bad # {} PROVE FALSE
  BY DEF TheLoop
<1>2. PICK n \in Bad : \A m \in Bad : n <= m
  <2> HIDE DEF Bad
  <2>1. Bad \in SUBSET Nat BY DEF Bad
  <2> QED BY <1>1, <2>1, LeastNat
<1>3. n # 0
  <2>1. IsLoop(sideband, d, 0, [i \in 0 .. 0 |-> d])
    BY DEF IsLoop, Rounds
  <2> QED BY <2>1
<1>4. PICK F : IsLoop(sideband, d, n - 1, F)
  BY <1>2, <1>3
<1> DEFINE G == [i \in 0 .. n |-> Rounds(sideband, d, i, F)]
<1>5. \A i \in 0 .. n - 1 : G[i] = F[i]
  BY <1>4 DEF IsLoop
<1>6. \A i \in 0 .. n : Rounds(sideband, d, i, G) = Rounds(sideband, d, i, F)
  <2> SUFFICES ASSUME NEW i \in 0 .. n
               PROVE  Rounds(sideband, d, i, G) = Rounds(sideband, d, i, F)
    OBVIOUS
  <2>1. CASE i = 0
    BY <2>1 DEF Rounds
  <2>2. CASE i # 0
    <3>1. G[i - 1] = F[i - 1]
      BY <1>5, <2>2, SMTT(60)
    <3> HIDE DEF G
    <3> QED BY <3>1 DEF Rounds
  <2> QED BY <2>1, <2>2
<1>7. IsLoop(sideband, d, n, G)
  <2>1. G = [i \in 0 .. n |-> Rounds(sideband, d, i, G)]
    BY <1>6
  <2> HIDE DEF G
  <2> QED BY <2>1 DEF IsLoop
<1> QED
  BY <1>7

\* The loop over the frames leaves a demultiplexer.
LEMMA ParseFramesType ==
    ASSUME NEW sideband, NEW d \in Demux PROVE ParseFrames(sideband, d) \in Demux
<1> DEFINE k == Len(d.buf)
           F == TheLoop(sideband, d, k)
           Bad == {n \in 0 .. k : F[n] \notin Demux}
<1>0. k \in Nat
  BY DEF Demux
<1>1. F = [n \in 0 .. k |-> Rounds(sideband, d, n, F)]
  <2> HIDE DEF k
  <2> QED BY <1>0, LoopExists DEF IsLoop
<1>2. ParseFrames(sideband, d) = F[k]
  BY Zenon DEF ParseFrames, TheLoop, IsLoop, Rounds
<1> HIDE DEF F, k
<1>3. SUFFICES ASSUME Bad # {} PROVE FALSE
  BY <1>0, <1>2
<1>4. PICK n \in Bad : \A m \in Bad : n <= m
  <2> HIDE DEF Bad
  <2>1. Bad \in SUBSET Nat BY <1>0 DEF Bad
  <2> QED BY <1>3, <2>1, LeastNat
<1>5. n \in 0 .. k /\ F[n] = Rounds(sideband, d, n, F) /\ F[n] \notin Demux
  BY <1>1
<1>6. n # 0
  BY <1>5 DEF Rounds
<1>7. F[n - 1] \in Demux
  BY <1>0, <1>4, <1>5, <1>6
<1>8. F[n] = ParseFrame(sideband, F[n - 1])
  BY <1>5, <1>6 DEF Rounds
<1> QED
  BY <1>5, <1>7, <1>8, ParseFrameType

\* So does feed.
LEMMA FeedType ==
    ASSUME NEW p \in Response, NEW chunk \in Seq(Unit) PROVE Feed(p, chunk) \in Demux
<1> DEFINE d == [state |-> p.state, buf |-> p.buf \o chunk, sink |-> <<>>]
           data == Data(chunk)
           sb == p.kind.sideband
<1>1. p.buf \in Seq(Unit)
      /\ p.state \in {"AwaitNak", "Sideband", "RawPack", "Done", "Failed"}
  BY DEF Response
<1>2. p.buf \o chunk \in Seq(Unit) /\ <<>> \in Seq(Unit) /\ <<>> \in Seq(Nat)
  BY <1>1
<1>3. d \in Demux
  BY <1>1, <1>2 DEF Demux
<1>4. data \in Seq(Nat)
  BY DataType
<1>5. ParseFrames(sb, d) \in Demux
  BY <1>3, ParseFramesType
<1>6. Feed(p, chunk) \in {[d EXCEPT !.buf = <<>>, !.sink = data], [d EXCEPT !.buf = <<>>],
                          [d EXCEPT !.state = "Failed", !.buf = <<>>], ParseFrames(sb, d)}
  BY DEF Feed
<1> HIDE DEF d, data
<1>7. [d EXCEPT !.buf = <<>>, !.sink = data] \in Demux
  BY <1>2, <1>3, <1>4 DEF Demux
<1>8. [d EXCEPT !.buf = <<>>] \in Demux
  BY <1>2, <1>3 DEF Demux
<1>9. [d EXCEPT !.state = "Failed", !.buf = <<>>] \in Demux
  BY <1>2, <1>3 DEF Demux
<1> QED
  BY <1>5, <1>6, <1>7, <1>8, <1>9

-----------------------------------------------------------------------------
(* The inductive invariant                                                 *)

\* A response is followed up once its stream has ended or is dropped, and its
\* generation task is at one want while it waits for a job or looks after one.
Fine(p) ==
    /\ p \in Response
    /\ Len(p.queue) <= Capacity
    /\ p.warm <=> p.stream \in {"open", "failed"}
    /\ p.spawned = IF p.stream \in {"ended", "dropped"} THEN 1 ELSE 0
    /\ p.pc \in {"job", "check", "fallback"} => \E w \in Want : p.want = {w}

\* The job it waits for is there, and is for the commit itself in the fallback.
Waits(p, jobs) ==
    p.pc \in {"job", "fallback"} =>
        \A w \in p.want :
            /\ jobs[w.commit].pc # "none"
            /\ p.pc = "fallback" => jobs[w.commit].exact

ProxyInv ==
    /\ ProxyTypeOK
    /\ \A r \in Responses : Fine(resp[r]) /\ Waits(resp[r], job)

\* The constants, in the form the proofs use.
LEMMA Constants ==
    /\ Capacity \in Nat /\ ImportPermits \in Nat /\ MaxAsync \in Nat
    /\ FirstTips \in [Branches -> Commits] /\ LaterTips \in [Branches -> Commits]
    /\ \A r \in Responses : Kinds[r] # {} /\ Kinds[r] \subseteq Kind
    /\ IsFiniteSet(Responses) /\ Branches # {} /\ ChunkSizes \subseteq Nat
BY ProxyAssumption

\* A response that has not begun is fine.
LEMMA NoResponseFine ==
    ASSUME NEW r \in Responses PROVE Fine(NoResponse(r)) /\ NoResponse(r).pc = "none"
<1> DEFINE k == CHOOSE k \in Kinds[r] : TRUE
<1>1. k \in Kind
  BY Constants
<1>2. <<>> \in Seq(Unit) /\ <<>> \in Seq(Nat) /\ <<>> \in Seq(Seq(Nat)) /\ Len(<<>>) = 0
  OBVIOUS
<1> HIDE DEF k
<1>3. NoResponse(r) =
        [stream |-> "none", kind |-> k, saw |-> FirstTips, pos |-> 0,
         tee |-> FALSE, state |-> "AwaitNak", buf |-> <<>>, pieces |-> 0, queue |-> <<>>,
         writer |-> "none", spool |-> <<>>, reserved |-> 0, warm |-> FALSE, spawned |-> 0,
         pc |-> "none", todo |-> {}, want |-> {}, clean |-> TRUE]
  BY DEF NoResponse, k
<1>4. NoResponse(r) \in Response
  BY <1>1, <1>2, <1>3, Constants DEF Response
<1>5. /\ NoResponse(r).queue = <<>> /\ NoResponse(r).stream = "none" /\ NoResponse(r).warm = FALSE
      /\ NoResponse(r).spawned = 0 /\ NoResponse(r).pc = "none"
  BY <1>3
<1> QED
  BY <1>2, <1>4, <1>5, Constants DEF Fine

\* No job is a job.
LEMMA NoJobType == NoJob \in Job /\ NoJob.pc = "none"
BY Constants DEF NoJob, Job

\* The invariant holds at the start.
LEMMA ProxyInvInit == Init => ProxyInv
<1> SUFFICES ASSUME Init PROVE ProxyInv
  OBVIOUS
<1>1. \A r \in Responses : Fine(resp[r]) /\ resp[r].pc = "none"
  BY NoResponseFine DEF Init
<1>2. \A r \in Responses : resp[r] \in Response /\ Len(resp[r].queue) <= Capacity
  BY <1>1 DEF Fine
<1>3. resp \in [Responses -> Response]
  BY <1>2 DEF Init
<1>4. job \in [Commits -> Job] /\ \A c \in Commits : job[c].pc = "none"
  BY NoJobType DEF Init
<1>5. ProxyTypeOK
  BY <1>2, <1>3, <1>4, Constants DEF Init, ProxyTypeOK
<1> QED
  BY <1>1, <1>5 DEF ProxyInv, Waits

\* What the invariant says of one response.
LEMMA Typed ==
    ASSUME ProxyInv, NEW r \in Responses
    PROVE  /\ resp[r] \in Response /\ Fine(resp[r]) /\ Waits(resp[r], job)
           /\ resp \in [Responses -> Response] /\ resp[r].kind \in Kind
           /\ resp[r].queue \in Seq(Seq(Nat)) /\ Len(resp[r].queue) <= Capacity
BY DEF ProxyInv, ProxyTypeOK, Response

\* A step of one response that leaves the jobs alone.
LEMMA BecomeKeeps ==
    ASSUME ProxyInv, NEW r \in Responses, NEW q, Become(r, q), Fine(q), Waits(q, job),
           proof' \in {FirstTips, LaterTips},
           UNCHANGED <<tips, job, inflight, published, async, elsewhere>>
    PROVE  ProxyInv'
<1>1. resp \in [Responses -> Response]
  BY DEF ProxyInv, ProxyTypeOK
<1>2. q \in Response /\ Len(q.queue) <= Capacity
  BY DEF Fine
<1>3. resp' \in [Responses -> Response] /\ resp'[r] = q
      /\ \A s \in Responses : s # r => resp'[s] = resp[s]
  BY <1>1, <1>2 DEF Become
<1>4. ProxyTypeOK'
  BY <1>2, <1>3 DEF ProxyInv, ProxyTypeOK
<1> QED
  BY <1>3, <1>4 DEF ProxyInv

\* A response that only changed in what the invariant does not look at.
LEMMA SameFine ==
    ASSUME NEW p, NEW q \in Response, Fine(p), Waits(p, job), Len(q.queue) <= Capacity,
           q.stream = p.stream, q.warm = p.warm, q.spawned = p.spawned,
           (q.pc = p.pc /\ q.want = p.want) \/ q.pc \notin {"job", "check", "fallback"}
    PROVE  Fine(q) /\ Waits(q, job)
BY DEF Fine, Waits

-----------------------------------------------------------------------------
(* The stream and its tee                                                  *)

\* git_repo_get.
LEMMA AdvertiseKeeps == ASSUME ProxyInv, NEW r \in Responses, Advertise(r) PROVE ProxyInv'
<1> DEFINE p == resp[r]
           q == [p EXCEPT !.stream = "advertised", !.saw = tips]
<1>1. p.stream = "none" /\ Become(r, q) /\ proof' = tips
      /\ UNCHANGED <<tips, job, inflight, published, async, elsewhere>>
  BY DEF Advertise
<1>2. p \in Response /\ tips \in [Branches -> Commits] /\ tips \in {FirstTips, LaterTips}
  BY Constants DEF ProxyInv, ProxyTypeOK
<1>3. q \in Response /\ q.stream = "advertised" /\ q.queue = p.queue /\ q.warm = p.warm
      /\ q.spawned = p.spawned /\ q.pc = p.pc /\ q.want = p.want
  BY <1>2 DEF Response
<1> HIDE DEF q
<1>4. Fine(q) /\ Waits(q, job)
  BY <1>1, <1>3, Typed DEF Fine, Waits
<1> QED
  BY <1>1, <1>2, <1>4, BecomeKeeps

\* git_repo_post on a miss, with its proof.
LEMMA PostKeeps == ASSUME ProxyInv, NEW r \in Responses, Post(r) PROVE ProxyInv'
<1> DEFINE p == resp[r]
<1>1. PICK k \in Kinds[r], comparison \in {proof, tips} :
        /\ proof' = comparison
        /\ Become(r, [p EXCEPT
            !.stream = "open", !.kind = k, !.warm = TRUE, !.saw = FirstTips,
            !.tee = k.tee, !.writer = IF k.tee THEN "start" ELSE "none",
            !.todo = GenerationWants(k, p.saw, comparison)])
  BY DEF Post
<1> DEFINE writer == IF k.tee THEN "start" ELSE "none"
           todo == GenerationWants(k, p.saw, comparison)
           tee == k.tee
           q == [p EXCEPT !.stream = "open", !.kind = k, !.warm = TRUE, !.saw = FirstTips,
                          !.tee = tee, !.writer = writer, !.todo = todo]
<1>2. Become(r, q)
  BY <1>1
<1>3. k \in Kind /\ FirstTips \in [Branches -> Commits] /\ p \in Response
  BY Constants, Typed
<1>4. tee \in BOOLEAN /\ writer \in {"start", "none"} /\ todo \in SUBSET Want
  BY <1>3 DEF Kind, GenerationWants
<1>5. p.stream = "advertised" /\ UNCHANGED <<tips, job, inflight, published, async, elsewhere>>
  BY DEF Post
<1> HIDE DEF tee, writer, todo
<1>6. q \in Response
  BY <1>3, <1>4, ZenonT(60) DEF Response
<1>7. q.stream = "open" /\ q.queue = p.queue /\ q.warm = TRUE
      /\ q.spawned = p.spawned /\ q.pc = p.pc /\ q.want = p.want
  BY <1>3 DEF Response
<1> HIDE DEF q
<1>8. Fine(q) /\ Waits(q, job)
  BY <1>5, <1>6, <1>7, Typed DEF Fine, Waits
<1>9. proof' \in {FirstTips, LaterTips}
  BY <1>1 DEF ProxyInv, ProxyTypeOK
<1> QED
  BY <1>2, <1>5, <1>8, <1>9, BecomeKeeps

\* What does not depend on the tee.
Rest(p, q) ==
    /\ q.stream = p.stream /\ q.warm = p.warm /\ q.spawned = p.spawned
    /\ q.pc = p.pc /\ q.want = p.want

\* The tee is dropped without a trace on the rest.
LEMMA DropTeeType ==
    ASSUME NEW p \in Response
    PROVE  DropTee(p) \in Response /\ DropTee(p).queue = p.queue /\ Rest(p, DropTee(p))
<1>1. <<>> \in Seq(Unit)
  OBVIOUS
<1> QED
  BY <1>1 DEF DropTee, Response, Rest

\* tee_chunk sends only what the channel has room for.
LEMMA TeeChunkType ==
    ASSUME NEW p \in Response, NEW chunk \in Seq(Unit), Len(p.queue) <= Capacity
    PROVE  LET q == TeeChunk(p, chunk) IN
           q \in Response /\ Len(q.queue) <= Capacity /\ Rest(p, q)
<1> DEFINE d == Feed(p, chunk)
           state == d.state
           buf == d.buf
           sink == d.sink
           pieces == p.pieces + Len(sink)
           fed == [p EXCEPT !.state = state, !.buf = buf, !.pieces = pieces]
           queue == Append(fed.queue, sink)
           sent == [fed EXCEPT !.queue = queue]
<1>1. d \in Demux
  BY FeedType
<1>2. state \in {"AwaitNak", "Sideband", "RawPack", "Done", "Failed"} /\ buf \in Seq(Unit)
      /\ sink \in Seq(Nat)
  BY <1>1 DEF Demux
<1>3. \/ TeeChunk(p, chunk) = p
      \/ TeeChunk(p, chunk) = DropTee(p)
      \/ TeeChunk(p, chunk) = fed
      \/ TeeChunk(p, chunk) = sent /\ CanSend(p)
  BY DEF TeeChunk
<1>4. p.queue \in Seq(Seq(Nat)) /\ pieces \in Nat
  <2> HIDE DEF sink
  <2> QED BY <1>2 DEF Response
<1> HIDE DEF state, buf, sink, pieces
<1>5. fed \in Response /\ Rest(p, fed) /\ fed.queue = p.queue
  BY <1>2, <1>4 DEF Response, Rest
<1> HIDE DEF fed
<1>6. queue \in Seq(Seq(Nat)) /\ Len(queue) = Len(p.queue) + 1
  BY <1>2, <1>4, <1>5
<1> HIDE DEF queue
<1>7. sent \in Response /\ Rest(p, sent) /\ sent.queue = queue
  BY <1>5, <1>6 DEF Response, Rest
<1> HIDE DEF sent
<1>8. CanSend(p) => Len(queue) <= Capacity
  BY <1>4, <1>6, Constants DEF CanSend
<1>9. Rest(p, p)
  BY DEF Rest
<1> QED
  BY <1>3, <1>5, <1>7, <1>8, <1>9, DropTeeType

\* poll_next yields a chunk.
LEMMA ChunkKeeps == ASSUME ProxyInv, NEW r \in Responses, Chunk(r) PROVE ProxyInv'
<1> DEFINE p == resp[r]
<1>1. PICK n \in ChunkSizes :
        LET q == [p EXCEPT !.pos = @ + n] IN
        /\ q.pos <= Len(p.kind.wire)
        /\ Become(r, IF q.pos > MaxBytes THEN [q EXCEPT !.stream = "failed"]
                     ELSE TeeChunk(q, SubSeq(p.kind.wire, p.pos + 1, q.pos)))
  BY DEF Chunk
<1> DEFINE q == [p EXCEPT !.pos = p.pos + n]
           wire == p.kind.wire
           chunk == SubSeq(wire, p.pos + 1, q.pos)
           failed == [q EXCEPT !.stream = "failed"]
<1>2. p \in Response /\ n \in Nat /\ wire \in Seq(Unit) /\ p.pos \in Nat
      /\ Fine(p) /\ Waits(p, job) /\ Len(p.queue) <= Capacity
  BY Constants, Typed DEF Kind, Response
<1>3. q \in Response /\ q.pos = p.pos + n /\ q.queue = p.queue /\ Rest(p, q)
  <2> DEFINE pos == p.pos + n
  <2>1. pos \in Nat
    BY <1>2
  <2> HIDE DEF pos
  <2>2. [p EXCEPT !.pos = pos] \in Response /\ [p EXCEPT !.pos = pos].pos = pos
        /\ [p EXCEPT !.pos = pos].queue = p.queue /\ Rest(p, [p EXCEPT !.pos = pos])
    BY <1>2, <2>1 DEF Response, Rest
  <2> QED BY <2>2 DEF pos
<1>4. p.stream = "open" /\ UNCHANGED <<tips, proof, job, inflight, published, async, elsewhere>>
  BY DEF Chunk
<1>5. q.pos <= Len(wire)
  BY <1>1
<1>6. chunk \in Seq(Unit)
  <2> HIDE DEF q, wire
  <2>1. \A i \in p.pos + 1 .. q.pos : wire[i] \in Unit
    BY <1>2, <1>3, <1>5
  <2> QED BY <1>2, <1>3, <1>5, <2>1
<1>7. \/ Become(r, failed)
      \/ Become(r, TeeChunk(q, chunk))
  BY <1>1
<1>8. proof' \in {FirstTips, LaterTips}
  BY <1>4 DEF ProxyInv, ProxyTypeOK
<1> HIDE DEF q, chunk
<1>9. CASE Become(r, failed)
  <2>1. failed \in Response /\ failed.stream = "failed" /\ failed.queue = p.queue
        /\ failed.warm = p.warm /\ failed.spawned = p.spawned /\ failed.pc = p.pc
        /\ failed.want = p.want
    BY <1>3 DEF Response, Rest
  <2> HIDE DEF failed
  <2>2. Fine(failed) /\ Waits(failed, job)
    BY <1>2, <1>4, <2>1 DEF Fine, Waits
  <2> QED
    BY <1>4, <1>8, <1>9, <2>2, BecomeKeeps
<1>10. CASE Become(r, TeeChunk(q, chunk))
  <2> DEFINE t == TeeChunk(q, chunk)
  <2>1. t \in Response /\ Len(t.queue) <= Capacity /\ Rest(q, t)
    BY <1>2, <1>3, <1>6, TeeChunkType
  <2>2. Become(r, t)
    BY <1>10
  <2> HIDE DEF t
  <2>3. Fine(t) /\ Waits(t, job)
    BY <1>2, <1>3, <2>1, SameFine DEF Rest
  <2> QED
    BY <1>4, <1>8, <2>2, <2>3, BecomeKeeps
<1> QED
  BY <1>7, <1>9, <1>10, SMTT(60)

\* The response ends: its follow-up is spawned and the warm task taken.
LEMMA StreamEndsKeeps == ASSUME ProxyInv, NEW r \in Responses, StreamEnds(r) PROVE ProxyInv'
<1> DEFINE p == resp[r]
           t == DropTee(p)
           ended == [t EXCEPT !.stream = "ended", !.warm = FALSE, !.spawned = t.spawned + 1]
           queue == Append(ended.queue, Done)
           a == [ended EXCEPT !.pc = "writer", !.queue = queue]
           b == [ended EXCEPT !.pc = "warmPermit"]
<1>1. p.stream = "open" /\ UNCHANGED <<tips, proof, job, inflight, published, async, elsewhere>>
  BY DEF StreamEnds
<1>2. (CanSend(p) /\ Become(r, a)) \/ Become(r, b)
  BY DEF StreamEnds
<1>3. t \in Response /\ t.queue = p.queue /\ Rest(p, t) /\ Fine(p)
      /\ p.queue \in Seq(Seq(Nat)) /\ Len(p.queue) <= Capacity
  BY Typed, DropTeeType
<1>4. t.spawned = 0
  BY <1>1, <1>3 DEF Fine, Rest
<1> HIDE DEF t
<1>5. ended \in Response /\ ended.queue = p.queue /\ ended.stream = "ended" /\ ended.warm = FALSE
      /\ ended.spawned = 1
  <2> DEFINE n == t.spawned + 1
  <2>1. n = 1
    BY <1>4
  <2> HIDE DEF n
  <2>2. [t EXCEPT !.stream = "ended", !.warm = FALSE, !.spawned = n] \in Response
    BY <1>3, <2>1 DEF Response
  <2>3. ended = [t EXCEPT !.stream = "ended", !.warm = FALSE, !.spawned = n]
    BY DEF n
  <2>4. LET e == [t EXCEPT !.stream = "ended", !.warm = FALSE, !.spawned = n] IN
        e.queue = t.queue /\ e.stream = "ended" /\ e.warm = FALSE /\ e.spawned = n
    BY <1>3 DEF Response
  <2> QED BY <1>3, <2>1, <2>2, <2>3, <2>4
<1>6. queue \in Seq(Seq(Nat)) /\ (CanSend(p) => Len(queue) <= Capacity)
  <2>1. Done \in Seq(Nat)
    BY DEF Done
  <2> HIDE DEF ended
  <2> QED BY <1>3, <1>5, <2>1, Constants DEF CanSend
<1> HIDE DEF ended, queue
<1>7. a \in Response /\ a.queue = queue /\ a.stream = "ended" /\ a.warm = FALSE
      /\ a.spawned = 1 /\ a.pc = "writer"
  BY <1>5, <1>6 DEF Response
<1>8. b \in Response /\ b.queue = p.queue /\ b.stream = "ended" /\ b.warm = FALSE
      /\ b.spawned = 1 /\ b.pc = "warmPermit"
  BY <1>5 DEF Response
<1> HIDE DEF a, b
<1>9. (CanSend(p) => Fine(a) /\ Waits(a, job)) /\ Fine(b) /\ Waits(b, job)
  BY <1>3, <1>6, <1>7, <1>8 DEF Fine, Waits
<1>10. proof' \in {FirstTips, LaterTips}
  BY <1>1 DEF ProxyInv, ProxyTypeOK
<1> QED
  BY <1>1, <1>2, <1>9, <1>10, BecomeKeeps

\* The stream is dropped: it is warmed unless it has been followed up.
LEMMA StreamDroppedKeeps ==
    ASSUME ProxyInv, NEW r \in Responses, StreamDropped(r) PROVE ProxyInv'
<1> DEFINE p == resp[r]
           t == DropTee(p)
           spawned == IF p.warm THEN t.spawned + 1 ELSE t.spawned
           pc == IF p.warm THEN "warmPermit" ELSE t.pc
           q == [t EXCEPT !.stream = "dropped", !.pos = 0, !.warm = FALSE,
                          !.spawned = spawned, !.pc = pc]
<1>1. p.stream \in {"open", "ended", "failed"} /\ Become(r, q)
      /\ UNCHANGED <<tips, proof, job, inflight, published, async, elsewhere>>
  BY DEF StreamDropped
<1>2. t \in Response /\ t.queue = p.queue /\ Rest(p, t) /\ Fine(p) /\ Waits(p, job)
      /\ Len(p.queue) <= Capacity
  BY Typed, DropTeeType
<1> HIDE DEF t
<1>3. spawned = 1
  BY <1>1, <1>2 DEF Fine, Rest
<1>4. (pc = "warmPermit" \/ pc = p.pc) /\ t.want = p.want
  BY <1>2 DEF Rest
<1>5. p \in Response
  BY Typed
<1> HIDE DEF spawned, pc
<1>6. q \in Response /\ q.stream = "dropped" /\ q.queue = p.queue /\ q.warm = FALSE
      /\ q.spawned = 1 /\ q.pc = pc /\ q.want = p.want
  <2>1. p.pc \in {"none", "writer", "importPermit", "import", "warmPermit", "warm",
                  "generation", "job", "check", "fallback", "done"}
    BY <1>5 DEF Response
  <2> HIDE DEF p
  <2> QED BY <1>2, <1>3, <1>4, <2>1, ZenonT(60) DEF Response
<1> HIDE DEF q
<1>7. Fine(q) /\ Waits(q, job)
  BY <1>2, <1>4, <1>6 DEF Fine, Waits
<1>8. proof' \in {FirstTips, LaterTips}
  BY <1>1 DEF ProxyInv, ProxyTypeOK
<1> QED
  BY <1>1, <1>7, <1>8, BecomeKeeps

-----------------------------------------------------------------------------
(* The writer and the follow-up                                            *)

\* A step of a response that neither touches its stream nor puts it at a want.
LEMMA QuietKeeps ==
    ASSUME ProxyInv, NEW r \in Responses, NEW q \in Response, Become(r, q),
           Len(q.queue) <= Capacity,
           q.stream = resp[r].stream, q.warm = resp[r].warm, q.spawned = resp[r].spawned,
           (q.pc = resp[r].pc /\ q.want = resp[r].want) \/ q.pc \notin {"job", "check", "fallback"},
           UNCHANGED <<tips, proof, job, inflight, published, async, elsewhere>>
    PROVE  ProxyInv'
<1>1. Fine(q) /\ Waits(q, job)
  BY Typed, SameFine
<1>2. proof' \in {FirstTips, LaterTips}
  BY DEF ProxyInv, ProxyTypeOK
<1> QED
  BY <1>1, <1>2, BecomeKeeps

\* The spool is given back.
LEMMA ForgetType ==
    ASSUME NEW p \in Response
    PROVE  Forget(p) \in Response /\ Forget(p).queue = p.queue /\ Rest(p, Forget(p))
<1> DEFINE k == [p.kind EXCEPT !.wire = <<>>]
<1>1. <<>> \in Seq(Unit) /\ <<>> \in Seq(Nat) /\ p.kind \in Kind
  BY DEF Response
<1>2. k \in Kind
  BY <1>1 DEF Kind
<1>3. Forget(p) = [p EXCEPT !.kind = k, !.spool = <<>>, !.reserved = 0]
  BY DEF Forget
<1> HIDE DEF k
<1> DEFINE q == [p EXCEPT !.kind = k, !.spool = <<>>, !.reserved = 0]
<1>4. q \in Response
  BY <1>1, <1>2 DEF Response
<1>5. q.queue = p.queue /\ q.stream = p.stream /\ q.warm = p.warm /\ q.spawned = p.spawned
      /\ q.pc = p.pc /\ q.want = p.want
  BY DEF Response
<1> HIDE DEF q
<1> QED
  BY <1>3, <1>4, <1>5 DEF Rest, q

\* The first reservation.
LEMMA WriterStartsKeeps == ASSUME ProxyInv, NEW r \in Responses, WriterStarts(r) PROVE ProxyInv'
<1> DEFINE p == resp[r]
           q == [p EXCEPT !.writer = "recv", !.reserved = 1]
<1>1. Become(r, q) /\ UNCHANGED <<tips, proof, job, inflight, published, async, elsewhere>>
  BY DEF WriterStarts
<1>2. p \in Response /\ Len(p.queue) <= Capacity
  BY Typed
<1>3. q \in Response /\ q.queue = p.queue /\ Rest(p, q)
  BY <1>2 DEF Response, Rest
<1> HIDE DEF q
<1> QED
  BY <1>1, <1>2, <1>3, QuietKeeps DEF Rest

\* A message is taken out of the channel.
LEMMA WriterReceivesKeeps ==
    ASSUME ProxyInv, NEW r \in Responses, WriterReceives(r) PROVE ProxyInv'
<1> DEFINE p == resp[r]
           m == Head(p.queue)
           queue == Tail(p.queue)
           spool == p.spool \o m
           reserved == p.reserved + 1
           a == [p EXCEPT !.writer = "output", !.queue = queue]
           b == [p EXCEPT !.spool = spool, !.queue = queue, !.reserved = reserved]
<1>1. /\ Become(r, a) \/ Become(r, b)
      /\ UNCHANGED <<tips, proof, job, inflight, published, async, elsewhere>>
      /\ p.queue # <<>>
  BY DEF WriterReceives
<1>2. p \in Response /\ p.queue \in Seq(Seq(Nat)) /\ Len(p.queue) <= Capacity
  BY Typed
<1>3. m \in Seq(Nat) /\ queue \in Seq(Seq(Nat)) /\ Len(queue) <= Capacity
  BY <1>1, <1>2, Constants
<1>4. spool \in Seq(Nat) /\ reserved \in Nat
  <2>1. p.spool \in Seq(Nat) /\ p.reserved \in Nat
    BY <1>2 DEF Response
  <2> HIDE DEF m
  <2> QED BY <1>3, <2>1
<1> HIDE DEF queue, spool, reserved
<1>5. a \in Response /\ a.queue = queue /\ Rest(p, a)
  BY <1>2, <1>3 DEF Response, Rest
<1>6. b \in Response /\ b.queue = queue /\ Rest(p, b)
  BY <1>2, <1>3, <1>4 DEF Response, Rest
<1> HIDE DEF a, b
<1> QED
  BY <1>1, <1>3, <1>5, <1>6, QuietKeeps DEF Rest

\* The writer gives up, with what it spooled.
LEMMA WriterStopsKeeps ==
    ASSUME ProxyInv, NEW r \in Responses, WriterFails(r) \/ WriterAbandoned(r) PROVE ProxyInv'
<1> DEFINE p == resp[r]
           f == Forget(p)
           q == [f EXCEPT !.writer = "nothing", !.queue = <<>>]
<1>1. Become(r, q) /\ UNCHANGED <<tips, proof, job, inflight, published, async, elsewhere>>
  BY DEF WriterFails, WriterAbandoned, WriterStops
<1>2. f \in Response /\ Rest(p, f)
  BY Typed, ForgetType
<1>3. <<>> \in Seq(Seq(Nat)) /\ Len(<<>>) <= Capacity
  BY Constants
<1> HIDE DEF f
<1>4. q \in Response /\ q.queue = <<>> /\ Rest(f, q)
  BY <1>2, <1>3 DEF Response, Rest
<1> HIDE DEF q
<1> QED
  BY <1>1, <1>2, <1>3, <1>4, QuietKeeps DEF Rest

\* A follow-up moves on to a place where it waits for no job.
LEMMA MoveKeeps ==
    ASSUME ProxyInv, NEW r \in Responses, NEW f, f \in Response, f.queue = resp[r].queue,
           Rest(resp[r], f), NEW clean \in BOOLEAN,
           NEW pc \in {"importPermit", "import", "warmPermit", "warm", "generation", "done"},
           Become(r, [f EXCEPT !.pc = pc, !.clean = clean]),
           UNCHANGED <<tips, proof, job, inflight, published, async, elsewhere>>
    PROVE  ProxyInv'
<1> DEFINE q == [f EXCEPT !.pc = pc, !.clean = clean]
<1>1. q \in Response /\ q.queue = f.queue /\ q.stream = f.stream /\ q.warm = f.warm
      /\ q.spawned = f.spawned /\ q.pc = pc
  BY ZenonT(60) DEF Response
<1>2. Become(r, q)
  OBVIOUS
<1> HIDE DEF q
<1> QED
  BY <1>1, <1>2, Typed, QuietKeeps DEF Rest

\* It does so whether or not it says something of its success.
LEMMA MoveCleanly ==
    ASSUME NEW f \in Response, NEW pc
    PROVE  [f EXCEPT !.pc = pc] = [f EXCEPT !.pc = pc, !.clean = f.clean] /\ f.clean \in BOOLEAN
BY DEF Response

\* The import of a spooled pack, the warm and the waits before them.
LEMMA FollowUpMoves ==
    ASSUME ProxyInv, NEW r \in Responses,
           AwaitWriter(r) \/ AcquireImportPermit(r) \/ Import(r) \/ Warm(r)
    PROVE  ProxyInv'
<1> DEFINE p == resp[r]
           f == Forget(p)
<1>1. p \in Response /\ Rest(p, p)
  BY Typed DEF Rest
<1>2. f \in Response /\ f.queue = p.queue /\ Rest(p, f)
  BY <1>1, ForgetType
<1>3. UNCHANGED <<tips, proof, job, inflight, published, async, elsewhere>>
  BY DEF AwaitWriter, AcquireImportPermit, Import, Warm
<1>4. \E pc \in {"importPermit", "import", "warmPermit", "warm", "generation", "done"} :
         \/ Become(r, [p EXCEPT !.pc = pc])
         \/ Become(r, [f EXCEPT !.pc = pc])
         \/ Become(r, [p EXCEPT !.pc = pc, !.clean = FALSE])
  BY DEF AwaitWriter, AcquireImportPermit, Import, Warm
<1>5. PICK pc \in {"importPermit", "import", "warmPermit", "warm", "generation", "done"} :
         \/ Become(r, [p EXCEPT !.pc = pc])
         \/ Become(r, [f EXCEPT !.pc = pc])
         \/ Become(r, [p EXCEPT !.pc = pc, !.clean = FALSE])
  BY <1>4
<1> HIDE DEF f
<1>6. \/ Become(r, [p EXCEPT !.pc = pc, !.clean = p.clean])
      \/ Become(r, [f EXCEPT !.pc = pc, !.clean = f.clean])
      \/ Become(r, [p EXCEPT !.pc = pc, !.clean = FALSE])
  BY <1>1, <1>2, <1>5, MoveCleanly
<1>7. p.clean \in BOOLEAN /\ f.clean \in BOOLEAN
  BY <1>1, <1>2, MoveCleanly
<1>8. CASE Become(r, [p EXCEPT !.pc = pc, !.clean = p.clean])
  BY <1>1, <1>3, <1>7, <1>8, MoveKeeps, ZenonT(60)
<1>9. CASE Become(r, [f EXCEPT !.pc = pc, !.clean = f.clean])
  BY <1>2, <1>3, <1>7, <1>9, MoveKeeps, ZenonT(60)
<1>10. CASE Become(r, [p EXCEPT !.pc = pc, !.clean = FALSE])
  BY <1>1, <1>3, <1>10, MoveKeeps
<1> QED
  BY <1>6, <1>8, <1>9, <1>10

-----------------------------------------------------------------------------
(* The generation task and the jobs                                        *)

\* What the invariant says of the jobs.
LEMMA Jobs ==
    ASSUME ProxyInv
    PROVE  /\ job \in [Commits -> Job] /\ inflight \subseteq Commits
           /\ \A c \in Commits : job[c].pc # "none" => c \in inflight
BY DEF ProxyInv, ProxyTypeOK

\* A job is spawned for a key that is not in flight: nobody waits for it yet.
LEMMA SpawnType ==
    ASSUME ProxyInv, NEW c \in Commits, c \notin inflight, NEW j \in Job, SpawnJob(c, j)
    PROVE  /\ job' \in [Commits -> Job] /\ inflight' \subseteq Commits /\ job'[c] = j
           /\ {d \in Commits : job'[d].pc # "none"} \subseteq inflight'
           /\ \A p \in Response : Waits(p, job) => Waits(p, job')
<1>1. job' \in [Commits -> Job] /\ inflight' = inflight \cup {c} /\ job'[c] = j
      /\ \A d \in Commits : d # c => job'[d] = job[d]
  BY Jobs DEF SpawnJob
<1>2. ASSUME NEW p \in Response, Waits(p, job) PROVE Waits(p, job')
  <2>1. SUFFICES ASSUME p.pc \in {"job", "fallback"}, NEW w \in p.want
                 PROVE  /\ job'[w.commit].pc # "none"
                        /\ p.pc = "fallback" => job'[w.commit].exact
    BY DEF Waits
  <2>2. w.commit \in Commits
    BY DEF Response, Want
  <2>3. job[w.commit].pc # "none" /\ (p.pc = "fallback" => job[w.commit].exact)
    BY <1>2, <2>1 DEF Waits
  <2>4. job'[w.commit] = job[w.commit]
    BY <1>1, <2>2, <2>3, Jobs
  <2> QED BY <2>3, <2>4
<1> QED
  BY <1>1, <1>2, Jobs

\* A step of one response that spawns a job.
LEMMA SpawnKeeps ==
    ASSUME ProxyInv, NEW r \in Responses, NEW q, Become(r, q), Fine(q),
           NEW c \in Commits, c \notin inflight, NEW j \in Job, SpawnJob(c, j), Waits(q, job'),
           UNCHANGED <<tips, proof, published, async, elsewhere>>
    PROVE  ProxyInv'
<1>1. resp \in [Responses -> Response] /\ \A s \in Responses : Fine(resp[s]) /\ Waits(resp[s], job)
  BY DEF ProxyInv, ProxyTypeOK
<1>2. q \in Response /\ Len(q.queue) <= Capacity
  BY DEF Fine
<1>3. resp' \in [Responses -> Response] /\ resp'[r] = q
      /\ \A s \in Responses : s # r => resp'[s] = resp[s]
  BY <1>1, <1>2 DEF Become
<1>4. /\ job' \in [Commits -> Job] /\ inflight' \subseteq Commits
      /\ {d \in Commits : job'[d].pc # "none"} \subseteq inflight'
      /\ \A s \in Responses : Waits(resp[s], job')
  BY <1>1, SpawnType
<1>5. \A s \in Responses : Len(resp'[s].queue) <= Capacity
  BY <1>1, <1>2, <1>3 DEF Fine
<1>6. ProxyTypeOK'
  BY <1>3, <1>4, <1>5 DEF ProxyInv, ProxyTypeOK
<1> QED
  BY <1>1, <1>3, <1>4, <1>6 DEF ProxyInv

\* A response put at one of its wants.
At(p, todo, want, pc) == [p EXCEPT !.todo = todo, !.want = want, !.pc = pc]

\* Nothing else of it changes.
LEMMA AtWant ==
    ASSUME NEW p, Fine(p), NEW pc \in {"job", "check", "fallback", "generation", "done"},
           NEW todo \in SUBSET Want, NEW want \in SUBSET Want,
           pc \in {"generation", "done"} \/ (\E w \in Want : want = {w})
    PROVE  LET q == At(p, todo, want, pc) IN Fine(q) /\ q.pc = pc /\ q.want = want
<1> DEFINE q == At(p, todo, want, pc)
<1>1. p \in Response
  BY DEF Fine
<1>2. q \in Response
  BY <1>1 DEF Response, At
<1>3. q.queue = p.queue /\ q.stream = p.stream /\ q.warm = p.warm /\ q.spawned = p.spawned
      /\ q.pc = pc /\ q.want = want
  BY <1>1 DEF Response, At
<1> HIDE DEF q
<1>4. Fine(q)
  BY <1>2, <1>3 DEF Fine
<1> QED
  BY <1>3, <1>4 DEF q

\* The next want: its job is spawned, or somebody else's is in flight.
LEMMA GenerationNextKeeps ==
    ASSUME ProxyInv, NEW r \in Responses, GenerationNext(r) PROVE ProxyInv'
<1> DEFINE p == resp[r]
<1>1. p \in Response /\ Fine(p) /\ p.pc = "generation" /\ p.todo \subseteq Want
  BY Typed DEF GenerationNext, Response
<1>2. proof' \in {FirstTips, LaterTips} /\ UNCHANGED <<tips, proof, published, async, elsewhere>>
  BY DEF ProxyInv, ProxyTypeOK, GenerationNext
<1>3. CASE /\ p.todo = {}
           /\ Become(r, [p EXCEPT !.pc = "done", !.want = {}])
           /\ UNCHANGED <<job, inflight>>
  <2> DEFINE todo == p.todo
             q == At(p, todo, {}, "done")
  <2>1. q = [p EXCEPT !.pc = "done", !.want = {}]
    BY <1>1 DEF Response, At
  <2>2. Fine(q) /\ q.pc = "done"
    <3>1. todo \in SUBSET Want /\ {} \in SUBSET Want
      BY <1>1
    <3> HIDE DEF todo
    <3> QED BY <1>1, <3>1, AtWant
  <2>3. Become(r, q)
    BY <1>3, <2>1
  <2> HIDE DEF q
  <2>4. Waits(q, job)
    BY <2>2 DEF Waits
  <2> QED
    BY <1>2, <1>3, <2>2, <2>3, <2>4, BecomeKeeps
<1>4. CASE \E w \in p.todo :
             LET q == [p EXCEPT !.todo = @ \ {w}, !.want = {w}] IN
             IF w.commit \in inflight
             THEN Become(r, [q EXCEPT !.pc = "check"]) /\ UNCHANGED <<job, inflight>>
             ELSE /\ Become(r, [q EXCEPT !.pc = "job"])
                  /\ SpawnJob(w.commit, [pc |-> "queued", branch |-> w.branch, exact |-> FALSE])
  <2>1. PICK w \in p.todo :
             LET q == [p EXCEPT !.todo = @ \ {w}, !.want = {w}] IN
             IF w.commit \in inflight
             THEN Become(r, [q EXCEPT !.pc = "check"]) /\ UNCHANGED <<job, inflight>>
             ELSE /\ Become(r, [q EXCEPT !.pc = "job"])
                  /\ SpawnJob(w.commit, [pc |-> "queued", branch |-> w.branch, exact |-> FALSE])
    BY <1>4
  <2> DEFINE todo == p.todo \ {w}
             want == {w}
             j == [pc |-> "queued", branch |-> w.branch, exact |-> FALSE]
  <2>2. w \in Want /\ todo \in SUBSET Want /\ want \in SUBSET Want
    BY <1>1
  <2>3. w.commit \in Commits /\ w.branch \in Branches
    BY <2>2 DEF Want
  <2>4. /\ Fine(At(p, todo, want, "check")) /\ At(p, todo, want, "check").pc = "check"
        /\ Fine(At(p, todo, want, "job")) /\ At(p, todo, want, "job").pc = "job"
        /\ At(p, todo, want, "job").want = {w}
    <3> HIDE DEF todo
    <3> QED BY <1>1, <2>2, AtWant
  <2>5. CASE w.commit \in inflight
    <3> DEFINE q == At(p, todo, want, "check")
    <3>1. Become(r, q) /\ UNCHANGED <<job, inflight>>
      BY <2>1, <2>5 DEF At
    <3>2. Waits(q, job)
      BY <2>4 DEF Waits
    <3> HIDE DEF q
    <3>3. Fine(q)
      BY <2>4 DEF q
    <3> QED
      BY <1>2, <3>1, <3>2, <3>3, BecomeKeeps
  <2>6. CASE w.commit \notin inflight
    <3> DEFINE q == At(p, todo, want, "job")
    <3>1. Become(r, q) /\ SpawnJob(w.commit, j)
      BY <2>1, <2>6 DEF At
    <3>2. j \in Job /\ j.pc = "queued"
      BY <2>3 DEF Job
    <3> HIDE DEF j
    <3>3. job'[w.commit] = j
      BY <2>3, <2>6, <3>1, <3>2, SpawnType
    <3>4. Fine(q) /\ q.pc = "job" /\ q.want = {w}
      BY <2>4
    <3> HIDE DEF q
    <3>5. Waits(q, job')
      BY <3>2, <3>3, <3>4 DEF Waits
    <3> QED
      BY <1>2, <2>3, <2>6, <3>1, <3>2, <3>4, <3>5, SpawnKeeps
  <2> QED BY <2>5, <2>6
<1> QED
  BY <1>3, <1>4 DEF GenerationNext

\* The served commit is looked for, and published by itself when it is missing.
LEMMA EnsureKeeps ==
    ASSUME ProxyInv, NEW r \in Responses, EnsureServedWantPublished(r) PROVE ProxyInv'
<1> DEFINE p == resp[r]
<1>1. p \in Response /\ Fine(p) /\ p.pc = "check" /\ p.todo \subseteq Want
  BY Typed DEF EnsureServedWantPublished, Response
<1>2. PICK w \in Want : p.want = {w}
  BY <1>1 DEF Fine
<1>3. (CHOOSE x \in p.want : TRUE) = w
  BY <1>2
<1>4. proof' \in {FirstTips, LaterTips} /\ UNCHANGED <<tips, proof, published, async, elsewhere>>
  BY DEF ProxyInv, ProxyTypeOK, EnsureServedWantPublished
<1> DEFINE todo == p.todo
           want == p.want
           j == [pc |-> "queued", branch |-> w.branch, exact |-> TRUE]
           unread == [p EXCEPT !.pc = "generation", !.clean = FALSE]
<1>5. \A pc : [p EXCEPT !.pc = pc] = At(p, todo, want, pc)
  BY <1>1 DEF Response, At
<1>6. \/ Become(r, At(p, todo, want, "generation")) /\ UNCHANGED <<job, inflight>>
      \/ /\ w.commit \notin published \cup inflight
         /\ Become(r, At(p, todo, want, "fallback")) /\ SpawnJob(w.commit, j)
      \/ Become(r, unread) /\ UNCHANGED <<job, inflight>>
  BY <1>3, <1>5 DEF EnsureServedWantPublished
<1>7. w.commit \in Commits /\ w.branch \in Branches
  BY DEF Want
<1>8. /\ Fine(At(p, todo, want, "generation")) /\ At(p, todo, want, "generation").pc = "generation"
      /\ Fine(At(p, todo, want, "fallback")) /\ At(p, todo, want, "fallback").pc = "fallback"
      /\ At(p, todo, want, "fallback").want = {w}
  <2>1. todo \in SUBSET Want /\ want \in SUBSET Want /\ want = {w}
    BY <1>1, <1>2
  <2> HIDE DEF todo, want
  <2> QED BY <1>1, <2>1, AtWant
<1>9. ASSUME NEW q \in {At(p, todo, want, "generation"), unread}, Become(r, q),
              UNCHANGED <<job, inflight>>
      PROVE  ProxyInv'
  <2>1. CASE q = At(p, todo, want, "generation")
    <3>1. Fine(q) /\ q.pc = "generation"
      BY <1>8, <2>1
    <3>2. Waits(q, job)
      BY <3>1 DEF Waits
    <3> QED
      BY <1>4, <1>9, <3>1, <3>2, BecomeKeeps
  <2>2. CASE q = unread
    <3>1. q \in Response /\ q.queue = p.queue /\ q.stream = p.stream /\ q.warm = p.warm
          /\ q.spawned = p.spawned /\ q.pc = "generation"
      BY <1>1, <2>2 DEF Response
    <3>2. Fine(q)
      BY <1>1, <3>1 DEF Fine
    <3>3. Waits(q, job)
      BY <3>1 DEF Waits
    <3> QED
      BY <1>4, <1>9, <3>2, <3>3, BecomeKeeps
  <2> QED BY <1>9, <2>1, <2>2
<1>10. ASSUME w.commit \notin published \cup inflight,
              Become(r, At(p, todo, want, "fallback")), SpawnJob(w.commit, j)
       PROVE  ProxyInv'
  <2> DEFINE q == At(p, todo, want, "fallback")
  <2>1. Become(r, q) /\ SpawnJob(w.commit, j)
    BY <1>10
  <2>2. j \in Job /\ j.pc = "queued" /\ j.exact
    BY <1>7 DEF Job
  <2> HIDE DEF j
  <2>3. job'[w.commit] = j
    BY <1>7, <1>10, <2>1, <2>2, SpawnType
  <2>4. Fine(q) /\ q.pc = "fallback" /\ q.want = {w}
    BY <1>8
  <2> HIDE DEF q
  <2>5. Waits(q, job')
    BY <2>2, <2>3, <2>4 DEF Waits
  <2> QED
    BY <1>4, <1>7, <1>10, <2>1, <2>2, <2>4, <2>5, SpawnKeeps
<1> QED
  BY <1>6, <1>9, <1>10

\* A step that leaves the responses alone, and what they wait for.
LEMMA OthersKeep ==
    ASSUME ProxyInv, UNCHANGED resp, ProxyTypeOK',
           \A p \in Response : Waits(p, job) => Waits(p, job')
    PROVE  ProxyInv'
<1>1. \A r \in Responses : resp[r] \in Response /\ Fine(resp[r]) /\ Waits(resp[r], job)
  BY Typed
<1> QED
  BY <1>1 DEF ProxyInv

\* A materialize request, upstream and the other repositories.
LEMMA SurroundingsKeep ==
    ASSUME ProxyInv, MaterializeAsync \/ UpstreamPush \/ ImportElsewhere \/ ImportElsewhereEnds
    PROVE  ProxyInv'
<1>0. ProxyTypeOK
  BY DEF ProxyInv
<1>1. CASE MaterializeAsync
  <2>1. PICK b \in Branches :
          /\ tips[b] \notin published \cup inflight
          /\ SpawnJob(tips[b], [pc |-> "queued", branch |-> b, exact |-> FALSE])
    BY <1>1 DEF MaterializeAsync
  <2> DEFINE j == [pc |-> "queued", branch |-> b, exact |-> FALSE]
             c == tips[b]
  <2>2. c \in Commits /\ j \in Job
    BY <1>0, Constants DEF ProxyTypeOK, Job
  <2>3. c \notin inflight /\ SpawnJob(c, j)
    BY <2>1
  <2> HIDE DEF j, c
  <2>4. /\ job' \in [Commits -> Job] /\ inflight' \subseteq Commits
        /\ {d \in Commits : job'[d].pc # "none"} \subseteq inflight'
        /\ \A p \in Response : Waits(p, job) => Waits(p, job')
    BY <2>2, <2>3, SpawnType
  <2>5. async' \in 0 .. MaxAsync
    BY <1>0, <1>1, Constants DEF MaterializeAsync, ProxyTypeOK
  <2>6. ProxyTypeOK'
    BY <1>0, <1>1, <2>4, <2>5 DEF MaterializeAsync, ProxyTypeOK
  <2> QED
    BY <1>1, <2>4, <2>6, OthersKeep DEF MaterializeAsync
<1>2. CASE UpstreamPush
  <2>1. ProxyTypeOK' /\ UNCHANGED <<resp, job>>
    BY <1>0, <1>2 DEF UpstreamPush, ProxyTypeOK
  <2> QED BY <2>1, OthersKeep
<1>3. CASE ImportElsewhere \/ ImportElsewhereEnds
  <2> DEFINE S == {r \in Responses : resp[r].pc \in {"import", "warm"}}
  <2>1. Cardinality(S) \in Nat
    <3>1. IsFiniteSet(S)
      <4>1. S \subseteq Responses
        OBVIOUS
      <4> HIDE DEF S
      <4> QED BY <4>1, Constants, FS_Subset
    <3> HIDE DEF S
    <3> QED BY <3>1, FS_CardinalityType
  <2>2. elsewhere \in 0 .. ImportPermits /\ ImportPermits \in Nat
    BY <1>0, Constants DEF ProxyTypeOK
  <2>3. elsewhere' \in 0 .. ImportPermits
    <3>1. CASE ImportElsewhere
      <4>1. Cardinality(S) + elsewhere < ImportPermits /\ elsewhere' = elsewhere + 1
        BY <3>1 DEF ImportElsewhere, ImportPermitFree
      <4> HIDE DEF S
      <4> QED BY <2>1, <2>2, <4>1
    <3>2. CASE ImportElsewhereEnds
      BY <2>2, <3>2 DEF ImportElsewhereEnds
    <3> QED BY <1>3, <3>1, <3>2
  <2>4. UNCHANGED <<tips, proof, resp, job, inflight, published, async>>
    BY <1>3 DEF ImportElsewhere, ImportElsewhereEnds
  <2>5. ProxyTypeOK'
    BY <1>0, <2>3, <2>4 DEF ProxyTypeOK
  <2> QED BY <2>4, <2>5, OthersKeep
<1> QED
  BY <1>1, <1>2, <1>3

\* A job gets its permit.
LEMMA StartJobKeeps == ASSUME ProxyInv, NEW c \in Commits, StartJob(c) PROVE ProxyInv'
<1>0. ProxyTypeOK
  BY DEF ProxyInv
<1>1. job[c].pc = "queued" /\ job' = [job EXCEPT ![c].pc = "running"]
      /\ UNCHANGED <<tips, proof, resp, inflight, published, async, elsewhere>>
  BY DEF StartJob
<1> DEFINE j == [job[c] EXCEPT !.pc = "running"]
<1>2. job[c] \in Job
  BY Jobs
<1>3. j \in Job /\ j.pc = "running" /\ j.exact = job[c].exact
  BY <1>2 DEF Job
<1>4. job' = [job EXCEPT ![c] = j]
  BY <1>1
<1> HIDE DEF j
<1>5. job' \in [Commits -> Job] /\ \A d \in Commits :
        job'[d].pc # "none" <=> job[d].pc # "none"
  BY <1>1, <1>3, <1>4, Jobs
<1>6. \A d \in Commits : job'[d].exact = job[d].exact
  BY <1>3, <1>4, Jobs
<1>7. ProxyTypeOK'
  BY <1>0, <1>1, <1>5 DEF ProxyTypeOK
<1>8. ASSUME NEW p \in Response, Waits(p, job) PROVE Waits(p, job')
  <2>1. \A w \in p.want : w.commit \in Commits
    BY DEF Response, Want
  <2> QED BY <1>5, <1>6, <1>8, <2>1 DEF Waits
<1> QED
  BY <1>1, <1>7, <1>8, OthersKeep

\* The one who waited for a job goes on, to a place where it waits for none.
Woken(p, ok) == [p EXCEPT !.pc = IF p.pc = "job" THEN "check" ELSE "generation",
                          !.clean = p.clean /\ ok]

\* It waited for the job of c.
Waited(p, c) == p.pc \in {"job", "fallback"} /\ \A w \in p.want : w.commit = c

\* Waking up leaves a response fine.
LEMMA WokenFine ==
    ASSUME NEW p, Fine(p), NEW c, Waited(p, c), NEW ok \in BOOLEAN
    PROVE  LET q == Woken(p, ok) IN
           /\ Fine(q) /\ q.pc = (IF p.pc = "job" THEN "check" ELSE "generation")
           /\ q.clean = (p.clean /\ ok)
<1> DEFINE q == Woken(p, ok)
           pc == IF p.pc = "job" THEN "check" ELSE "generation"
           clean == p.clean /\ ok
<1>1. p \in Response /\ \E w \in Want : p.want = {w}
  BY DEF Fine, Waited
<1>2. pc \in {"check", "generation"} /\ clean \in BOOLEAN
  OBVIOUS
<1>3. q = [p EXCEPT !.pc = pc, !.clean = clean]
  BY DEF Woken
<1> HIDE DEF pc, clean, q
<1>4. q \in Response
  BY <1>1, <1>2, <1>3, ZenonT(60) DEF Response
<1>5. q.queue = p.queue /\ q.stream = p.stream /\ q.warm = p.warm /\ q.spawned = p.spawned
      /\ q.pc = pc /\ q.want = p.want
  BY <1>1, <1>3 DEF Response
<1>6. q.clean = clean
  BY <1>1, <1>3 DEF Response
<1>7. Fine(q)
  BY <1>1, <1>4, <1>5 DEF Fine
<1> QED
  BY <1>5, <1>6, <1>7 DEF q, pc, clean

\* Awake, response by response.
LEMMA AwakeEach ==
    ASSUME ProxyInv, NEW c \in Commits, NEW ok \in BOOLEAN, Awake(c, ok)
    PROVE  /\ \A r \in Responses :
                resp'[r] = IF Waited(resp[r], c) THEN Woken(resp[r], ok) ELSE resp[r]
           /\ resp' \in [Responses -> Response] /\ \A r \in Responses : Fine(resp'[r])
<1>1. resp' = [r \in Responses |-> IF Waited(resp[r], c) THEN Woken(resp[r], ok) ELSE resp[r]]
  BY DEF Awake, Waited, Woken
<1>2. \A r \in Responses : Fine(resp[r])
  BY DEF ProxyInv
<1>3. \A r \in Responses : Fine(resp'[r])
  BY <1>1, <1>2, WokenFine
<1>4. \A r \in Responses : resp'[r] \in Response
  BY <1>3 DEF Fine
<1> QED
  BY <1>1, <1>3, <1>4

\* A job ends, and with it the wait for it; the others still have theirs.
LEMMA JobEnds ==
    ASSUME ProxyInv, NEW c \in Commits, NEW ok \in BOOLEAN, Awake(c, ok),
           job' = [job EXCEPT ![c] = NoJob], inflight' \in {inflight, inflight \ {c}},
           published' \subseteq Commits, UNCHANGED <<tips, proof, async, elsewhere>>
    PROVE  ProxyInv'
<1>1. job' \in [Commits -> Job] /\ job'[c].pc = "none"
      /\ \A d \in Commits : d # c => job'[d] = job[d]
  BY Jobs, NoJobType
<1>2. inflight' \subseteq Commits /\ {d \in Commits : job'[d].pc # "none"} \subseteq inflight'
  BY <1>1, Jobs
<1>3. /\ \A r \in Responses :
           resp'[r] = IF Waited(resp[r], c) THEN Woken(resp[r], ok) ELSE resp[r]
      /\ resp' \in [Responses -> Response] /\ \A r \in Responses : Fine(resp'[r])
  BY AwakeEach
<1>4. \A r \in Responses : Len(resp'[r].queue) <= Capacity
  BY <1>3 DEF Fine
<1>5. ProxyTypeOK'
  BY <1>1, <1>2, <1>3, <1>4 DEF ProxyInv, ProxyTypeOK
<1>6. ASSUME NEW r \in Responses PROVE Waits(resp'[r], job')
  <2> DEFINE p == resp[r]
  <2>1. Fine(p) /\ Waits(p, job)
    BY Typed
  <2>2. CASE Waited(p, c)
    <3> DEFINE q == Woken(p, ok)
    <3>1. q.pc \in {"check", "generation"} /\ resp'[r] = q
      BY <1>3, <2>1, <2>2, WokenFine
    <3> HIDE DEF q
    <3> QED BY <3>1 DEF Waits
  <2>3. CASE ~Waited(p, c)
    <3>1. resp'[r] = p
      BY <1>3, <2>3
    <3>2. SUFFICES ASSUME p.pc \in {"job", "fallback"} PROVE Waits(p, job')
      BY <3>1 DEF Waits
    <3>3. PICK w \in Want : p.want = {w}
      BY <2>1, <3>2 DEF Fine
    <3>4. w.commit \in Commits /\ w.commit # c
      BY <2>3, <3>2, <3>3 DEF Waited, Want
    <3> QED BY <1>1, <2>1, <3>2, <3>3, <3>4 DEF Waits
  <2> QED BY <2>2, <2>3
<1> QED
  BY <1>3, <1>5, <1>6 DEF ProxyInv

\* A job ends with success, failure or a panic.
LEMMA FinishKeeps ==
    ASSUME ProxyInv, NEW c \in Commits, FinishJob(c) \/ JobPanics(c) PROVE ProxyInv'
<1>1. published \subseteq Commits /\ job[c] \in Job /\ tips \in [Branches -> Commits]
  BY Jobs, Constants DEF ProxyInv, ProxyTypeOK
<1>2. CASE FinishJob(c)
  <2>1. job[c].branch \in Branches
    BY <1>1 DEF Job
  <2>2. PICK ok \in BOOLEAN : Awake(c, ok) /\ published' \subseteq Commits
    BY <1>1, <1>2, <2>1 DEF FinishJob
  <2> QED
    BY <1>2, <2>2, JobEnds DEF FinishJob
<1>3. CASE JobPanics(c)
  BY <1>1, <1>3, JobEnds DEF JobPanics
<1> QED
  BY <1>2, <1>3

\* Every step keeps the invariant.
LEMMA ProxyInvStep == ASSUME ProxyInv, [Next]_vars PROVE ProxyInv'
<1>1. CASE UNCHANGED vars
  BY <1>1 DEF vars, ProxyInv, ProxyTypeOK
<1>2. ASSUME NEW r \in Responses, Client(r) PROVE ProxyInv'
  BY <1>2, AdvertiseKeeps, PostKeeps, ChunkKeeps, StreamEndsKeeps, StreamDroppedKeeps DEF Client
<1>3. ASSUME NEW r \in Responses, Writer(r) PROVE ProxyInv'
  BY <1>3, WriterStartsKeeps, WriterReceivesKeeps, WriterStopsKeeps DEF Writer
<1>4. ASSUME NEW r \in Responses, FollowUp(r) PROVE ProxyInv'
  BY <1>4, FollowUpMoves, GenerationNextKeeps, EnsureKeeps DEF FollowUp
<1>5. ASSUME NEW c \in Commits, RunJob(c) PROVE ProxyInv'
  BY <1>5, StartJobKeeps, FinishKeeps DEF RunJob
<1>6. CASE MaterializeAsync \/ UpstreamPush \/ ImportElsewhere \/ ImportElsewhereEnds
  BY <1>6, SurroundingsKeep
<1> QED
  BY <1>1, <1>2, <1>3, <1>4, <1>5, <1>6 DEF Next

-----------------------------------------------------------------------------
(* What was served is published                                            *)

\* tee_chunk leaves the follow-up alone.
LEMMA TeeChunkPc ==
    ASSUME NEW p \in Response, NEW chunk PROVE TeeChunk(p, chunk).pc = p.pc
<1> DEFINE state == Feed(p, chunk).state
           buf == Feed(p, chunk).buf
           sink == Feed(p, chunk).sink
           pieces == p.pieces + Len(sink)
           fed == [p EXCEPT !.state = state, !.buf = buf, !.pieces = pieces]
           queue == Append(fed.queue, sink)
<1>1. TeeChunk(p, chunk) \in {p, DropTee(p), fed, [fed EXCEPT !.queue = queue]}
  BY DEF TeeChunk
<1> HIDE DEF state, buf, pieces, queue
<1>2. fed.pc = p.pc /\ [fed EXCEPT !.queue = queue].pc = p.pc
  BY DEF Response
<1>3. DropTee(p).pc = p.pc
  BY DropTeeType DEF Rest
<1> HIDE DEF fed
<1> QED
  BY <1>1, <1>2, <1>3

\* The stream and the writer leave it where it is, or send it to its beginning.
LEMMA StreamPc ==
    ASSUME ProxyInv, NEW r \in Responses, Client(r) \/ Writer(r)
    PROVE  /\ resp'[r].pc \in {resp[r].pc, "writer", "warmPermit"}
           /\ \A s \in Responses : s # r => resp'[s] = resp[s]
<1> DEFINE p == resp[r]
<1>0. p \in Response /\ resp \in [Responses -> Response]
  BY Typed
<1>1. ASSUME NEW q, Become(r, q), q.pc \in {p.pc, "writer", "warmPermit"}
      PROVE  /\ resp'[r].pc \in {p.pc, "writer", "warmPermit"}
             /\ \A s \in Responses : s # r => resp'[s] = resp[s]
  BY <1>0, <1>1 DEF Become
<1>2. CASE Advertise(r)
  <2> DEFINE q == [p EXCEPT !.stream = "advertised", !.saw = tips]
  <2>1. Become(r, q)
    BY <1>2 DEF Advertise
  <2>2. q.pc = p.pc
    BY <1>0 DEF Response
  <2> HIDE DEF q
  <2> QED BY <1>1, <2>1, <2>2
<1>3. CASE Post(r)
  <2>1. PICK k \in Kinds[r], comparison \in {proof, tips} :
          Become(r, [p EXCEPT
            !.stream = "open", !.kind = k, !.warm = TRUE, !.saw = FirstTips,
            !.tee = k.tee, !.writer = IF k.tee THEN "start" ELSE "none",
            !.todo = GenerationWants(k, p.saw, comparison)])
    BY <1>3 DEF Post
  <2> DEFINE writer == IF k.tee THEN "start" ELSE "none"
             todo == GenerationWants(k, p.saw, comparison)
             tee == k.tee
             q == [p EXCEPT !.stream = "open", !.kind = k, !.warm = TRUE, !.saw = FirstTips,
                            !.tee = tee, !.writer = writer, !.todo = todo]
  <2>2. Become(r, q)
    BY <2>1
  <2> HIDE DEF writer, todo, tee
  <2>3. q.pc = p.pc
    BY <1>0 DEF Response
  <2> HIDE DEF q
  <2> QED BY <1>1, <2>2, <2>3, SMTT(60)
<1>4. CASE Chunk(r)
  <2>1. PICK n \in ChunkSizes :
          LET q == [p EXCEPT !.pos = @ + n] IN
          Become(r, IF q.pos > MaxBytes THEN [q EXCEPT !.stream = "failed"]
                    ELSE TeeChunk(q, SubSeq(p.kind.wire, p.pos + 1, q.pos)))
    BY <1>4 DEF Chunk
  <2> DEFINE pos == p.pos + n
             q == [p EXCEPT !.pos = pos]
             chunk == SubSeq(p.kind.wire, p.pos + 1, q.pos)
             failed == [q EXCEPT !.stream = "failed"]
             t == TeeChunk(q, chunk)
  <2>2. Become(r, failed) \/ Become(r, t)
    BY <2>1
  <2>3. pos \in Nat
    BY <1>0, Constants DEF Response
  <2> HIDE DEF pos
  <2>4. q \in Response /\ q.pc = p.pc
    BY <1>0, <2>3 DEF Response
  <2> HIDE DEF q, chunk
  <2>5. failed.pc = p.pc
    BY <2>4 DEF Response
  <2>6. t.pc = p.pc
    BY <2>4, TeeChunkPc
  <2> HIDE DEF failed, t
  <2> QED BY <1>1, <2>2, <2>5, <2>6
<1>5. CASE StreamEnds(r)
  <2> DEFINE d == DropTee(p)
             ended == [d EXCEPT !.stream = "ended", !.warm = FALSE, !.spawned = d.spawned + 1]
             queue == Append(ended.queue, Done)
             a == [ended EXCEPT !.pc = "writer", !.queue = queue]
             b == [ended EXCEPT !.pc = "warmPermit"]
  <2>1. Become(r, a) \/ Become(r, b)
    BY <1>5 DEF StreamEnds
  <2>2. d \in Response
    BY <1>0, DropTeeType
  <2> HIDE DEF d, queue
  <2>3. a.pc = "writer" /\ b.pc = "warmPermit"
    BY <2>2 DEF Response
  <2> HIDE DEF a, b
  <2> QED BY <1>1, <2>1, <2>3
<1>6. CASE StreamDropped(r)
  <2> DEFINE d == DropTee(p)
             spawned == IF p.warm THEN d.spawned + 1 ELSE d.spawned
             pc == IF p.warm THEN "warmPermit" ELSE d.pc
             q == [d EXCEPT !.stream = "dropped", !.pos = 0, !.warm = FALSE,
                            !.spawned = spawned, !.pc = pc]
  <2>1. Become(r, q)
    BY <1>6 DEF StreamDropped
  <2>2. d \in Response /\ d.pc = p.pc
    BY <1>0, DropTeeType DEF Rest
  <2>3. pc \in {p.pc, "warmPermit"}
    BY <2>2
  <2> HIDE DEF d, spawned, pc
  <2>4. q.pc = pc
    BY <2>2 DEF Response
  <2> HIDE DEF q
  <2> QED BY <1>1, <2>1, <2>3, <2>4
<1>7. CASE WriterStarts(r)
  <2> DEFINE q == [p EXCEPT !.writer = "recv", !.reserved = 1]
  <2>1. Become(r, q)
    BY <1>7 DEF WriterStarts
  <2>2. q.pc = p.pc
    BY <1>0 DEF Response
  <2> HIDE DEF q
  <2> QED BY <1>1, <2>1, <2>2
<1>8. CASE WriterReceives(r)
  <2> DEFINE queue == Tail(p.queue)
             spool == p.spool \o Head(p.queue)
             reserved == p.reserved + 1
             a == [p EXCEPT !.writer = "output", !.queue = queue]
             b == [p EXCEPT !.spool = spool, !.queue = queue, !.reserved = reserved]
  <2>1. Become(r, a) \/ Become(r, b)
    BY <1>8 DEF WriterReceives
  <2> HIDE DEF queue, spool, reserved
  <2>2. a.pc = p.pc /\ b.pc = p.pc
    BY <1>0 DEF Response
  <2> HIDE DEF a, b
  <2> QED BY <1>1, <2>1, <2>2
<1>9. CASE WriterFails(r) \/ WriterAbandoned(r)
  <2> DEFINE f == Forget(p)
             q == [f EXCEPT !.writer = "nothing", !.queue = <<>>]
  <2>1. Become(r, q)
    BY <1>9 DEF WriterFails, WriterAbandoned, WriterStops
  <2>2. f \in Response /\ f.pc = p.pc
    BY <1>0, ForgetType DEF Rest
  <2> HIDE DEF f
  <2>3. q.pc = p.pc
    BY <2>2 DEF Response
  <2> HIDE DEF q
  <2> QED BY <1>1, <2>1, <2>3
<1> QED
  BY <1>2, <1>3, <1>4, <1>5, <1>6, <1>7, <1>8, <1>9 DEF Client, Writer

\* A follow-up elsewhere, or one that is not at a want, leaves a task at its want.
LEMMA FollowUpElsewhere ==
    ASSUME ProxyInv, NEW s \in Responses, FollowUp(s), NEW r \in Responses,
           resp[r].pc \in {"check", "fallback"}
    PROVE  (s = r /\ EnsureServedWantPublished(r)) \/ resp'[r] = resp[r]
<1>1. CASE s = r
  BY <1>1 DEF FollowUp, AwaitWriter, AcquireImportPermit, Import, Warm, GenerationNext
<1>2. CASE s # r
  <2>1. \E q : Become(s, q)
    <3>1. CASE AwaitWriter(s) \/ AcquireImportPermit(s) \/ Import(s) \/ Warm(s)
      BY <3>1 DEF AwaitWriter, AcquireImportPermit, Import, Warm
    <3>2. CASE GenerationNext(s) \/ EnsureServedWantPublished(s)
      BY <3>2 DEF GenerationNext, EnsureServedWantPublished
    <3> QED BY <3>1, <3>2 DEF FollowUp
  <2>2. resp \in [Responses -> Response]
    BY Typed
  <2> QED BY <1>2, <2>1, <2>2 DEF Become
<1> QED
  BY <1>1, <1>2

\* The step in which a clean task leaves a want: the commit is published or in
\* flight, or its own job has just published it.
LEMMA ServedStep ==
    ASSUME ProxyInv, [Next]_vars, NEW r \in Responses, resp[r].pc \in {"check", "fallback"},
           resp'[r].pc = "generation", resp'[r].clean, NEW w \in resp[r].want
    PROVE  w.commit \in published' \cup inflight
<1> DEFINE p == resp[r]
<1>0. p \in Response /\ Fine(p) /\ Waits(p, job) /\ p.pc # "generation"
  BY Typed
<1>1. resp'[r] # p
  BY <1>0
<1>2. CASE UNCHANGED vars
  BY <1>1, <1>2 DEF vars
<1>3. ASSUME NEW s \in Responses, Client(s) \/ Writer(s) PROVE FALSE
  BY <1>1, <1>3, StreamPc
<1>4. ASSUME NEW s \in Responses, FollowUp(s) PROVE w.commit \in published' \cup inflight
  <2>1. EnsureServedWantPublished(r)
    BY <1>1, <1>4, FollowUpElsewhere
  <2>2. p.want = {w}
    BY <1>0 DEF Fine
  <2>3. (CHOOSE x \in p.want : TRUE) = w
    BY <2>2
  <2>4. CASE w.commit \in published \cup inflight
    BY <2>1, <2>4 DEF EnsureServedWantPublished
  <2>5. CASE w.commit \notin published \cup inflight
    <3> DEFINE fallback == [p EXCEPT !.pc = "fallback"]
               unread == [p EXCEPT !.pc = "generation", !.clean = FALSE]
    <3>1. (Become(r, fallback) \/ Become(r, unread)) /\ resp \in [Responses -> Response]
      BY <2>1, <2>3, <2>5, Typed DEF EnsureServedWantPublished
    <3>2. fallback.pc = "fallback" /\ unread.clean = FALSE
      BY <1>0 DEF Response
    <3> HIDE DEF fallback, unread
    <3>3. resp'[r] = fallback \/ resp'[r] = unread
      BY <3>1 DEF Become
    <3> QED BY <3>2, <3>3
  <2> QED BY <2>4, <2>5
<1>5. ASSUME NEW c \in Commits, RunJob(c) PROVE w.commit \in published' \cup inflight
  <2>1. CASE StartJob(c)
    BY <1>1, <2>1 DEF StartJob
  <2>2. ASSUME NEW ok \in BOOLEAN, Awake(c, ok)
        PROVE  ok /\ p.pc = "fallback" /\ w.commit = c /\ job[c].exact
    <3> DEFINE q == Woken(p, ok)
    <3>1. Waited(p, c) /\ resp'[r] = q
      BY <1>1, <2>2, AwakeEach
    <3>2. q.clean = (p.clean /\ ok) /\ q.pc = (IF p.pc = "job" THEN "check" ELSE "generation")
      BY <1>0, <3>1, WokenFine
    <3> HIDE DEF q
    <3>3. ok /\ p.pc = "fallback" /\ w.commit = c
      BY <3>1, <3>2 DEF Waited
    <3> QED BY <1>0, <3>3 DEF Waits
  <2>3. CASE JobPanics(c)
    BY <2>2, <2>3 DEF JobPanics
  <2>4. CASE FinishJob(c)
    <3>1. ~Awake(c, FALSE)
      BY <2>2
    <3>2. Awake(c, TRUE)
          /\ published' = published \cup {IF job[c].exact THEN c ELSE tips[job[c].branch]}
      BY <2>4, <3>1 DEF FinishJob
    <3>3. job[c].exact /\ w.commit = c
      BY <2>2, <3>2
    <3> QED BY <3>2, <3>3
  <2> QED BY <1>5, <2>1, <2>3, <2>4 DEF RunJob
<1>6. CASE MaterializeAsync \/ UpstreamPush \/ ImportElsewhere \/ ImportElsewhereEnds
  BY <1>1, <1>6 DEF MaterializeAsync, UpstreamPush, ImportElsewhere, ImportElsewhereEnds
<1> QED
  BY <1>2, <1>3, <1>4, <1>5, <1>6 DEF Next

-----------------------------------------------------------------------------
(* The theorems                                                            *)

\* Whatever upstream sends, the channel keeps its bound, no import is let in
\* beyond the permits, and every job that exists has its key in flight.
THEOREM ProxyTypeCorrect == Spec => []ProxyTypeOK
<1>1. ProxyInv => ProxyTypeOK
  BY DEF ProxyInv
<1> QED
  BY <1>1, ProxyInvInit, ProxyInvStep, PTL DEF Spec

\* UpstreamProxyStream spawns one follow-up for a response, however it ends.
THEOREM FollowedUpOnce == Spec => []OneFollowUp
<1>1. ProxyInv => OneFollowUp
  BY DEF ProxyInv, Fine, OneFollowUp
<1> QED
  BY <1>1, ProxyInvInit, ProxyInvStep, PTL DEF Spec

\* ensure_served_want_published: a task whose jobs succeeded does not leave a
\* want that nobody publishes, wherever its branch has moved.
THEOREM WantsPublished == Spec => ServedWantPublished
<1> DEFINE Left ==
      \A r \in Responses :
        resp[r].pc \in {"check", "fallback"} /\ resp'[r].pc = "generation" /\ resp'[r].clean =>
            \A w \in resp[r].want : w.commit \in published' \cup inflight
<1>1. ProxyInv /\ [Next]_vars => [Left]_vars
  BY ServedStep
<1>2. ServedWantPublished <=> [][Left]_vars
  BY DEF ServedWantPublished
<1> QED
  BY <1>1, <1>2, ProxyInvInit, ProxyInvStep, PTL DEF Spec

-----------------------------------------------------------------------------
(* The pack data of a prefix of the wire, and of the channel               *)

Packed(wire, i, P) ==
    IF i = 0 THEN <<>>
    ELSE IF Carries(wire[i]) THEN Append(P[i - 1], wire[i].data) ELSE P[i - 1]
IsPacking(wire, k, P) == P = [i \in 0 .. k |-> Packed(wire, i, P)]
ThePacking(wire, k) == CHOOSE P : IsPacking(wire, k, P)

Joined(q, i, J) == IF i = 0 THEN <<>> ELSE J[i - 1] \o q[i]
IsJoin(q, k, J) == J = [i \in 0 .. k |-> Joined(q, i, J)]
TheJoin(q, k) == CHOOSE J : IsJoin(q, k, J)

\* The recursive function of Pack exists.
LEMMA PackingExists ==
    ASSUME NEW wire, NEW k \in Nat PROVE IsPacking(wire, k, ThePacking(wire, k))
<1> DEFINE Bad == {n \in Nat : \A P : ~IsPacking(wire, n, P)}
<1>1. SUFFICES ASSUME Bad # {} PROVE FALSE
  BY DEF ThePacking
<1>2. PICK n \in Bad : \A m \in Bad : n <= m
  <2> HIDE DEF Bad
  <2>1. Bad \in SUBSET Nat BY DEF Bad
  <2> QED BY <1>1, <2>1, LeastNat
<1>3. n # 0
  <2>1. IsPacking(wire, 0, [i \in 0 .. 0 |-> <<>>])
    BY DEF IsPacking, Packed
  <2> QED BY <2>1
<1>4. PICK P : IsPacking(wire, n - 1, P)
  BY <1>2, <1>3
<1> DEFINE G == [i \in 0 .. n |-> Packed(wire, i, P)]
<1>5. \A i \in 0 .. n - 1 : G[i] = P[i]
  BY <1>4 DEF IsPacking
<1>6. \A i \in 0 .. n : Packed(wire, i, G) = Packed(wire, i, P)
  <2> SUFFICES ASSUME NEW i \in 0 .. n PROVE Packed(wire, i, G) = Packed(wire, i, P)
    OBVIOUS
  <2>1. CASE i = 0
    BY <2>1 DEF Packed
  <2>2. CASE i # 0
    <3>1. G[i - 1] = P[i - 1]
      BY <1>5, <2>2
    <3> HIDE DEF G
    <3> QED BY <3>1 DEF Packed
  <2> QED BY <2>1, <2>2
<1>7. IsPacking(wire, n, G)
  <2>1. G = [i \in 0 .. n |-> Packed(wire, i, G)]
    BY <1>6
  <2> HIDE DEF G
  <2> QED BY <2>1 DEF IsPacking
<1> QED
  BY <1>7

\* The recursive function of Flatten exists.
LEMMA JoinExists ==
    ASSUME NEW q, NEW k \in Nat PROVE IsJoin(q, k, TheJoin(q, k))
<1> DEFINE Bad == {n \in Nat : \A J : ~IsJoin(q, n, J)}
<1>1. SUFFICES ASSUME Bad # {} PROVE FALSE
  BY DEF TheJoin
<1>2. PICK n \in Bad : \A m \in Bad : n <= m
  <2> HIDE DEF Bad
  <2>1. Bad \in SUBSET Nat BY DEF Bad
  <2> QED BY <1>1, <2>1, LeastNat
<1>3. n # 0
  <2>1. IsJoin(q, 0, [i \in 0 .. 0 |-> <<>>])
    BY DEF IsJoin, Joined
  <2> QED BY <2>1
<1>4. PICK J : IsJoin(q, n - 1, J)
  BY <1>2, <1>3
<1> DEFINE G == [i \in 0 .. n |-> Joined(q, i, J)]
<1>5. \A i \in 0 .. n - 1 : G[i] = J[i]
  BY <1>4 DEF IsJoin
<1>6. \A i \in 0 .. n : Joined(q, i, G) = Joined(q, i, J)
  <2> SUFFICES ASSUME NEW i \in 0 .. n PROVE Joined(q, i, G) = Joined(q, i, J)
    OBVIOUS
  <2>1. CASE i = 0
    BY <2>1 DEF Joined
  <2>2. CASE i # 0
    <3>1. i - 1 \in 0 .. n - 1
      BY <2>2
    <3> HIDE DEF G
    <3>2. G[i - 1] = J[i - 1]
      BY <1>5, <3>1
    <3> QED BY <2>2, <3>2 DEF Joined
  <2> QED BY <2>1, <2>2
<1>7. IsJoin(q, n, G)
  <2>1. G = [i \in 0 .. n |-> Joined(q, i, G)]
    BY <1>6
  <2> HIDE DEF G
  <2> QED BY <2>1 DEF IsJoin
<1> QED
  BY <1>7

\* Its values, and Pack as the last of them.
LEMMA PackingIs ==
    ASSUME NEW wire \in Seq(Unit)
    PROVE  LET P == ThePacking(wire, Len(wire)) IN
           /\ Pack(wire) = P[Len(wire)]
           /\ \A i \in 0 .. Len(wire) : P[i] = Packed(wire, i, P)
<1> DEFINE k == Len(wire)
           P == ThePacking(wire, k)
<1>0. k \in Nat
  OBVIOUS
<1>1. Pack(wire) = P[k]
  BY Zenon DEF Pack, ThePacking, IsPacking, Packed
<1>2. P = [i \in 0 .. k |-> Packed(wire, i, P)]
  <2> HIDE DEF k
  <2> QED BY <1>0, PackingExists DEF IsPacking
<1> HIDE DEF P, k
<1>3. \A i \in 0 .. k : P[i] = Packed(wire, i, P)
  BY <1>2
<1> QED
  BY <1>1, <1>3 DEF P, k

\* The concatenation of two messages.
Cat(s, t) == s \o t

LEMMA JoinIs ==
    ASSUME NEW q \in Seq(Seq(Nat))
    PROVE  LET J == TheJoin(q, Len(q)) IN
           /\ Flatten(q) = J[Len(q)]
           /\ J[0] = <<>>
           /\ \A i \in 0 .. Len(q) - 1 : J[i + 1] = Cat(J[i], q[i + 1])
<1> DEFINE k == Len(q)
           J == TheJoin(q, k)
<1>0. k \in Nat
  OBVIOUS
<1>1. Flatten(q) = J[k]
  BY Zenon DEF Flatten, TheJoin, IsJoin, Joined
<1>2. J = [i \in 0 .. k |-> Joined(q, i, J)]
  <2> HIDE DEF k
  <2> QED BY <1>0, JoinExists DEF IsJoin
<1> HIDE DEF J, k
<1>3. \A i \in 0 .. k : J[i] = Joined(q, i, J)
  BY <1>2
<1>4. J[0] = <<>>
  <2>1. J[0] = Joined(q, 0, J)
    BY <1>0, <1>3
  <2> QED BY <2>1, Zenon DEF Joined
<1>5. ASSUME NEW i \in 0 .. k - 1 PROVE J[i + 1] = Cat(J[i], q[i + 1])
  <2> DEFINE n == i + 1
  <2>1. n # 0 /\ n - 1 = i /\ n \in 0 .. k
    BY <1>0
  <2> HIDE DEF n
  <2>2. J[n] = Joined(q, n, J)
    BY <1>3, <2>1
  <2>3. J[n] = Cat(J[n - 1], q[n])
    BY <2>1, <2>2, Zenon DEF Joined, Cat
  <2> QED BY <2>1, <2>3 DEF n
<1> QED
  BY <1>1, <1>4, <1>5 DEF J, k

\* The pack data of the first units of a wire.
Received(wire, n) == Pack(SubSeq(wire, 1, n))

\* The packings of a wire and of a prefix of it agree.
LEMMA ReceivedIs ==
    ASSUME NEW wire \in Seq(Unit), NEW n \in 0 .. Len(wire)
    PROVE  Received(wire, n) = ThePacking(wire, Len(wire))[n]
<1> DEFINE v == SubSeq(wire, 1, n)
           F == ThePacking(v, Len(v))
           G == ThePacking(wire, Len(wire))
           Bad == {i \in 0 .. n : F[i] # G[i]}
<1>1. v \in Seq(Unit) /\ Len(v) = n /\ \A i \in 1 .. n : v[i] = wire[i]
  OBVIOUS
<1>2. Pack(v) = F[n] /\ \A i \in 0 .. n : F[i] = Packed(v, i, F)
  <2> HIDE DEF v
  <2> QED BY <1>1, PackingIs
<1>3. \A i \in 0 .. n : G[i] = Packed(wire, i, G)
  BY PackingIs
<1> HIDE DEF v, F, G
<1>4. SUFFICES ASSUME Bad # {} PROVE FALSE
  BY <1>2 DEF Received, v, G
<1>5. PICK i \in Bad : \A m \in Bad : i <= m
  <2> HIDE DEF Bad
  <2>1. Bad \in SUBSET Nat BY DEF Bad
  <2> QED BY <1>4, <2>1, LeastNat
<1>6. i # 0
  BY <1>2, <1>3, <1>5 DEF Packed
<1>7. F[i - 1] = G[i - 1]
  BY <1>5, <1>6
<1> QED
  BY <1>1, <1>2, <1>3, <1>5, <1>6, <1>7 DEF Packed

\* A further unit adds its data, if it carries any.
LEMMA ReceivedStep ==
    ASSUME NEW wire \in Seq(Unit), NEW n \in 0 .. Len(wire) - 1
    PROVE  Received(wire, n + 1) = IF Carries(wire[n + 1])
                                   THEN Append(Received(wire, n), wire[n + 1].data)
                                   ELSE Received(wire, n)
<1> DEFINE P == ThePacking(wire, Len(wire))
<1>1. P[n + 1] = Packed(wire, n + 1, P)
  BY PackingIs
<1>2. Received(wire, n + 1) = P[n + 1] /\ Received(wire, n) = P[n]
  BY ReceivedIs
<1> HIDE DEF P
<1> QED
  BY <1>1, <1>2 DEF Packed

\* Of nothing it is nothing.
LEMMA ReceivedNothing == ASSUME NEW wire \in Seq(Unit) PROVE Received(wire, 0) = <<>>
<1>1. ThePacking(wire, Len(wire))[0] = <<>>
  BY PackingIs DEF Packed
<1> QED
  BY <1>1, ReceivedIs

\* It is data.
LEMMA ReceivedType ==
    ASSUME NEW wire \in Seq(Unit), NEW n \in 0 .. Len(wire) PROVE Received(wire, n) \in Seq(Nat)
<1> DEFINE Bad == {i \in 0 .. Len(wire) : Received(wire, i) \notin Seq(Nat)}
<1>1. SUFFICES ASSUME Bad # {} PROVE FALSE
  OBVIOUS
<1>2. PICK i \in Bad : \A m \in Bad : i <= m
  <2> HIDE DEF Bad
  <2>1. Bad \in SUBSET Nat BY DEF Bad
  <2> QED BY <1>1, <2>1, LeastNat
<1>3. i # 0
  <2>1. <<>> \in Seq(Nat)
    OBVIOUS
  <2> QED BY <1>2, <2>1, ReceivedNothing
<1> DEFINE j == i - 1
<1>4. j \in 0 .. Len(wire) - 1 /\ i = j + 1 /\ i \in 1 .. Len(wire)
  BY <1>2, <1>3
<1>5. Received(wire, j) \in Seq(Nat)
  BY <1>2, <1>4
<1>6. wire[i] \in Unit
  BY <1>4
<1>7. wire[i].data \in Nat
  BY <1>6 DEF Unit
<1> HIDE DEF j
<1>8. Received(wire, i) \in {Append(Received(wire, j), wire[i].data), Received(wire, j)}
  BY <1>4, ReceivedStep
<1>9. Append(Received(wire, j), wire[i].data) \in Seq(Nat)
  BY <1>5, <1>7
<1> QED
  BY <1>2, <1>5, <1>8, <1>9


\* To append to a concatenation is to append to its second part.
LEMMA ConcatThenAppend ==
    ASSUME NEW r \in Seq(Nat), NEW t \in Seq(Nat), NEW x \in Nat
    PROVE  Append(r \o t, x) = r \o Append(t, x)
<1>1. r \o t \in Seq(Nat) /\ <<x>> \in Seq(Nat)
  BY ConcatProperties
<1>2. Append(r \o t, x) = (r \o t) \o <<x>> /\ Append(t, x) = t \o <<x>>
  BY <1>1, AppendIsConcat
<1>3. (r \o t) \o <<x>> = r \o (t \o <<x>>)
  BY <1>1, ConcatAssociative, SMTT(60)
<1> QED
  BY <1>2, <1>3

\* A packet of raw pieces adds all their data.
LEMMA ReceivedRaw ==
    ASSUME NEW wire \in Seq(Unit), NEW a \in 0 .. Len(wire), NEW b \in a .. Len(wire),
           \A i \in a + 1 .. b : wire[i].type = "raw"
    PROVE  Received(wire, b) = Received(wire, a) \o Data(SubSeq(wire, a + 1, b))
<1> DEFINE After(i) == Data(SubSeq(wire, a + 1, i))
           Bad == {i \in a .. b : Received(wire, i) # Received(wire, a) \o After(i)}
<1>1. SUFFICES ASSUME Bad # {} PROVE FALSE
  BY SMTT(60)
<1>2. PICK i \in Bad : \A m \in Bad : i <= m
  <2> HIDE DEF Bad
  <2>1. Bad \in SUBSET Nat BY DEF Bad
  <2> QED BY <1>1, <2>1, LeastNat
<1>3. Received(wire, a) \in Seq(Nat)
  BY ReceivedType
<1>4. i # a
  <2>1. SubSeq(wire, a + 1, a) = <<>>
    BY SubSeqEmpty
  <2>2. After(a) = <<>>
    BY <2>1 DEF Data
  <2>3. Received(wire, a) \o After(a) = Received(wire, a)
    BY <1>3, <2>2, ConcatEmptySeq
  <2> QED BY <1>2, <2>3
<1> DEFINE j == i - 1
           x == wire[i].data
<1>5. j \in a .. Len(wire) - 1 /\ i = j + 1 /\ i \in 1 .. Len(wire) /\ j \in 0 .. Len(wire) - 1
      /\ i \in a + 1 .. b /\ j \in a .. b
  BY <1>2, <1>4
<1> HIDE DEF j
<1>6. Received(wire, j) = Received(wire, a) \o After(j)
  BY <1>2, <1>5
<1>7. wire[i] \in Unit /\ x \in Nat
  <2>1. wire[i] \in Unit
    BY <1>5
  <2> QED BY <2>1 DEF Unit
<1>8. Received(wire, i) = Append(Received(wire, j), x)
  BY <1>5, ReceivedStep DEF Carries
<1>9. After(j) \in Seq(Nat) /\ After(i) = Append(After(j), x)
  <2> DEFINE s == SubSeq(wire, a + 1, j)
             t == SubSeq(wire, a + 1, i)
  <2>1. s \in Seq(Unit) /\ Len(s) = j - a /\ (\A k \in 1 .. j - a : s[k] = wire[a + k])
    <3>1. \A k \in a + 1 .. j : wire[k] \in Unit
      BY <1>5
    <3> QED BY <1>5, <3>1
  <2>2. t \in Seq(Unit) /\ Len(t) = j - a + 1 /\ (\A k \in 1 .. j - a + 1 : t[k] = wire[a + k])
    <3>1. \A k \in a + 1 .. i : wire[k] \in Unit
      BY <1>5
    <3> QED BY <1>5, <3>1
  <2> HIDE DEF s, t
  <2>3. Data(s) \in Seq(Nat) /\ Data(t) \in Seq(Nat)
    BY <2>1, <2>2, DataType
  <2>4. /\ Len(Data(s)) = j - a /\ (\A k \in 1 .. j - a : Data(s)[k] = wire[a + k].data)
        /\ Len(Data(t)) = j - a + 1
        /\ (\A k \in 1 .. j - a + 1 : Data(t)[k] = wire[a + k].data)
    <3>1. DOMAIN s = 1 .. j - a /\ DOMAIN t = 1 .. j - a + 1 /\ j - a \in Nat
      BY <1>5, <2>1, <2>2
    <3>2. /\ Data(s) = [k \in 1 .. j - a |-> s[k].data]
          /\ Data(t) = [k \in 1 .. j - a + 1 |-> t[k].data]
      BY <3>1 DEF Data
    <3>3. Len(Data(s)) = j - a /\ Len(Data(t)) = j - a + 1
      BY <3>1, <3>2
    <3>4. \A k \in 1 .. j - a : Data(s)[k] = wire[a + k].data
      BY <2>1, <3>2, SMTT(60)
    <3>5. \A k \in 1 .. j - a + 1 : Data(t)[k] = wire[a + k].data
      BY <2>2, <3>2, SMTT(60)
    <3> QED BY <3>3, <3>4, <3>5
  <2>5. a + (j - a + 1) = i /\ j - a \in Nat
    BY <1>5
  <2>6. Data(t) = Append(Data(s), x)
    <3>1. Data(t)[j - a + 1] = x
      BY <2>4, <2>5, SMTT(60)
    <3> HIDE DEF x
    <3>2. Append(Data(s), x) \in Seq(Nat) /\ Len(Append(Data(s), x)) = j - a + 1
          /\ Append(Data(s), x)[j - a + 1] = x
          /\ \A k \in 1 .. j - a : Append(Data(s), x)[k] = Data(s)[k]
      BY <1>7, <2>3, <2>4, <2>5, AppendProperties, SMTT(60)
    <3>3. ASSUME NEW k \in 1 .. j - a + 1 PROVE Data(t)[k] = Append(Data(s), x)[k]
      <4>1. CASE k = j - a + 1
        BY <3>1, <3>2, <4>1
      <4>2. CASE k # j - a + 1
        <5>1. k \in 1 .. j - a
          BY <2>5, <4>2, SMTT(60)
        <5> QED BY <2>4, <3>2, <5>1
      <4> QED BY <4>1, <4>2
    <3> QED BY <2>3, <2>4, <3>2, <3>3, SeqEqual
  <2> QED BY <2>3, <2>6 DEF s, t
<1> HIDE DEF After, x
<1>10. Append(Received(wire, a) \o After(j), x) = Received(wire, a) \o Append(After(j), x)
  BY <1>3, <1>7, <1>9, ConcatThenAppend
<1> QED
  BY <1>2, <1>6, <1>8, <1>9, <1>10

\* Messages concatenate associatively.
LEMMA CatProperties ==
    \A s, t, u \in Seq(Nat) : Cat(s, t) \in Seq(Nat) /\ Cat(Cat(s, t), u) = Cat(s, Cat(t, u))
<1> SUFFICES ASSUME NEW s \in Seq(Nat), NEW t \in Seq(Nat), NEW u \in Seq(Nat)
             PROVE  Cat(s, t) \in Seq(Nat) /\ Cat(Cat(s, t), u) = Cat(s, Cat(t, u))
  OBVIOUS
<1>1. (s \o t) \o u = s \o (t \o u)
  BY ConcatAssociative, SMTT(60)
<1>2. s \o t \in Seq(Nat)
  BY ConcatProperties
<1> QED
  BY <1>1, <1>2 DEF Cat

\* What is in the channel grows by what is sent ...
LEMMA FlattenAppend ==
    ASSUME NEW q \in Seq(Seq(Nat)), NEW m \in Seq(Nat)
    PROVE  Flatten(Append(q, m)) = Flatten(q) \o m
<1> DEFINE v == Append(q, m)
           k == Len(q)
           F == TheJoin(q, k)
           G == TheJoin(v, Len(v))
           Bad == {i \in 0 .. k : F[i] # G[i]}
<1>1. v \in Seq(Seq(Nat)) /\ Len(v) = k + 1 /\ k \in Nat /\ v[k + 1] = m
      /\ \A i \in 0 .. k - 1 : v[i + 1] = q[i + 1]
  BY SMTT(60)
<1>2. Flatten(q) = F[k] /\ F[0] = <<>> /\ \A i \in 0 .. k - 1 : F[i + 1] = Cat(F[i], q[i + 1])
  BY JoinIs
<1>3. Flatten(v) = G[k + 1] /\ G[0] = <<>> /\ \A i \in 0 .. k : G[i + 1] = Cat(G[i], v[i + 1])
  <2> HIDE DEF v
  <2>1. Flatten(v) = G[Len(v)] /\ G[0] = <<>>
        /\ \A i \in 0 .. Len(v) - 1 : G[i + 1] = Cat(G[i], v[i + 1])
    BY <1>1, JoinIs
  <2>2. Len(v) = k + 1 /\ Len(v) - 1 = k
    BY <1>1
  <2> HIDE DEF G
  <2> QED BY <2>1, <2>2
<1>4. k \in Nat /\ v[k + 1] = m /\ \A i \in 0 .. k - 1 : v[i + 1] = q[i + 1]
  BY <1>1
<1> HIDE DEF v, F, G, k
<1>5. SUFFICES ASSUME Bad # {} PROVE FALSE
  <2>1. SUFFICES ASSUME Bad = {} PROVE Flatten(v) = Flatten(q) \o m
    BY DEF v
  <2>2. k \in 0 .. k
    BY <1>4
  <2>3. F[k] = G[k]
    BY <2>1, <2>2
  <2>4. G[k + 1] = Cat(G[k], m)
    BY <1>3, <1>4, <2>2
  <2> QED BY <1>2, <1>3, <2>3, <2>4 DEF Cat
<1>6. PICK i \in Bad : \A n \in Bad : i <= n
  <2> HIDE DEF Bad
  <2>1. Bad \in SUBSET Nat BY <1>4 DEF Bad
  <2> QED BY <1>5, <2>1, LeastNat
<1>7. i # 0
  BY <1>2, <1>3, <1>6
<1> DEFINE j == i - 1
<1>8. j \in 0 .. k - 1 /\ j \in 0 .. k /\ i = j + 1 /\ ~(i <= j)
  BY <1>4, <1>6, <1>7
<1> HIDE DEF j
<1>9. F[j] = G[j]
  BY <1>6, <1>8
<1>10. F[j + 1] = Cat(F[j], q[j + 1]) /\ G[j + 1] = Cat(G[j], q[j + 1])
  BY <1>2, <1>3, <1>4, <1>8
<1> QED
  BY <1>6, <1>8, <1>9, <1>10

\* ... and is data ...
LEMMA FlattenType == ASSUME NEW q \in Seq(Seq(Nat)) PROVE Flatten(q) \in Seq(Nat)
<1> DEFINE k == Len(q)
           F == TheJoin(q, k)
           Bad == {i \in 0 .. k : F[i] \notin Seq(Nat)}
<1>1. Flatten(q) = F[k] /\ F[0] = <<>> /\ \A i \in 0 .. k - 1 : F[i + 1] = Cat(F[i], q[i + 1])
  BY JoinIs
<1>2. k \in Nat /\ <<>> \in Seq(Nat) /\ \A i \in 0 .. k - 1 : q[i + 1] \in Seq(Nat)
  OBVIOUS
<1> HIDE DEF F, k
<1>3. SUFFICES ASSUME Bad # {} PROVE FALSE
  BY <1>1, <1>2
<1>4. PICK i \in Bad : \A n \in Bad : i <= n
  <2> HIDE DEF Bad
  <2>1. Bad \in SUBSET Nat BY <1>2 DEF Bad
  <2> QED BY <1>3, <2>1, LeastNat
<1>5. i # 0
  BY <1>1, <1>2, <1>4
<1> DEFINE j == i - 1
<1>6. j \in 0 .. k - 1 /\ j \in 0 .. k /\ i = j + 1 /\ ~(i <= j)
  BY <1>2, <1>4, <1>5
<1> HIDE DEF j
<1>7. F[j] \in Seq(Nat) /\ q[j + 1] \in Seq(Nat)
  BY <1>2, <1>4, <1>6
<1>8. Cat(F[j], q[j + 1]) \in Seq(Nat)
  BY <1>7, ConcatProperties DEF Cat
<1>9. F[i] \in Seq(Nat)
  BY <1>1, <1>6, <1>8
<1> QED
  BY <1>4, <1>9

\* ... and nothing in an empty channel ...
LEMMA FlattenNothing == Flatten(<<>>) = <<>>
<1> DEFINE q == <<>>
<1>1. q \in Seq(Seq(Nat)) /\ Len(q) = 0
  OBVIOUS
<1> HIDE DEF q
<1>2. Flatten(q) = <<>>
  BY <1>1, JoinIs
<1> QED
  BY <1>2 DEF q

\* ... and begins with the message that is received next.
LEMMA FlattenTail ==
    ASSUME NEW q \in Seq(Seq(Nat)), q # <<>>
    PROVE  Flatten(q) = Head(q) \o Flatten(Tail(q))
<1> DEFINE v == Tail(q)
           m == Head(q)
           k == Len(v)
           F == TheJoin(q, Len(q))
           G == TheJoin(v, k)
           Bad == {i \in 0 .. k : F[i + 1] # Cat(m, G[i]) \/ G[i] \notin Seq(Nat)}
<1>1. v \in Seq(Seq(Nat)) /\ Len(q) = k + 1 /\ k \in Nat /\ m \in Seq(Nat) /\ q[1] = m
      /\ (\A i \in 1 .. k : v[i] = q[i + 1])
  BY HeadTailProperties
<1>2. Flatten(q) = F[k + 1] /\ F[0] = <<>> /\ \A i \in 0 .. k : F[i + 1] = Cat(F[i], q[i + 1])
  <2>1. Flatten(q) = F[Len(q)] /\ F[0] = <<>>
        /\ \A i \in 0 .. Len(q) - 1 : F[i + 1] = Cat(F[i], q[i + 1])
    BY JoinIs
  <2>2. Len(q) = k + 1 /\ Len(q) - 1 = k
    BY <1>1
  <2> HIDE DEF F, v
  <2> QED BY <2>1, <2>2
<1>3. Flatten(v) = G[k] /\ G[0] = <<>> /\ \A i \in 0 .. k - 1 : G[i + 1] = Cat(G[i], v[i + 1])
  <2> HIDE DEF v
  <2> QED BY <1>1, JoinIs
<1>4. \A i \in 0 .. k - 1 : v[i + 1] = q[i + 2] /\ v[i + 1] \in Seq(Nat)
  <2> SUFFICES ASSUME NEW i \in 0 .. k - 1 PROVE v[i + 1] = q[i + 2] /\ v[i + 1] \in Seq(Nat)
    OBVIOUS
  <2> DEFINE n == i + 1
  <2>1. n \in 1 .. k /\ n + 1 = i + 2
    BY <1>1
  <2> HIDE DEF n, v
  <2>2. v[n] = q[n + 1] /\ v[n] \in Seq(Nat)
    BY <1>1, <2>1
  <2> QED BY <2>1, <2>2 DEF n
<1>5. k \in Nat /\ m \in Seq(Nat) /\ q[1] = m
  BY <1>1
<1> HIDE DEF v, F, G, k, m
<1>6. SUFFICES ASSUME Bad # {} PROVE FALSE
  <2>1. SUFFICES ASSUME Bad = {} PROVE Flatten(q) = Cat(m, Flatten(v))
    BY DEF v, m, Cat
  <2>2. k \in 0 .. k
    BY <1>5
  <2> QED BY <1>2, <1>3, <2>1, <2>2
<1>7. PICK i \in Bad : \A n \in Bad : i <= n
  <2> HIDE DEF Bad
  <2>1. Bad \in SUBSET Nat BY <1>5 DEF Bad
  <2> QED BY <1>6, <2>1, LeastNat
<1>8. i # 0
  <2>1. F[0 + 1] = Cat(F[0], q[0 + 1])
    BY <1>2, <1>5
  <2>2. Cat(<<>>, m) = m /\ Cat(m, <<>>) = m /\ <<>> \in Seq(Nat)
    BY <1>5, ConcatEmptySeq DEF Cat
  <2>3. F[0 + 1] = Cat(m, G[0]) /\ G[0] \in Seq(Nat)
    BY <1>2, <1>3, <1>5, <2>1, <2>2
  <2> QED BY <1>7, <2>3
<1> DEFINE j == i - 1
<1>9. j \in 0 .. k - 1 /\ j \in 0 .. k /\ i = j + 1 /\ ~(i <= j) /\ i + 1 = j + 2 /\ i \in 0 .. k
  BY <1>5, <1>7, <1>8
<1> HIDE DEF j
<1>10. F[i] = Cat(m, G[j]) /\ G[j] \in Seq(Nat)
  BY <1>7, <1>9
<1>11. F[i + 1] = Cat(F[i], q[i + 1]) /\ G[i] = Cat(G[j], v[i])
  BY <1>2, <1>3, <1>9
<1>12. v[i] \in Seq(Nat) /\ v[i] = q[i + 1]
  BY <1>4, <1>9
<1>13. Cat(Cat(m, G[j]), v[i]) = Cat(m, Cat(G[j], v[i])) /\ Cat(G[j], v[i]) \in Seq(Nat)
  <2>1. m \in Seq(Nat) /\ G[j] \in Seq(Nat) /\ v[i] \in Seq(Nat)
    BY <1>5, <1>10, <1>12
  <2> QED BY <2>1, CatProperties, ZenonT(60)
<1> QED
  BY <1>7, <1>10, <1>11, <1>12, <1>13

\* Further facts about concatenation.
LEMMA CatNothing == \A s \in Seq(Nat) : Cat(s, <<>>) = s /\ Cat(<<>>, s) = s
BY ConcatEmptySeq DEF Cat

LEMMA CatAppend ==
    ASSUME NEW s \in Seq(Nat), NEW t \in Seq(Nat), NEW x \in Nat
    PROVE  Append(t, x) \in Seq(Nat) /\ Cat(s, Append(t, x)) = Append(Cat(s, t), x)
<1>1. Append(t, x) \in Seq(Nat)
  OBVIOUS
<1> QED
  BY <1>1, ConcatThenAppend DEF Cat

-----------------------------------------------------------------------------
(* The demultiplexer on a well-formed wire                                 *)

\* No frame is cut at b.
Boundary(wire, b) == b \in 0 .. Len(wire) /\ (b < Len(wire) => wire[b + 1].part = 1)

\* The NAK is among the first b units.
Nakked(wire, b) == \E i \in 1 .. b : wire[i].type = "nak" /\ wire[i].part = 2

\* There is no whole frame in the buffer.
Stuck(buf) == buf = <<>> \/ Len(buf) < Width(buf[1])

\* A demultiplexer that was given the first n units of the wire: out is the pack
\* data it gave away before.  It has read up to a boundary, the rest is buffered.
Reads(wire, sideband, n, out, d) ==
    LET b == n - Len(d.buf) IN
    /\ d.state \in {"AwaitNak", "Sideband"} =>
        /\ Boundary(wire, b)
        /\ d.buf = SubSeq(wire, b + 1, n)
        /\ Cat(out, d.sink) = Received(wire, b)
    /\ d.state = "AwaitNak" => d.sink = <<>>
    /\ d.state = "Sideband" => sideband /\ Nakked(wire, b)
    /\ d.state \in {"RawPack", "Done"} => d.buf = <<>> /\ Cat(out, d.sink) = Received(wire, n)
    /\ d.state = "RawPack" => ~sideband /\ Nakked(wire, n)
    /\ d.state = "Done" => n = Len(wire)

\* A unit of the buffer is one of the wire.
LEMMA BufferUnits ==
    ASSUME NEW wire \in Seq(Unit), NEW n \in 0 .. Len(wire), NEW b \in 0 .. n
    PROVE  LET buf == SubSeq(wire, b + 1, n) IN
           /\ buf \in Seq(Unit) /\ Len(buf) = n - b
           /\ \A i \in 1 .. n - b : buf[i] = wire[b + i] /\ buf[i] \in Unit
<1>1. \A i \in b + 1 .. n : wire[i] \in Unit
  OBVIOUS
<1>2. SubSeq(wire, b + 1, n) \in Seq(Unit) /\ Len(SubSeq(wire, b + 1, n)) = n - b
  BY <1>1, SubSeqProperties
<1>3. ASSUME NEW i \in 1 .. n - b
      PROVE  SubSeq(wire, b + 1, n)[i] = wire[b + i] /\ wire[b + i] \in Unit
  BY <1>1, SubSeqProperties
<1> QED
  BY <1>2, <1>3

\* What is behind the first units of the buffer.
LEMMA RestOfBuffer ==
    ASSUME NEW wire \in Seq(Unit), NEW n \in 0 .. Len(wire), NEW b \in 0 .. n,
           NEW w \in 0 .. n - b
    PROVE  SubSeq(SubSeq(wire, b + 1, n), w + 1, n - b) = SubSeq(wire, b + w + 1, n)
<1> DEFINE buf == SubSeq(wire, b + 1, n)
           s == SubSeq(buf, w + 1, n - b)
           c == b + w
           t == SubSeq(wire, c + 1, n)
<1>1. buf \in Seq(Unit) /\ Len(buf) = n - b
      /\ \A i \in 1 .. n - b : buf[i] = wire[b + i] /\ buf[i] \in Unit
  BY BufferUnits
<1>2. c \in 0 .. n /\ n - c \in Nat /\ n - c = (n - b) - w /\ n - b \in Nat
  OBVIOUS
<1>3. t \in Seq(Unit) /\ Len(t) = n - c /\ \A i \in 1 .. n - c : t[i] = wire[c + i]
  <2> HIDE DEF c
  <2> QED BY <1>2, BufferUnits
<1> HIDE DEF buf, t
<1>4. s \in Seq(Unit) /\ Len(s) = n - c /\ \A i \in 1 .. n - c : s[i] = buf[w + i]
  <2>1. w \in 0 .. n - b /\ n - b \in 0 .. Len(buf)
    BY <1>1, <1>2
  <2>2. s \in Seq(Unit) /\ Len(s) = (n - b) - w /\ \A i \in 1 .. (n - b) - w : s[i] = buf[w + i]
    BY <1>1, <2>1, BufferUnits
  <2> QED BY <1>2, <2>2
<1> HIDE DEF s
<1>5. ASSUME NEW i \in 1 .. n - c PROVE s[i] = t[i]
  <2>1. w + i \in 1 .. n - b /\ b + (w + i) = c + i
    BY <1>2
  <2>2. buf[w + i] = wire[b + (w + i)]
    BY <1>1, <2>1
  <2> QED BY <1>3, <1>4, <2>1, <2>2
<1>6. s = t
  <2> HIDE DEF c
  <2> QED BY <1>3, <1>4, <1>5, SeqEqual
<1> QED
  BY <1>6 DEF s, t, buf

\* The buffer begins with a whole frame, c is the boundary behind it ...
FrameAhead(wire, n, b, buf, u, w, c, rest) ==
    /\ wire \in Seq(Unit) /\ WholeFrames(wire) /\ n \in 0 .. Len(wire) /\ b \in 0 .. n
    /\ Boundary(wire, b) /\ buf = SubSeq(wire, b + 1, n) /\ ~Stuck(buf)
    /\ u = wire[b + 1] /\ w = Width(u) /\ c = b + w
    /\ rest = SubSeq(buf, w + 1, Len(buf))

\* ... and what this means for the wire.
FrameFound(wire, n, b, buf, u, w, c, rest) ==
    /\ buf[1] = u /\ u \in Unit /\ u.part = 1
    /\ w \in {1, 2} /\ c <= n
    /\ rest = SubSeq(wire, c + 1, n) /\ Len(rest) = n - c /\ rest \in Seq(Unit)
    /\ Boundary(wire, c)
    /\ w = 2 => wire[b + 2].part = 2 /\ wire[b + 2].type = u.type /\ wire[b + 2].data = u.data

LEMMA NextFrame ==
    ASSUME NEW wire, NEW n, NEW b, NEW buf, NEW u, NEW w, NEW c, NEW rest,
           FrameAhead(wire, n, b, buf, u, w, c, rest)
    PROVE  FrameFound(wire, n, b, buf, u, w, c, rest)
<1>0. /\ wire \in Seq(Unit) /\ WholeFrames(wire) /\ n \in 0 .. Len(wire) /\ b \in 0 .. n
      /\ Boundary(wire, b) /\ buf = SubSeq(wire, b + 1, n) /\ ~Stuck(buf)
      /\ u = wire[b + 1] /\ w = Width(u) /\ c = b + w
      /\ rest = SubSeq(buf, w + 1, Len(buf))
  BY DEF FrameAhead
<1> USE <1>0
<1>1. buf \in Seq(Unit) /\ Len(buf) = n - b
      /\ \A i \in 1 .. n - b : buf[i] = wire[b + i] /\ buf[i] \in Unit
  BY BufferUnits
<1>2. buf # <<>> /\ ~(Len(buf) < Width(buf[1]))
  BY DEF Stuck
<1>3. n - b >= 1 /\ n - b \in Nat
  BY <1>1, <1>2
<1>4. buf[1] = u /\ u \in Unit
  BY <1>1, <1>3
<1>5. w \in {1, 2} /\ w <= n - b
  <2>1. w \in {1, 2}
    BY DEF Width
  <2>2. ~(n - b < w)
    BY <1>1, <1>2, <1>4
  <2> QED BY <1>3, <2>1, <2>2
<1>6. b < Len(wire) /\ u.part = 1
  BY <1>3 DEF Boundary
<1>7. w \in 0 .. n - b
  BY <1>3, <1>5, SMTT(60)
<1>8. rest = SubSeq(wire, c + 1, n)
  BY <1>1, <1>7, RestOfBuffer, ZenonT(60)
<1>9. SubSeq(wire, c + 1, n) \in Seq(Unit) /\ Len(SubSeq(wire, c + 1, n)) = n - c
  <2>1. c \in 0 .. n
    BY <1>7, SMTT(60)
  <2> QED BY <2>1, BufferUnits
<1>10. w = 2 => wire[b + 2].part = 2 /\ wire[b + 2].type = u.type /\ wire[b + 2].data = u.data
  <2> SUFFICES ASSUME w = 2
               PROVE  wire[b + 2].part = 2 /\ wire[b + 2].type = u.type /\ wire[b + 2].data = u.data
    OBVIOUS
  <2> DEFINE i == b + 1
  <2>1. i \in 1 .. Len(wire) - 1 /\ i + 1 = b + 2
    BY <1>3, <1>5
  <2>2. wire[i].part = 1 /\ Width(wire[i]) = 2
    BY <1>6
  <2> HIDE DEF i
  <2>3. wire[i + 1].part = 2 /\ wire[i + 1].type = wire[i].type /\ wire[i + 1].data = wire[i].data
    BY <2>1, <2>2 DEF WholeFrames
  <2> QED BY <2>1, <2>3 DEF i
<1>11. Boundary(wire, c)
  <2>1. c \in 0 .. Len(wire) /\ c \in Nat
    BY <1>5, SMTT(60)
  <2>2. SUFFICES ASSUME c < Len(wire) PROVE wire[c + 1].part = 1
    BY <2>1 DEF Boundary
  <2>3. c \in 1 .. Len(wire) - 1
    BY <1>5, <2>1, <2>2, SMTT(60)
  <2>4. ~(wire[c].part = 1 /\ Width(wire[c]) = 2)
    <3>1. CASE w = 1
      <4>1. c = b + 1 /\ Width(wire[c]) = 1
        BY <3>1
      <4> QED BY <4>1
    <3>2. CASE w = 2
      <4>1. c = b + 2
        BY <3>2
      <4>2. wire[c].part = 2
        BY <1>10, <3>2, <4>1
      <4> QED BY <4>2
    <3> QED BY <1>5, <3>1, <3>2
  <2> QED BY <2>3, <2>4 DEF WholeFrames
<1>12. c <= n
  BY <1>5
<1> QED
  BY <1>1, <1>4, <1>5, <1>6, <1>8, <1>9, <1>10, <1>11, <1>12 DEF FrameFound

\* The pack data of one whole frame.
LEMMA FrameData ==
    ASSUME NEW wire \in Seq(Unit), NEW b \in 0 .. Len(wire) - 1, wire[b + 1].part = 1,
           b + Width(wire[b + 1]) <= Len(wire),
           Width(wire[b + 1]) = 2 => /\ wire[b + 2].part = 2
                                     /\ wire[b + 2].type = wire[b + 1].type
                                     /\ wire[b + 2].data = wire[b + 1].data
    PROVE  Received(wire, b + Width(wire[b + 1])) =
             IF wire[b + 1].type \in {"raw", "band1"}
             THEN Append(Received(wire, b), wire[b + 1].data) ELSE Received(wire, b)
<1> DEFINE u == wire[b + 1]
<1>1. Received(wire, b + 1) = IF Carries(u) THEN Append(Received(wire, b), u.data)
                              ELSE Received(wire, b)
  BY ReceivedStep
<1>2. CASE u.type \in {"flush", "raw"}
  <2>1. Width(u) = 1
    BY <1>2 DEF Width
  <2>2. Carries(u) <=> u.type \in {"raw", "band1"}
    BY <1>2 DEF Carries
  <2> HIDE DEF u
  <2> QED BY <1>1, <2>1, <2>2 DEF u
<1>3. CASE u.type \notin {"flush", "raw"}
  <2> DEFINE c == b + 1
             v == wire[c + 1]
  <2>1. Width(u) = 2
    BY <1>3 DEF Width
  <2>2. c \in 0 .. Len(wire) - 1 /\ c + 1 = b + 2
    BY <2>1
  <2>3. v.part = 2 /\ v.type = u.type /\ v.data = u.data
    BY <2>1, <2>2
  <2>4. Received(wire, c) = Received(wire, b)
    BY <1>1, <1>3 DEF Carries
  <2> HIDE DEF c
  <2>5. Received(wire, c + 1) = IF Carries(v) THEN Append(Received(wire, c), v.data)
                                ELSE Received(wire, c)
    BY <2>2, ReceivedStep
  <2>6. Carries(v) <=> u.type \in {"raw", "band1"}
    BY <1>3, <2>3 DEF Carries
  <2>7. Received(wire, b + 2) = IF u.type \in {"raw", "band1"}
                                THEN Append(Received(wire, b), u.data) ELSE Received(wire, b)
    <3> HIDE DEF u, v
    <3> QED BY <2>2, <2>3, <2>4, <2>5, <2>6
  <2>8. b + Width(u) = b + 2
    BY <2>1
  <2> HIDE DEF u
  <2> QED BY <2>7, <2>8 DEF u
<1> QED
  BY <1>2, <1>3

\* What is to be shown of a demultiplexer that reads on, and of one that does not.
LEMMA ReadsOn ==
    ASSUME NEW wire, NEW sideband, NEW n, NEW out, NEW e, NEW c, c = n - Len(e.buf),
           e.state \in {"AwaitNak", "Sideband"}, Boundary(wire, c),
           e.buf = SubSeq(wire, c + 1, n), Cat(out, e.sink) = Received(wire, c),
           e.state = "AwaitNak" => e.sink = <<>>,
           e.state = "Sideband" => sideband /\ Nakked(wire, c)
    PROVE  Reads(wire, sideband, n, out, e)
BY DEF Reads

LEMMA ReadsEnd ==
    ASSUME NEW wire, NEW sideband, NEW n, NEW out, NEW e,
           \/ e.state = "Failed"
           \/ /\ e.state \in {"RawPack", "Done"}
              /\ e.buf = <<>> /\ Cat(out, e.sink) = Received(wire, n)
              /\ e.state = "RawPack" => ~sideband /\ Nakked(wire, n)
              /\ e.state = "Done" => n = Len(wire)
    PROVE  Reads(wire, sideband, n, out, e)
BY DEF Reads

\* A whole frame at the beginning of the buffer is read.
LEMMA FrameRead ==
    ASSUME NEW wire \in Seq(Unit), NEW sideband \in BOOLEAN,
           WholeFrames(wire), AfterNak(wire, sideband),
           NEW n \in 0 .. Len(wire), NEW out \in Seq(Nat), NEW d \in Demux,
           d.state \in {"AwaitNak", "Sideband"}, Len(d.buf) <= n,
           Reads(wire, sideband, n, out, d), ~Stuck(d.buf)
    PROVE  LET e == ParseFrame(sideband, d) IN
           Reads(wire, sideband, n, out, e) /\ Len(e.buf) < Len(d.buf)
<1> DEFINE b == n - Len(d.buf)
           u == wire[b + 1]
           w == Width(u)
           c == b + w
           rest == SubSeq(d.buf, w + 1, Len(d.buf))
           on == [d EXCEPT !.buf = rest]
           e == ParseFrame(sideband, d)
<1>1. d.buf \in Seq(Unit) /\ d.sink \in Seq(Nat) /\ Len(d.buf) \in Nat
  BY DEF Demux
<1>2. b \in 0 .. n /\ n - b = Len(d.buf) /\ b \in 0 .. Len(wire)
  BY <1>1
<1>3. Boundary(wire, b) /\ d.buf = SubSeq(wire, b + 1, n) /\ Cat(out, d.sink) = Received(wire, b)
  BY DEF Reads
<1>4. d.state = "AwaitNak" => d.sink = <<>>
  BY DEF Reads
<1>5. d.state = "Sideband" => sideband /\ Nakked(wire, b)
  BY DEF Reads
<1>6. ~Stuck(d.buf)
  OBVIOUS
<1>7. /\ d.buf[1] = u /\ u \in Unit /\ u.part = 1
      /\ w \in {1, 2} /\ c <= n
      /\ rest = SubSeq(wire, c + 1, n) /\ Len(rest) = n - c /\ rest \in Seq(Unit)
      /\ Boundary(wire, c)
      /\ w = 2 => wire[b + 2].part = 2 /\ wire[b + 2].type = u.type /\ wire[b + 2].data = u.data
  <2> DEFINE buf == d.buf
  <2> HIDE DEF b
  <2>1. buf = SubSeq(wire, b + 1, n) /\ ~Stuck(buf)
    BY <1>3
  <2> HIDE DEF buf
  <2>2. WholeFrames(wire) /\ Boundary(wire, b)
    BY <1>3
  <2>3. rest = SubSeq(buf, w + 1, Len(buf))
    BY DEF buf
  <2> HIDE DEF u, w, c, rest
  <2>4. FrameAhead(wire, n, b, buf, u, w, c, rest)
    BY <1>2, <2>1, <2>2, <2>3 DEF FrameAhead, u, w, c
  <2>5. FrameFound(wire, n, b, buf, u, w, c, rest)
    BY <2>4, NextFrame
  <2> QED BY <2>5 DEF buf, FrameFound
<1>8. c \in 1 .. n /\ c \in 0 .. Len(wire) /\ n - c < Len(d.buf) /\ b < c /\ n - c \in Nat
      /\ n - (n - c) = c /\ b \in 0 .. Len(wire) - 1 /\ c \in Nat /\ b + 1 \in 1 .. Len(wire)
      /\ (w = 2 => c = b + 2 /\ b + 2 \in 1 .. Len(wire)) /\ b + 1 <= n
  <2>1. w \in {1, 2} /\ c <= n
    BY <1>7
  <2> HIDE DEF b, w
  <2> QED BY <1>1, <1>2, <2>1
<1>9. Received(wire, c) = IF u.type \in {"raw", "band1"}
                          THEN Append(Received(wire, b), u.data) ELSE Received(wire, b)
  <2> HIDE DEF b
  <2>1. wire[b + 1].part = 1 /\ b + Width(wire[b + 1]) <= Len(wire)
    BY <1>7, <1>8
  <2> QED BY <1>7, <1>8, <2>1, FrameData
<1>10. u.data \in Nat /\ u.type \in {"nak", "ack", "band1", "band2", "band3", "err", "flush", "raw"}
  BY <1>7 DEF Unit
<1>11. w = 2 <=> u.type \notin {"flush", "raw"}
  <2> HIDE DEF b, u
  <2> QED BY DEF Width
<1>12. d.buf # <<>> /\ ~(Len(d.buf) < Width(d.buf[1])) /\ Width(d.buf[1]) = w
  BY <1>6, <1>7 DEF Stuck
<1> DEFINE data == Data(rest)
           failed == [d EXCEPT !.state = "Failed", !.buf = <<>>]
<1>13. e = CASE u.type = "flush" /\ d.state = "Sideband" ->
                [d EXCEPT !.state = "Done", !.buf = <<>>]
           [] u.type = "flush" /\ d.state = "AwaitNak" -> on
           [] d.state = "AwaitNak" /\ u.type = "nak" /\ sideband ->
                [on EXCEPT !.state = "Sideband"]
           [] d.state = "AwaitNak" /\ u.type = "nak" /\ ~sideband ->
                [d EXCEPT !.state = "RawPack", !.sink = data, !.buf = <<>>]
           [] d.state = "AwaitNak" /\ u.type = "ack" -> on
           [] d.state = "Sideband" /\ u.type = "band1" ->
                [on EXCEPT !.sink = Append(on.sink, u.data)]
           [] d.state = "Sideband" /\ u.type = "band2" -> on
           [] OTHER -> failed
  BY <1>7, <1>12 DEF ParseFrame
<1>14. Len(<<>>) = 0 /\ <<>> \in Seq(Unit)
  OBVIOUS
<1> SUFFICES Reads(wire, sideband, n, out, e) /\ Len(e.buf) < Len(d.buf)
  OBVIOUS
<1> HIDE DEF b, u, w, c, rest, e, data
<1>15. /\ on.state = d.state /\ on.buf = rest /\ on.sink = d.sink
       /\ failed.state = "Failed" /\ failed.buf = <<>>
  BY DEF Demux
<1> HIDE DEF on
<1>16. Nakked(wire, b) => Nakked(wire, c)
  <2> SUFFICES ASSUME NEW i \in 1 .. b, wire[i].type = "nak" /\ wire[i].part = 2
               PROVE  Nakked(wire, c)
    BY DEF Nakked
  <2>1. i \in 1 .. c
    BY <1>2, <1>8
  <2> QED BY <2>1 DEF Nakked
\* A frame without pack data, before the NAK or behind it.
<1>17. ASSUME u.type \notin {"raw", "band1"}, e = on
       PROVE  Reads(wire, sideband, n, out, e) /\ Len(e.buf) < Len(d.buf)
  <2>1. n - Len(e.buf) = c
    BY <1>7, <1>8, <1>15, <1>17
  <2>2. Cat(out, e.sink) = Received(wire, c)
    BY <1>3, <1>9, <1>15, <1>17
  <2>3. e.state = d.state /\ e.buf = SubSeq(wire, c + 1, n) /\ e.sink = d.sink /\ Len(e.buf) = n - c
    BY <1>7, <1>15, <1>17
  <2> QED BY <1>4, <1>5, <1>7, <1>8, <1>16, <2>1, <2>2, <2>3 DEF Reads
<1>18. CASE u.type = "flush" /\ d.state = "Sideband"
  <2>1. e = [d EXCEPT !.state = "Done", !.buf = <<>>]
    BY <1>13, <1>18
  <2>2. e.state = "Done" /\ e.buf = <<>> /\ e.sink = d.sink
    BY <2>1 DEF Demux
  <2>3. w = 1 /\ c = b + 1
    BY <1>7, <1>11, <1>18 DEF c
  <2>4. b + 1 = Len(wire)
    <3> DEFINE j == b + 1
    <3>1. j \in 1 .. Len(wire) /\ b < j /\ wire[j].type = "flush"
      BY <1>2, <1>8, <1>18 DEF u
    <3>2. PICK i \in 1 .. b : wire[i].type = "nak" /\ wire[i].part = 2
      BY <1>5, <1>18 DEF Nakked
    <3>3. i \in 1 .. Len(wire) /\ i < j
      BY <1>2, <3>1
    <3> HIDE DEF j
    <3>4. j = Len(wire)
      BY <1>5, <1>18, <3>1, <3>2, <3>3 DEF AfterNak
    <3> QED BY <3>4 DEF j
  <2>5. n = c /\ n = Len(wire)
    BY <1>7, <1>8, <2>3, <2>4
  <2>6. Cat(out, e.sink) = Received(wire, n)
    BY <1>3, <1>9, <1>18, <2>2, <2>5
  <2>7. Len(e.buf) < Len(d.buf)
    BY <1>8, <1>14, <2>2
  <2>8. Reads(wire, sideband, n, out, e)
    BY <2>2, <2>5, <2>6 DEF Reads
  <2> QED BY <2>7, <2>8
<1>19. CASE d.state = "AwaitNak" /\ u.type = "nak" /\ sideband
  <2>1. e = [on EXCEPT !.state = "Sideband"]
    BY <1>13, <1>19
  <2>2. e.state = "Sideband" /\ e.buf = rest /\ e.sink = d.sink
    <3>1. on \in Demux
      BY <1>7 DEF Demux, on
    <3> QED BY <1>15, <2>1, <3>1 DEF Demux
  <2>3. n - Len(e.buf) = c /\ Len(e.buf) < Len(d.buf)
    BY <1>7, <1>8, <2>2
  <2>4. Cat(out, e.sink) = Received(wire, c)
    BY <1>3, <1>9, <1>19, <2>2
  <2>5. Nakked(wire, c)
    <3>1. w = 2
      BY <1>11, <1>19
    <3>2. wire[c].type = "nak" /\ wire[c].part = 2
      BY <1>7, <1>8, <1>19, <3>1
    <3>3. c \in 1 .. c
      BY <1>8
    <3> QED BY <3>2, <3>3 DEF Nakked
  <2>6. e.buf = SubSeq(wire, c + 1, n)
    BY <1>7, <2>2
  <2> QED BY <1>7, <1>19, <2>2, <2>3, <2>4, <2>5, <2>6, ReadsOn
<1>20. CASE d.state = "AwaitNak" /\ u.type = "nak" /\ ~sideband
  <2>1. e = [d EXCEPT !.state = "RawPack", !.sink = data, !.buf = <<>>]
    BY <1>13, <1>20
  <2>2. e.state = "RawPack" /\ e.buf = <<>> /\ e.sink = data
    BY <2>1 DEF Demux
  <2>3. w = 2 /\ c = b + 2 /\ wire[c].type = "nak" /\ wire[c].part = 2 /\ c \in 1 .. Len(wire)
    BY <1>7, <1>8, <1>11, <1>20
  <2>4. \A i \in c + 1 .. n : wire[i].type = "raw"
    <3> SUFFICES ASSUME NEW i \in c + 1 .. n PROVE wire[i].type = "raw"
      OBVIOUS
    <3>1. i \in 1 .. Len(wire) /\ c < i
      BY <1>8
    <3> QED BY <1>20, <2>3, <3>1 DEF AfterNak
  <2>5. c \in 0 .. Len(wire) /\ n \in c .. Len(wire)
    BY <1>7, <1>8
  <2>6. Received(wire, n) = Cat(Received(wire, c), data)
    BY <1>7, <2>4, <2>5, ReceivedRaw DEF Cat, data
  <2>7. Received(wire, c) = out
    <3>1. Cat(out, <<>>) = out
      BY CatNothing
    <3> QED BY <1>3, <1>4, <1>9, <1>20, <3>1
  <2>8. Nakked(wire, n)
    <3>1. c \in 1 .. n
      BY <1>8
    <3> QED BY <2>3, <3>1 DEF Nakked
  <2>9. Len(e.buf) < Len(d.buf)
    BY <1>8, <1>14, <2>2
  <2> QED BY <1>20, <2>2, <2>6, <2>7, <2>8, <2>9, ReadsEnd
<1>21. CASE d.state = "Sideband" /\ u.type = "band1"
  <2> DEFINE x == u.data
             sink == Append(d.sink, x)
  <2>1. e = [on EXCEPT !.sink = sink]
    BY <1>13, <1>15, <1>21
  <2>2. sink \in Seq(Nat) /\ Cat(out, sink) = Append(Cat(out, d.sink), x)
    <3> HIDE DEF x
    <3>1. x \in Nat
      BY <1>10 DEF x
    <3> QED BY <1>1, <3>1, CatAppend
  <2> HIDE DEF sink
  <2>3. e.state = "Sideband" /\ e.buf = rest /\ e.sink = sink
    <3>1. on \in Demux
      BY <1>7 DEF Demux, on
    <3> QED BY <1>15, <1>21, <2>1, <3>1 DEF Demux
  <2>4. n - Len(e.buf) = c /\ Len(e.buf) < Len(d.buf)
    BY <1>7, <1>8, <2>3
  <2>5. Cat(out, e.sink) = Received(wire, c)
    BY <1>3, <1>9, <1>21, <2>2, <2>3
  <2>6. e.buf = SubSeq(wire, c + 1, n)
    BY <1>7, <2>3
  <2>7. sideband /\ Nakked(wire, c)
    BY <1>5, <1>16, <1>21
  <2> QED BY <1>7, <2>3, <2>4, <2>5, <2>6, <2>7, ReadsOn
<1>22. CASE e = failed
  <2>1. e.state = "Failed" /\ e.buf = <<>>
    BY <1>15, <1>22
  <2> QED BY <1>8, <1>14, <2>1, ReadsEnd
<1>23. \/ u.type = "flush" /\ d.state = "Sideband"
       \/ d.state = "AwaitNak" /\ u.type = "nak" /\ sideband
       \/ d.state = "AwaitNak" /\ u.type = "nak" /\ ~sideband
       \/ d.state = "Sideband" /\ u.type = "band1"
       \/ u.type \notin {"raw", "band1"} /\ e = on
       \/ e = failed
  <2> HIDE DEF failed
  <2>1. CASE u.type = "flush"
    BY <1>13, <2>1
  <2>2. CASE d.state = "AwaitNak" /\ u.type = "ack"
    BY <1>13, <2>2
  <2>3. CASE d.state = "Sideband" /\ u.type = "band2"
    BY <1>13, <2>3
  <2>4. CASE /\ u.type # "flush" /\ ~(d.state = "AwaitNak" /\ u.type \in {"nak", "ack"})
             /\ ~(d.state = "Sideband" /\ u.type \in {"band1", "band2"})
    BY <1>13, <2>4
  <2> QED BY <2>1, <2>2, <2>3, <2>4
<1> HIDE DEF failed
<1> QED
  BY <1>17, <1>18, <1>19, <1>20, <1>21, <1>22, <1>23

\* One round of the loop.
LEMMA RoundReads ==
    ASSUME NEW wire \in Seq(Unit), NEW sideband \in BOOLEAN,
           WholeFrames(wire), AfterNak(wire, sideband),
           NEW n \in 0 .. Len(wire), NEW out \in Seq(Nat), NEW d \in Demux,
           Len(d.buf) <= n, Reads(wire, sideband, n, out, d),
           NEW e, e = ParseFrame(sideband, d)
    PROVE  /\ e \in Demux /\ Reads(wire, sideband, n, out, e)
           /\ Stuck(d.buf) => e = d
           /\ ~Stuck(d.buf) => Len(e.buf) < Len(d.buf)
<1>1. e \in Demux
  BY ParseFrameType
<1>2. d.state \in {"AwaitNak", "Sideband", "RawPack", "Done", "Failed"}
  BY DEF Demux
<1>3. CASE Stuck(d.buf)
  <2>1. e = d
    BY <1>3 DEF Stuck, ParseFrame
  <2> QED BY <1>1, <1>3, <2>1
<1>4. CASE ~Stuck(d.buf) /\ d.state \in {"AwaitNak", "Sideband"}
  <2>1. Reads(wire, sideband, n, out, ParseFrame(sideband, d))
        /\ Len(ParseFrame(sideband, d).buf) < Len(d.buf)
    BY <1>4, FrameRead
  <2> QED BY <1>1, <1>4, <2>1
<1>5. CASE ~Stuck(d.buf) /\ d.state \in {"RawPack", "Done"}
  <2>1. d.buf = <<>>
    BY <1>5 DEF Reads
  <2> QED BY <1>5, <2>1 DEF Stuck
<1>6. CASE ~Stuck(d.buf) /\ d.state = "Failed"
  <2>1. d.buf # <<>> /\ ~(Len(d.buf) < Width(d.buf[1]))
    BY <1>6 DEF Stuck
  <2>2. e = [d EXCEPT !.state = "Failed", !.buf = <<>>]
    BY <1>6, <2>1 DEF ParseFrame
  <2>3. e.state = "Failed" /\ e.buf = <<>>
    BY <2>2 DEF Demux
  <2>4. d.buf \in Seq(Unit)
    BY DEF Demux
  <2>5. Len(e.buf) < Len(d.buf)
    BY <2>1, <2>3, <2>4
  <2>6. Reads(wire, sideband, n, out, e)
    BY <2>3, ReadsEnd
  <2> QED BY <1>1, <1>6, <2>5, <2>6
<1> QED
  BY <1>2, <1>3, <1>4, <1>5, <1>6

\* After i of k rounds there are at most k - i units left, unless none of them
\* makes a frame.
AfterRounds(wire, sideband, n, out, k, i, d) ==
    /\ d \in Demux /\ Len(d.buf) <= n
    /\ Reads(wire, sideband, n, out, d)
    /\ Stuck(d.buf) \/ Len(d.buf) <= k - i

\* The loop reads every whole frame.
LEMMA LoopReads ==
    ASSUME NEW wire \in Seq(Unit), NEW sideband \in BOOLEAN,
           WholeFrames(wire), AfterNak(wire, sideband),
           NEW n \in 0 .. Len(wire), NEW out \in Seq(Nat), NEW d \in Demux,
           Len(d.buf) <= n, Reads(wire, sideband, n, out, d)
    PROVE  LET e == ParseFrames(sideband, d) IN
           /\ e \in Demux /\ Len(e.buf) <= n
           /\ Reads(wire, sideband, n, out, e)
           /\ Stuck(e.buf)
<1> DEFINE k == Len(d.buf)
           F == TheLoop(sideband, d, k)
           Good(i) == AfterRounds(wire, sideband, n, out, k, i, F[i])
           Bad == {i \in 0 .. k : ~Good(i)}
<1>0. k \in Nat
  BY DEF Demux
<1>1. F = [i \in 0 .. k |-> Rounds(sideband, d, i, F)]
  <2> HIDE DEF k
  <2> QED BY <1>0, LoopExists DEF IsLoop
<1>2. ParseFrames(sideband, d) = F[k]
  BY Zenon DEF ParseFrames, TheLoop, IsLoop, Rounds
<1>3. AfterRounds(wire, sideband, n, out, k, 0, d)
  BY <1>0 DEF AfterRounds
<1> HIDE DEF F, k
<1>4. Bad = {} => Good(k)
  BY <1>0
<1>5. SUFFICES ASSUME Bad # {} PROVE FALSE
  <2>1. Good(k)
    BY <1>4, <1>5
  <2> DEFINE e == F[k]
  <2>2. e \in Demux /\ Len(e.buf) <= n /\ Reads(wire, sideband, n, out, e)
        /\ (Stuck(e.buf) \/ Len(e.buf) <= k - k)
    BY <2>1 DEF AfterRounds
  <2> HIDE DEF e
  <2>3. e.buf \in Seq(Unit)
    BY <2>2 DEF Demux
  <2>4. Len(e.buf) <= k - k => e.buf = <<>>
    BY <1>0, <2>3
  <2>5. Stuck(e.buf)
    BY <2>2, <2>4 DEF Stuck
  <2> QED BY <1>2, <2>2, <2>5 DEF e
<1>6. PICK i \in Bad : \A m \in Bad : i <= m
  <2> HIDE DEF Bad
  <2>1. Bad \in SUBSET Nat BY <1>0 DEF Bad
  <2> QED BY <1>5, <2>1, LeastNat
<1>7. i \in 0 .. k /\ F[i] = Rounds(sideband, d, i, F) /\ ~Good(i)
  BY <1>1, <1>6
<1>8. i # 0
  <2> SUFFICES ASSUME i = 0 PROVE FALSE
    OBVIOUS
  <2>1. F[i] = d
    BY <1>7 DEF Rounds
  <2> QED BY <1>3, <1>7, <2>1
<1> DEFINE j == i - 1
           x == F[j]
           e == F[i]
<1>9. j \in 0 .. k /\ i = j + 1 /\ ~(i <= j)
  BY <1>0, <1>7, <1>8
<1>10. Good(j)
  BY <1>6, <1>9
<1>11. e = ParseFrame(sideband, x)
  BY <1>7, <1>8 DEF Rounds
<1> HIDE DEF e, j
<1>12. x \in Demux /\ Len(x.buf) <= n /\ Reads(wire, sideband, n, out, x)
       /\ (Stuck(x.buf) \/ Len(x.buf) <= k - j)
  BY <1>10 DEF AfterRounds
<1> HIDE DEF x
<1>13. /\ e \in Demux /\ Reads(wire, sideband, n, out, e)
       /\ Stuck(x.buf) => e = x
       /\ ~Stuck(x.buf) => Len(e.buf) < Len(x.buf)
  BY <1>11, <1>12, RoundReads
<1>14. Len(e.buf) \in Nat /\ Len(x.buf) \in Nat
  BY <1>12, <1>13 DEF Demux
<1>15. Len(e.buf) <= n /\ (Stuck(e.buf) \/ Len(e.buf) <= k - i)
  <2>1. CASE Stuck(x.buf)
    BY <1>12, <1>13, <2>1
  <2>2. CASE ~Stuck(x.buf)
    BY <1>0, <1>9, <1>12, <1>13, <1>14, <2>2, SMTT(60)
  <2> QED BY <2>1, <2>2
<1>16. AfterRounds(wire, sideband, n, out, k, i, e)
  BY <1>13, <1>15 DEF AfterRounds
<1> QED
  BY <1>7, <1>16 DEF e

\* What a response holds of the demultiplexer between two chunks.
Demuxed(p) == [state |-> p.state, buf |-> p.buf, sink |-> <<>>]

\* The demultiplexer goes on from what was given away; its sink starts empty.
LEMMA GivenAway ==
    ASSUME NEW wire, NEW sideband, NEW n, NEW out \in Seq(Nat), NEW e \in Demux,
           Reads(wire, sideband, n, out, e), NEW p, p.state = e.state, p.buf = e.buf
    PROVE  Reads(wire, sideband, n, Cat(out, e.sink), Demuxed(p))
<1> DEFINE f == Demuxed(p)
           given == Cat(out, e.sink)
           b == n - Len(f.buf)
<1>1. f.state = e.state /\ f.buf = e.buf /\ f.sink = <<>>
  BY DEF Demuxed
<1>2. given \in Seq(Nat)
  BY CatProperties DEF Demux
<1>3. Cat(given, f.sink) = given
  BY <1>1, <1>2, CatNothing
<1>4. e.state \in {"AwaitNak", "Sideband", "RawPack", "Done", "Failed"} /\ b = n - Len(e.buf)
  BY <1>1 DEF Demux
<1> HIDE DEF f, b
<1>5. CASE e.state \in {"AwaitNak", "Sideband"}
  <2>1. /\ Boundary(wire, b) /\ e.buf = SubSeq(wire, b + 1, n) /\ given = Received(wire, b)
        /\ e.state = "Sideband" => sideband /\ Nakked(wire, b)
    BY <1>4, <1>5 DEF Reads
  <2> HIDE DEF given
  <2>2. /\ f.state \in {"AwaitNak", "Sideband"} /\ Boundary(wire, b)
        /\ f.buf = SubSeq(wire, b + 1, n) /\ Cat(given, f.sink) = Received(wire, b)
        /\ f.state = "AwaitNak" => f.sink = <<>>
        /\ f.state = "Sideband" => sideband /\ Nakked(wire, b)
        /\ b = n - Len(f.buf)
    BY <1>1, <1>3, <1>4, <1>5, <2>1
  <2> QED BY <2>2, ReadsOn DEF f, given
<1>6. CASE e.state \in {"RawPack", "Done", "Failed"}
  <2>1. \/ e.state = "Failed"
        \/ /\ e.state \in {"RawPack", "Done"}
           /\ e.buf = <<>> /\ given = Received(wire, n)
           /\ e.state = "RawPack" => ~sideband /\ Nakked(wire, n)
           /\ e.state = "Done" => n = Len(wire)
    BY <1>6 DEF Reads
  <2> HIDE DEF given
  <2>2. \/ f.state = "Failed"
        \/ /\ f.state \in {"RawPack", "Done"}
           /\ f.buf = <<>> /\ Cat(given, f.sink) = Received(wire, n)
           /\ f.state = "RawPack" => ~sideband /\ Nakked(wire, n)
           /\ f.state = "Done" => n = Len(wire)
    BY <1>1, <1>3, <2>1
  <2> QED BY <2>2, ReadsEnd DEF f, given
<1> QED
  BY <1>4, <1>5, <1>6

\* feed reads on by a chunk, wherever it is cut.
LEMMA FeedReads ==
    ASSUME NEW p \in Response, NEW wire \in Seq(Unit), wire = p.kind.wire,
           NEW sideband \in BOOLEAN, sideband = p.kind.sideband,
           WholeFrames(wire), AfterNak(wire, sideband),
           NEW n \in 0 .. Len(wire), NEW m \in n + 1 .. Len(wire),
           Len(p.buf) <= n, Stuck(p.buf), p.state # "Failed",
           NEW out \in Seq(Nat), Reads(wire, sideband, n, out, Demuxed(p)),
           NEW chunk, chunk = SubSeq(wire, n + 1, m), NEW e, e = Feed(p, chunk)
    PROVE  \/ e.state = "Failed"
           \/ Reads(wire, sideband, m, out, e) /\ Stuck(e.buf) /\ Len(e.buf) <= m
<1> DEFINE f == Demuxed(p)
           d == [state |-> p.state, buf |-> p.buf \o chunk, sink |-> <<>>]
<1>1. f.state = p.state /\ f.buf = p.buf /\ f.sink = <<>>
  BY DEF Demuxed
<1>2. p.buf \in Seq(Unit) /\ p.state \in {"AwaitNak", "Sideband", "RawPack", "Done", "Failed"}
  BY DEF Response
<1>3. chunk \in Seq(Unit) /\ Len(chunk) = m - n
  BY BufferUnits
<1>4. Cat(out, <<>>) = out /\ Len(<<>>) = 0 /\ Stuck(<<>>)
  BY CatNothing DEF Stuck
<1>5. m \in 0 .. Len(wire) /\ n < m /\ m \in Nat
  OBVIOUS
<1> HIDE DEF f
<1>6. CASE p.state = "RawPack"
  <2>1. out = Received(wire, n) /\ ~sideband /\ Nakked(wire, n)
    BY <1>1, <1>4, <1>6 DEF Reads, f
  <2> DEFINE data == Data(chunk)
  <2>2. e = [d EXCEPT !.buf = <<>>, !.sink = data]
    BY <1>6 DEF Feed
  <2> HIDE DEF data
  <2>3. e.state = "RawPack" /\ e.buf = <<>> /\ e.sink = data
    BY <1>6, <2>2
  <2>4. PICK i \in 1 .. n : wire[i].type = "nak" /\ wire[i].part = 2
    BY <2>1 DEF Nakked
  <2>5. \A j \in n + 1 .. m : wire[j].type = "raw"
    <3> SUFFICES ASSUME NEW j \in n + 1 .. m PROVE wire[j].type = "raw"
      OBVIOUS
    <3>1. i \in 1 .. Len(wire) /\ j \in 1 .. Len(wire) /\ i < j
      OBVIOUS
    <3> QED BY <2>1, <2>4, <3>1 DEF AfterNak
  <2>6. Received(wire, m) = Cat(Received(wire, n), data)
    <3>1. m \in n .. Len(wire)
      OBVIOUS
    <3> QED BY <2>5, <3>1, ReceivedRaw DEF Cat, data
  <2>7. Nakked(wire, m)
    <3>1. i \in 1 .. m
      OBVIOUS
    <3> QED BY <2>4, <3>1 DEF Nakked
  <2>8. Cat(out, e.sink) = Received(wire, m)
    BY <2>1, <2>3, <2>6
  <2>9. Reads(wire, sideband, m, out, e)
    BY <2>1, <2>3, <2>7, <2>8, ReadsEnd
  <2>10. Stuck(e.buf) /\ Len(e.buf) <= m
    BY <1>4, <1>5, <2>3
  <2> QED BY <2>9, <2>10
<1>7. CASE p.state = "Done"
  <2>1. n = Len(wire)
    BY <1>1, <1>7 DEF Reads, f
  <2> QED BY <2>1
<1>8. CASE p.state \in {"AwaitNak", "Sideband"} /\ Len(d.buf) > MaxBuffer
  <2>1. e = [d EXCEPT !.state = "Failed", !.buf = <<>>]
    BY <1>8 DEF Feed
  <2> QED BY <2>1
<1>9. CASE p.state \in {"AwaitNak", "Sideband"} /\ ~(Len(d.buf) > MaxBuffer)
  <2> DEFINE b == n - Len(p.buf)
  <2>1. /\ Boundary(wire, b) /\ p.buf = SubSeq(wire, b + 1, n) /\ out = Received(wire, b)
        /\ p.state = "Sideband" => sideband /\ Nakked(wire, b)
    BY <1>1, <1>4, <1>9 DEF Reads, f
  <2>2. b \in 0 .. n /\ Len(p.buf) \in Nat
    BY <1>2
  <2>3. d.state = p.state /\ d.buf = p.buf \o chunk /\ d.sink = <<>>
    OBVIOUS
  <2> DEFINE buf == p.buf \o chunk
  <2>4. buf \in Seq(Unit) /\ Len(buf) = Len(p.buf) + (m - n)
    BY <1>2, <1>3, ConcatProperties
  <2>5. b = m - Len(buf) /\ Len(buf) <= m
    BY <2>2, <2>4
  <2> HIDE DEF b
  <2>6. buf = SubSeq(wire, b + 1, m)
    <3>1. b + 1 \in 1 .. Len(wire) + 1 /\ n \in (b + 1) - 1 .. Len(wire) /\ m \in n .. Len(wire)
      BY <2>2
    <3>2. SubSeq(wire, b + 1, n) \o SubSeq(wire, n + 1, m) = SubSeq(wire, b + 1, m)
      BY <3>1, ConcatAdjacentSubSeq
    <3> QED BY <2>1, <3>2
  <2> HIDE DEF buf
  <2>7. d \in Demux
    <3>1. <<>> \in Seq(Nat)
      OBVIOUS
    <3> QED BY <1>2, <2>4, <3>1 DEF Demux, buf
  <2>8. d.buf = buf /\ d.state = p.state /\ d.sink = <<>>
    BY DEF buf
  <2> HIDE DEF d
  <2>9. /\ d.state \in {"AwaitNak", "Sideband"} /\ b = m - Len(d.buf) /\ Boundary(wire, b)
        /\ d.buf = SubSeq(wire, b + 1, m) /\ Cat(out, d.sink) = Received(wire, b)
        /\ d.state = "AwaitNak" => d.sink = <<>>
        /\ d.state = "Sideband" => sideband /\ Nakked(wire, b)
        /\ Len(d.buf) <= m
    BY <1>4, <1>9, <2>1, <2>5, <2>6, <2>8
  <2>10. Reads(wire, sideband, m, out, d)
    BY <2>9, ReadsOn
  <2>11. e = ParseFrames(sideband, d)
    BY <1>9 DEF Feed, d
  <2> QED BY <1>5, <2>7, <2>9, <2>10, <2>11, LoopReads
<1> QED
  BY <1>2, <1>6, <1>7, <1>8, <1>9

-----------------------------------------------------------------------------
(* The tee spools what upstream sent                                       *)

\* The tee has read the wire as far as it was received.
Teed(p) ==
    /\ p.pos <= Len(p.kind.wire) /\ Len(p.buf) <= p.pos
    /\ p.state # "Failed" /\ Stuck(p.buf)
    /\ Reads(p.kind.wire, p.kind.sideband, p.pos, Cat(p.spool, Flatten(p.queue)), Demuxed(p))

\* A response has no follow-up while it lasts; a tee starts from nothing and then
\* reads the wire.
Spooling(r, p) ==
    /\ p.stream \in {"none", "advertised", "open"} => p.pc = "none"
    /\ p.stream \in {"none", "advertised"} =>
        p.pos = 0 /\ p.buf = <<>> /\ p.queue = <<>> /\ p.spool = <<>> /\ p.state = "AwaitNak"
    /\ p.stream = "open" /\ p.tee /\ p.writer # "nothing" => p.kind \in Kinds[r] /\ Teed(p)

SpoolInv == \A r \in Responses : Spooling(r, resp[r])

\* What is spooled and queued is data.
LEMMA SpooledType ==
    ASSUME NEW p \in Response
    PROVE  /\ p.spool \in Seq(Nat) /\ Flatten(p.queue) \in Seq(Nat)
           /\ Cat(p.spool, Flatten(p.queue)) \in Seq(Nat)
           /\ p.kind.wire \in Seq(Unit) /\ p.kind.sideband \in BOOLEAN /\ p.pos \in Nat
           /\ p.buf \in Seq(Unit) /\ p.queue \in Seq(Seq(Nat))
<1>1. p.spool \in Seq(Nat) /\ p.queue \in Seq(Seq(Nat)) /\ p.buf \in Seq(Unit) /\ p.pos \in Nat
      /\ p.kind \in Kind
  BY DEF Response
<1>2. Flatten(p.queue) \in Seq(Nat)
  BY <1>1, FlattenType
<1>3. Cat(p.spool, Flatten(p.queue)) \in Seq(Nat)
  BY <1>1, <1>2, CatProperties
<1>4. p.kind.wire \in Seq(Unit) /\ p.kind.sideband \in BOOLEAN
  BY <1>1 DEF Kind
<1> QED
  BY <1>1, <1>2, <1>3, <1>4

\* The units in the buffer carry no pack data yet: SpoolFaithful for one response.
LEMMA TeedIsFaithful ==
    ASSUME NEW p \in Response, Teed(p)
    PROVE  p.spool \o Flatten(p.queue) = Pack(SubSeq(p.kind.wire, 1, p.pos))
<1> DEFINE wire == p.kind.wire
           n == p.pos
           out == Cat(p.spool, Flatten(p.queue))
           f == Demuxed(p)
           b == n - Len(p.buf)
<1>1. out \in Seq(Nat) /\ wire \in Seq(Unit) /\ n \in 0 .. Len(wire) /\ p.buf \in Seq(Unit)
      /\ Len(p.buf) <= n
  BY SpooledType DEF Teed
<1>2. f.state = p.state /\ f.buf = p.buf /\ f.sink = <<>>
  BY DEF Demuxed
<1>3. Reads(wire, p.kind.sideband, n, out, f) /\ Stuck(p.buf) /\ p.state # "Failed"
  BY DEF Teed
<1>4. p.state \in {"AwaitNak", "Sideband", "RawPack", "Done", "Failed"}
  BY DEF Response
<1>5. Cat(out, <<>>) = out
  BY <1>1, CatNothing
<1>6. SUFFICES out = Received(wire, n)
  BY DEF Cat, Received
<1> HIDE DEF f, out, n, wire
<1>7. CASE p.state \in {"RawPack", "Done"}
  BY <1>2, <1>3, <1>5, <1>7 DEF Reads
<1>8. CASE p.state \in {"AwaitNak", "Sideband"}
  <2>1. Boundary(wire, b) /\ p.buf = SubSeq(wire, b + 1, n) /\ out = Received(wire, b)
    BY <1>2, <1>3, <1>5, <1>8 DEF Reads
  <2>2. CASE p.buf = <<>>
    <3>1. b = n
      BY <1>1, <2>2
    <3> QED BY <2>1, <3>1
  <2>3. CASE p.buf # <<>>
    <3>1. Len(p.buf) < Width(p.buf[1])
      BY <1>3, <2>3 DEF Stuck
    <3>2. Len(p.buf) = 1 /\ Width(p.buf[1]) = 2
      <4>1. Width(p.buf[1]) \in {1, 2}
        BY DEF Width
      <4>2. Len(p.buf) \in Nat /\ Len(p.buf) # 0
        BY <1>1, <2>3
      <4> DEFINE x == Width(p.buf[1])
                 l == Len(p.buf)
      <4>3. l < x /\ x \in {1, 2} /\ l \in Nat /\ l # 0
        BY <3>1, <4>1, <4>2
      <4> HIDE DEF x, l
      <4>4. l = 1 /\ x = 2
        BY <4>3
      <4> QED BY <4>4 DEF x, l
    <3>3. b \in 0 .. Len(wire) - 1 /\ b + 1 = n /\ b \in 0 .. n /\ n - b = 1
      BY <1>1, <3>2
    <3> HIDE DEF b
    <3>4. p.buf[1] = wire[b + 1]
      <4>1. \A i \in 1 .. n - b : p.buf[i] = wire[b + i]
        BY <1>1, <2>1, <3>3, BufferUnits
      <4> QED BY <3>3, <4>1
    <3>5. wire[b + 1].part = 1
      BY <2>1, <3>3 DEF Boundary
    <3>6. ~Carries(wire[b + 1])
      BY <3>2, <3>4, <3>5 DEF Carries, Width
    <3>7. Received(wire, b + 1) = Received(wire, b)
      BY <1>1, <3>3, <3>6, ReceivedStep
    <3> QED BY <2>1, <3>3, <3>7
  <2> QED BY <2>2, <2>3
<1> QED
  BY <1>3, <1>4, <1>7, <1>8

\* The tee has read n units of a well-formed wire, and is given those up to pos.
Ahead(p, n, chunk, wire, sideband) ==
    /\ wire = p.kind.wire /\ sideband = p.kind.sideband
    /\ WholeFrames(wire) /\ AfterNak(wire, sideband)
    /\ n \in 0 .. Len(wire) /\ p.pos \in n + 1 .. Len(wire)
    /\ Len(p.buf) <= n /\ Stuck(p.buf) /\ p.state # "Failed"
    /\ Reads(wire, sideband, n, Cat(p.spool, Flatten(p.queue)), Demuxed(p))
    /\ chunk = SubSeq(wire, n + 1, p.pos)

\* tee_chunk keeps the tee on the wire, or ends it.
LEMMA TeeChunkTeed ==
    ASSUME NEW p \in Response, NEW n, NEW chunk, NEW wire, NEW sideband,
           Ahead(p, n, chunk, wire, sideband), NEW t, t = TeeChunk(p, chunk), t.tee
    PROVE  t.kind = p.kind /\ Teed(t)
<1>0. /\ wire = p.kind.wire /\ sideband = p.kind.sideband
      /\ WholeFrames(wire) /\ AfterNak(wire, sideband)
      /\ n \in 0 .. Len(wire) /\ p.pos \in n + 1 .. Len(wire)
      /\ Len(p.buf) <= n /\ Stuck(p.buf) /\ p.state # "Failed"
      /\ Reads(wire, sideband, n, Cat(p.spool, Flatten(p.queue)), Demuxed(p))
      /\ chunk = SubSeq(wire, n + 1, p.pos)
  BY DEF Ahead
<1> DEFINE d == Feed(p, chunk)
           state == d.state
           buf == d.buf
           sink == d.sink
           pieces == p.pieces + Len(sink)
           fed == [p EXCEPT !.state = state, !.buf = buf, !.pieces = pieces]
           queue == Append(fed.queue, sink)
           sent == [fed EXCEPT !.queue = queue]
           out == Cat(p.spool, Flatten(p.queue))
<1>1. /\ p.spool \in Seq(Nat) /\ Flatten(p.queue) \in Seq(Nat) /\ out \in Seq(Nat)
      /\ wire \in Seq(Unit) /\ sideband \in BOOLEAN /\ p.pos \in Nat
      /\ p.queue \in Seq(Seq(Nat))
  BY <1>0, SpooledType
<1>2. chunk \in Seq(Unit)
  BY <1>0, <1>1, BufferUnits, SMTT(60)
<1>3. d \in Demux
  BY <1>2, FeedType
<1>4. \/ d.state = "Failed"
      \/ Reads(wire, sideband, p.pos, out, d) /\ Stuck(d.buf) /\ Len(d.buf) <= p.pos
  BY <1>0, <1>1, FeedReads
<1>5. sink \in Seq(Nat) /\ d.state \in {"AwaitNak", "Sideband", "RawPack", "Done", "Failed"}
  BY <1>3 DEF Demux
<1>6. p.tee
  <2> SUFFICES ASSUME ~p.tee PROVE FALSE
    OBVIOUS
  <2>1. t = p
    BY DEF TeeChunk
  <2> QED BY <2>1
<1>7. t # DropTee(p)
  <2>1. DropTee(p).tee = FALSE
    BY DEF DropTee, Response
  <2> QED BY <2>1
<1>8. d.state # "Failed" /\ ((t = fed /\ sink = <<>>) \/ t = sent)
  BY <1>6, <1>7 DEF TeeChunk
<1>9. Reads(wire, sideband, p.pos, out, d) /\ Stuck(buf) /\ Len(buf) <= p.pos
  BY <1>4, <1>8
<1>10. state \in {"AwaitNak", "Sideband", "RawPack", "Done", "Failed"} /\ buf \in Seq(Unit)
       /\ pieces \in Nat
  <2>1. d.buf \in Seq(Unit)
    BY <1>3 DEF Demux
  <2>2. p.pieces \in Nat /\ Len(sink) \in Nat
    <3> HIDE DEF sink
    <3> QED BY <1>5 DEF Response
  <2> HIDE DEF sink
  <2> QED BY <1>5, <2>1, <2>2
<1>11. state = d.state /\ buf = d.buf /\ sink = d.sink
  OBVIOUS
<1> HIDE DEF d, state, buf, sink, pieces
<1>12. /\ fed \in Response /\ fed.kind = p.kind /\ fed.pos = p.pos /\ fed.state = state
       /\ fed.buf = buf /\ fed.spool = p.spool /\ fed.queue = p.queue
  BY <1>10 DEF Response
<1> HIDE DEF fed
<1>13. queue \in Seq(Seq(Nat)) /\ Flatten(queue) = Cat(Flatten(p.queue), sink)
  <2>1. queue = Append(p.queue, sink)
    BY <1>12
  <2>2. Append(p.queue, sink) \in Seq(Seq(Nat))
    BY <1>1, <1>5
  <2>3. Flatten(Append(p.queue, sink)) = Flatten(p.queue) \o sink
    BY <1>1, <1>5, FlattenAppend
  <2> HIDE DEF queue
  <2> QED BY <2>1, <2>2, <2>3 DEF Cat
<1> HIDE DEF queue
<1>14. /\ sent.kind = p.kind /\ sent.pos = p.pos /\ sent.state = state
       /\ sent.buf = buf /\ sent.spool = p.spool /\ sent.queue = queue
  BY <1>12 DEF Response
<1> HIDE DEF sent
<1>15. /\ t.kind = p.kind /\ t.pos = p.pos /\ t.state = state /\ t.buf = buf
       /\ t.spool = p.spool
  BY <1>8, <1>12, <1>14
<1>16. Cat(t.spool, Flatten(t.queue)) = Cat(out, sink)
  <2>1. CASE t = sent
    <3>1. Cat(out, sink) = Cat(p.spool, Cat(Flatten(p.queue), sink))
      BY <1>1, <1>5, CatProperties, ZenonT(60)
    <3> QED BY <1>13, <1>14, <2>1, <3>1
  <2>2. CASE t = fed /\ sink = <<>>
    <3>1. Cat(out, <<>>) = out
      BY <1>1, CatNothing
    <3>2. t.queue = p.queue
      BY <1>12, <2>2
    <3> QED BY <1>15, <2>2, <3>1, <3>2
  <2> QED BY <1>8, <2>1, <2>2
<1>17. Reads(wire, sideband, p.pos, Cat(out, sink), Demuxed(t))
  <2> HIDE DEF out
  <2>1. t.state = d.state /\ t.buf = d.buf
    BY <1>11, <1>15
  <2> QED BY <1>1, <1>3, <1>9, <1>11, <2>1, GivenAway
<1> HIDE DEF out
<1>18. t.state # "Failed" /\ Stuck(t.buf) /\ Len(t.buf) <= t.pos /\ t.pos <= Len(wire)
  BY <1>0, <1>8, <1>9, <1>11, <1>15
<1> QED
  BY <1>0, <1>15, <1>16, <1>17, <1>18 DEF Teed

\* The tee and its writer are where they were, or the tee is dropped.
LEMMA TeeChunkWriter ==
    ASSUME NEW p \in Response, NEW chunk, NEW t, t = TeeChunk(p, chunk)
    PROVE  t.writer = p.writer /\ (t.tee => p.tee)
<1> DEFINE state == Feed(p, chunk).state
           buf == Feed(p, chunk).buf
           sink == Feed(p, chunk).sink
           pieces == p.pieces + Len(sink)
           fed == [p EXCEPT !.state = state, !.buf = buf, !.pieces = pieces]
           queue == Append(fed.queue, sink)
           sent == [fed EXCEPT !.queue = queue]
<1>1. t \in {p, DropTee(p), fed, sent}
  BY DEF TeeChunk
<1> HIDE DEF state, buf, pieces, queue
<1>2. fed.writer = p.writer /\ fed.tee = p.tee /\ sent.writer = p.writer /\ sent.tee = p.tee
  BY DEF Response
<1>3. DropTee(p).writer = p.writer /\ DropTee(p).tee = FALSE
  BY DEF DropTee, Response
<1> HIDE DEF fed, sent
<1>4. CASE t = DropTee(p)
  BY <1>3, <1>4
<1>5. CASE t # DropTee(p)
  BY <1>1, <1>2, <1>5
<1> QED
  BY <1>4, <1>5

\* A response that has not begun spools nothing.
LEMMA SpoolInvInit == Init => SpoolInv
<1> SUFFICES ASSUME Init, NEW r \in Responses PROVE Spooling(r, resp[r])
  BY DEF SpoolInv
<1> DEFINE k == CHOOSE k \in Kinds[r] : TRUE
<1> HIDE DEF k
<1>1. resp[r] =
        [stream |-> "none", kind |-> k, saw |-> FirstTips, pos |-> 0,
         tee |-> FALSE, state |-> "AwaitNak", buf |-> <<>>, pieces |-> 0, queue |-> <<>>,
         writer |-> "none", spool |-> <<>>, reserved |-> 0, warm |-> FALSE, spawned |-> 0,
         pc |-> "none", todo |-> {}, want |-> {}, clean |-> TRUE]
  BY DEF Init, NoResponse, k
<1>2. resp[r].stream = "none" /\ resp[r].pc = "none" /\ resp[r].pos = 0 /\ resp[r].buf = <<>>
      /\ resp[r].queue = <<>> /\ resp[r].spool = <<>> /\ resp[r].state = "AwaitNak"
  BY <1>1
<1> QED
  BY <1>2 DEF Spooling

\* A tee starts with nothing of the wire.
LEMMA PostSpools ==
    ASSUME ProxyInv, SpoolInv, WellFormedWires, NEW r \in Responses, Post(r)
    PROVE  Spooling(r, resp'[r])
<1> DEFINE p == resp[r]
<1>1. PICK k \in Kinds[r], comparison \in {proof, tips} :
        Become(r, [p EXCEPT
            !.stream = "open", !.kind = k, !.warm = TRUE, !.saw = FirstTips,
            !.tee = k.tee, !.writer = IF k.tee THEN "start" ELSE "none",
            !.todo = GenerationWants(k, p.saw, comparison)])
  BY DEF Post
<1> DEFINE writer == IF k.tee THEN "start" ELSE "none"
           todo == GenerationWants(k, p.saw, comparison)
           tee == k.tee
           q == [p EXCEPT !.stream = "open", !.kind = k, !.warm = TRUE, !.saw = FirstTips,
                          !.tee = tee, !.writer = writer, !.todo = todo]
           wire == k.wire
<1>2. p \in Response /\ resp \in [Responses -> Response] /\ p.stream = "advertised"
  BY Typed DEF Post
<1>3. resp'[r] = q
  BY <1>1, <1>2 DEF Become
<1>4. /\ p.pc = "none" /\ p.pos = 0 /\ p.buf = <<>> /\ p.queue = <<>> /\ p.spool = <<>>
      /\ p.state = "AwaitNak"
  BY <1>2 DEF SpoolInv, Spooling
<1> HIDE DEF tee, writer, todo
<1>5. /\ q.stream = "open" /\ q.kind = k /\ q.pc = p.pc /\ q.pos = p.pos /\ q.buf = p.buf
      /\ q.queue = p.queue /\ q.spool = p.spool /\ q.state = p.state
  BY <1>2 DEF Response
<1> HIDE DEF q
<1>6. wire \in Seq(Unit)
  BY Constants DEF Kind
<1>7. WholeFrames(wire)
  BY DEF WellFormedWires
<1> HIDE DEF wire
<1>8. Boundary(wire, 0) /\ SubSeq(wire, 0 + 1, 0) = <<>> /\ Received(wire, 0) = <<>>
  <2>1. 0 < Len(wire) => wire[0 + 1].part = 1
    <3> SUFFICES ASSUME 0 < Len(wire) PROVE wire[1].part = 1
      OBVIOUS
    <3>1. wire # <<>>
      OBVIOUS
    <3> QED BY <1>7, <3>1 DEF WholeFrames
  <2>2. 0 \in 0 .. Len(wire)
    BY <1>6
  <2>3. SubSeq(wire, 0 + 1, 0) = <<>>
    BY SubSeqEmpty
  <2> QED BY <1>6, <2>1, <2>2, <2>3, ReceivedNothing DEF Boundary
<1>9. Cat(q.spool, Flatten(q.queue)) = <<>> /\ <<>> \in Seq(Nat)
  <2>1. <<>> \in Seq(Nat)
    OBVIOUS
  <2>2. Cat(<<>>, <<>>) = <<>>
    BY <2>1, CatNothing
  <2> QED BY <1>4, <1>5, <2>1, <2>2, FlattenNothing
<1> DEFINE f == Demuxed(q)
<1>10. f.state = "AwaitNak" /\ f.buf = <<>> /\ f.sink = <<>> /\ Len(<<>>) = 0
  BY <1>4, <1>5 DEF Demuxed
<1> HIDE DEF f
<1>11. Reads(wire, k.sideband, 0, <<>>, f)
  <2>1. 0 = 0 - Len(f.buf)
    <3>1. Len(f.buf) = 0
      BY <1>10
    <3> QED BY <3>1
  <2>2. Cat(<<>>, f.sink) = Received(wire, 0)
    BY <1>8, <1>9, <1>10, CatNothing
  <2> QED BY <1>8, <1>10, <2>1, <2>2, ReadsOn
<1>12. Teed(q)
  <2>1. q.pos <= Len(q.kind.wire) /\ Len(q.buf) <= q.pos
    BY <1>4, <1>5, <1>6, <1>10 DEF wire
  <2>2. q.state # "Failed" /\ Stuck(q.buf)
    BY <1>4, <1>5 DEF Stuck
  <2> QED BY <1>4, <1>5, <1>9, <1>11, <2>1, <2>2 DEF Teed, f, wire
<1> QED
  BY <1>3, <1>4, <1>5, <1>12, SMTT(60) DEF Spooling

\* A chunk, wherever upstream cuts it.
LEMMA ChunkSpools ==
    ASSUME ProxyInv, SpoolInv, WellFormedWires, NEW r \in Responses, Chunk(r)
    PROVE  Spooling(r, resp'[r])
<1> DEFINE p == resp[r]
<1>1. PICK n \in ChunkSizes :
        LET q == [p EXCEPT !.pos = @ + n] IN
        /\ q.pos <= Len(p.kind.wire)
        /\ Become(r, IF q.pos > MaxBytes THEN [q EXCEPT !.stream = "failed"]
                     ELSE TeeChunk(q, SubSeq(p.kind.wire, p.pos + 1, q.pos)))
  BY DEF Chunk
<1> DEFINE pos == p.pos + n
           q == [p EXCEPT !.pos = pos]
           wire == p.kind.wire
           chunk == SubSeq(wire, p.pos + 1, q.pos)
           failed == [q EXCEPT !.stream = "failed"]
           t == TeeChunk(q, chunk)
<1>2. /\ p \in Response /\ resp \in [Responses -> Response] /\ p.stream = "open"
      /\ wire \in Seq(Unit) /\ p.pos \in Nat /\ p.pc = "none"
      /\ (p.tee /\ p.writer # "nothing" => p.kind \in Kinds[r] /\ Teed(p))
  BY Typed, SpooledType DEF Chunk, SpoolInv, Spooling
<1>3. n \in Nat \ {0}
  BY ProxyAssumption
<1>4. q.pos <= Len(wire) /\ (resp'[r] = failed \/ resp'[r] = t)
  BY <1>1, <1>2 DEF Become
<1>5. pos \in Nat /\ pos > p.pos
  BY <1>2, <1>3
<1> HIDE DEF pos
<1>6. /\ q \in Response /\ q.pos = pos /\ q.kind = p.kind /\ q.state = p.state /\ q.buf = p.buf
      /\ q.spool = p.spool /\ q.queue = p.queue /\ q.stream = p.stream /\ q.pc = p.pc
      /\ q.tee = p.tee /\ q.writer = p.writer
  BY <1>2, <1>5 DEF Response
<1> HIDE DEF q, wire
<1>7. CASE resp'[r] = failed
  <2>1. failed.stream = "failed"
    BY <1>6 DEF Response
  <2> QED BY <1>7, <2>1 DEF Spooling
<1>8. CASE resp'[r] = t
  <2>1. chunk \in Seq(Unit)
    <3>1. p.pos \in 0 .. pos /\ pos \in 0 .. Len(wire)
      BY <1>2, <1>4, <1>5, <1>6
    <3> QED BY <1>2, <1>6, <3>1, BufferUnits
  <2>2. t.stream = "open" /\ t.pc = "none" /\ t.writer = p.writer /\ (t.tee => p.tee)
    <3>1. Len(q.queue) <= Capacity
      BY <1>6, Typed
    <3> HIDE DEF chunk
    <3>2. Rest(q, t)
      BY <1>6, <2>1, <3>1, TeeChunkType
    <3> QED BY <1>2, <1>6, <3>2, TeeChunkWriter DEF Rest
  <2>3. ASSUME t.tee, t.writer # "nothing" PROVE t.kind \in Kinds[r] /\ Teed(t)
    <3>1. p.kind \in Kinds[r] /\ Teed(p)
      BY <1>2, <2>2, <2>3
    <3>2. WholeFrames(wire) /\ AfterNak(wire, p.kind.sideband)
      BY <3>1 DEF WellFormedWires, wire
    <3>3. Demuxed(q) = Demuxed(p)
      BY <1>6 DEF Demuxed
    <3>4. /\ p.pos \in 0 .. Len(wire) /\ Len(p.buf) <= p.pos /\ p.state # "Failed" /\ Stuck(p.buf)
          /\ Reads(wire, p.kind.sideband, p.pos, Cat(p.spool, Flatten(p.queue)), Demuxed(p))
      BY <1>2, <3>1 DEF Teed, wire
    <3>5. Ahead(q, p.pos, chunk, wire, p.kind.sideband)
      <4>1. q.pos \in p.pos + 1 .. Len(wire)
        BY <1>2, <1>4, <1>5, <1>6
      <4>2. wire = q.kind.wire /\ p.kind.sideband = q.kind.sideband
        BY <1>6 DEF wire
      <4>3. /\ Len(q.buf) <= p.pos /\ Stuck(q.buf) /\ q.state # "Failed"
            /\ Cat(q.spool, Flatten(q.queue)) = Cat(p.spool, Flatten(p.queue))
        BY <1>6, <3>4
      <4> QED BY <3>2, <3>3, <3>4, <4>1, <4>2, <4>3 DEF Ahead
    <3> HIDE DEF chunk
    <3>6. t = TeeChunk(q, chunk)
      OBVIOUS
    <3> HIDE DEF t
    <3>7. t.kind = q.kind /\ Teed(t)
      BY <1>6, <2>3, <3>5, <3>6, TeeChunkTeed
    <3> QED BY <1>6, <3>1, <3>7
  <2> HIDE DEF t
  <2> QED BY <1>8, <2>2, <2>3 DEF Spooling
<1> QED
  BY <1>4, <1>7, <1>8

\* The channel hands its first message over to the spool.
LEMMA ReceiveSpools ==
    ASSUME ProxyInv, SpoolInv, NEW r \in Responses, WriterReceives(r)
    PROVE  Spooling(r, resp'[r])
<1> DEFINE p == resp[r]
           m == Head(p.queue)
           queue == Tail(p.queue)
           spool == p.spool \o m
           reserved == p.reserved + 1
           a == [p EXCEPT !.writer = "output", !.queue = queue]
           b == [p EXCEPT !.spool = spool, !.queue = queue, !.reserved = reserved]
           q == resp'[r]
<1>1. /\ p \in Response /\ p.writer = "recv" /\ p.queue # <<>>
      /\ ((m = Done /\ q = a) \/ q = b)
  <2>1. p.writer = "recv" /\ p.queue # <<>>
        /\ ((m = Done /\ Become(r, a)) \/ Become(r, b))
    BY DEF WriterReceives
  <2>2. p \in Response /\ resp \in [Responses -> Response]
    BY Typed
  <2> QED BY <2>1, <2>2 DEF Become
<1>2. /\ p.spool \in Seq(Nat) /\ p.queue \in Seq(Seq(Nat))
  BY <1>1, SpooledType
<1>3. m \in Seq(Nat) /\ queue \in Seq(Seq(Nat))
  BY <1>1, <1>2
<1>4. Flatten(p.queue) = Cat(m, Flatten(queue)) /\ Flatten(queue) \in Seq(Nat)
  BY <1>1, <1>2, <1>3, FlattenTail, FlattenType DEF Cat
<1>5. spool = Cat(p.spool, m)
  BY DEF Cat
<1> HIDE DEF m, queue, spool, reserved
<1>6. /\ a.stream = p.stream /\ a.pc = p.pc /\ a.tee = p.tee /\ a.kind = p.kind /\ a.pos = p.pos
      /\ a.buf = p.buf /\ a.state = p.state /\ a.spool = p.spool /\ a.queue = queue
  BY <1>1 DEF Response
<1>7. /\ b.stream = p.stream /\ b.pc = p.pc /\ b.tee = p.tee /\ b.kind = p.kind /\ b.pos = p.pos
      /\ b.buf = p.buf /\ b.state = p.state /\ b.spool = spool /\ b.queue = queue
  BY <1>1 DEF Response
<1> HIDE DEF a, b
<1>8. Cat(q.spool, Flatten(q.queue)) = Cat(p.spool, Flatten(p.queue))
  <2>1. CASE m = Done /\ q = a
    <3>1. Cat(<<>>, Flatten(queue)) = Flatten(queue)
      BY <1>4, CatNothing
    <3>2. Flatten(p.queue) = Flatten(queue)
      BY <1>4, <2>1, <3>1 DEF Done
    <3> QED BY <1>6, <2>1, <3>2
  <2>2. CASE q = b
    <3>1. Cat(Cat(p.spool, m), Flatten(queue)) = Cat(p.spool, Cat(m, Flatten(queue)))
      BY <1>2, <1>3, <1>4, CatProperties
    <3> QED BY <1>4, <1>5, <1>7, <2>2, <3>1
  <2> QED BY <1>1, <2>1, <2>2
<1> HIDE DEF q
<1>9. /\ q.stream = p.stream /\ q.pc = p.pc /\ q.tee = p.tee /\ q.kind = p.kind /\ q.pos = p.pos
      /\ q.buf = p.buf /\ q.state = p.state
  BY <1>1, <1>6, <1>7
<1>10. p.stream \in {"none", "advertised"} => FALSE
  BY <1>1 DEF SpoolInv, Spooling
<1>11. Demuxed(q) = Demuxed(p)
  BY <1>9 DEF Demuxed
<1>12. Teed(p) => Teed(q)
  BY <1>8, <1>9, <1>11 DEF Teed
<1>13. Spooling(r, p)
  BY DEF SpoolInv
<1>14. Spooling(r, q)
  BY <1>1, <1>9, <1>10, <1>12, <1>13 DEF Spooling
<1> QED
  BY <1>14 DEF q

\* What the client or the writer does to a response.
LEMMA StreamSpools ==
    ASSUME ProxyInv, SpoolInv, WellFormedWires, NEW r \in Responses, Client(r) \/ Writer(r)
    PROVE  Spooling(r, resp'[r])
<1> DEFINE p == resp[r]
<1>1. p \in Response /\ resp \in [Responses -> Response] /\ Spooling(r, p)
  BY Typed DEF SpoolInv
<1>2. CASE Advertise(r)
  <2> DEFINE q == [p EXCEPT !.stream = "advertised", !.saw = tips]
  <2>1. resp'[r] = q /\ p.stream = "none"
    BY <1>1, <1>2 DEF Advertise, Become
  <2>2. /\ q.stream = "advertised" /\ q.pc = p.pc /\ q.pos = p.pos /\ q.buf = p.buf
        /\ q.queue = p.queue /\ q.spool = p.spool /\ q.state = p.state
    BY <1>1 DEF Response
  <2> HIDE DEF q
  <2> QED BY <1>1, <2>1, <2>2 DEF Spooling
<1>3. CASE StreamEnds(r)
  <2> DEFINE d == DropTee(p)
             ended == [d EXCEPT !.stream = "ended", !.warm = FALSE, !.spawned = d.spawned + 1]
             queue == Append(ended.queue, Done)
             a == [ended EXCEPT !.pc = "writer", !.queue = queue]
             b == [ended EXCEPT !.pc = "warmPermit"]
  <2>1. resp'[r] = a \/ resp'[r] = b
    BY <1>1, <1>3 DEF StreamEnds, Become
  <2>2. d \in Response
    BY <1>1, DropTeeType
  <2> HIDE DEF d, queue
  <2>3. a.stream = "ended" /\ b.stream = "ended"
    BY <2>2 DEF Response
  <2> HIDE DEF a, b
  <2>4. resp'[r].stream = "ended"
    BY <2>1, <2>3
  <2> QED BY <2>4 DEF Spooling
<1>4. CASE StreamDropped(r)
  <2> DEFINE d == DropTee(p)
             spawned == IF p.warm THEN d.spawned + 1 ELSE d.spawned
             pc == IF p.warm THEN "warmPermit" ELSE d.pc
             q == [d EXCEPT !.stream = "dropped", !.pos = 0, !.warm = FALSE,
                            !.spawned = spawned, !.pc = pc]
  <2>1. resp'[r] = q
    BY <1>1, <1>4 DEF StreamDropped, Become
  <2>2. d \in Response
    BY <1>1, DropTeeType
  <2> HIDE DEF d, spawned, pc
  <2>3. q.stream = "dropped"
    BY <2>2 DEF Response
  <2> HIDE DEF q
  <2> QED BY <2>1, <2>3 DEF Spooling
<1>5. CASE WriterStarts(r)
  <2> DEFINE q == [p EXCEPT !.writer = "recv", !.reserved = 1]
  <2>1. resp'[r] = q /\ p.writer # "nothing"
    BY <1>1, <1>5 DEF WriterStarts, Become
  <2>2. /\ q.stream = p.stream /\ q.pc = p.pc /\ q.pos = p.pos /\ q.buf = p.buf
        /\ q.queue = p.queue /\ q.spool = p.spool /\ q.state = p.state /\ q.tee = p.tee
        /\ q.kind = p.kind
    BY <1>1 DEF Response
  <2> HIDE DEF q
  <2>3. Demuxed(q) = Demuxed(p)
    BY <2>2 DEF Demuxed
  <2>4. Teed(p) => Teed(q)
    BY <2>2, <2>3 DEF Teed
  <2> QED BY <1>1, <2>1, <2>2, <2>4 DEF Spooling
<1>6. CASE WriterFails(r) \/ WriterAbandoned(r)
  <2> DEFINE f == Forget(p)
             q == [f EXCEPT !.writer = "nothing", !.queue = <<>>]
  <2>1. resp'[r] = q
    BY <1>1, <1>6 DEF WriterFails, WriterAbandoned, WriterStops, Become
  <2>2. f \in Response /\ f.stream = p.stream /\ f.pc = p.pc
    BY <1>1, ForgetType DEF Rest
  <2>3. f.pos = p.pos /\ f.buf = p.buf /\ f.state = p.state /\ f.spool = <<>>
    <3> DEFINE k == [p.kind EXCEPT !.wire = <<>>]
    <3>1. f = [p EXCEPT !.kind = k, !.spool = <<>>, !.reserved = 0]
      BY DEF Forget
    <3> HIDE DEF k, f
    <3> QED BY <1>1, <3>1 DEF Response
  <2> HIDE DEF f
  <2>4. /\ q.stream = p.stream /\ q.pc = p.pc /\ q.pos = p.pos /\ q.buf = p.buf
        /\ q.queue = <<>> /\ q.spool = <<>> /\ q.state = p.state /\ q.writer = "nothing"
    BY <2>2, <2>3 DEF Response
  <2> HIDE DEF q
  <2> QED BY <1>1, <2>1, <2>4 DEF Spooling
<1> QED
  BY <1>2, <1>3, <1>4, <1>5, <1>6, PostSpools, ChunkSpools, ReceiveSpools DEF Client, Writer

\* What follows a stream leaves it as it is, and changes no response before it.
LEMMA FollowUpStream ==
    ASSUME ProxyInv, NEW s \in Responses, FollowUp(s), NEW r \in Responses
    PROVE  resp'[r] = resp[r] \/ (resp[r].pc # "none" /\ resp'[r].stream = resp[r].stream)
<1> DEFINE p == resp[s]
<1>0. p \in Response /\ resp \in [Responses -> Response]
  BY Typed
<1>1. ASSUME NEW q, Become(s, q), q.stream = p.stream, p.pc # "none"
      PROVE  resp'[r] = resp[r] \/ (resp[r].pc # "none" /\ resp'[r].stream = resp[r].stream)
  BY <1>0, <1>1 DEF Become
<1>2. ASSUME NEW f \in Response, f.stream = p.stream, NEW pc, NEW clean, p.pc # "none",
             Become(s, [f EXCEPT !.pc = pc]) \/ Become(s, [f EXCEPT !.pc = pc, !.clean = clean])
      PROVE  resp'[r] = resp[r] \/ (resp[r].pc # "none" /\ resp'[r].stream = resp[r].stream)
  <2> DEFINE a == [f EXCEPT !.pc = pc]
             b == [f EXCEPT !.pc = pc, !.clean = clean]
  <2>1. Become(s, a) \/ Become(s, b)
    BY <1>2
  <2>2. a.stream = p.stream /\ b.stream = p.stream
    BY <1>2 DEF Response
  <2> HIDE DEF a, b
  <2> QED BY <1>1, <1>2, <2>1, <2>2
<1>3. CASE AwaitWriter(s)
  <2> DEFINE pc == IF p.writer = "output" THEN "importPermit" ELSE "warmPermit"
  <2>1. Become(s, [p EXCEPT !.pc = pc]) /\ p.pc # "none"
    BY <1>3 DEF AwaitWriter
  <2> HIDE DEF pc
  <2> QED BY <1>0, <1>2, <2>1
<1>4. CASE AcquireImportPermit(s)
  <2> DEFINE pc == IF p.pc = "importPermit" THEN "import" ELSE "warm"
  <2>1. Become(s, [p EXCEPT !.pc = pc]) /\ p.pc # "none"
    BY <1>4 DEF AcquireImportPermit
  <2> HIDE DEF pc
  <2> QED BY <1>0, <1>2, <2>1
<1>5. CASE Import(s)
  <2> DEFINE f == Forget(p)
  <2>1. (Become(s, [f EXCEPT !.pc = "generation"]) \/ Become(s, [f EXCEPT !.pc = "warmPermit"]))
        /\ p.pc # "none"
    BY <1>5 DEF Import
  <2>2. f \in Response /\ f.stream = p.stream
    BY <1>0, ForgetType DEF Rest
  <2> HIDE DEF f
  <2> QED BY <1>2, <2>1, <2>2
<1>6. CASE Warm(s)
  <2>1. (Become(s, [p EXCEPT !.pc = "generation"])
         \/ Become(s, [p EXCEPT !.pc = "done", !.clean = FALSE])) /\ p.pc # "none"
    BY <1>6 DEF Warm
  <2> QED BY <1>0, <1>2, <2>1
<1>7. CASE GenerationNext(s)
  <2>0. p.pc # "none"
    BY <1>7 DEF GenerationNext
  <2>1. CASE Become(s, [p EXCEPT !.pc = "done", !.want = {}])
    <3> DEFINE q == [p EXCEPT !.pc = "done", !.want = {}]
    <3>1. Become(s, q) /\ q.stream = p.stream
      BY <1>0, <2>1 DEF Response
    <3> HIDE DEF q
    <3> QED BY <1>1, <2>0, <3>1
  <2>2. CASE ~Become(s, [p EXCEPT !.pc = "done", !.want = {}])
    <3>1. PICK w \in p.todo :
            LET q == [p EXCEPT !.todo = @ \ {w}, !.want = {w}] IN
            IF w.commit \in inflight
            THEN Become(s, [q EXCEPT !.pc = "check"])
            ELSE Become(s, [q EXCEPT !.pc = "job"])
      BY <1>7, <2>2 DEF GenerationNext
    <3> DEFINE todo == p.todo \ {w}
               want == {w}
               f == [p EXCEPT !.todo = todo, !.want = want]
    <3>2. Become(s, [f EXCEPT !.pc = "check"]) \/ Become(s, [f EXCEPT !.pc = "job"])
      BY <3>1
    <3>3. todo \subseteq Want /\ want \subseteq Want
      BY <1>0 DEF Response
    <3> HIDE DEF todo, want
    <3>4. f \in Response /\ f.stream = p.stream
      BY <1>0, <3>3 DEF Response
    <3> HIDE DEF f
    <3> QED BY <1>2, <2>0, <3>2, <3>4
  <2> QED BY <2>1, <2>2
<1>8. CASE EnsureServedWantPublished(s)
  <2>1. /\ \/ Become(s, [p EXCEPT !.pc = "generation"])
           \/ Become(s, [p EXCEPT !.pc = "fallback"])
           \/ Become(s, [p EXCEPT !.pc = "generation", !.clean = FALSE])
        /\ p.pc # "none"
    BY <1>8 DEF EnsureServedWantPublished
  <2> QED BY <1>0, <1>2, <2>1
<1> QED
  BY <1>3, <1>4, <1>5, <1>6, <1>7, <1>8 DEF FollowUp

\* A job wakes up no response before its follow-up either.
LEMMA JobStream ==
    ASSUME ProxyInv, NEW c \in Commits, RunJob(c), NEW r \in Responses
    PROVE  resp'[r] = resp[r] \/ (resp[r].pc # "none" /\ resp'[r].stream = resp[r].stream)
<1>1. CASE StartJob(c)
  BY <1>1 DEF StartJob
<1>2. CASE FinishJob(c) \/ JobPanics(c)
  <2>1. PICK ok \in BOOLEAN : Awake(c, ok)
    BY <1>2 DEF FinishJob, JobPanics
  <2> DEFINE p == resp[r]
             pc == IF p.pc = "job" THEN "check" ELSE "generation"
             clean == p.clean /\ ok
             q == [p EXCEPT !.pc = pc, !.clean = clean]
  <2>2. resp'[r] = p \/ (p.pc \in {"job", "fallback"} /\ resp'[r] = q)
    BY <2>1 DEF Awake
  <2> HIDE DEF pc, clean
  <2>3. q.stream = p.stream
    BY Typed DEF Response
  <2> HIDE DEF q
  <2> QED BY <2>2, <2>3
<1> QED
  BY <1>1, <1>2 DEF RunJob

\* Every step keeps the tee on the wire.
LEMMA SpoolInvStep ==
    ASSUME ProxyInv, SpoolInv, WellFormedWires, [Next]_vars PROVE SpoolInv'
<1> SUFFICES ASSUME NEW r \in Responses PROVE Spooling(r, resp'[r])
  BY DEF SpoolInv
<1>1. Spooling(r, resp[r])
  BY DEF SpoolInv
<1>2. CASE resp'[r] = resp[r]
  BY <1>1, <1>2
<1>3. CASE resp[r].pc # "none" /\ resp'[r].stream = resp[r].stream
  BY <1>1, <1>3 DEF Spooling
<1>4. ASSUME NEW s \in Responses, Client(s) \/ Writer(s) PROVE Spooling(r, resp'[r])
  <2>1. CASE s = r
    BY <1>4, <2>1, StreamSpools
  <2>2. CASE s # r
    <3>1. resp'[r] = resp[r]
      BY <1>4, <2>2, StreamPc
    <3> QED BY <1>2, <3>1
  <2> QED BY <2>1, <2>2
<1>5. ASSUME NEW s \in Responses, FollowUp(s) PROVE Spooling(r, resp'[r])
  BY <1>2, <1>3, <1>5, FollowUpStream
<1>6. ASSUME NEW c \in Commits, RunJob(c) PROVE Spooling(r, resp'[r])
  BY <1>2, <1>3, <1>6, JobStream
<1>7. CASE UNCHANGED vars
  BY <1>2, <1>7 DEF vars
<1>8. CASE MaterializeAsync \/ UpstreamPush \/ ImportElsewhere \/ ImportElsewhereEnds
  BY <1>2, <1>8 DEF MaterializeAsync, UpstreamPush, ImportElsewhere, ImportElsewhereEnds
<1> QED
  BY <1>4, <1>5, <1>6, <1>7, <1>8 DEF Next

\* However upstream cuts its response into chunks, whatever part of it came, and
\* whenever the spool writer takes its messages, the tee holds the pack data of
\* what was received, in order: tee_chunk and PackDemux lose and repeat nothing.
THEOREM SpoolFollowsWire ==
    ASSUME WellFormedWires
    PROVE  Spec => []SpoolFaithful
<1>1. ProxyInv /\ SpoolInv => SpoolFaithful
  <2> SUFFICES ASSUME ProxyInv, SpoolInv, NEW r \in Responses, resp[r].stream = "open",
                      resp[r].tee, resp[r].writer # "nothing"
               PROVE  resp[r].spool \o Flatten(resp[r].queue)
                        = Pack(SubSeq(resp[r].kind.wire, 1, resp[r].pos))
    BY DEF SpoolFaithful
  <2>1. Teed(resp[r])
    BY DEF SpoolInv, Spooling
  <2> QED BY <2>1, Typed, TeedIsFaithful
<1>2. Init => ProxyInv /\ SpoolInv
  BY ProxyInvInit, SpoolInvInit
<1>3. ProxyInv /\ SpoolInv /\ [Next]_vars => ProxyInv' /\ SpoolInv'
  BY ProxyInvStep, SpoolInvStep
<1> QED
  BY <1>1, <1>2, <1>3, PTL DEF Spec

=============================================================================
