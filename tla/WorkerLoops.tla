---------------------------- MODULE WorkerLoops ----------------------------
(***************************************************************************)
(* The worker's loops as callers of the update coordinator: the cron loop  *)
(* goes through its jobs at every tick, the event intake through the hints *)
(* of a bounded channel, and both watch a stop signal.  The other callers  *)
(* are read-through requests, which may go away.                           *)
(***************************************************************************)
EXTENDS UpdateCoordinator, Sequences

CONSTANTS
    Cron, Intake,          \* the callers that are loops
    CronJobs,              \* CronUpdateConfig::jobs
    HintKeys,              \* the targets that hints name
    HintCapacity,          \* the capacity of event_hint_channel
    MaxTicks, MaxHints, MaxReads    \* bounds: ticks, hints, read-through calls

Readers == Callers \ {Cron, Intake}

ASSUME LoopsAssumption ==
    /\ {Cron, Intake} \subseteq Callers /\ Cron # Intake
    /\ CronJobs \in Seq(UpdateKeys) /\ CronJobs # <<>>
    /\ HintKeys \subseteq UpdateKeys
    /\ HintCapacity \in Nat \ {0}
    /\ MaxTicks \in Nat /\ MaxHints \in Nat /\ MaxReads \in Nat
    \* No call has to wait for the bound on updates.
    /\ MaxEntries >= MaxTicks * Len(CronJobs) + MaxHints + MaxReads

VARIABLES
    cron,          \* the cron loop: asleep or in a tick, and the job it is at
    intake,        \* the intake loop: at its select or with a hint
    hints,         \* the channel
    closed,        \* every EventHintSender is gone
    stopped,       \* StopHandle::stop was called, or the handle dropped
    ticks, submitted, reads

loopVars == <<cron, intake, hints, closed, stopped, ticks, submitted, reads>>

LoopInit ==
    /\ CoordinatorInit
    /\ cron \in [pc : {"select", "tick"}, at : {1}]      \* run_immediately
    /\ intake = [pc |-> "select", key |-> "none"]
    /\ hints = <<>>
    /\ closed = FALSE
    /\ stopped = FALSE
    /\ ticks = IF cron.pc = "tick" THEN 1 ELSE 0
    /\ submitted = 0
    /\ reads = 0

\* coordinator.update as called by c, and its return.
Update(c, k) == Join(c, k) \/ Own(c, k)
Return(c) == RemoveInflight(c) \/ Wait(c)
ReturnsError(c) == entries[calls[c].entry].result = "error"

-----------------------------------------------------------------------------
(* CronUpdateLoop                                                          *)

CronTick ==
    /\ cron.pc = "select"
    /\ ticks < MaxTicks
    /\ ticks' = ticks + 1
    /\ cron' = [pc |-> "tick", at |-> 1]
    /\ UNCHANGED <<vars, intake, hints, closed, stopped, submitted, reads>>

CronCall ==
    /\ cron.pc = "tick"
    /\ Update(Cron, CronJobs[cron.at])
    /\ UNCHANGED loopVars

\* The next job, unless the update failed: that ends the tick and the loop.  A
\* busy lease is no error.
CronReturns ==
    /\ Return(Cron)
    /\ cron' = CASE ReturnsError(Cron) -> [cron EXCEPT !.pc = "failed"]
                 [] ~ReturnsError(Cron) /\ cron.at < Len(CronJobs) -> [cron EXCEPT !.at = @ + 1]
                 [] OTHER -> [pc |-> "select", at |-> 1]
    /\ UNCHANGED <<intake, hints, closed, stopped, ticks, submitted, reads>>

CronStops ==
    /\ cron.pc = "select"
    /\ stopped
    /\ cron' = [cron EXCEPT !.pc = "done"]
    /\ UNCHANGED <<vars, intake, hints, closed, stopped, ticks, submitted, reads>>

-----------------------------------------------------------------------------
(* EventHintIntake                                                         *)

\* submit waits for room; it fails when the receiver is gone.
SubmitHint(k) ==
    /\ submitted < MaxHints
    /\ ~closed
    /\ intake.pc \notin {"failed", "done"}
    /\ Len(hints) < HintCapacity
    /\ hints' = Append(hints, k)
    /\ submitted' = submitted + 1
    /\ UNCHANGED <<vars, cron, intake, closed, stopped, ticks, reads>>

CloseHints ==
    /\ ~closed
    /\ closed' = TRUE
    /\ UNCHANGED <<vars, cron, intake, hints, stopped, ticks, submitted, reads>>

IntakeReceives ==
    /\ intake.pc = "select"
    /\ hints # <<>>
    /\ intake' = [pc |-> "hint", key |-> Head(hints)]
    /\ hints' = Tail(hints)
    /\ UNCHANGED <<vars, cron, closed, stopped, ticks, submitted, reads>>

IntakeCall ==
    /\ intake.pc = "hint"
    /\ Update(Intake, intake.key)
    /\ UNCHANGED loopVars

\* A failed update ends the loop.
IntakeReturns ==
    /\ Return(Intake)
    /\ intake' = [pc |-> IF ReturnsError(Intake) THEN "failed" ELSE "select", key |-> "none"]
    /\ UNCHANGED <<cron, hints, closed, stopped, ticks, submitted, reads>>

\* Mutant of IntakeCloses: what is left in the channel is not looked at.
IntakeClosesAtOnce ==
    /\ intake.pc = "select"
    /\ closed
    /\ intake' = [intake EXCEPT !.pc = "done"]
    /\ UNCHANGED <<vars, cron, hints, closed, stopped, ticks, submitted, reads>>

\* recv returns None: the senders are gone and the channel is empty.
IntakeCloses ==
    /\ intake.pc = "select"
    /\ closed /\ hints = <<>>
    /\ intake' = [intake EXCEPT !.pc = "done"]
    /\ UNCHANGED <<vars, cron, hints, closed, stopped, ticks, submitted, reads>>

\* Mutant of IntakeStops: the stop signal is looked at after a hint only.
IntakeStopsAfterHint ==
    /\ intake.pc = "select"
    /\ stopped
    /\ submitted > 0
    /\ intake' = [intake EXCEPT !.pc = "done"]
    /\ UNCHANGED <<vars, cron, hints, closed, stopped, ticks, submitted, reads>>

IntakeStops ==
    /\ intake.pc = "select"
    /\ stopped
    /\ intake' = [intake EXCEPT !.pc = "done"]
    /\ UNCHANGED <<vars, cron, hints, closed, stopped, ticks, submitted, reads>>

-----------------------------------------------------------------------------
Stop ==
    /\ ~stopped
    /\ stopped' = TRUE
    /\ UNCHANGED <<vars, cron, intake, hints, closed, ticks, submitted, reads>>

\* ReadThroughUpdatePath::update
Read(c) ==
    /\ reads < MaxReads
    /\ \E k \in UpdateKeys : Update(c, k)
    /\ reads' = reads + 1
    /\ UNCHANGED <<cron, intake, hints, closed, stopped, ticks, submitted>>

CronStep == CronCall \/ CronReturns
IntakeStep == IntakeReceives \/ IntakeCall \/ IntakeReturns \/ IntakeCloses

LoopNext ==
    \/ CronTick \/ CronStep \/ CronStops
    \/ IntakeStep \/ IntakeStops
    \/ \E k \in HintKeys : SubmitHint(k)
    \/ CloseHints
    \/ Stop
    \/ \E c \in Readers : Read(c)
    \/ /\ \/ \E c \in Readers : Return(c) \/ Cancel(c)
          \/ \E c \in Callers : Publish(c)
          \/ \E e \in EntryIds : TaskStep(e)
       /\ UNCHANGED loopVars

\* The runtime polls the loops, the calls and the tasks; tokio::select! picks
\* among its ready branches at random, so a stop signal is not passed over for
\* ever.
LoopSpec ==
    /\ LoopInit
    /\ [][LoopNext]_<<vars, loopVars>>
    /\ WF_<<vars, loopVars>>(CronStep) /\ WF_<<vars, loopVars>>(IntakeStep)
    /\ SF_<<vars, loopVars>>(CronStops) /\ SF_<<vars, loopVars>>(IntakeStops)
    /\ \A c \in Callers : WF_<<vars, loopVars>>(Publish(c) /\ UNCHANGED loopVars)
    /\ \A c \in Readers : WF_<<vars, loopVars>>(Return(c) /\ UNCHANGED loopVars)
    /\ \A e \in EntryIds : WF_<<vars, loopVars>>(TaskStep(e) /\ UNCHANGED loopVars)

-----------------------------------------------------------------------------
(* Properties                                                              *)

Ended(loop) == loop.pc \in {"failed", "done"}

\* The loop waits for an update whose owner went away.
Stranded(c) == calls[c].pc = "joined" /\ Abandoned(calls[c].entry)

\* Once stopped, both loops come to an end, from the middle of a tick and with
\* hints left, unless a loop joined an update whose owner went away.
LoopsStop ==
    /\ stopped ~> (Ended(cron) \/ Stranded(Cron))
    /\ stopped ~> (Ended(intake) \/ Stranded(Intake))

\* A hint that was accepted is taken up, also after the senders are gone, unless
\* the intake is stopped, fails or is stranded.
HintsTaken ==
    (hints # <<>>) ~>
        (hints = <<>> \/ stopped \/ intake.pc = "failed" \/ Stranded(Intake))

=============================================================================
