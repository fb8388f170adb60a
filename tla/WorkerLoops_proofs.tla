------------------------- MODULE WorkerLoops_proofs -------------------------
(***************************************************************************)
(* What holds of the coordinator whoever calls it holds under the worker's *)
(* loops: every step of theirs is a step of the coordinator or leaves it   *)
(* alone, because they only ask for targets that exist.                    *)
(***************************************************************************)
EXTENDS WorkerLoops, UpdateCoordinator_proofs

\* The job the cron loop is at is one of its jobs, the hints are known targets.
LoopInv ==
    /\ cron.at \in 1 .. Len(CronJobs)
    /\ hints \in Seq(UpdateKeys)
    /\ intake.pc = "hint" => intake.key \in UpdateKeys
    /\ cron = [pc |-> cron.pc, at |-> cron.at]
    /\ intake = [pc |-> intake.pc, key |-> intake.key]

\* The loops start without a request.
LEMMA LoopInvInit == ASSUME LoopsAssumption, LoopInit PROVE LoopInv
<1>1. Len(CronJobs) \in Nat /\ Len(CronJobs) > 0
      BY DEF LoopsAssumption
<1> QED  BY <1>1 DEF LoopInit, LoopInv

\* Every step of a loop keeps what it may ask for.
LEMMA LoopInvStep ==
    ASSUME LoopsAssumption, LoopInv, [LoopNext]_<<vars, loopVars>>
    PROVE  LoopInv'
<1> USE DEF LoopInv
<1>0. Len(CronJobs) \in Nat /\ Len(CronJobs) > 0
      BY DEF LoopsAssumption
<1>1. CASE CronTick
      BY <1>0, <1>1 DEF CronTick
<1>2. CASE CronCall \/ IntakeCall
      BY <1>2 DEF CronCall, IntakeCall, loopVars
<1>3. CASE CronReturns
  <2>1. UNCHANGED <<hints, intake>>
        BY <1>3 DEF CronReturns
  <2>2. \/ cron' = [cron EXCEPT !.pc = "failed"]
        \/ cron' = [cron EXCEPT !.at = @ + 1] /\ cron.at < Len(CronJobs)
        \/ cron' = [pc |-> "select", at |-> 1]
        BY <1>3 DEF CronReturns
  <2> QED  BY <1>0, <2>1, <2>2
<1>4. CASE CronStops
      BY <1>4 DEF CronStops
<1>5. CASE IntakeReceives
      BY <1>5 DEF IntakeReceives
<1>6. CASE IntakeReturns
      BY <1>6 DEF IntakeReturns
<1>7. CASE IntakeCloses \/ IntakeStops
      BY <1>7 DEF IntakeCloses, IntakeStops
<1>8. CASE \E k \in HintKeys : SubmitHint(k)
      BY <1>8 DEF SubmitHint, LoopsAssumption
<1>9. CASE CloseHints \/ Stop
      BY <1>9 DEF CloseHints, Stop
<1>10. CASE \E c \in Readers : Read(c)
      BY <1>10 DEF Read
<1>11. CASE UNCHANGED loopVars
      BY <1>11 DEF loopVars
<1> QED  BY <1>1, <1>2, <1>3, <1>4, <1>5, <1>6, <1>7, <1>8, <1>9, <1>10, <1>11
         DEF LoopNext, CronStep, IntakeStep

\* One step of the loops, seen from the coordinator (run_until of both loops and
\* the update paths of Worker reach it through update only).
LEMMA LoopStepCoordinates ==
    ASSUME LoopsAssumption, LoopInv, [LoopNext]_<<vars, loopVars>>
    PROVE  [CoordinatorNext]_vars
<1>0. Cron \in Callers /\ Intake \in Callers
      BY DEF LoopsAssumption
<1>1. CASE CronTick \/ CronStops \/ IntakeReceives \/ IntakeCloses \/ IntakeStops
           \/ CloseHints \/ Stop \/ (\E k \in HintKeys : SubmitHint(k))
      BY <1>1 DEF CronTick, CronStops, IntakeReceives, IntakeCloses, IntakeStops,
                  CloseHints, Stop, SubmitHint
<1>2. CASE CronCall
  <2>1. CronJobs[cron.at] \in UpdateKeys
        BY DEF LoopInv, LoopsAssumption
  <2> QED  BY <1>0, <1>2, <2>1 DEF CronCall, Update, CoordinatorNext
<1>3. CASE CronReturns
      BY <1>0, <1>3 DEF CronReturns, Return, CoordinatorNext, CallStep
<1>4. CASE IntakeCall
  <2>1. intake.key \in UpdateKeys
        BY <1>4 DEF LoopInv, IntakeCall
  <2> QED  BY <1>0, <1>4, <2>1 DEF IntakeCall, Update, CoordinatorNext
<1>5. CASE IntakeReturns
      BY <1>0, <1>5 DEF IntakeReturns, Return, CoordinatorNext, CallStep
<1>6. CASE \E c \in Readers : Read(c)
      BY <1>6 DEF Read, Update, Readers, CoordinatorNext
<1>7. CASE \/ \E c \in Readers : Return(c) \/ Cancel(c)
           \/ \E c \in Callers : Publish(c)
           \/ \E e \in EntryIds : TaskStep(e)
      BY <1>7 DEF Return, Readers, CoordinatorNext, CallStep
<1>8. CASE UNCHANGED <<vars, loopVars>>
      BY <1>8
<1> QED  BY <1>1, <1>2, <1>3, <1>4, <1>5, <1>6, <1>7, <1>8
         DEF LoopNext, CronStep, IntakeStep

\* The worker with its loops implements the coordinator's specification.
THEOREM LoopsCoordinate == LoopSpec => CoordinatorSpec
<1>1. LoopInit => LoopInv /\ CoordinatorInit
      BY LoopsAssumption, LoopInvInit DEF LoopInit
<1>2. LoopInv /\ [LoopNext]_<<vars, loopVars>> => LoopInv'
      BY LoopsAssumption, LoopInvStep
<1>3. LoopInv /\ [LoopNext]_<<vars, loopVars>> => [CoordinatorNext]_vars
      BY LoopsAssumption, LoopStepCoordinates
<1> QED  BY <1>1, <1>2, <1>3, PTL DEF LoopSpec, CoordinatorSpec

\* Under the loops, too, the coordinator's state keeps its shape.
THEOREM LoopTypeCorrect == LoopSpec => []CoordinatorTypeOK
BY LoopsCoordinate, CoordinatorTypeCorrect, PTL

\* Under the loops, too, one executor runs per repository and no lease is left
\* without a task that releases it (execute_with_lease).
THEOREM LoopLeasesExclusive == LoopSpec => []LeaseHeldByTask
BY LoopsCoordinate, LeasesExclusive, PTL

\* Under the loops, too, requests for one key share one update (inflight_for).
THEOREM LoopUpdatesCoalesce == LoopSpec => []OneUpdatePerKey
BY LoopsCoordinate, UpdatesCoalesce, PTL

=============================================================================
