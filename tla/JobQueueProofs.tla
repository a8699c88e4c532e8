--------------------------- MODULE JobQueueProofs ---------------------------
(***************************************************************************)
(* Safety of the outbox and the job queue for any number of events, jobs,  *)
(* attempts, crashes and revivals, and the refinement of DurableDelivery.  *)
(***************************************************************************)
EXTENDS JobQueue, FiniteSetTheorems, TLAPS

Holding(j) == pc \in {"handle", "succeeded", "failed"} /\ cur = j

\* What the worker's memory says about the rows.
WorkerInv ==
    /\ pc \in {"enqueue", "mark"} => cur \in Events /\ outState[cur] = "PROCESSING"
    /\ pc = "mark" => jobState[cur] # "ABSENT"
    /\ pc \in {"claim", "handle", "succeeded", "failed"} => cur \in Jobs
    /\ pc = "handle" => effects[cur] < jobAttempts[cur]
    /\ pc = "succeeded" => effects[cur] > 0

\* An event's job exists only once the event does.
OriginInv == \A e \in Events : outState[e] = "ABSENT" => jobState[e] = "ABSENT"

\* A job that can be claimed again, an orphan of a crash included, has an
\* attempt left within the bound.
AttemptInv ==
    \A j \in Jobs :
        /\ jobAttempts[j] <= MaxAttempts + crashes + retries
        /\ jobState[j] \in {"ABSENT", "QUEUED"}
              => jobAttempts[j] < MaxAttempts + crashes + retries
        /\ jobState[j] = "RUNNING" /\ ~Holding(j)
              => jobAttempts[j] < MaxAttempts + crashes + retries

\* Uninterrupted, a job that has had its effect is settled or about to be.
OnceInv ==
    crashes = 0 /\ "settle" \notin Faults =>
        \A j \in Jobs :
            /\ effects[j] <= 1
            /\ effects[j] > 0 => jobState[j] = "SUCCEEDED" \/ (pc = "succeeded" /\ cur = j)

IInv == /\ TypeOK /\ WorkerInv /\ OriginInv /\ AttemptInv /\ OnceInv
        /\ HandoffSafe /\ NoEarlyGiveUp /\ HeldJobRunning /\ EffectsMatchAttempts

-----------------------------------------------------------------------------
LEMMA BackoffType == ASSUME NEW n \in Int PROVE Backoff(n) \in Int
  BY ConstantsAssumption DEF Backoff

\* The rank a new event gets is a number: finitely many are committed.
LEMMA CommittedRank == Cardinality(Committed) \in Nat
  <1>1. IsFiniteSet(Committed)
    BY ConstantsAssumption, FS_Subset DEF Committed
  <1> QED
    BY <1>1, FS_CardinalityType

LEMMA InitIInv == Init => IInv
  BY ConstantsAssumption
  DEF Init, IInv, TypeOK, WorkerInv, OriginInv, AttemptInv, OnceInv, HandoffSafe,
      NoEarlyGiveUp, HeldJobRunning, EffectsMatchAttempts, Holding, Jobs,
      OutboxStates, JobStates, PCs

-----------------------------------------------------------------------------
(* Type correctness: one step per action.                                  *)

LEMMA TypeStep == IInv /\ [Next]_vars => TypeOK'
  <1> SUFFICES ASSUME IInv, [Next]_vars PROVE TypeOK'
    OBVIOUS
  <1> USE DEF outbox, jobs, worker, budget, TypeOK, WorkerInv, Jobs,
              OutboxStates, JobStates, PCs
  <1>0. TypeOK /\ WorkerInv
    BY DEF IInv
  <1>1. ASSUME NEW e \in Events, CommitEvent(e) PROVE TypeOK'
    BY <1>0, <1>1, CommittedRank DEF CommitEvent, Committed
  <1>2. ASSUME NEW j \in Direct, NEW delay \in {0, 1}, EnqueueDirect(j, delay) PROVE TypeOK'
    BY <1>0, <1>2 DEF EnqueueDirect
  <1>3. ASSUME NEW j \in Direct, CancelQueued(j) PROVE TypeOK'
    BY <1>0, <1>3 DEF CancelQueued, Cancellable
  <1>4. ASSUME NEW j \in Jobs, RetryJob(j) PROVE TypeOK'
    BY <1>0, <1>4 DEF RetryJob, Retriable
  <1>5. CASE FetchOutbox
    BY <1>0, <1>5 DEF FetchOutbox, FirstBatch, DueEvents
  <1>6. CASE ClaimEvent
    BY <1>0, <1>6 DEF ClaimEvent, Earliest
  <1>7. CASE EnqueueEvent
    BY <1>0, <1>7 DEF EnqueueEvent
  <1>8. CASE MarkProcessed
    BY <1>0, <1>8 DEF MarkProcessed
  <1>9. CASE DispatchFails
    BY <1>0, <1>9, BackoffType DEF DispatchFails, OutboxExhausted
  <1>10. CASE FindExpired
    BY <1>0, <1>10 DEF FindExpired, Expired, Earliest
  <1>11. CASE RequeueExpired
    BY <1>0, <1>11 DEF RequeueExpired, Expired
  <1>12. CASE PickJob
    BY <1>0, <1>12 DEF PickJob, Candidates, DueJobs, Earliest
  <1>13. CASE PickNothing
    BY <1>0, <1>13 DEF PickNothing
  <1>14. CASE ClaimJob
    BY <1>0, <1>14, ConstantsAssumption DEF ClaimJob
  <1>15. CASE ClaimMisses
    BY <1>0, <1>15 DEF ClaimMisses
  <1>16. CASE HandleSucceeds
    BY <1>0, <1>16 DEF HandleSucceeds
  <1>17. CASE HandleFails
    BY <1>0, <1>17 DEF HandleFails
  <1>18. CASE SettleSuccess
    BY <1>0, <1>18 DEF SettleSuccess
  <1>19. CASE SettleThrows
    BY <1>0, <1>19 DEF SettleThrows
  <1>20. CASE SettleFailure
    BY <1>0, <1>20, BackoffType DEF SettleFailure, Exhausted
  <1>21. CASE Crash
    BY <1>0, <1>21 DEF Crash
  <1>22. CASE Restart
    BY <1>0, <1>22 DEF Restart
  <1>23. CASE Tick
    BY <1>0, <1>23, ConstantsAssumption DEF Tick, Down
  <1>24. CASE UNCHANGED vars
    BY <1>0, <1>24 DEF vars
  <1> QED
    BY <1>1, <1>2, <1>3, <1>4, <1>5, <1>6, <1>7, <1>8, <1>9, <1>10,
       <1>11, <1>12, <1>13, <1>14, <1>15, <1>16, <1>17, <1>18, <1>19,
       <1>20, <1>21, <1>22, <1>23, <1>24 DEF Next, Request, Dispatch,
       RunJob

-----------------------------------------------------------------------------
LEMMA InvStep == IInv /\ [Next]_vars => IInv'
  <1> SUFFICES ASSUME IInv, [Next]_vars PROVE IInv'
    OBVIOUS
  <1> USE ConstantsAssumption
      DEF outbox, jobs, worker, budget, IInv, TypeOK, WorkerInv, OriginInv,
          AttemptInv, OnceInv, HandoffSafe, NoEarlyGiveUp, HeldJobRunning,
          EffectsMatchAttempts, Holding, Jobs, OutboxStates, JobStates, PCs
  <1>0. IInv /\ TypeOK'
    BY TypeStep
  <1>1. ASSUME NEW e \in Events, CommitEvent(e) PROVE IInv'
    BY <1>0, <1>1, CommittedRank DEF CommitEvent, Committed
  <1>2. ASSUME NEW j \in Direct, NEW delay \in {0, 1}, EnqueueDirect(j, delay) PROVE IInv'
    BY <1>0, <1>2 DEF EnqueueDirect
  <1>3. ASSUME NEW j \in Direct, CancelQueued(j) PROVE IInv'
    BY <1>0, <1>3 DEF CancelQueued, Cancellable
  <1>4. ASSUME NEW j \in Jobs, RetryJob(j) PROVE IInv'
    BY <1>0, <1>4 DEF RetryJob, Retriable
  <1>5. CASE FetchOutbox
    BY <1>0, <1>5 DEF FetchOutbox, FirstBatch, DueEvents
  <1>6. CASE ClaimEvent
    BY <1>0, <1>6 DEF ClaimEvent, Earliest
  <1>7. CASE EnqueueEvent
    BY <1>0, <1>7 DEF EnqueueEvent
  <1>8. CASE MarkProcessed
    BY <1>0, <1>8 DEF MarkProcessed
  <1>9. CASE DispatchFails
    BY <1>0, <1>9 DEF DispatchFails, OutboxExhausted
  <1>10. CASE FindExpired
    BY <1>0, <1>10 DEF FindExpired, Expired, Earliest
  <1>11. CASE RequeueExpired
    BY <1>0, <1>11 DEF RequeueExpired, Expired
  <1>12. CASE PickJob
    BY <1>0, <1>12 DEF PickJob, Candidates, DueJobs, Earliest
  <1>13. CASE PickNothing
    BY <1>0, <1>13 DEF PickNothing
  <1>14. CASE ClaimJob
    BY <1>0, <1>14 DEF ClaimJob
  <1>15. CASE ClaimMisses
    BY <1>0, <1>15 DEF ClaimMisses
  <1>16. CASE HandleSucceeds
    BY <1>0, <1>16 DEF HandleSucceeds
  <1>17. CASE HandleFails
    BY <1>0, <1>17 DEF HandleFails
  <1>18. CASE SettleSuccess
    BY <1>0, <1>18 DEF SettleSuccess
  <1>19. CASE SettleThrows
    BY <1>0, <1>19 DEF SettleThrows
  <1>20. CASE SettleFailure
    BY <1>0, <1>20 DEF SettleFailure, Exhausted
  <1>21. CASE Crash
    BY <1>0, <1>21 DEF Crash
  <1>22. CASE Restart
    BY <1>0, <1>22 DEF Restart
  <1>23. CASE Tick
    BY <1>0, <1>23 DEF Tick, Down
  <1>24. CASE UNCHANGED vars
    BY <1>0, <1>24 DEF vars
  <1> HIDE DEF IInv, TypeOK
  <1> QED
    BY <1>1, <1>2, <1>3, <1>4, <1>5, <1>6, <1>7, <1>8, <1>9, <1>10,
       <1>11, <1>12, <1>13, <1>14, <1>15, <1>16, <1>17, <1>18, <1>19,
       <1>20, <1>21, <1>22, <1>23, <1>24 DEF Next, Request, Dispatch,
       RunJob

THEOREM Invariance == Spec => []IInv
  BY InitIInv, InvStep, PTL DEF Spec

-----------------------------------------------------------------------------
(* What the runs check on small instances, for every value of the constants. *)

\* Every variable of the queue keeps its type.
THEOREM TypeCorrect == Spec => []TypeOK
  BY Invariance, PTL DEF IInv

\* A PROCESSED event has its job, wherever the process crashes.
THEOREM HandoffSafety == Spec => []HandoffSafe
  BY Invariance, PTL DEF IInv

\* Nothing is dead-lettered before its attempts are spent, and each attempt
\* beyond the limit is paid for by a crash or a revival.
THEOREM AttemptLimits == Spec => [](NoEarlyGiveUp /\ AttemptsBounded)
  <1>1. IInv => NoEarlyGiveUp /\ AttemptsBounded
    BY DEF IInv, AttemptInv, AttemptsBounded
  <1> QED
    BY <1>1, Invariance, PTL

\* The job in the worker's hands stays RUNNING until the worker settles it.
THEOREM HeldJobSafety == Spec => []HeldJobRunning
  BY Invariance, PTL DEF IInv

\* Success means the handler completed, in one of the attempts that were made.
THEOREM EffectSafety == Spec => []EffectsMatchAttempts
  BY Invariance, PTL DEF IInv

\* No attempt is skipped before work is dead-lettered, and without a crash a
\* handler completes once, although the event is dispatched again.
THEOREM AttemptsAllSpent == Spec => []AttemptsSpent
  <1>1. IInv => AttemptsSpent
    BY DEF IInv, OnceInv, AtMostOnceUninterrupted, AttemptsSpent
  <1> QED
    BY <1>1, Invariance, PTL

\* Succeeded and cancelled jobs stay so.
THEOREM SettledForGood == Spec => SettledStays
  <1> DEFINE Stays == \A j \in Jobs : jobState[j] \in {"SUCCEEDED", "CANCELLED"}
                                         => jobState'[j] = jobState[j]
  <1>1. IInv /\ [Next]_vars => [Stays]_vars
    <2> SUFFICES ASSUME IInv, [Next]_vars, NEW j \in Jobs,
                        jobState[j] \in {"SUCCEEDED", "CANCELLED"}
                 PROVE  jobState'[j] = jobState[j]
      OBVIOUS
    <2>0. TypeOK /\ WorkerInv /\ HeldJobRunning
      BY DEF IInv
    <2> USE <2>0 DEF TypeOK, WorkerInv, HeldJobRunning, Jobs, jobs
    <2>1. CASE Request
      BY <2>1 DEF Request, CommitEvent, EnqueueDirect, CancelQueued, RetryJob,
                  Cancellable, Retriable
    <2>2. CASE Dispatch
      BY <2>2 DEF Dispatch, FetchOutbox, ClaimEvent, EnqueueEvent, MarkProcessed,
                  DispatchFails
    <2>3. CASE RunJob
      BY <2>3 DEF RunJob, FindExpired, RequeueExpired, Expired, PickJob, PickNothing,
                  ClaimJob, ClaimMisses, HandleSucceeds, HandleFails,
                  SettleSuccess, SettleThrows, SettleFailure
    <2>4. CASE Crash \/ Restart \/ Tick
      BY <2>4 DEF Crash, Restart, Tick
    <2>5. CASE UNCHANGED vars
      BY <2>5 DEF vars
    <2> QED
      BY <2>1, <2>2, <2>3, <2>4, <2>5 DEF Next
  <1> QED
    BY <1>1, Invariance, PTL DEF Spec, SettledStays

-----------------------------------------------------------------------------
(* Refinement.  A step changes the status of at most one job; which one and *)
(* how is settled action by action.                                        *)

\* A step that leaves both states of every job but one alone moves that one.
LEMMA OneMoves ==
  ASSUME TypeOK, TypeOK', NEW i \in Jobs,
         \A k \in Jobs \ {i} : Status(k)' = Status(k),
         \/ Status(i)' = Status(i)
         \/ Status(i) = "none" /\ Status(i)' = "pending"
         \/ Status(i) = "pending" /\ Status(i)' \in {"done", "dead", "cancelled"}
         \/ Status(i) = "dead" /\ Status(i)' = "pending"
  PROVE  [Delivery!Next]_Statuses
  <1> DEFINE to == Status(i)'
  <1>1. Statuses' = [Statuses EXCEPT ![i] = to]
    BY DEF Statuses
  <1>2. Statuses[i] = Status(i)
    BY DEF Statuses
  <1>3. CASE Status(i)' = Status(i)
    BY <1>3 DEF Statuses
  <1>4. CASE Status(i) = "none" /\ Status(i)' = "pending"
    BY <1>1, <1>2, <1>4 DEF Delivery!Next, Delivery!Submit, Delivery!Move
  <1>5. CASE Status(i) = "pending" /\ Status(i)' \in {"done", "dead", "cancelled"}
    BY <1>1, <1>2, <1>5 DEF Delivery!Next, Delivery!Settle, Delivery!Move, Delivery!Settled
  <1>6. CASE Status(i) = "dead" /\ Status(i)' = "pending"
    BY <1>1, <1>2, <1>6 DEF Delivery!Next, Delivery!Revive, Delivery!Move
  <1> QED
    BY <1>3, <1>4, <1>5, <1>6

LEMMA InitRefines == Init => Delivery!Init
  BY ConstantsAssumption DEF Init, Delivery!Init, Statuses, Status, Jobs

LEMMA StepRefines ==
  IInv /\ IInv' /\ [Next]_vars => [Delivery!Next]_Statuses
  <1> SUFFICES ASSUME IInv, IInv', [Next]_vars
               PROVE  [Delivery!Next]_Statuses
    OBVIOUS
  <1>0. TypeOK /\ TypeOK' /\ WorkerInv /\ OriginInv /\ HeldJobRunning
    BY DEF IInv
  <1>a. Events \subseteq Jobs /\ Direct \subseteq Jobs /\ Events \cap Direct = {}
    BY ConstantsAssumption DEF Jobs
  <1> USE <1>0, <1>a DEF TypeOK, WorkerInv, OriginInv, HeldJobRunning,
                         OutboxStates, JobStates, jobs, outbox, budget, worker
  <1>1. ASSUME NEW e \in Events, CommitEvent(e)
        PROVE  [Delivery!Next]_Statuses
    <2>1. \A k \in Jobs \ {e} : Status(k)' = Status(k)
      BY <1>1 DEF CommitEvent, Status
    <2>2. Status(e) = "none" /\ Status(e)' = "pending"
      BY <1>1 DEF CommitEvent, Status
    <2> QED
      BY <2>1, <2>2, OneMoves
  <1>2. ASSUME NEW i \in Direct, NEW delay \in {0, 1}, EnqueueDirect(i, delay)
        PROVE  [Delivery!Next]_Statuses
    <2>1. \A k \in Jobs \ {i} : Status(k)' = Status(k)
      BY <1>2 DEF EnqueueDirect, Status
    <2>2. Status(i) = "none" /\ Status(i)' = "pending"
      BY <1>2 DEF EnqueueDirect, Status
    <2> QED
      BY <2>1, <2>2, OneMoves
  <1>3. ASSUME NEW i \in Direct, CancelQueued(i)
        PROVE  [Delivery!Next]_Statuses
    <2>1. \A k \in Jobs \ {i} : Status(k)' = Status(k)
      BY <1>3 DEF CancelQueued, Status
    <2>2. Status(i) = "pending" /\ Status(i)' = "cancelled"
      BY <1>3 DEF CancelQueued, Cancellable, Status
    <2> QED
      BY <2>1, <2>2, OneMoves
  <1>4. ASSUME NEW i \in Jobs, RetryJob(i)
        PROVE  [Delivery!Next]_Statuses
    <2>1. \A k \in Jobs \ {i} : Status(k)' = Status(k)
      BY <1>4 DEF RetryJob, Status
    <2>2. Status(i) = "dead" /\ Status(i)' = "pending"
      BY <1>4 DEF RetryJob, Retriable, Status
    <2> QED
      BY <2>1, <2>2, OneMoves
  <1>5. CASE DispatchFails
    <2>0. PICK i \in Jobs : i = cur
      BY <1>5 DEF DispatchFails
    <2>1. \A k \in Jobs \ {i} : Status(k)' = Status(k)
      BY <1>5, <2>0 DEF DispatchFails, Status
    <2>2. CASE jobState[i] = "ABSENT"
      <3>1. Status(i) = "pending" /\ Status(i)' \in {"pending", "dead"}
        BY <1>5, <2>0, <2>2 DEF DispatchFails, Status
      <3> QED
        BY <2>1, <3>1, OneMoves
    <2>3. CASE jobState[i] # "ABSENT"
      <3>1. Status(i)' = Status(i)
        BY <1>5, <2>0, <2>1, <2>3 DEF DispatchFails, Status
      <3> QED
        BY <2>1, <3>1, OneMoves
    <2> QED
      BY <2>2, <2>3
  <1>6. CASE SettleSuccess
    <2>0. PICK i \in Jobs : i = cur
      BY <1>6 DEF SettleSuccess
    <2>1. \A k \in Jobs \ {i} : Status(k)' = Status(k)
      BY <1>6, <2>0 DEF SettleSuccess, Status
    <2>2. Status(i) = "pending" /\ Status(i)' = "done"
      BY <1>6, <2>0 DEF SettleSuccess, Status
    <2> QED
      BY <2>1, <2>2, OneMoves
  <1>7. CASE SettleFailure
    <2>0. PICK i \in Jobs : i = cur
      BY <1>7 DEF SettleFailure
    <2>1. \A k \in Jobs \ {i} : Status(k)' = Status(k)
      BY <1>7, <2>0 DEF SettleFailure, Status
    <2>2. Status(i) = "pending" /\ Status(i)' \in {"pending", "dead"}
      BY <1>7, <2>0 DEF SettleFailure, Status
    <2> QED
      BY <2>1, <2>2, OneMoves
  <1>8. CASE ClaimEvent \/ EnqueueEvent \/ MarkProcessed
    <2>1. \A k \in Jobs : Status(k)' = Status(k)
      BY <1>8 DEF ClaimEvent, EnqueueEvent, MarkProcessed, Status
    <2> QED
      BY <2>1 DEF Statuses
  <1>9. CASE RequeueExpired \/ ClaimJob
    <2>1. \A k \in Jobs : Status(k)' = Status(k)
      BY <1>9 DEF RequeueExpired, Expired, ClaimJob, Status
    <2> QED
      BY <2>1 DEF Statuses
  <1>10. CASE UNCHANGED <<outState, jobState>>
    <2>1. \A k \in Jobs : Status(k)' = Status(k)
      BY <1>10 DEF Status
    <2> QED
      BY <2>1 DEF Statuses
  <1>11. FetchOutbox \/ FindExpired \/ PickJob \/ PickNothing \/ ClaimMisses
           \/ HandleSucceeds \/ HandleFails \/ SettleThrows \/ Crash \/ Restart \/ Tick
           \/ UNCHANGED vars
         => UNCHANGED <<outState, jobState>>
    BY DEF FetchOutbox, FindExpired, PickJob, PickNothing, ClaimMisses, HandleSucceeds,
           HandleFails, SettleThrows, Crash, Restart, Tick, vars
  <1> QED
    BY <1>1, <1>2, <1>3, <1>4, <1>5, <1>6, <1>7, <1>8, <1>9, <1>10, <1>11
       DEF Next, Request, Dispatch, RunJob

\* The outbox and the queue deliver every item as DurableDelivery says, under
\* every interleaving of requests, faults, crashes and time.
THEOREM Refinement == Spec => ImplementsDelivery
  BY InitRefines, StepRefines, Invariance, PTL
     DEF Spec, ImplementsDelivery, Delivery!Spec
=============================================================================
