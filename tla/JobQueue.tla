------------------------------ MODULE JobQueue ------------------------------
(***************************************************************************)
(* The transactional outbox and the background-job worker of               *)
(* apps/api/src/modules/jobs/jobs.service.ts.                              *)
(*                                                                         *)
(* One process serves HTTP and runs the worker (SQLite allows one writable *)
(* process), so there is one worker; `active` keeps its passes from        *)
(* overlapping.  A pass is split at its database awaits: between two of    *)
(* them requests commit events, queue, cancel or revive jobs, time passes, *)
(* or the process dies.  Rows survive a crash, the worker's memory (pc,    *)
(* batch, cur) does not.                                                   *)
(*                                                                         *)
(* Every timestamp a query looks at is kept as its distance from now: a    *)
(* row is due when its wait is <= 0, a lease has run out when it is < 0.   *)
(* Distances stop falling at -Horizon, where the order is forgotten.       *)
(***************************************************************************)
EXTENDS Integers, FiniteSets

CONSTANTS
    Events,         \* outbox events the requests may commit
    Direct,         \* jobs queued without the outbox (reminders, scans, ...)
    Unhandled,      \* the events whose type `handle` does not know
    NoJob,          \* "nothing picked"
    MaxAttempts,    \* BackgroundJob.maxAttempts, 5 in the schema
    OutboxAttempts, \* dispatch attempts before FAILED, 5 in the code
    LeaseTime,      \* JOB_LEASE_SECONDS
    MaxBackoff,     \* the cap on a retry delay, 300 s in the code
    BatchSize,      \* events one pass fetches, 20 in the code
    Faults,         \* which operations may throw: "dispatch", "handler", "settle"
    MaxCrashes,     \* bound on process crashes
    MaxRetries,     \* bound on operator retries
    Horizon         \* how far in the past two due times are told apart

ASSUME ConstantsAssumption ==
    /\ IsFiniteSet(Events)
    /\ Events \cap Direct = {}
    /\ Unhandled \subseteq Events
    /\ NoJob \notin Events \cup Direct
    /\ MaxAttempts \in Nat \ {0}
    /\ OutboxAttempts \in Nat \ {0}
    /\ LeaseTime \in Nat
    /\ MaxBackoff \in Nat
    /\ BatchSize \in Nat \ {0}
    /\ Faults \subseteq {"dispatch", "handler", "settle"}
    /\ MaxCrashes \in Nat
    /\ MaxRetries \in Nat
    /\ Horizon \in Nat \ {0}

VARIABLES
    outState,    \* OutboxEvent.state, "ABSENT" before the commit
    outAttempts, \* OutboxEvent.attempts
    outWait,     \* OutboxEvent.nextRunAt - now, while PENDING
    outSeq,      \* the rank of OutboxEvent.createdAt
    jobState,    \* BackgroundJob.state; event e's job has the key outbox:e
    jobAttempts, \* BackgroundJob.attempts
    jobWait,     \* BackgroundJob.runAt - now, while QUEUED
    jobLease,    \* BackgroundJob.leaseUntil - now while RUNNING, 0 for null
    effects,     \* how often the job's handler has completed
    pc,          \* where the worker's pass stands
    batch,       \* the fetched events the pass has still to dispatch
    cur,         \* the event or the job in hand, or NoJob
    crashes,     \* crashes so far, bounded by MaxCrashes
    retries      \* operator retries so far, bounded by MaxRetries

outbox == <<outState, outAttempts, outWait, outSeq>>
jobs   == <<jobState, jobAttempts, jobWait, jobLease>>
worker == <<pc, batch, cur>>
budget == <<crashes, retries>>
vars   == <<outbox, jobs, effects, worker, budget>>

Jobs == Events \cup Direct
OutboxStates == {"ABSENT", "PENDING", "PROCESSING", "PROCESSED", "FAILED"}
JobStates == {"ABSENT", "QUEUED", "RUNNING", "SUCCEEDED", "FAILED", "CANCELLED"}
PCs == {"down", "idle", "dispatch", "enqueue", "mark", "requeue", "pick",
        "claim", "handle", "succeeded", "failed"}

-----------------------------------------------------------------------------
Init ==
    /\ outState = [e \in Events |-> "ABSENT"]
    /\ outAttempts = [e \in Events |-> 0]
    /\ outWait = [e \in Events |-> 0]
    /\ outSeq = [e \in Events |-> 0]
    /\ jobState = [j \in Jobs |-> "ABSENT"]
    /\ jobAttempts = [j \in Jobs |-> 0]
    /\ jobWait = [j \in Jobs |-> 0]
    /\ jobLease = [j \in Jobs |-> 0]
    /\ effects = [j \in Jobs |-> 0]
    /\ pc = "idle" /\ batch = {} /\ cur = NoJob
    /\ crashes = 0 /\ retries = 0

\* 2^attempts seconds, capped.
Backoff(n) == IF 2 ^ n < MaxBackoff THEN 2 ^ n ELSE MaxBackoff

(* Definitions named M_ are deliberate mistakes: no action uses them, they *)
(* stand in for the definition after them to show what a property catches. *)

M_ExhaustedEarly(j) == jobAttempts[j] + 1 >= MaxAttempts
M_ExhaustedLate(j)  == jobAttempts[j] > MaxAttempts
M_CancelRunning(j)  == jobState[j] \in {"QUEUED", "RUNNING"}
M_JobDueExactly     == {j \in Jobs : jobState[j] = "QUEUED" /\ jobWait[j] = 0}
M_NoneExpired       == {}

\* attempts counts the attempt just made.
Exhausted(j)       == jobAttempts[j] >= MaxAttempts
OutboxExhausted(e) == outAttempts[e] >= OutboxAttempts

Cancellable(j) == jobState[j] = "QUEUED"
Retriable(j)   == jobState[j] = "FAILED"

DueEvents  == {e \in Events : outState[e] = "PENDING" /\ outWait[e] <= 0}
DueJobs    == {j \in Jobs : jobState[j] = "QUEUED" /\ jobWait[j] <= 0}
Expired    == {j \in Jobs : jobState[j] = "RUNNING" /\ jobLease[j] < 0}
Committed  == {e \in Events : outState[e] # "ABSENT"}

\* orderBy asc: the members of S that no member of S precedes.
Earliest(S, key) == {x \in S : \A y \in S : key[x] <= key[y]}

\* findMany ... take: the members of S with fewer than BatchSize before them.
FirstBatch(S) ==
    {e \in S : Cardinality({f \in S : outSeq[f] < outSeq[e]}) < BatchSize}

-----------------------------------------------------------------------------
(* Requests.  They are served by the same process, so never while it is    *)
(* down, but at any point of a pass.                                       *)

\* A business transaction commits together with its outbox row.
CommitEvent(e) ==
    /\ pc # "down"
    /\ outState[e] = "ABSENT"
    /\ outState' = [outState EXCEPT ![e] = "PENDING"]
    /\ outWait' = [outWait EXCEPT ![e] = 0]
    /\ outSeq' = [outSeq EXCEPT ![e] = Cardinality(Committed)]
    /\ UNCHANGED <<outAttempts, jobs, effects, worker, budget>>

\* enqueue with a fresh idempotency key, due now or after the delay.
EnqueueDirect(j, delay) ==
    /\ pc # "down"
    /\ jobState[j] = "ABSENT"
    /\ jobState' = [jobState EXCEPT ![j] = "QUEUED"]
    /\ jobWait' = [jobWait EXCEPT ![j] = delay]
    /\ UNCHANGED <<outbox, jobAttempts, jobLease, effects, worker, budget>>

\* Reminders and recurrences cancel their job while it is still queued.
CancelQueued(j) ==
    /\ pc # "down"
    /\ Cancellable(j)
    /\ jobState' = [jobState EXCEPT ![j] = "CANCELLED"]
    /\ UNCHANGED <<outbox, jobAttempts, jobWait, jobLease, effects, worker, budget>>

M_RetryAsPending(j) ==
    /\ pc # "down"
    /\ retries < MaxRetries
    /\ Retriable(j)
    /\ jobState' = [jobState EXCEPT ![j] = "PENDING"]
    /\ jobWait' = [jobWait EXCEPT ![j] = 0]
    /\ retries' = retries + 1
    /\ UNCHANGED <<outbox, jobAttempts, jobLease, effects, worker, crashes>>

\* An operator puts a failed job back; its attempts are kept.
RetryJob(j) ==
    /\ pc # "down"
    /\ retries < MaxRetries
    /\ Retriable(j)
    /\ jobState' = [jobState EXCEPT ![j] = "QUEUED"]
    /\ jobWait' = [jobWait EXCEPT ![j] = 0]
    /\ retries' = retries + 1
    /\ UNCHANGED <<outbox, jobAttempts, jobLease, effects, worker, crashes>>

-----------------------------------------------------------------------------
(* dispatchOutbox.                                                         *)

FetchOutbox ==
    /\ pc = "idle"
    /\ batch' = FirstBatch(DueEvents)
    /\ pc' = "dispatch"
    /\ UNCHANGED <<outbox, jobs, effects, cur, budget>>

M_MarkAtClaim ==
    /\ pc = "dispatch"
    /\ \E e \in Earliest(batch, outSeq) :
          /\ outState' = [outState EXCEPT ![e] = "PROCESSED"]
          /\ outAttempts' = [outAttempts EXCEPT ![e] = @ + 1]
          /\ cur' = e
          /\ batch' = batch \ {e}
    /\ pc' = "enqueue"
    /\ UNCHANGED <<outWait, outSeq, jobs, effects, budget>>

\* The claim is an update guarded by the state, so it takes the row or not.
ClaimEvent ==
    /\ pc = "dispatch"
    /\ \E e \in Earliest(batch, outSeq) :
          /\ outState[e] = "PENDING"
          /\ outState' = [outState EXCEPT ![e] = "PROCESSING"]
          /\ outAttempts' = [outAttempts EXCEPT ![e] = @ + 1]
          /\ cur' = e
          /\ batch' = batch \ {e}
    /\ pc' = "enqueue"
    /\ UNCHANGED <<outWait, outSeq, jobs, effects, budget>>

M_Upsert ==
    /\ pc = "enqueue"
    /\ jobState' = [jobState EXCEPT ![cur] = "QUEUED"]
    /\ jobWait' = [jobWait EXCEPT ![cur] = 0]
    /\ pc' = "mark"
    /\ UNCHANGED <<outbox, jobAttempts, jobLease, effects, batch, cur, budget>>

\* enqueue under the key outbox:<id>: an existing job is left as it is.
EnqueueEvent ==
    /\ pc = "enqueue"
    /\ IF jobState[cur] = "ABSENT"
       THEN /\ jobState' = [jobState EXCEPT ![cur] = "QUEUED"]
            /\ jobWait' = [jobWait EXCEPT ![cur] = 0]
       ELSE UNCHANGED <<jobState, jobWait>>
    /\ pc' = "mark"
    /\ UNCHANGED <<outbox, jobAttempts, jobLease, effects, batch, cur, budget>>

MarkProcessed ==
    /\ pc = "mark"
    /\ outState' = [outState EXCEPT ![cur] = "PROCESSED"]
    /\ pc' = "dispatch" /\ cur' = NoJob
    /\ UNCHANGED <<outAttempts, outWait, outSeq, jobs, effects, batch, budget>>

\* Either write throws: the event waits for its next attempt or is given up.
\* The code compares the attempts read before the claim added one.
DispatchFails ==
    /\ "dispatch" \in Faults
    /\ pc \in {"enqueue", "mark"}
    /\ outState' = [outState EXCEPT
          ![cur] = IF OutboxExhausted(cur) THEN "FAILED" ELSE "PENDING"]
    /\ outWait' = [outWait EXCEPT ![cur] = Backoff(outAttempts[cur] - 1)]
    /\ pc' = "dispatch" /\ cur' = NoJob
    /\ UNCHANGED <<outAttempts, outSeq, jobs, effects, batch, budget>>

-----------------------------------------------------------------------------
(* The rest of runOnce.                                                    *)

\* The batch is done; note the job whose lease ran out first, if any.
FindExpired ==
    /\ pc = "dispatch" /\ batch = {}
    /\ cur' \in IF Expired = {} THEN {NoJob} ELSE Earliest(Expired, jobLease)
    /\ pc' = "requeue"
    /\ UNCHANGED <<outbox, jobs, effects, batch, budget>>

\* One updateMany puts every job with an expired lease back, whatever its
\* attempts.
RequeueExpired ==
    /\ pc = "requeue"
    /\ jobState' = [j \in Jobs |-> IF j \in Expired THEN "QUEUED" ELSE jobState[j]]
    /\ jobWait' = [j \in Jobs |-> IF j \in Expired THEN 0 ELSE jobWait[j]]
    /\ jobLease' = [j \in Jobs |-> IF j \in Expired THEN 0 ELSE jobLease[j]]
    /\ pc' = "pick"
    /\ UNCHANGED <<outbox, jobAttempts, effects, batch, cur, budget>>

\* A recovered job goes first; otherwise the longest due one.  Job ids are
\* random, so a tie may fall either way.
Candidates == IF cur # NoJob THEN DueJobs \cap {cur} ELSE Earliest(DueJobs, jobWait)

PickJob ==
    /\ pc = "pick"
    /\ cur' \in Candidates
    /\ pc' = "claim"
    /\ UNCHANGED <<outbox, jobs, effects, batch, budget>>

PickNothing ==
    /\ pc = "pick"
    /\ Candidates = {}
    /\ pc' = "idle" /\ cur' = NoJob
    /\ UNCHANGED <<outbox, jobs, effects, batch, budget>>

M_ClaimUnguarded ==
    /\ pc = "claim"
    /\ jobState' = [jobState EXCEPT ![cur] = "RUNNING"]
    /\ jobLease' = [jobLease EXCEPT ![cur] = LeaseTime]
    /\ jobAttempts' = [jobAttempts EXCEPT ![cur] = @ + 1]
    /\ pc' = "handle"
    /\ UNCHANGED <<outbox, jobWait, effects, batch, cur, budget>>

ClaimJob ==
    /\ pc = "claim"
    /\ jobState[cur] = "QUEUED"
    /\ jobState' = [jobState EXCEPT ![cur] = "RUNNING"]
    /\ jobLease' = [jobLease EXCEPT ![cur] = LeaseTime]
    /\ jobAttempts' = [jobAttempts EXCEPT ![cur] = @ + 1]
    /\ pc' = "handle"
    /\ UNCHANGED <<outbox, jobWait, effects, batch, cur, budget>>

\* The candidate was cancelled after it was read: the update matches no row.
ClaimMisses ==
    /\ pc = "claim"
    /\ jobState[cur] # "QUEUED"
    /\ pc' = "idle" /\ cur' = NoJob
    /\ UNCHANGED <<outbox, jobs, effects, batch, budget>>

HandleSucceeds ==
    /\ pc = "handle"
    /\ cur \notin Unhandled
    /\ effects' = [effects EXCEPT ![cur] = @ + 1]
    /\ pc' = "succeeded"
    /\ UNCHANGED <<outbox, jobs, batch, cur, budget>>

M_SwallowFailure ==
    /\ pc = "handle"
    /\ cur \in Unhandled \/ "handler" \in Faults
    /\ pc' = "succeeded"
    /\ UNCHANGED <<outbox, jobs, effects, batch, cur, budget>>

\* An unknown type always throws, another handler may.
HandleFails ==
    /\ pc = "handle"
    /\ cur \in Unhandled \/ "handler" \in Faults
    /\ pc' = "failed"
    /\ UNCHANGED <<outbox, jobs, effects, batch, cur, budget>>

\* update where id: neither the state nor the owner of the lease is checked.
SettleSuccess ==
    /\ pc = "succeeded"
    /\ jobState' = [jobState EXCEPT ![cur] = "SUCCEEDED"]
    /\ jobLease' = [jobLease EXCEPT ![cur] = 0]
    /\ pc' = "idle" /\ cur' = NoJob
    /\ UNCHANGED <<outbox, jobAttempts, jobWait, effects, batch, budget>>

\* The update that records the success is inside the try: when it throws,
\* the finished job is treated as a failed one.
SettleThrows ==
    /\ "settle" \in Faults
    /\ pc = "succeeded"
    /\ pc' = "failed"
    /\ UNCHANGED <<outbox, jobs, effects, batch, cur, budget>>

SettleFailure ==
    /\ pc = "failed"
    /\ jobState' = [jobState EXCEPT
          ![cur] = IF Exhausted(cur) THEN "FAILED" ELSE "QUEUED"]
    /\ jobWait' = [jobWait EXCEPT ![cur] = Backoff(jobAttempts[cur])]
    /\ jobLease' = [jobLease EXCEPT ![cur] = 0]
    /\ pc' = "idle" /\ cur' = NoJob
    /\ UNCHANGED <<outbox, jobAttempts, effects, batch, budget>>

-----------------------------------------------------------------------------
(* The process and the clock.                                              *)

\* The process dies.  A rejected write outside a try ends here too: tick is
\* not awaited and nothing handles the rejection.
Crash ==
    /\ pc # "down"
    /\ crashes < MaxCrashes
    /\ crashes' = crashes + 1
    /\ pc' = "down" /\ batch' = {} /\ cur' = NoJob
    /\ UNCHANGED <<outbox, jobs, effects, retries>>

Restart ==
    /\ pc = "down"
    /\ pc' = "idle"
    /\ UNCHANGED <<outbox, jobs, effects, batch, cur, budget>>

Down(n) == IF n > -Horizon THEN n - 1 ELSE n

\* The queries of a lease sweep all compare with one `now`: time that passes
\* between them is seen by none of them.
Tick ==
    /\ pc \notin {"requeue", "pick"}
    /\ outWait' = [e \in Events |->
          IF outState[e] = "PENDING" THEN Down(outWait[e]) ELSE outWait[e]]
    /\ jobWait' = [j \in Jobs |->
          IF jobState[j] = "QUEUED" THEN Down(jobWait[j]) ELSE jobWait[j]]
    /\ jobLease' = [j \in Jobs |->
          IF jobState[j] = "RUNNING" THEN Down(jobLease[j]) ELSE jobLease[j]]
    /\ UNCHANGED <<outState, outAttempts, outSeq, jobState, jobAttempts,
                   effects, worker, budget>>

-----------------------------------------------------------------------------
Request ==
    \/ \E e \in Events : CommitEvent(e)
    \/ \E j \in Direct, delay \in {0, 1} : EnqueueDirect(j, delay)
    \/ \E j \in Direct : CancelQueued(j)
    \/ \E j \in Jobs : RetryJob(j)

Dispatch == FetchOutbox \/ ClaimEvent \/ EnqueueEvent \/ MarkProcessed \/ DispatchFails

RunJob == \/ FindExpired \/ RequeueExpired \/ PickJob \/ PickNothing
          \/ ClaimJob \/ ClaimMisses \/ HandleSucceeds \/ HandleFails
          \/ SettleSuccess \/ SettleThrows \/ SettleFailure

Next == Request \/ Dispatch \/ RunJob \/ Crash \/ Restart \/ Tick

Spec == Init /\ [][Next]_vars

\* The interval timer keeps calling tick, every await returns, a supervisor
\* restarts the process and the clock advances whatever the worker does (Tick
\* is off during a lease sweep, hence SF).  No request is owed.
Fairness == /\ WF_vars(Dispatch \/ RunJob)
            /\ WF_vars(Restart)
            /\ SF_vars(Tick)

FairSpec == Spec /\ Fairness

-----------------------------------------------------------------------------
(* Properties.                                                             *)

\* Every variable stays within its type.
TypeOK ==
    /\ outState \in [Events -> OutboxStates]
    /\ outAttempts \in [Events -> Nat]
    /\ outWait \in [Events -> Int]
    /\ outSeq \in [Events -> Nat]
    /\ jobState \in [Jobs -> JobStates]
    /\ jobAttempts \in [Jobs -> Nat]
    /\ jobWait \in [Jobs -> Int]
    /\ jobLease \in [Jobs -> Int]
    /\ effects \in [Jobs -> Nat]
    /\ pc \in PCs
    /\ batch \in SUBSET Events
    /\ cur \in Jobs \cup {NoJob}
    /\ crashes \in Nat /\ retries \in Nat

\* A dispatched event always has its job: the mark never runs ahead of the
\* enqueue, wherever a crash falls between the two.
HandoffSafe == \A e \in Events : outState[e] = "PROCESSED" => jobState[e] # "ABSENT"

\* Work is dead-lettered only after all its attempts were spent.
NoEarlyGiveUp ==
    /\ \A e \in Events : outState[e] = "FAILED" => outAttempts[e] >= OutboxAttempts
    /\ \A j \in Jobs : jobState[j] = "FAILED" => jobAttempts[j] >= MaxAttempts

\* A job is attempted more than MaxAttempts times only as often as the process
\* crashed or an operator revived it: lease recovery itself checks no limit.
AttemptsBounded == \A j \in Jobs : jobAttempts[j] <= MaxAttempts + crashes + retries

\* The job whose handler runs, or has run and is not settled, is RUNNING: no
\* cancellation, revival or lease sweep takes it away, which is what lets the
\* settling updates go by id alone.
HeldJobRunning == pc \in {"handle", "succeeded", "failed"} => jobState[cur] = "RUNNING"

\* A job succeeds only if its handler completed, and a handler completes at
\* most once for each attempt.
EffectsMatchAttempts ==
    \A j \in Jobs :
        /\ effects[j] <= jobAttempts[j]
        /\ jobState[j] = "SUCCEEDED" => effects[j] > 0

\* Without a crash, and when successes can be recorded, a handler completes at
\* most once per job even if the event is dispatched again.
AtMostOnceUninterrupted ==
    crashes = 0 /\ "settle" \notin Faults => \A j \in Jobs : effects[j] <= 1

\* No attempt is skipped before work is given up, and none is wasted: nothing is
\* dead-lettered early, and without a crash a job's handler completes once.
AttemptsSpent == TypeOK /\ NoEarlyGiveUp /\ AtMostOnceUninterrupted

\* A succeeded or cancelled job never comes back, through no dispatch retry,
\* lease sweep or operator.
SettledStays ==
    [][\A j \in Jobs : jobState[j] \in {"SUCCEEDED", "CANCELLED"}
                          => jobState'[j] = jobState[j]]_vars

\* A job left RUNNING by a crash is taken back once its lease has run out.
LeasesRecovered == \A j \in Jobs : jobState[j] = "RUNNING" ~> jobState[j] # "RUNNING"

\* Every committed event reaches the job queue or the dead-letter state.
\* (backend specification: the outbox guarantees that a committed business
\* event is not lost.)
EventsHandedOver ==
    \A e \in Events : outState[e] = "PENDING" ~> outState[e] \in {"PROCESSED", "FAILED"}

-----------------------------------------------------------------------------
(* The queue implements DurableDelivery.  A job's row decides as soon as   *)
(* there is one, before that the event's row does.                         *)

Status(j) ==
    CASE jobState[j] \in {"QUEUED", "RUNNING"} -> "pending"
      [] jobState[j] = "SUCCEEDED" -> "done"
      [] jobState[j] = "FAILED"    -> "dead"
      [] jobState[j] = "CANCELLED" -> "cancelled"
      [] jobState[j] = "ABSENT" /\ j \in Events ->
            (CASE outState[j] = "ABSENT" -> "none"
               [] outState[j] = "FAILED" -> "dead"
               [] OTHER -> "pending")
      [] OTHER -> "none"

Statuses == [j \in Jobs |-> Status(j)]

Delivery == INSTANCE DurableDelivery WITH Items <- Jobs, status <- Statuses

\* Every step of outbox, worker, requests and crashes is one item submitted,
\* settled once or revived from the dead, or changes nothing of that.
ImplementsDelivery == Delivery!Spec

\* The worker died between claiming the event and queueing its job.
Stranded(j) ==
    /\ j \in Events
    /\ outState[j] = "PROCESSING" /\ jobState[j] = "ABSENT" /\ cur # j

\* Whatever crashes, fails or goes first, pending work is settled, unless its
\* event was stranded: nothing else is lost.
NothingElseLost ==
    \A j \in Jobs : Status(j) = "pending" ~> Status(j) # "pending" \/ Stranded(j)
=============================================================================
