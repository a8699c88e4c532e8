--------------------------- MODULE TaskRecurrence ---------------------------
(***************************************************************************)
(* One recurring task: the series (TaskRecurrence), its jobs, and the      *)
(* handler that creates an occurrence and queues the next job.             *)
(* tasks/task-recurrence.service.ts and createRecurringTask of             *)
(* jobs/jobs.service.ts.                                                   *)
(*                                                                         *)
(* The handler reads the series, computes the next date from what it read, *)
(* and writes in a later transaction that does not look at the series      *)
(* again.  Updates and cancellations demand the version of the template    *)
(* task, which the handler does not change.  A job's unique key is made of *)
(* the series and the date, so a date has one job ever, whatever became of *)
(* it.  An operator may put a failed job back in the queue, when the       *)
(* series has long moved on, too.                                          *)
(*                                                                         *)
(* Dates are days; a rule is a number of days between occurrences, a last  *)
(* day and a maximum.  0 stands for no date.  The worker is a reduced      *)
(* JobQueue: retries are immediate, a lease is recovered with the crash.   *)
(* What an occurrence copies from the template is left out.                *)
(***************************************************************************)
EXTENDS Integers, FiniteSets

CONSTANTS
    LastDay,     \* bound on the days a series can reach
    Steps,       \* days between occurrences a rule may have
    Maxima,      \* values of maxOccurrences
    Lead,        \* the longest reminder offset, in days
    MaxAttempts, \* BackgroundJob.maxAttempts
    Slots,       \* requests being served at the same time
    Idle,        \* nothing in a slot or in the worker's hands
    Faults,      \* whether the handler's transaction may fail by itself
    MaxRequests, \* bound on started requests
    MaxClosings, \* bound on archiving and reopening the template
    MaxCrashes   \* bound on crashes

Days == 1..LastDay

\* Rows of TaskRecurrence, and what the worker can have in hand.
SeriesRows == [active : BOOLEAN, next : Days \cup {0}, made : Nat,
               every : Steps, max : Maxima, ends : Days]
Hands == [stage : {"read", "create", "done"}, day : Days, seen : SeriesRows \cup {Idle}]

ASSUME ConstantsAssumption ==
    /\ LastDay \in Nat \ {0}
    /\ Steps \subseteq Nat \ {0} /\ Maxima \subseteq Nat \ {0, 1}
    /\ Lead \in Nat /\ MaxAttempts \in Nat \ {0}
    /\ Faults \in BOOLEAN /\ Idle \notin Hands
    /\ MaxRequests \in Nat /\ MaxClosings \in Nat /\ MaxCrashes \in Nat

VARIABLES
    series,      \* the TaskRecurrence row
    created,     \* the dates that have an occurrence task
    taskVersion, \* Task.version of the template
    closed,      \* the template is archived or cancelled
    jobState,    \* of each date: the state of its job, "ABSENT" if none
    attempts,    \* BackgroundJob.attempts
    hand,        \* the job being handled and what its handler read
    req,         \* per slot, the request between its reads and its writes
    now,         \* today
    serial,      \* requests and the handler do not overlap in this behaviour
    revived,     \* the dates whose failed job an operator has put back
    started, closings, crashes  \* counted against the bounds

jobs   == <<jobState, attempts>>
bounds == <<started, closings, crashes>>
vars   == <<series, created, taskVersion, closed, jobs, hand, req, now, revived, bounds, serial>>

Rules == [start : Days, every : Steps, max : Maxima, ends : Days]

\* A new series: its task is the first occurrence, the job waits for the start.
NewSeries(rule) ==
    [active |-> TRUE, next |-> rule.start, made |-> 1,
     every |-> rule.every, max |-> rule.max, ends |-> rule.ends]

Init ==
    /\ \E rule \in Rules :
          /\ rule.start <= rule.ends
          /\ series = NewSeries(rule)
          /\ jobState = [d \in Days |-> IF d = rule.start THEN "QUEUED" ELSE "ABSENT"]
    /\ created = {}
    /\ taskVersion = 1
    /\ closed = FALSE
    /\ attempts = [d \in Days |-> 0]
    /\ hand = Idle
    /\ req = [s \in Slots |-> Idle]
    /\ now = 0 /\ revived = {} /\ serial \in BOOLEAN
    /\ started = 0 /\ closings = 0 /\ crashes = 0

-----------------------------------------------------------------------------
(* Requests on the series.  Definitions named M_ are deliberate mistakes:  *)
(* no action uses them, they stand in for the definition after them to     *)
(* show what a property catches.                                           *)

Alone == serial => hand = Idle /\ \A s \in Slots : req[s] = Idle

Free(s) == started < MaxRequests /\ req[s] = Idle /\ Alone

Start(s, r) ==
    /\ started' = started + 1
    /\ req' = [req EXCEPT ![s] = r]
    /\ UNCHANGED <<series, created, taskVersion, closed, jobs, hand, now,
                   closings, crashes>>

\* The new start is compared with the time, and the maximum with the number of
\* occurrences, when the request reads them.
BeginUpdate(s, rule) ==
    /\ rule.start > now /\ rule.start <= rule.ends
    /\ Start(s, [op |-> "update", seen |-> taskVersion, rule |-> rule,
                 next |-> IF series.made < rule.max THEN rule.start ELSE 0])

BeginCancel(s) == Start(s, [op |-> "cancel", seen |-> taskVersion])

Done(s) == req' = [req EXCEPT ![s] = Idle] /\ UNCHANGED bounds

M_QueuedKept == jobState
M_RunningCancelled ==
    [d \in Days |-> IF jobState[d] \in {"QUEUED", "RUNNING"} THEN "CANCELLED" ELSE jobState[d]]
QueuedCancelled ==
    [d \in Days |-> IF jobState[d] = "QUEUED" THEN "CANCELLED" ELSE jobState[d]]

\* The queued job is cancelled and the one for the new start is created, if
\* that date never had one.
Creatable(d) == d # 0 => jobState[d] = "ABSENT"

CommitUpdate(s) ==
    LET r == req[s]
    IN  /\ r # Idle /\ r.op = "update"
        /\ taskVersion = r.seen /\ Creatable(r.next)
        /\ taskVersion' = taskVersion + 1
        /\ series' = [active |-> r.next # 0, next |-> r.next, made |-> series.made,
                      every |-> r.rule.every, max |-> r.rule.max, ends |-> r.rule.ends]
        /\ jobState' = IF r.next = 0 THEN QueuedCancelled
                       ELSE [QueuedCancelled EXCEPT ![r.next] = "QUEUED"]
        /\ Done(s)
        /\ UNCHANGED <<created, closed, attempts, hand, now>>

CommitCancel(s) ==
    LET r == req[s]
    IN  /\ r # Idle /\ r.op = "cancel"
        /\ taskVersion = r.seen
        /\ taskVersion' = taskVersion + 1
        /\ series' = [series EXCEPT !.active = FALSE, !.next = 0]
        /\ jobState' = QueuedCancelled
        /\ Done(s)
        /\ UNCHANGED <<created, closed, attempts, hand, now>>

\* A version conflict, or a date whose job key is taken: nothing is changed.
Refuse(s) ==
    LET r == req[s]
    IN  /\ r # Idle
        /\ taskVersion # r.seen \/ (r.op = "update" /\ ~Creatable(r.next))
        /\ Done(s)
        /\ UNCHANGED <<series, created, taskVersion, closed, jobs, hand, now>>

\* The template is archived or cancelled, or reopened.
ChangeTemplate ==
    /\ Alone
    /\ closings < MaxClosings
    /\ closed' = ~closed
    /\ taskVersion' = taskVersion + 1
    /\ closings' = closings + 1
    /\ UNCHANGED <<series, created, jobs, hand, req, now, started, crashes>>

-----------------------------------------------------------------------------
(* The worker.                                                             *)

\* A job runs Lead days ahead of its date, so that reminders can be queued.
Due(d) == jobState[d] = "QUEUED" /\ d - Lead <= now

Claim(d) ==
    /\ hand = Idle
    /\ Alone
    /\ Due(d)
    /\ jobState' = [jobState EXCEPT ![d] = "RUNNING"]
    /\ attempts' = [attempts EXCEPT ![d] = @ + 1]
    /\ hand' = [stage |-> "read", day |-> d, seen |-> Idle]
    /\ UNCHANGED <<series, created, taskVersion, closed, req, now, bounds>>

M_WantedOfClosed(d) == series.active /\ series.next = d /\ d \notin created

\* The job is for the date the series waits for, and that has no task yet.
Wanted(d) == series.active /\ ~closed /\ series.next = d /\ d \notin created

ReadSeries ==
    /\ hand # Idle /\ hand.stage = "read"
    /\ hand' = IF Wanted(hand.day)
               THEN [hand EXCEPT !.stage = "create", !.seen = series]
               ELSE [hand EXCEPT !.stage = "done"]
    /\ UNCHANGED <<series, created, taskVersion, closed, jobs, req, now, bounds>>

M_NextIgnoringMax(d, seen) == IF d + seen.every <= seen.ends THEN d + seen.every ELSE 0

\* The date after d by the series as it was read.
NextDate(d, seen) ==
    IF seen.made + 1 < seen.max /\ d + seen.every <= seen.ends
    THEN d + seen.every ELSE 0

Upcoming == NextDate(hand.day, hand.seen)

M_CreateUncounted ==
    /\ hand # Idle /\ hand.stage = "create"
    /\ Creatable(Upcoming)
    /\ created' = created \cup {hand.day}
    /\ series' = [series EXCEPT !.next = Upcoming, !.active = Upcoming # 0]
    /\ jobState' = IF Upcoming = 0 THEN jobState
                   ELSE [jobState EXCEPT ![Upcoming] = "QUEUED"]
    /\ hand' = [hand EXCEPT !.stage = "done"]
    /\ UNCHANGED <<taskVersion, closed, attempts, req, now, bounds>>

M_CreateLast ==
    /\ hand # Idle /\ hand.stage = "create"
    /\ created' = created \cup {hand.day}
    /\ series' = [series EXCEPT !.made = @ + 1, !.next = Upcoming, !.active = Upcoming # 0]
    /\ hand' = [hand EXCEPT !.stage = "done"]
    /\ UNCHANGED <<taskVersion, closed, jobs, req, now, bounds>>

\* The task, the series and the next job in one transaction.
CreateOccurrence ==
    /\ hand # Idle /\ hand.stage = "create"
    /\ Creatable(Upcoming)
    /\ created' = created \cup {hand.day}
    /\ series' = [series EXCEPT !.made = @ + 1, !.next = Upcoming, !.active = Upcoming # 0]
    /\ jobState' = IF Upcoming = 0 THEN jobState
                   ELSE [jobState EXCEPT ![Upcoming] = "QUEUED"]
    /\ hand' = [hand EXCEPT !.stage = "done"]
    /\ UNCHANGED <<taskVersion, closed, attempts, req, now, bounds>>

M_FailsAsPending ==
    /\ hand # Idle /\ hand.stage = "create"
    /\ ~Creatable(Upcoming) \/ Faults
    /\ jobState' = [jobState EXCEPT ![hand.day] = "PENDING"]
    /\ hand' = Idle
    /\ UNCHANGED <<series, created, taskVersion, closed, attempts, req, now, bounds>>

\* The next job's key is taken, or something else goes wrong.
CreateFails ==
    /\ hand # Idle /\ hand.stage = "create"
    /\ ~Creatable(Upcoming) \/ Faults
    /\ jobState' = [jobState EXCEPT ![hand.day] =
                       IF attempts[hand.day] >= MaxAttempts THEN "FAILED" ELSE "QUEUED"]
    /\ hand' = Idle
    /\ UNCHANGED <<series, created, taskVersion, closed, attempts, req, now, bounds>>

Settle ==
    /\ hand # Idle /\ hand.stage = "done"
    /\ jobState' = [jobState EXCEPT ![hand.day] = "SUCCEEDED"]
    /\ hand' = Idle
    /\ UNCHANGED <<series, created, taskVersion, closed, attempts, req, now, bounds>>

\* The process dies with its requests; the running job comes back later.
Crash ==
    /\ crashes < MaxCrashes
    /\ crashes' = crashes + 1
    /\ hand' = Idle
    /\ req' = [s \in Slots |-> Idle]
    /\ jobState' = [d \in Days |-> IF jobState[d] = "RUNNING" THEN "QUEUED" ELSE jobState[d]]
    /\ UNCHANGED <<series, created, taskVersion, closed, attempts, now, started, closings>>

\* retryJob: the operator's second thought about a job that has failed for good.
Revive(d) ==
    /\ started < MaxRequests /\ Alone
    /\ jobState[d] = "FAILED"
    /\ started' = started + 1
    /\ jobState' = [jobState EXCEPT ![d] = "QUEUED"]
    /\ revived' = revived \cup {d}
    /\ UNCHANGED <<series, created, taskVersion, closed, attempts, hand, req, now,
                   closings, crashes>>

NewDay ==
    /\ now + 1 \in Days
    /\ now' = now + 1
    /\ UNCHANGED <<series, created, taskVersion, closed, jobs, hand, req, bounds>>

-----------------------------------------------------------------------------
Request(s) == (\E rule \in Rules : BeginUpdate(s, rule)) \/ BeginCancel(s)
Commit(s)  == CommitUpdate(s) \/ CommitCancel(s) \/ Refuse(s)
Work == \/ \E d \in Days : Claim(d)
        \/ ReadSeries \/ CreateOccurrence \/ CreateFails \/ Settle

Step == /\ \/ \E s \in Slots : (Free(s) /\ Request(s)) \/ Commit(s)
           \/ ChangeTemplate \/ Work \/ Crash \/ NewDay
        /\ UNCHANGED revived

Next == (Step \/ \E d \in Days : Revive(d)) /\ UNCHANGED serial

Spec == Init /\ [][Next]_vars

\* The worker keeps taking jobs, requests are answered, and days pass.
FairSpec ==
    /\ Spec
    /\ WF_vars(Work /\ UNCHANGED <<revived, serial>>)
    /\ WF_vars(NewDay /\ UNCHANGED <<revived, serial>>)
    /\ \A s \in Slots : WF_vars(Commit(s) /\ UNCHANGED <<revived, serial>>)

-----------------------------------------------------------------------------
(* Properties.                                                             *)

\* Every variable stays within its type.
TypeOK ==
    /\ series \in SeriesRows
    /\ created \subseteq Days
    /\ jobState \in [Days -> {"ABSENT", "QUEUED", "RUNNING", "SUCCEEDED", "FAILED",
                              "CANCELLED"}]
    /\ attempts \in [Days -> Nat]
    /\ now \in Days \cup {0} /\ revived \subseteq Days
    /\ taskVersion \in Nat /\ closed \in BOOLEAN

\* The count a maximum is compared with is the number of tasks there are, the
\* template included, through every retry, crash and edit.
MadeCountsTasks == series.made = 1 + Cardinality(created)

\* A date gets its task from its own job, never one that was cancelled.
CreatedByItsJob ==
    [][\A d \in created' \ created : jobState[d] = "RUNNING"]_vars

\* An occurrence is created only on the date the series waits for when it is
\* created: none after a cancellation, none on a date an update has replaced,
\* none from an archived template.  An edit that overlaps the handler may be
\* overridden by it, so this is about behaviours without overlap.
OnlyWantedDates ==
    [][serial => \A d \in created' \ created :
                    series.active /\ series.next = d /\ ~closed]_vars

\* No occurrence goes beyond the maximum in force when it is created, unless
\* the maximum changed under the handler.
MaximumKept ==
    [][serial /\ created' # created => series'.made <= series'.max]_vars

\* A queued job is the job of the next date, or a redelivery that will find its
\* task, or one an operator has put back: edits and the handler, one after another,
\* never leave two chains of jobs behind.  (Wanted turns a revived job of an
\* abandoned date away: OnlyWantedDates counts it in.)
OneChain ==
    serial => \A d \in Days :
        jobState[d] = "QUEUED" /\ series.active
            => d = series.next \/ d \in created \cup revived

\* The count is the number of tasks, along one chain of jobs.
SeriesHolds == TypeOK /\ MadeCountsTasks /\ OneChain

\* An occurrence is created by its own job, on a date the series waits for and
\* within the maximum.
OccurrencesWanted == CreatedByItsJob /\ OnlyWantedDates /\ MaximumKept

\* Each date a series comes to wait for gets its task, whatever crashes.  A
\* series nobody edits keeps this, an edited one does not.
\* (Decision record: recurrence "creates a new task for each occurrence".)
EachOccurrence ==
    \A d \in Days : series.active /\ series.next = d
                       ~> d \in created \/ series.next # d
=============================================================================
