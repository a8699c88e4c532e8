---------------------------- MODULE RetentionPurge ----------------------------
(***************************************************************************)
(* Legal holds and the purge job: placeHold, releaseHold, dryRun and purge *)
(* of retention.service.ts, retention.plan.ts and runRetention of          *)
(* jobs.service.ts, for the rows of one category.                          *)
(*                                                                         *)
(* A request for a purge is accepted if its preview still counts the same  *)
(* number of rows; the job it queues does not get the rows but plans       *)
(* again: it reads the candidates, then the holds, then deletes in chunks  *)
(* by id.  Requests, other jobs and a crash of the worker come in between. *)
(* A row is a closed session, a handled notification or a finished job; a  *)
(* failed job may be retried and so be open again.  Left out: the age of a *)
(* row (the cutoff of a request may be any date) and the categories other  *)
(* than the one of the request.                                            *)
(***************************************************************************)
EXTENDS Integers

CONSTANTS
    Rows, Holds,   \* ids of rows and of LegalHold records
    Admins,        \* who places holds
    Nowhere,       \* no row
    Keys,          \* idempotency keys of purge requests
    MaxCuts        \* bound on crashes of the worker

VARIABLES
    row,      \* "OPEN" | "CLOSED" | "PURGED"
    hold,     \* per id [row, state], state "NONE" | "ACTIVE" | "RELEASED"
    placing,  \* per administrator, the row of a placeHold that has looked for a hold
    job,      \* per key [state, ids]
    guarded,  \* rows that were on hold all the time since a running job read the holds
    cuts

vars == <<row, hold, placing, job, guarded, cuts>>

Held(r) == \E h \in Holds : hold[h] = [row |-> r, state |-> "ACTIVE"]
Running(k) == job[k].state \in {"ROWS", "HOLDS"}

Init ==
    /\ row \in [Rows -> {"OPEN", "CLOSED"}]
    /\ hold = [h \in Holds |-> [row |-> Nowhere, state |-> "NONE"]]
    /\ placing = [a \in Admins |-> Nowhere]
    /\ job = [k \in Keys |-> [state |-> "NONE", ids |-> {}]]
    /\ guarded = {} /\ cuts = 0

-----------------------------------------------------------------------------
\* placeHold: no hold is active on the row when it looks.
BeginHold(a) == \E r \in Rows :
    /\ placing[a] = Nowhere
    /\ ~Held(r)
    /\ placing' = [placing EXCEPT ![a] = r]
    /\ UNCHANGED <<row, hold, job, guarded, cuts>>

\* Nothing stops a second active hold on the row: the look is not repeated.
PlaceHold(a) == \E h \in Holds :
    /\ placing[a] # Nowhere
    /\ hold[h].state = "NONE"
    /\ hold' = [hold EXCEPT ![h] = [row |-> placing[a], state |-> "ACTIVE"]]
    /\ placing' = [placing EXCEPT ![a] = Nowhere]
    /\ UNCHANGED <<row, job, guarded, cuts>>

ReleaseHold == \E h \in Holds :
    /\ hold[h].state = "ACTIVE"
    /\ hold' = [hold EXCEPT ![h].state = "RELEASED"]
    /\ guarded' = {r \in guarded : \E o \in Holds \ {h} :
                                      hold[o] = [row |-> r, state |-> "ACTIVE"]}
    /\ UNCHANGED <<row, placing, job, cuts>>

\* The rest of the system: a row is closed, a failed job is retried.
Change == \E r \in Rows :
    /\ row[r] \in {"OPEN", "CLOSED"}
    /\ row' = [row EXCEPT ![r] = IF @ = "OPEN" THEN "CLOSED" ELSE "OPEN"]
    /\ UNCHANGED <<hold, placing, job, guarded, cuts>>

-----------------------------------------------------------------------------
\* buildRetentionPlan: rows that are not open, less the ones on hold.
Candidates == {r \in Rows : row[r] = "CLOSED"}
M_Unheld(ids) == ids
Unheld(ids)   == {r \in ids : ~Held(r)}

\* dryRun changes nothing.  purge compares the count the administrator saw
\* with a new plan's and keeps neither; a key that has its job gets that job.
RequestPurge == \E k \in Keys :
    /\ job[k].state = "NONE"
    /\ job' = [job EXCEPT ![k].state = "QUEUED"]
    /\ UNCHANGED <<row, hold, placing, guarded, cuts>>

PlanRows == \E k \in Keys :
    /\ job[k].state = "QUEUED"
    /\ \A o \in Keys : ~Running(o)       \* the worker runs one job at a time
    /\ job' = [job EXCEPT ![k].state = "ROWS", ![k].ids = Candidates]
    /\ UNCHANGED <<row, hold, placing, guarded, cuts>>

PlanHolds == \E k \in Keys :
    /\ job[k].state = "ROWS"
    /\ job' = [job EXCEPT ![k].state = "HOLDS", ![k].ids = Unheld(@)]
    /\ guarded' = {r \in Rows : Held(r)}
    /\ UNCHANGED <<row, hold, placing, cuts>>

\* executeRetentionPlan: one chunk; a row is not looked at again.
DeleteChunk == \E k \in Keys, chunk \in SUBSET Rows :
    /\ job[k].state = "HOLDS"
    /\ chunk # {} /\ chunk \subseteq job[k].ids
    /\ row' = [r \in Rows |-> IF r \in chunk THEN "PURGED" ELSE row[r]]
    /\ job' = [job EXCEPT ![k].ids = @ \ chunk]
    /\ UNCHANGED <<hold, placing, guarded, cuts>>

Finish == \E k \in Keys :
    /\ job[k].state = "HOLDS" /\ job[k].ids = {}
    /\ job' = [job EXCEPT ![k].state = "DONE"]
    /\ guarded' = {}
    /\ UNCHANGED <<row, hold, placing, cuts>>

\* The worker dies: its lease runs out and the job starts over.
Crash == \E k \in Keys :
    /\ cuts < MaxCuts /\ Running(k)
    /\ cuts' = cuts + 1
    /\ job' = [job EXCEPT ![k].state = "QUEUED", ![k].ids = {}]
    /\ guarded' = {}
    /\ UNCHANGED <<row, hold, placing>>

Next == \/ \E a \in Admins : BeginHold(a) \/ PlaceHold(a)
        \/ ReleaseHold \/ Change
        \/ RequestPurge \/ PlanRows \/ PlanHolds \/ DeleteChunk \/ Finish \/ Crash
Spec == Init /\ [][Next]_vars

-----------------------------------------------------------------------------
TypeOK ==
    /\ row \in [Rows -> {"OPEN", "CLOSED", "PURGED"}]
    /\ hold \in [Holds -> [row : Rows \cup {Nowhere}, state : {"NONE", "ACTIVE", "RELEASED"}]]
    /\ placing \in [Admins -> Rows \cup {Nowhere}]
    /\ job \in [Keys -> [state : {"NONE", "QUEUED", "ROWS", "HOLDS", "DONE"},
                         ids : SUBSET Rows]]
    /\ guarded \subseteq Rows

\* A purge leaves a row that was on hold when the job read the holds for as
\* long as a hold on it stays, also when two holds were placed at once and one
\* is released, and after a crash (docs/architecture.md:26, "excludes active
\* exact-scope legal holds").  A hold placed later than that comes too late.
HeldKept == \A r \in guarded : row'[r] = "PURGED" => row[r] = "PURGED"
=============================================================================
