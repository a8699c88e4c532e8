------------------------- MODULE AnnouncementDelivery -------------------------
(***************************************************************************)
(* One announcement: draft, schedule, publication and archive in           *)
(* announcements.service.ts, and materializeAnnouncement of                *)
(* jobs.service.ts, which fans it out to the people it is for.             *)
(*                                                                         *)
(* publish reads the announcement and writes by id; an outbox event of its *)
(* version, unique, starts the job.  The job reads, promotes a scheduled   *)
(* announcement that is due, reads the audience and writes the receipts,   *)
(* each in a statement of its own, and starts over after a crash.  The     *)
(* event waits for the time of publication (JobQueue hands it over).       *)
(***************************************************************************)
EXTENDS Integers

CONSTANTS
    Users, Slots, Idle,
    MaxRequests, MaxCuts  \* bounds on requests and on crashes

VARIABLES
    ann,      \* [status, version, timed], timed: publishAt was set
    due,      \* publishAt has passed
    audience, \* active users of the companies, and the users named
    event,    \* versions with an announcement.materialize event, and their job
    receipt,  \* per user [version, read], version 0 without a receipt
    cuts, req, started, serial

vars == <<ann, due, audience, event, receipt, cuts, req, started, serial>>

Versions == 1 .. 2 * MaxRequests + 1
NoJob    == [at |-> "NONE", status |-> "DRAFT", v |-> 0, to |-> {}]

Quiet == /\ \A s \in Slots : req[s] = Idle
         /\ \A v \in Versions : event[v].at \in {"NONE", "QUEUED", "DONE"}
Free(s) ==
    /\ started < MaxRequests
    /\ serial => Quiet
    /\ req[s] = Idle /\ s = CHOOSE o \in Slots : req[o] = Idle \* slots are alike

\* createDraft, with a time or without.
Init ==
    /\ \E timed \in BOOLEAN :
           ann = [status |-> "DRAFT", version |-> 1, timed |-> timed] /\ due = ~timed
    /\ audience = Users
    /\ event = [v \in Versions |-> NoJob]
    /\ receipt = [u \in Users |-> [version |-> 0, read |-> FALSE]]
    /\ cuts = 0
    /\ req = [s \in Slots |-> Idle] /\ started = 0 /\ serial \in BOOLEAN

M_Draft == TRUE
Draft   == ann.status = "DRAFT"
BeginPublish(s) ==
    /\ Draft
    /\ started' = started + 1
    /\ req' = [req EXCEPT ![s] = [v |-> ann.version, later |-> ~due]]
    /\ UNCHANGED <<ann, due, audience, event, receipt, cuts, serial>>

\* Two publications of one version collide on the event.
CommitPublish(s) ==
    /\ req[s] # Idle /\ event[req[s].v + 1] = NoJob
    /\ ann' = [ann EXCEPT !.status = IF req[s].later THEN "SCHEDULED" ELSE "PUBLISHED",
                          !.version = @ + 1]
    /\ event' = [event EXCEPT ![req[s].v + 1].at = "QUEUED"]
    /\ req' = [req EXCEPT ![s] = Idle]
    /\ UNCHANGED <<due, audience, receipt, cuts, started, serial>>
RefusePublish(s) ==
    /\ req[s] # Idle /\ event[req[s].v + 1] # NoJob
    /\ req' = [req EXCEPT ![s] = Idle]
    /\ UNCHANGED <<ann, due, audience, event, receipt, cuts, started, serial>>

\* archive is one statement that demands the version and any status.
Archive ==
    /\ \E s \in Slots : Free(s)
    /\ started' = started + 1
    /\ ann' = [ann EXCEPT !.status = "ARCHIVED", !.version = @ + 1]
    /\ UNCHANGED <<due, audience, event, receipt, cuts, req, serial>>

MarkRead(u) == \E read \in BOOLEAN :
    /\ receipt[u].version > 0
    /\ receipt' = [receipt EXCEPT ![u].read = read]
    /\ UNCHANGED <<ann, due, audience, event, cuts, req, started, serial>>

\* The time comes; a user leaves the audience.
Pass == /\ ~due /\ due' = TRUE
        /\ UNCHANGED <<ann, audience, event, receipt, cuts, req, started, serial>>
Leave == \E u \in audience :
    /\ audience' = audience \ {u}
    /\ UNCHANGED <<ann, due, event, receipt, cuts, req, started, serial>>

-----------------------------------------------------------------------------
(* The job of the event of version v.                                      *)

JobRead(v) ==
    /\ event[v].at = "QUEUED" /\ due
    /\ serial => Quiet
    /\ event' = [event EXCEPT ![v] =
           [at |-> "READ", status |-> ann.status, v |-> ann.version, to |-> {}]]
    /\ UNCHANGED <<ann, due, audience, receipt, cuts, req, started, serial>>

M_Promotes(status) == FALSE
Promotes(status)   == status = "SCHEDULED"
\* A scheduled announcement is promoted by id, whatever it is by now.
JobPromote(v) ==
    /\ event[v].at = "READ"
    /\ IF Promotes(event[v].status)
       THEN /\ ann' = [ann EXCEPT !.status = "PUBLISHED", !.version = @ + 1]
            /\ event' = [event EXCEPT ![v].at = "PROMOTED", ![v].v = ann.version + 1]
       ELSE /\ event' = [event EXCEPT ![v].at = "PROMOTED"]
            /\ UNCHANGED ann
    /\ UNCHANGED <<due, audience, receipt, cuts, req, started, serial>>

JobAudience(v) ==
    /\ event[v].at = "PROMOTED"
    /\ event' = [event EXCEPT ![v].at = "USERS", ![v].to = audience]
    /\ UNCHANGED <<ann, due, audience, receipt, cuts, req, started, serial>>

M_Upsert(r, v) == [version |-> v, read |-> FALSE]
Upsert(r, v)   == [r EXCEPT !.version = v]
JobDeliver(v) ==
    /\ event[v].at = "USERS"
    /\ receipt' = [u \in Users |-> IF u \in event[v].to THEN Upsert(receipt[u], event[v].v)
                                   ELSE receipt[u]]
    /\ event' = [event EXCEPT ![v] = [NoJob EXCEPT !.at = "DONE"]]
    /\ UNCHANGED <<ann, due, audience, cuts, req, started, serial>>

\* The worker dies, also when the receipts are written and the job is not yet done.
Crash(v) ==
    /\ cuts < MaxCuts /\ cuts' = cuts + 1
    /\ event[v].at \notin {"NONE", "QUEUED"}
    /\ event' = [event EXCEPT ![v] = [NoJob EXCEPT !.at = "QUEUED"]]
    /\ UNCHANGED <<ann, due, audience, receipt, req, started, serial>>

Next ==
    \/ \E s \in Slots : (Free(s) /\ BeginPublish(s)) \/ CommitPublish(s) \/ RefusePublish(s)
    \/ Archive \/ Pass \/ Leave
    \/ \E u \in Users : MarkRead(u)
    \/ \E v \in Versions : JobRead(v) \/ JobPromote(v) \/ JobAudience(v) \/ JobDeliver(v) \/ Crash(v)
Spec == Init /\ [][Next]_vars

-----------------------------------------------------------------------------
TypeOK ==
    /\ ann \in [status : {"DRAFT", "SCHEDULED", "PUBLISHED", "ARCHIVED"}, version : Nat,
                timed : BOOLEAN]
    /\ audience \subseteq Users /\ due \in BOOLEAN
    /\ receipt \in [Users -> [version : Nat, read : BOOLEAN]]

\* list and detail go by the receipt.
Listed(u) == receipt[u].version > 0 /\ ann.status \in {"PUBLISHED", "SCHEDULED"}

\* Nobody has a receipt before the time of the announcement, and without
\* overlap nobody sees a published one that is still marked as scheduled.  (Two
\* publications around that time can leave it so.)
NotBeforeItsTime ==
    /\ (\E u \in Users : receipt[u].version > 0) => due
    /\ serial => \A u \in Users : Listed(u) => ann.status = "PUBLISHED"

\* Archived is the last status (bert-crm-backend-spec.md:629).  Only a
\* publication or a promotion that read the announcement before brings it back.
ArchivedLast == (ann.status = "ARCHIVED" /\ ann'.status # "ARCHIVED") => ~serial

\* A delivery that is repeated does not mark anything unread: only its reader
\* does (bert-crm-backend-spec.md:638).
ReadStays == (\E v \in Versions : event'[v] # event[v]) =>
                 \A u \in Users : receipt[u].read => receipt'[u].read
=============================================================================
