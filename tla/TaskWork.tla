------------------------------- MODULE TaskWork -------------------------------
(***************************************************************************)
(* What people do with one task: its participants, followers, reminders,   *)
(* checklist, timers and personal marks, and who sees it.  From            *)
(* task-participants, -reminder, -checklist, -time and -compatibility      *)
(* .service.ts, task-access.service.ts, deliverTaskReminder of             *)
(* jobs.service.ts and the hand-over of admin.service.ts.                  *)
(*                                                                         *)
(* A handler reads with single queries and then writes in a transaction;   *)
(* a request slot holds what it has read.  Most writes demand the version  *)
(* the client saw: one that is already stale when the request begins can   *)
(* only be refused, so the version of a request is the one it finds.       *)
(* The task belongs to a group.  Left out: administrators as readers and   *)
(* editors, texts and dates, feed items (FeedStream), subtasks (TaskTree), *)
(* attachments (FileCustody) and more than one reminder per user.          *)
(***************************************************************************)
EXTENDS Integers, FiniteSets

CONSTANTS
    Users, Creator, \* Creator is one of Users
    Items,
    NoUser,
    Slots, Idle,
    MaxRequests, MaxMoves, MaxCuts  \* bounds on requests, on changes by others, on crashes

VARIABLES
    version,
    part,      \* TaskParticipant: [role, on], on is removedAt: null
    reporter,
    member,    \* active users of the company and the group
    open,      \* the group is not archived
    follows,   \* TaskFollower rows with mutedAt: null
    reminder,  \* per user [status, job], the job of the reminder
    told,      \* users whose cancellation was answered CANCELLED
    gone,      \* removed by remove, and nothing to the task since
    excused,   \* what may leave a task without a responsible has happened
    pos,       \* position of every checklist item, Off without one
    timer,     \* TimeEntry rows of a user with endedAt: null
    mark,      \* TaskUserState: [favorited, important]
    asked,     \* what the user last asked of the marks
    req, started, moves, cuts,
    serial     \* requests do not overlap in this behaviour

people == <<part, reporter, follows, gone, excused>>
access == <<member, open, moves>>
calls  == <<reminder, told, cuts>>
mine   == <<timer, mark, asked>>
vars   == <<version, people, access, calls, pos, mine, req, started, serial>>

Off == -1
Roles == {"RESPONSIBLE", "COLLABORATOR", "WATCHER"}

Init ==
    /\ version = 1
    /\ part = [u \in Users |-> [role |-> IF u = Creator THEN "RESPONSIBLE" ELSE "NONE",
                                on |-> u = Creator]]
    /\ reporter = Creator
    /\ member = Users /\ open = TRUE /\ moves = 0
    /\ follows = {}
    /\ reminder = [u \in Users |-> [status |-> "NONE", job |-> "NONE"]]
    /\ told = {} /\ gone = {} /\ excused = FALSE
    /\ pos = [i \in Items |-> Off]
    /\ timer = [u \in Users |-> 0]
    /\ mark = [u \in Users |-> [favorited |-> FALSE, important |-> FALSE]] /\ asked = mark
    /\ req = [s \in Slots |-> Idle] /\ started = 0 /\ serial \in BOOLEAN /\ cuts = 0

-----------------------------------------------------------------------------
(* Who is what, who sees the task and who may change it.                   *)

\* M_ definitions are deliberate mistakes that stand in for the definition
\* after them to show what a property catches.
M_Has(u, r) == part[u].role = r
Has(u, r)   == part[u].on /\ part[u].role = r
Present(u)  == part[u].on
Responsibles == {u \in Users : part[u].on /\ part[u].role = "RESPONSIBLE"}
Actor(u)    == u \in {Creator, reporter} \/ Present(u)

\* findReadableTask asks for an active group, the list does not.
Readable(u) == u \in member /\ open /\ Actor(u)
CanEdit(u)  == Readable(u) /\ (u \in {Creator, reporter} \/ Has(u, "RESPONSIBLE")
                                                         \/ Has(u, "COLLABORATOR"))
RoleWhere(u, view)   == IF view = "CREATOR" THEN u = reporter ELSE Has(u, view)
Listed(u, view)      == u \in member /\ RoleWhere(u, view)
ViewerRoles(u)       == {r \in Roles : part[u].on /\ part[u].role = r}
                        \cup {r \in {"CREATOR"} : u \in {Creator, reporter}}
Summarised(u)        == u \in member /\ RoleWhere(u, "RESPONSIBLE")
CanManageReporter(u) == CanEdit(u) /\ u = Creator
CanManage(u)         == CanEdit(u) /\ u \in {Creator, reporter}

-----------------------------------------------------------------------------
(* Requests.                                                               *)

Free(s) ==
    /\ started < MaxRequests
    /\ serial => \A o \in Slots : req[o] = Idle
    /\ req[s] = Idle /\ s = CHOOSE o \in Slots : req[o] = Idle \* slots are alike
Start(s, op, on, x) ==
    /\ started' = started + 1
    /\ req' = [req EXCEPT ![s] = [op |-> op, on |-> on, x |-> x, v |-> version]]
    /\ UNCHANGED <<version, people, access, calls, pos, mine, serial>>
End(s)    == req' = [req EXCEPT ![s] = Idle] /\ UNCHANGED <<started, serial>>
At(s, op) == req[s] # Idle /\ req[s].op = op
Doing(op) == \E s \in Slots : At(s, op)

\* updateMany where version = expectedVersion.
M_Current(s) == version' = version + 1
Current(s)   == version = req[s].v /\ version' = version + 1
Refuse(s) ==
    /\ req[s] # Idle /\ version # req[s].v
    /\ req[s].op \in {"put", "remove", "update", "remind", "add", "drop", "order"}
    /\ End(s) /\ UNCHANGED <<version, people, access, calls, pos, mine>>

-----------------------------------------------------------------------------
(* Participants and followers.                                             *)

BeginPut(s) == \E by \in Users, on \in member, role \in Roles :
    CanEdit(by) /\ Start(s, "put", on, role)

\* put demotes the last responsible as well.
CommitPut(s) == LET on == req[s].on IN
    /\ At(s, "put") /\ Current(s)
    /\ part' = [part EXCEPT ![on] = [role |-> req[s].x, on |-> TRUE]]
    /\ gone' = gone \ {on}
    /\ excused' = (excused \/ (Responsibles = {on} /\ req[s].x # "RESPONSIBLE"))
    /\ End(s) /\ UNCHANGED <<reporter, follows, access, calls, pos, mine>>

M_MayRemove(on) == TRUE
MayRemove(on)   == Has(on, "RESPONSIBLE") => Cardinality(Responsibles) > 1

BeginRemove(s) == \E by, on \in Users :
    CanEdit(by) /\ Present(on) /\ MayRemove(on) /\ Start(s, "remove", on, "")

CommitRemove(s) == LET on == req[s].on IN
    /\ At(s, "remove") /\ Current(s)
    /\ part' = [part EXCEPT ![on].on = FALSE]
    /\ follows' = follows \ {on}
    /\ gone' = IF on \in {Creator, reporter} THEN gone ELSE gone \cup {on}
    /\ reminder' = [reminder EXCEPT ![on] =
           IF @.status = "ACTIVE"
           THEN [status |-> "CANCELLED", job |-> IF @.job = "QUEUED" THEN "CANCELLED" ELSE @.job]
           ELSE @]
    /\ End(s) /\ UNCHANGED <<reporter, excused, access, told, cuts, pos, mine>>

BeginUpdate(s) == \E by, to, new \in Users :
    /\ CanEdit(by) /\ {to, new} \subseteq member
    /\ new # reporter => CanManageReporter(by)
    /\ ~Has(to, "RESPONSIBLE") => CanManage(by)
    /\ Start(s, "update", to, new)

\* The others that were responsible leave with their reminders and follows.
CommitUpdate(s) == LET to == req[s].on IN
    /\ At(s, "update") /\ Current(s)
    /\ part' = [u \in Users |->
           IF u = to THEN [role |-> "RESPONSIBLE", on |-> TRUE]
           ELSE [part[u] EXCEPT !.on = @ /\ part[u].role # "RESPONSIBLE"]]
    /\ reporter' = req[s].x
    /\ gone' = gone \ {to, req[s].x}
    /\ End(s) /\ UNCHANGED <<follows, excused, access, calls, pos, mine>>

\* deactivate hands the work of an account to any other, also to itself; the
\* version moves only when the reporter changes.
HandOver(from, to) ==
    /\ moves < MaxMoves /\ moves' = moves + 1
    /\ from = reporter \/ Has(from, "RESPONSIBLE")
    /\ reporter' = IF from = reporter THEN to ELSE reporter
    /\ version' = IF from = reporter THEN version + 1 ELSE version
    /\ part' = [u \in Users |->
           IF ~Has(from, "RESPONSIBLE") THEN part[u]
           ELSE IF u = from THEN [part[u] EXCEPT !.on = FALSE]
           ELSE IF u = to THEN [role |-> "RESPONSIBLE", on |-> TRUE]
           ELSE part[u]]
    /\ gone' = gone \ {to}
    /\ excused' = (excused \/ from = to \/ Doing("remove"))
    /\ member' = member \ {from}
    /\ UNCHANGED <<follows, open, calls, pos, mine, req, started, serial>>

\* Groups and accounts change beside the task, and a group is archived.
Move ==
    /\ moves < MaxMoves /\ moves' = moves + 1
    /\ \/ \E u \in member \ {Creator} : member' = member \ {u} /\ UNCHANGED open
       \/ \E u \in Users \ member : member' = member \cup {u} /\ UNCHANGED open
       \/ open /\ open' = FALSE /\ UNCHANGED member
    /\ UNCHANGED <<version, people, calls, pos, mine, req, started, serial>>

\* followTask and unfollowTask of oneself, by someone the task concerns.
BeginFollow(s) == \E u \in Users, on \in BOOLEAN :
    Readable(u) /\ Start(s, "follow", u, on)
CommitFollow(s) ==
    /\ At(s, "follow")
    /\ follows' = IF req[s].x THEN follows \cup {req[s].on} ELSE follows \ {req[s].on}
    /\ End(s) /\ UNCHANGED <<version, part, reporter, gone, excused, access, calls, pos, mine>>

\* addComment demands no version; its notifications go to the reporter it read,
\* the participants, the followers and the author it replies to.
Comment == \E by \in Users :
    /\ Readable(by) /\ started < MaxRequests
    /\ serial => \A o \in Slots : req[o] = Idle
    /\ version' = version + 1 /\ started' = started + 1
    /\ UNCHANGED <<people, access, calls, pos, mine, req, serial>>

-----------------------------------------------------------------------------
(* Reminders: x is the set of users a reminder is for.                     *)

BeginRemind(s) == \E by \in Users :
    /\ CanEdit(by)
    /\ \E for \in {{u} : u \in {v \in Users : Actor(v)}} \cup {{u \in Users : Present(u)}} :
           /\ \A u \in for : reminder[u].status = "NONE"
           /\ Start(s, "remind", by, for)

CommitRemind(s) ==
    /\ At(s, "remind") /\ Current(s)
    /\ reminder' = [u \in Users |->
           IF u \in req[s].x /\ reminder[u].status = "NONE"
           THEN [status |-> "ACTIVE", job |-> "QUEUED"] ELSE reminder[u]]
    /\ End(s) /\ UNCHANGED <<people, access, told, cuts, pos, mine>>

BeginCancel(s) == \E u \in Users :
    /\ Readable(u) /\ reminder[u].status # "NONE"
    /\ Start(s, "cancel", u, reminder[u].status)

\* A reminder that was ACTIVE when it was read is answered CANCELLED, even if
\* the worker sent it meanwhile.
CommitCancel(s) == LET u == req[s].on IN
    /\ At(s, "cancel")
    /\ reminder' = IF req[s].x # "ACTIVE" THEN reminder ELSE [reminder EXCEPT ![u] =
           [status |-> IF @.status = "ACTIVE" THEN "CANCELLED" ELSE @.status,
            job |-> IF @.job = "QUEUED" THEN "CANCELLED" ELSE @.job]]
    /\ told' = IF req[s].x = "SENT" THEN told ELSE told \cup {u}
    /\ End(s) /\ UNCHANGED <<version, people, access, cuts, pos, mine>>

\* The worker reads the reminder, the task and the user, then sends.
DeliverRead(u) ==
    /\ reminder[u].job = "QUEUED"
    /\ reminder' = [reminder EXCEPT ![u] =
           IF @.status # "ACTIVE" THEN [@ EXCEPT !.job = "DONE"]
           ELSE IF u \in member /\ Actor(u) THEN [@ EXCEPT !.job = "READ"]
           ELSE [status |-> "CANCELLED", job |-> "DONE"]]
    /\ UNCHANGED <<version, people, access, told, cuts, pos, mine, req, started, serial>>

M_Send(r) == "SENT"
Send(r)   == IF r.status = "ACTIVE" THEN "SENT" ELSE r.status
Deliver(u) ==
    /\ reminder[u].job = "READ"
    /\ reminder' = [reminder EXCEPT ![u] = [status |-> Send(@), job |-> "DONE"]]
    /\ UNCHANGED <<version, people, access, told, cuts, pos, mine, req, started, serial>>

\* The worker dies with the job, or after the job's effect and before its end.
Crash(u) ==
    /\ cuts < MaxCuts /\ cuts' = cuts + 1
    /\ reminder[u].job \in {"READ", "DONE"}
    /\ reminder' = [reminder EXCEPT ![u].job = "QUEUED"]
    /\ UNCHANGED <<version, people, access, told, pos, mine, req, started, serial>>

-----------------------------------------------------------------------------
(* Checklist: on is an item.  order holds the items it found and their new *)
(* order; a request for any other set of items is refused at once.         *)

Listing      == {i \in Items : pos[i] # Off}
Orders(set)  == {f \in [set -> 0 .. Cardinality(set) - 1] : \A i, j \in set : f[i] = f[j] => i = j}
M_Reposition(p) == p
Reposition(p)   == [i \in Items |-> IF p[i] = Off THEN Off
                                    ELSE Cardinality({j \in Items : p[j] # Off /\ p[j] < p[i]})]
\* A slot has the item, or the order itself, in "x".
New(i)       == i = CHOOSE j \in Items : j \notin Listing \* new items are alike
BeginItem(s) == \/ \E i \in Items \ Listing : New(i) /\ Start(s, "add", NoUser, i)
                \/ \E i \in Listing : Start(s, "drop", NoUser, i)
                \/ \E f \in Orders(Listing) : Start(s, "order", NoUser, f)

CommitAdd(s) == LET i == req[s].x IN
    /\ At(s, "add") /\ Current(s)
    /\ pos' = [pos EXCEPT ![i] = 1 + CHOOSE n \in {Off} \cup {pos[j] : j \in Items} :
                                         \A j \in Items : pos[j] <= n]
    /\ End(s) /\ UNCHANGED <<people, access, calls, mine>>

CommitDrop(s) ==
    /\ At(s, "drop") /\ Current(s)
    /\ pos' = Reposition([pos EXCEPT ![req[s].x] = Off])
    /\ End(s) /\ UNCHANGED <<people, access, calls, mine>>

CommitOrder(s) == LET f == req[s].x IN
    /\ At(s, "order") /\ Current(s)
    /\ pos' = [i \in Items |-> IF i \in DOMAIN f THEN f[i] ELSE pos[i]]
    /\ End(s) /\ UNCHANGED <<people, access, calls, mine>>

-----------------------------------------------------------------------------
(* Timers and personal marks of one user.                                  *)

M_NoTimer(u) == TRUE
NoTimer(u)   == timer[u] = 0
BeginTimer(s) == \E u \in Users : Readable(u) /\ NoTimer(u) /\ Start(s, "timer", u, "")
CommitTimer(s) ==
    /\ At(s, "timer")
    /\ timer' = [timer EXCEPT ![req[s].on] = @ + 1]
    /\ End(s) /\ UNCHANGED <<version, people, access, calls, pos, mark, asked>>

\* stop reads any running entry and ends it by id; ending it twice is harmless.
StopTimer == \E u \in Users :
    /\ Readable(u) /\ timer[u] > 0
    /\ timer' = [timer EXCEPT ![u] = @ - 1]
    /\ UNCHANGED <<version, people, access, calls, pos, mark, asked, req, started, serial>>

\* setUserState: a field the request does not name keeps the value it had when read.
M_Kept(u, field, b) == [mark[u] EXCEPT ![field] = b, !.important = IF field = "important" THEN b ELSE FALSE]
Kept(u, field, b)   == [mark[u] EXCEPT ![field] = b]
BeginMark(s) == \E u \in Users, field \in {"favorited", "important"}, b \in BOOLEAN :
    /\ Readable(u)
    /\ started' = started + 1
    /\ asked' = [asked EXCEPT ![u][field] = b]
    /\ req' = [req EXCEPT ![s] = [op |-> "mark", on |-> u, x |-> Kept(u, field, b), v |-> version]]
    /\ UNCHANGED <<version, people, access, calls, pos, timer, mark, serial>>
CommitMark(s) ==
    /\ At(s, "mark")
    /\ mark' = [mark EXCEPT ![req[s].on] = req[s].x]
    /\ End(s) /\ UNCHANGED <<version, people, access, calls, pos, timer, asked>>

-----------------------------------------------------------------------------
PeopleNext ==
    \/ \E s \in Slots : Free(s) /\ (BeginPut(s) \/ BeginRemove(s) \/ BeginUpdate(s) \/ BeginFollow(s))
    \/ \E s \in Slots : CommitPut(s) \/ CommitRemove(s) \/ CommitUpdate(s) \/ CommitFollow(s)
    \/ \E s \in Slots : Free(s) /\ (BeginRemind(s) \/ BeginCancel(s))
    \/ \E s \in Slots : CommitRemind(s) \/ CommitCancel(s) \/ Refuse(s)
    \/ \E u \in Users : DeliverRead(u) \/ Deliver(u) \/ Crash(u)
    \/ \E from, to \in Users : HandOver(from, to)
    \/ Move \/ Comment
OwnNext ==
    \/ \E s \in Slots : Free(s) /\ (BeginItem(s) \/ BeginTimer(s) \/ BeginMark(s))
    \/ \E s \in Slots : CommitAdd(s) \/ CommitDrop(s) \/ CommitOrder(s) \/ Refuse(s)
    \/ \E s \in Slots : CommitTimer(s) \/ CommitMark(s)
    \/ StopTimer
Next == PeopleNext \/ OwnNext
Spec == Init /\ [][Next]_vars

-----------------------------------------------------------------------------
TypeOK ==
    /\ version \in Nat \ {0}
    /\ part \in [Users -> [role : Roles \cup {"NONE"}, on : BOOLEAN]]
    /\ reporter \in Users /\ member \subseteq Users /\ follows \subseteq Users
    /\ reminder \in [Users -> [status : {"NONE", "ACTIVE", "SENT", "CANCELLED"},
                               job : {"NONE", "QUEUED", "READ", "DONE", "CANCELLED"}]]
    /\ pos \in [Items -> {Off} \cup Nat]
    /\ timer \in [Users -> Nat]
    /\ mark \in [Users -> [favorited : BOOLEAN, important : BOOLEAN]]

\* A task keeps a responsible participant, as its creation demands
\* (contracts/src/tasks.ts:178), unless put demoted the last one or a hand-over
\* went to the account itself or crossed a removal, which does not count again
\* and is not stopped by a version the hand-over left alone.
ResponsibleKept == Responsibles = {} => excused

\* Whoever remove took out has no reminder left to be sent, also when it was
\* added by a request that still saw the participant.  (updateLegacy and the
\* hand-over leave the reminders of those they replace.)
RemovedNotReminded == \A u \in gone : ~(reminder[u].status = "ACTIVE")

\* Once a cancellation is answered, the worker does not send the reminder any
\* more, wherever it stood with it.
CancelIsFinal == \A u \in told : reminder'[u].status = "SENT" => reminder[u].status = "SENT"

\* What the list or the dashboard shows can be opened in the role it is listed
\* under, as long as the group is not archived.
ListedIsReadable ==
    open => \A u \in Users :
        /\ \A view \in Roles \cup {"CREATOR"} :
               Listed(u, view) => Readable(u) /\ view \in ViewerRoles(u)
        /\ Summarised(u) => Listed(u, "RESPONSIBLE")

\* The positions of a checklist are 0, 1, ... without gaps, whatever overlaps.
ChecklistDense ==
    {pos[i] : i \in Listing} = 0 .. Cardinality(Listing) - 1

\* Without overlap nobody has two running timers and a mark is what its user
\* last asked for.  With overlap both are lost: the check for a timer and the
\* marks a request keeps are read before it writes.
OneTimer     == serial => \A u \in Users : timer[u] <= 1
MarksAsAsked == (serial /\ ~Doing("mark")) => mark = asked
=============================================================================
