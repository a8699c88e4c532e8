------------------------------ MODULE WorkGroups ------------------------------
(***************************************************************************)
(* One work group of groups.service.ts: joining under a policy that        *)
(* changes, leaving, requests and their decisions, and the archive.        *)
(*                                                                         *)
(* A handler reads and then writes; nothing that writes a member or a      *)
(* request looks again.  The only thing a request cannot be twice is       *)
(* pending: its activeKey is unique and cleared by the decision.           *)
(***************************************************************************)
EXTENDS Naturals

CONSTANTS
    Users, Owner, \* Owner is one of Users
    Asks,         \* ids of GroupJoinRequest rows
    NoUser, Slots, Idle,
    MaxRequests   \* bound on started requests

VARIABLES
    group,     \* [status, policy, listed]
    role,      \* "NONE" | "MEMBER" | "MODERATOR" | "OWNER"
    ask,       \* [by, status, key], status "NONE" | "PENDING" | "APPROVED" | "REJECTED"
    admitted,  \* requests whose decision has made a member
    req, started, serial

rows == <<group, role, ask, admitted>>
vars == <<rows, req, started, serial>>

Policies == {"OPEN", "REQUEST", "INVITE_ONLY"}
Member(u) == role[u] # "NONE"

Init ==
    /\ group \in [status : {"ACTIVE"}, policy : Policies, listed : BOOLEAN]
    /\ role = [u \in Users |-> IF u = Owner THEN "OWNER" ELSE "NONE"]
    /\ ask = [a \in Asks |-> [by |-> NoUser, status |-> "NONE", key |-> FALSE]]
    /\ admitted = {}
    /\ req = [s \in Slots |-> Idle] /\ started = 0 /\ serial \in BOOLEAN

Free(s) ==
    /\ started < MaxRequests
    /\ serial => \A o \in Slots : req[o] = Idle
    /\ req[s] = Idle /\ s = CHOOSE o \in Slots : req[o] = Idle \* slots are alike
Start(s, op, on, x) == /\ started' = started + 1
                       /\ req' = [req EXCEPT ![s] = [op |-> op, on |-> on, x |-> x]]
                       /\ UNCHANGED <<rows, serial>>
End(s)    == req' = [req EXCEPT ![s] = Idle] /\ UNCHANGED <<started, serial>>
At(s, op) == req[s] # Idle /\ req[s].op = op

\* update and archive demand the version they read and an active group, in the
\* statement that writes: they are one step.
Update == \E p \in Policies, listed \in BOOLEAN :
    /\ group.status = "ACTIVE" /\ started < MaxRequests
    /\ group' = [group EXCEPT !.policy = p, !.listed = listed] /\ group' # group
    /\ started' = started + 1
    /\ UNCHANGED <<role, ask, admitted, req, serial>>
Archive ==
    /\ group.status = "ACTIVE" /\ started < MaxRequests
    /\ group' = [group EXCEPT !.status = "ARCHIVED"]
    /\ started' = started + 1
    /\ UNCHANGED <<role, ask, admitted, req, serial>>

\* join: a request that finds its key taken creates nothing.
PendingOf(u) == {a \in Asks : ask[a].key /\ ask[a].by = u}
BeginJoin(s) == \E u \in Users :
    /\ group.status = "ACTIVE" /\ group.listed /\ ~Member(u)
    /\ group.policy # "INVITE_ONLY"
    /\ group.policy = "REQUEST" => PendingOf(u) = {}
    /\ Start(s, "join", u, group.policy)
CommitJoin(s) == LET u == req[s].on IN
    /\ At(s, "join") /\ req[s].x = "OPEN"
    /\ role' = [role EXCEPT ![u] = "MEMBER"]
    /\ End(s) /\ UNCHANGED <<group, ask, admitted>>
M_KeyFree(u) == TRUE
KeyFree(u)   == PendingOf(u) = {}
CommitAsk(s) == \E a \in Asks :
    /\ At(s, "join") /\ req[s].x = "REQUEST"
    /\ ask[a].status = "NONE" /\ KeyFree(req[s].on)
    /\ a = CHOOSE b \in Asks : ask[b].status = "NONE" \* new rows are alike
    /\ ask' = [ask EXCEPT ![a] = [by |-> req[s].on, status |-> "PENDING", key |-> TRUE]]
    /\ End(s) /\ UNCHANGED <<group, role, admitted>>
RefuseAsk(s) == /\ At(s, "join") /\ req[s].x = "REQUEST" /\ ~KeyFree(req[s].on)
                /\ End(s) /\ UNCHANGED rows

M_MayLeave(u) == Member(u)
MayLeave(u)   == Member(u) /\ role[u] # "OWNER"
BeginLeave(s) == \E u \in Users :
    group.status = "ACTIVE" /\ MayLeave(u) /\ Start(s, "leave", u, "")
CommitLeave(s) ==
    /\ At(s, "leave")
    /\ role' = [role EXCEPT ![req[s].on] = "NONE"]
    /\ End(s) /\ UNCHANGED <<group, ask, admitted>>

\* decideRequest: by an owner, a moderator or an administrator, also in an
\* archived group; the row is written by id.
M_Undecided(a) == ask[a].status # "NONE"
Undecided(a)   == ask[a].status = "PENDING"
BeginDecide(s) == \E a \in Asks, d \in {"APPROVED", "REJECTED"} :
    Undecided(a) /\ Start(s, "decide", a, d)
CommitDecide(s) == LET a == req[s].on IN
    /\ At(s, "decide")
    /\ ask' = [ask EXCEPT ![a].status = req[s].x, ![a].key = FALSE]
    /\ IF req[s].x = "APPROVED"
       THEN role' = [role EXCEPT ![ask[a].by] = "MEMBER"] /\ admitted' = admitted \cup {a}
       ELSE UNCHANGED <<role, admitted>>
    /\ End(s) /\ UNCHANGED group

Next ==
    \/ \E s \in Slots : Free(s) /\ (BeginJoin(s) \/ BeginLeave(s) \/ BeginDecide(s))
    \/ \E s \in Slots : CommitJoin(s) \/ CommitAsk(s) \/ RefuseAsk(s) \/ CommitLeave(s) \/ CommitDecide(s)
    \/ Update \/ Archive
Spec == Init /\ [][Next]_vars

-----------------------------------------------------------------------------
\* list and detail; an archived group is its members' only.
Listed(u)    == Member(u) \/ (group.status = "ACTIVE" /\ group.listed)
Opens(u)     == Member(u) \/ ~(~group.listed \/ group.status = "ARCHIVED")

TypeOK ==
    /\ group \in [status : {"ACTIVE", "ARCHIVED"}, policy : Policies, listed : BOOLEAN]
    /\ role \in [Users -> {"NONE", "MEMBER", "MODERATOR", "OWNER"}]
    /\ ask \in [Asks -> [by : Users \cup {NoUser}, key : BOOLEAN,
                         status : {"NONE", "PENDING", "APPROVED", "REJECTED"}]]
    /\ admitted \subseteq Asks

\* The owner stays an owning member, nobody has two requests pending however
\* they overlap, and the list shows what can be opened.
GroupHolds ==
    /\ role[Owner] = "OWNER"
    /\ \A a, b \in Asks : (a # b /\ ask[a].status = "PENDING" /\ ask[b].status = "PENDING")
                          => ask[a].by # ask[b].by
    /\ \A u \in Users : Listed(u) => Opens(u)

\* A decision is made once: the approved requests are those that made a member.
\* Only two decisions that overlap can leave a rejected request with a member.
DecidedOnce == serial => \A a \in Asks : (ask[a].status = "APPROVED") <=> (a \in admitted)
=============================================================================
