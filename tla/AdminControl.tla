----------------------------- MODULE AdminControl -----------------------------
(***************************************************************************)
(* What administrators do to accounts, to each other and to versioned      *)
(* settings: createUser, updateUser, deactivate, the two-person password   *)
(* reset, the organization capabilities and the security policy of         *)
(* admin.service.ts, updatePolicy of retention.service.ts, createAdmin and *)
(* recoverAdmin of cli/main.ts.                                            *)
(*                                                                         *)
(* Every handler reads first and writes in a transaction that does not     *)
(* read again; a request slot holds what it has read.  What the reset does *)
(* to the sessions of the account is in AccountSessions; here it counts.   *)
(* A work is a task or a document: its owner is the reporter and the only  *)
(* responsible of the task, or the owner of the document.  It may be done  *)
(* or archived, and be opened again; what is not open may also stand for a *)
(* task that is yet to be made.                                            *)
(* Left out: names, companies and texts, the re-authentication that most   *)
(* of these ask for, and what only reads.                                  *)
(***************************************************************************)
EXTENDS Integers, FiniteSets

CONSTANTS
    Users, Works, Approvals, Settings,
    Slots, Idle,
    NoUser,
    MaxRequests,  \* bound on started requests
    MaxVersion    \* bound on the versions of a setting

\* What a slot holds.  "to" is what becomes of an account, or who follows it.
Requests == [op : {"create", "update", "deactivate", "approve", "issue", "complete", "setting"},
             by : Users \cup {NoUser}, on : Users \cup Approvals \cup Settings,
             to : Users \cup {NoUser} \cup BOOLEAN \cup [state : {"ON", "OFF"}, admin : BOOLEAN],
             n : Nat]

Wellformed == NoUser \notin Users /\ Idle \notin Requests /\ MaxVersion \in Nat

VARIABLES
    user,      \* [state, admin], state "ABSENT" | "ON" | "OFF"
    owner,     \* of every work
    open,      \* the works that are neither done nor cancelled nor archived
    left,      \* accounts that deactivate switched off and nothing has touched since
    returned,  \* works that were opened when their owner had left
    approval,  \* CredentialResetApproval: [state, initiator, target, approver]
    issued,    \* how often an approval has issued a temporary password
    version,   \* CompanyCapability, SystemSetting, RetentionPolicy
    writer,    \* the number of accepted changes to a setting
    req, started,
    serial     \* requests do not overlap in this behaviour

people == <<user, owner, open, left, returned>>
resets == <<approval, issued>>
settings == <<version, writer>>
vars == <<people, resets, settings, req, started, serial>>

Active(u) == user[u].state = "ON"
Admins    == {u \in Users : Active(u) /\ user[u].admin}
NoReset   == [state |-> "NONE", initiator |-> NoUser, target |-> NoUser, approver |-> NoUser]

Init ==
    /\ user \in [Users -> [state : {"ON"}, admin : BOOLEAN]
                          \cup {[state |-> "ABSENT", admin |-> FALSE]}]
    /\ Admins # {}
    /\ owner \in [Works -> {u \in Users : Active(u)}]
    /\ open \in SUBSET Works /\ left = {} /\ returned = {}
    /\ approval = [a \in Approvals |-> NoReset]
    /\ issued = [a \in Approvals |-> 0]
    /\ version = [k \in Settings |-> 0] /\ writer = [k \in Settings |-> 0]
    /\ req = [s \in Slots |-> Idle]
    /\ started = 0 /\ serial \in BOOLEAN

-----------------------------------------------------------------------------
(* Requests.                                                               *)

Quiet == serial => \A s \in Slots : req[s] = Idle
Free(s) ==
    /\ started < MaxRequests /\ Quiet
    /\ req[s] = Idle /\ s = CHOOSE o \in Slots : req[o] = Idle \* slots are alike

Start(s, r) == started' = started + 1 /\ req' = [req EXCEPT ![s] = r]
End(s)      == req' = [req EXCEPT ![s] = Idle] /\ UNCHANGED <<started, serial>>
At(s, op)   == req[s] # Idle /\ req[s].op = op
Request(op, by, on, to, n) == [op |-> op, by |-> by, on |-> on, to |-> to, n |-> n]

\* One administrator may take the rights of another away or switch it off only
\* while there are two.  M_ definitions are deliberate mistakes that stand in
\* for the definition after them to show what a property catches.
M_MayLose(u) == TRUE
MayLose(u)   == u \in Admins => Cardinality(Admins) > 1

-----------------------------------------------------------------------------
(* Accounts.  NoUser follows when nobody was named.                        *)

BeginCreate(s) == \E u \in Users, admin \in BOOLEAN :
    /\ Admins # {}
    /\ user[u].state = "ABSENT"
    /\ Start(s, Request("create", NoUser, u, admin, 0))

\* The unique name refuses a second account.
CommitCreate(s) ==
    /\ At(s, "create")
    /\ user' = IF user[req[s].on].state = "ABSENT"
               THEN [user EXCEPT ![req[s].on] = [state |-> "ON", admin |-> req[s].to]]
               ELSE user
    /\ End(s)
    /\ UNCHANGED <<owner, open, left, returned, resets, settings>>

BeginUpdate(s) == \E u \in Users, v \in [state : {"ON", "OFF"}, admin : BOOLEAN] :
    /\ Admins # {} /\ user[u].state # "ABSENT"
    /\ v.state = "OFF" \/ ~v.admin => MayLose(u)
    /\ Start(s, Request("update", NoUser, u, v, 0))

CommitUpdate(s) ==
    /\ At(s, "update")
    /\ user' = [user EXCEPT ![req[s].on] = req[s].to]
    /\ left' = left \ {req[s].on}
    /\ End(s)
    /\ UNCHANGED <<owner, open, returned, resets, settings>>

\* deactivate: open works without a named new owner block it.
Owned(u) == {w \in open : owner[w] = u}

BeginDeactivate(s) == \E u \in Users, to \in Users \cup {NoUser} :
    /\ Admins \ {u} # {} /\ user[u].state # "ABSENT"   \* nobody deactivates themselves
    /\ MayLose(u)
    /\ Owned(u) # {} => to # NoUser
    /\ Start(s, Request("deactivate", NoUser, u, to, 0))

\* The works are looked up again in the transaction.  The new owner is not
\* looked at: it may be the account itself, or off.
M_HandOver(u, to) == owner
HandOver(u, to) == IF to = NoUser THEN owner
                   ELSE [w \in Works |-> IF w \in Owned(u) THEN to ELSE owner[w]]

CommitDeactivate(s) ==
    /\ At(s, "deactivate")
    /\ user' = [user EXCEPT ![req[s].on].state = "OFF"]
    /\ owner' = HandOver(req[s].on, req[s].to)
    /\ left' = (left \cup {req[s].on}) \ {req[s].to}
    /\ returned' = IF req[s].to = NoUser THEN returned ELSE returned \ Owned(req[s].on)
    /\ End(s)
    /\ UNCHANGED <<open, resets, settings>>

\* The rest of the system: a work changes hands, to an active account.
Assign == \E w \in Works, u \in Users :
    /\ Quiet /\ Active(u) /\ owner[w] # u
    /\ owner' = [owner EXCEPT ![w] = u] /\ returned' = returned \ {w}
    /\ UNCHANGED <<user, open, left, resets, settings, req, started, serial>>

Close == \E w \in open :
    /\ Quiet
    /\ open' = open \ {w} /\ returned' = returned \ {w}
    /\ UNCHANGED <<user, owner, left, resets, settings, req, started, serial>>

\* changeStatus and restore open a work again (t is w), a recurrence makes one
\* after its template t.  Neither asks who the owner is.
Reopen == \E w \in Works \ open, t \in Works :
    /\ Quiet
    /\ open' = open \cup {w} /\ owner' = [owner EXCEPT ![w] = owner[t]]
    /\ returned' = returned \cup {o \in {w} : owner[t] \in left}
    /\ UNCHANGED <<user, left, resets, settings, req, started, serial>>

\* createAdmin makes another account when there is no administrator left;
\* recoverAdmin switches the named one on when there is no other.
Rescue == \E u \in Users :
    /\ Quiet /\ Admins \ {u} = {}
    /\ \/ user[u].state = "ABSENT" /\ Admins = {}
       \/ user[u].state # "ABSENT" /\ user[u].admin
    /\ user' = [user EXCEPT ![u] = [state |-> "ON", admin |-> TRUE]]
    /\ left' = left \ {u}
    /\ UNCHANGED <<owner, open, returned, resets, settings, req, started, serial>>

-----------------------------------------------------------------------------
(* The reset of an administrator's password by two others.                 *)

\* resetPassword of an administrator asks for a second one; of anybody else,
\* it issues at once and leaves no approval.
RequestReset == \E by \in Admins, u \in Users, a \in Approvals :
    /\ Quiet /\ approval[a].state = "NONE"
    /\ user[u].admin /\ MayLose(u)
    /\ approval' = [approval EXCEPT ![a] = [state |-> "PENDING", initiator |-> by,
                                            target |-> u, approver |-> NoUser]]
    /\ UNCHANGED <<people, issued, settings, req, started, serial>>

M_MayApprove(u, a) == u # approval[a].initiator
MayApprove(u, a) == u # approval[a].initiator /\ u # approval[a].target

BeginApprove(s) == \E by \in Admins, a \in Approvals :
    /\ approval[a].state = "PENDING" /\ MayApprove(by, a)
    /\ Start(s, Request("approve", by, a, NoUser, 0))

CommitApprove(s) ==
    /\ At(s, "approve")
    /\ approval' = [approval EXCEPT ![req[s].on].state = "APPROVED",
                                    ![req[s].on].approver = req[s].by]
    /\ End(s)
    /\ UNCHANGED <<people, issued, settings>>

\* finalizeReset issues the password first and completes the approval after.
BeginFinalize(s) == \E a \in Approvals :
    /\ approval[a].state = "APPROVED"
    /\ approval[a].initiator \in Admins
    /\ Start(s, Request("issue", approval[a].initiator, a, NoUser, 0))

Issue(s) ==
    /\ At(s, "issue")
    /\ issued' = [issued EXCEPT ![req[s].on] = @ + 1]
    /\ req' = [req EXCEPT ![s].op = "complete"]
    /\ UNCHANGED <<people, approval, settings, started, serial>>

M_Complete(s) ==
    /\ At(s, "complete")
    /\ End(s)
    /\ UNCHANGED <<people, approval, issued, settings>>

Complete(s) ==
    /\ At(s, "complete")
    /\ approval' = [approval EXCEPT ![req[s].on].state = "COMPLETED"]
    /\ End(s)
    /\ UNCHANGED <<people, issued, settings>>

-----------------------------------------------------------------------------
(* Settings with a version: the change names the version it was made from. *)

BeginSetting(s) == \E k \in Settings :
    /\ Admins # {} /\ version[k] < MaxVersion
    /\ Start(s, Request("setting", NoUser, k, NoUser, version[k]))

\* The capability is written where the version still is the one read, the
\* policies insert the next version, which is unique.
M_StillCurrent(k, n) == TRUE
StillCurrent(k, n) == version[k] = n

CommitSetting(s) ==
    /\ At(s, "setting")
    /\ LET k == req[s].on ok == StillCurrent(k, req[s].n) IN
        /\ version' = IF ok THEN [version EXCEPT ![k] = req[s].n + 1] ELSE version
        /\ writer' = IF ok THEN [writer EXCEPT ![k] = @ + 1] ELSE writer
    /\ End(s)
    /\ UNCHANGED <<people, resets>>

Begin(s) ==
    /\ Free(s)
    /\ \/ BeginCreate(s) \/ BeginUpdate(s) \/ BeginDeactivate(s)
       \/ BeginApprove(s) \/ BeginFinalize(s) \/ BeginSetting(s)
    /\ UNCHANGED <<people, resets, settings, serial>>

Proceed(s) == \/ CommitCreate(s) \/ CommitUpdate(s) \/ CommitDeactivate(s)
              \/ CommitApprove(s) \/ Issue(s) \/ Complete(s) \/ CommitSetting(s)

Outside == Assign \/ Close \/ Reopen \/ Rescue \/ RequestReset

Next == (\E s \in Slots : Begin(s) \/ Proceed(s)) \/ Outside

Spec == Init /\ [][Next]_vars

-----------------------------------------------------------------------------
TypeOK ==
    /\ user \in [Users -> [state : {"ABSENT", "ON", "OFF"}, admin : BOOLEAN]]
    /\ owner \in [Works -> Users] /\ left \subseteq Users
    /\ open \subseteq Works /\ returned \subseteq open
    /\ approval \in [Approvals -> [state : {"NONE", "PENDING", "APPROVED", "COMPLETED"},
          initiator : Users \cup {NoUser}, target : Users \cup {NoUser}, approver : Users \cup {NoUser}]]
    /\ version \in [Settings -> 0 .. MaxVersion]

\* Without overlapping requests there is always an active administrator:
\* the last one can be neither demoted nor switched off (admin.service.ts:93
\* and :152).  Two that demote each other at once leave none.
AdminsKept == serial => Admins # {}

\* Without overlapping requests an account that deactivate switched off owns
\* no open work (admin.service.ts:173) but what was opened, or made by a
\* recurrence, after it had left, unless it was named its own successor.
\* updateUser switches an account off and hands nothing over.
WorkHandedOver == serial => \A u \in left : Owned(u) \subseteq returned

\* Whatever the order of requests, a temporary password for an administrator
\* is issued only after somebody approved who neither asked for it nor gets it
\* (admin.service.ts:124), and without overlap once per approval.  The one who
\* asks may be the one who gets it.
ResetsApproved == \A a \in Approvals :
    /\ issued[a] > 0 => approval[a].approver \notin {NoUser, approval[a].initiator, approval[a].target}
    /\ serial => issued[a] <= 1

\* Whatever the order of requests, every accepted change of a setting has a
\* version of its own (admin.service.ts:257, retention.service.ts:81): none is
\* overwritten by one made from the same version.
NoLostChange == \A k \in Settings : writer[k] = version[k]
=============================================================================
