--------------------------- MODULE AccountSessions ---------------------------
(***************************************************************************)
(* One account: its password, temporary password, second factor and        *)
(* sessions.  auth.service.ts, auth.guard.ts, issueTemporaryCredential of  *)
(* admin.service.ts and the recovery commands of cli/main.ts.              *)
(*                                                                         *)
(* The guard reads the session and the account and hands the handler a     *)
(* principal; the handler reads again and writes later, and nothing ties   *)
(* the two together.  A request slot holds the principal in between.  What *)
(* an administrator or the command line does to the account is one         *)
(* transaction and one step.  Left out: user names, the rate limit, CSRF,  *)
(* the profile and the preferences, which touch nothing kept here; wrong   *)
(* passwords and codes, which change nothing here.                         *)
(***************************************************************************)
EXTENDS Integers, FiniteSets

CONSTANTS
    Sessions, Slots, Idle,
    MaxRequests, \* bound on started requests
    MaxAdmin     \* bound on what is done to the account from outside

VARIABLES
    acct,     \* User, PasswordCredential, TemporaryCredential, TotpCredential, RecoveryCode
    sess,     \* UserSession rows
    changer,  \* sessions that have changed the password themselves
    req, started, outside,
    serial    \* requests do not overlap in this behaviour

vars == <<acct, sess, changer, req, started, outside, serial>>
bounds == <<outside, serial>>

None == [state |-> "NONE", auth |-> 0, level |-> 0, pass |-> 0, seen |-> 0]
Init ==
    /\ acct \in [active : {TRUE}, auth : {1}, pass : {1}, temp : {"NONE"},
                 totp : {"NONE", "CONFIRMED"}, must : BOOLEAN, codes : {0}]
    /\ sess = [x \in Sessions |-> None]
    /\ changer = {}
    /\ req = [s \in Slots |-> Idle]
    /\ started = 0 /\ outside = 0 /\ serial \in BOOLEAN

-----------------------------------------------------------------------------
(* The guard.  M_ definitions are deliberate mistakes that stand in for    *)
(* the definition after them to show what a property catches.              *)

\* canActivate: a live session of an active account at its present version.
Usable(x) == sess[x].state = "LIVE" /\ acct.active /\ sess[x].auth = acct.auth

\* A first login, or a second factor that is due, leaves only the routes that
\* complete it.
Restricted(x) == \/ sess[x].level = 0
                 \/ (acct.totp = "CONFIRMED" \/ acct.must) /\ sess[x].level < 2

Free(s) ==
    /\ started < MaxRequests
    /\ req[s] = Idle /\ s = CHOOSE o \in Slots : req[o] = Idle \* slots are alike
    /\ serial => \A o \in Slots : req[o] = Idle

Start(s, r) == started' = started + 1 /\ req' = [req EXCEPT ![s] = r]
End(s)      == req' = [req EXCEPT ![s] = Idle] /\ UNCHANGED started
At(s, op)   == req[s] # Idle /\ req[s].op = op

\* Which handlers a session reaches, and what each of them reads first.
Reaches(x, op) ==
    /\ Usable(x)
    /\ CASE op = "firstLogin"   -> Restricted(x)
         [] op = "confirmTotp"  -> acct.totp # "NONE"
         [] op = "challenge"    -> acct.totp = "CONFIRMED"
         [] op = "recoveryCode" -> acct.codes > 0
         [] op = "startTotp"    -> TRUE
         [] op \in {"changePassword", "revokeOthers", "logout"} -> ~Restricted(x)

Handlers == {"firstLogin", "startTotp", "confirmTotp", "challenge", "recoveryCode",
             "changePassword", "revokeOthers", "logout"}

BeginRequest(s) == \E x \in Sessions, op \in Handlers :
    /\ Reaches(x, op)
    /\ Start(s, [op |-> op, sess |-> x, auth |-> acct.auth,
                 pass |-> acct.pass, kind |-> "PASSWORD"])
    /\ UNCHANGED <<acct, sess, changer, bounds>>

\* login reads the account and both passwords.
BeginLogin(s) == \E kind \in {"PASSWORD", "TEMPORARY"} :
    /\ acct.active
    /\ kind = "TEMPORARY" => acct.temp = "VALID"
    /\ Start(s, [op |-> "login", sess |-> Idle, auth |-> acct.auth,
                 pass |-> acct.pass, kind |-> kind])
    /\ UNCHANGED <<acct, sess, changer, bounds>>

-----------------------------------------------------------------------------
(* The writes.                                                             *)

\* createSession: the version is the one the request was let in with.  "pass"
\* is the password of that moment, "seen" the account's version then.
Unused(S) == {y \in Sessions : S[y].state = "NONE"}
New(S) == {x \in Unused(S) : x = CHOOSE y \in Unused(S) : TRUE}   \* ids are alike
M_Created(S, r, level) ==
    {[S EXCEPT ![x] = [state |-> "LIVE", auth |-> acct.auth, level |-> level,
                       pass |-> r.pass, seen |-> r.auth]] : x \in New(S)}
Created(S, r, level) ==
    {[S EXCEPT ![x] = [state |-> "LIVE", auth |-> r.auth, level |-> level,
                       pass |-> r.pass, seen |-> r.auth]] : x \in New(S)}

Revoked(S, X) == [x \in Sessions |-> IF x \in X /\ S[x].state = "LIVE"
                                     THEN [S[x] EXCEPT !.state = "REVOKED"] ELSE S[x]]

CommitLogin(s) ==
    /\ At(s, "login")
    /\ sess' \in Created(sess, req[s], IF req[s].kind = "TEMPORARY" THEN 0 ELSE 1)
    /\ End(s)
    /\ UNCHANGED <<acct, changer, bounds>>

\* completeFirstLogin uses the temporary password up and ends every session.
FirstLogin(s) ==
    /\ At(s, "firstLogin")
    /\ acct' = [acct EXCEPT !.pass = @ + 1, !.temp = "NONE"]
    /\ sess' = Revoked(sess, Sessions)
    /\ changer' = {}
    /\ End(s)
    /\ UNCHANGED bounds

StartTotp(s) ==
    /\ At(s, "startTotp")
    /\ acct' = [acct EXCEPT !.totp = "PENDING"]
    /\ End(s)
    /\ UNCHANGED <<sess, changer, bounds>>

\* rotateSession revokes the session, if it is live, and creates another.
Rotated(s) == Created(Revoked(sess, {req[s].sess}), req[s], 2)

\* confirmTotp, challengeTotp and useRecoveryCode.  The secret is looked up by
\* account when it is confirmed, so a new one counts as the one checked.
Verify(s) ==
    /\ req[s] # Idle /\ req[s].op \in {"confirmTotp", "challenge", "recoveryCode"}
    /\ acct' = CASE req[s].op = "confirmTotp" ->
                        [acct EXCEPT !.totp = "CONFIRMED", !.must = FALSE, !.codes = 1]
                 [] req[s].op = "recoveryCode" -> [acct EXCEPT !.codes = 0]
                 [] OTHER -> acct
    /\ req[s].op = "confirmTotp" => acct.totp # "NONE"
    /\ sess' \in Rotated(s)
    /\ End(s)
    /\ UNCHANGED <<changer, bounds>>

M_ChangePassword(s) ==
    /\ At(s, "changePassword")
    /\ acct' = [acct EXCEPT !.pass = @ + 1]
    /\ changer' = {req[s].sess}
    /\ End(s)
    /\ UNCHANGED <<sess, bounds>>

\* changePassword ends every other session of the account.
ChangePassword(s) ==
    /\ At(s, "changePassword")
    /\ acct' = [acct EXCEPT !.pass = @ + 1]
    /\ sess' = Revoked(sess, Sessions \ {req[s].sess})
    /\ changer' = {req[s].sess}
    /\ End(s)
    /\ UNCHANGED bounds

\* revokeOthers, revokeSession and logout.
EndSessions(s) ==
    /\ req[s] # Idle /\ req[s].op \in {"revokeOthers", "logout"}
    /\ sess' = Revoked(sess, IF At(s, "logout") THEN {req[s].sess} ELSE Sessions \ {req[s].sess})
    /\ End(s)
    /\ UNCHANGED <<acct, changer, bounds>>

\* A row that is gone when it is to be written: the request fails.
Fails(s) ==
    /\ At(s, "confirmTotp") /\ acct.totp = "NONE"
    /\ End(s)
    /\ UNCHANGED <<acct, sess, changer, bounds>>

-----------------------------------------------------------------------------
(* From outside.                                                           *)

Outside == outside < MaxAdmin /\ outside' = outside + 1

\* issueTemporaryCredential, and recoverAdmin, which also asks for a second
\* factor to be set up and activates the account.
IssueTemporary == \E recover \in BOOLEAN :
    /\ Outside
    /\ acct' = [acct EXCEPT !.temp = "VALID", !.auth = @ + 1,
                            !.active = @ \/ recover, !.must = @ \/ recover]
    /\ sess' = Revoked(sess, Sessions)
    /\ UNCHANGED <<changer, req, started, serial>>

\* resetDevelopmentAdmin: a known password and no second factor.
DevReset ==
    /\ Outside /\ acct.active
    /\ acct' = [acct EXCEPT !.temp = "NONE", !.totp = "NONE", !.codes = 0, !.must = FALSE,
                            !.pass = @ + 1, !.auth = @ + 1]
    /\ sess' = Revoked(sess, Sessions)
    /\ UNCHANGED <<changer, req, started, serial>>

\* updateUser: the version grows with every edit, sessions end when the
\* account is switched off.
UpdateUser == \E active \in BOOLEAN :
    /\ Outside
    /\ acct' = [acct EXCEPT !.active = active, !.auth = @ + 1]
    /\ sess' = IF active THEN sess ELSE Revoked(sess, Sessions)
    /\ UNCHANGED <<changer, req, started, serial>>

\* The temporary password or a session runs out; an idle session is revoked
\* by the guard that meets it.
Expire ==
    /\ Outside
    /\ \/ /\ acct.temp = "VALID"
          /\ acct' = [acct EXCEPT !.temp = "NONE"]
          /\ UNCHANGED sess
       \/ \E x \in Sessions :
            /\ sess[x].state = "LIVE"
            /\ sess' = Revoked(sess, {x})
            /\ UNCHANGED acct
    /\ UNCHANGED <<changer, req, started, serial>>

Begin(s)   == BeginRequest(s) \/ BeginLogin(s)
Proceed(s) == \/ CommitLogin(s) \/ FirstLogin(s) \/ StartTotp(s) \/ Verify(s)
              \/ ChangePassword(s) \/ EndSessions(s) \/ Fails(s)
Next == \/ \E s \in Slots : (Free(s) /\ Begin(s)) \/ Proceed(s)
        \/ IssueTemporary \/ DevReset \/ UpdateUser \/ Expire
Spec == Init /\ [][Next]_vars

-----------------------------------------------------------------------------
TypeOK ==
    /\ acct \in [active : BOOLEAN, auth : 1 .. MaxAdmin + 1, pass : 1 .. MaxRequests + MaxAdmin + 1,
                 temp : {"NONE", "VALID"}, totp : {"NONE", "PENDING", "CONFIRMED"},
                 must : BOOLEAN, codes : {0, 1}]
    /\ \A x \in Sessions : /\ sess[x].state \in {"NONE", "LIVE", "REVOKED"}
                           /\ sess[x].auth <= acct.auth /\ sess[x].pass <= acct.pass
    /\ changer \subseteq Sessions

\* Without overlapping requests a new password ends every session but the one
\* that set it (auth.service.ts:133); one that a second factor rotates is not
\* replaced by two.  With overlap a login or a rotation that has read the
\* account before the change creates its session after it.
NewPasswordEndsOthers == serial =>
    \A x \in Sessions : Usable(x) /\ sess[x].pass < acct.pass => x \in changer

\* A reset outruns the logins under way: a session that passes the guard was
\* created by a request that began after the last change from outside
\* (auth.guard.ts:38).
ResetEndsAll == \A x \in Sessions : Usable(x) => sess[x].seen = acct.auth

SessionsEnd == NewPasswordEndsOthers /\ ResetEndsAll
=============================================================================
