------------------------------ MODULE MCPlatform ------------------------------
(* Files, accounts, administration, retention, the form for a new task and    *)
(* the drawer of a task are checked one at a time in one run: a behaviour     *)
(* belongs to the component in focus, and so do the variables x1 .. x10 and   *)
(* the request slots in it.                                                   *)
EXTENDS Integers, TLC

CONSTANTS Files, Shares, Comments, Sessions, Users, Works, Approvals, Settings,
          NoUser, Rows, Holds, Holders, Nowhere, PurgeKeys, Slots, Idle,
          Me, Colleagues, Tasks, Projects, NoChoice, Texts,
          Boxes, Kept, Closing, Typed, Fixed, Listed, Timed, Values, Initial, Minutes,
          \* bounds on requests, attempts, crashes and versions, per component
          PurgeCuts, FileRequests, FileAttempts, FileCuts,
          AccountRequests, AccountActs, AdminRequests, SettingVersions,
          FormOpenings, FormSends, FormFaults, DrawerChanges, DrawerSends, DrawerTroubles

VARIABLES focus, req, started, serial, x1, x2, x3, x4, x5, x6, x7, x8, x9, x10

slots == <<req, started, serial>>
from5 == <<x5, x6, x7, x8, x9, x10>>
from7 == <<x7, x8, x9, x10>>
from8 == <<x8, x9, x10>>
vars  == <<focus, slots, x1, x2, x3, x4, from5>>

NoSlots == req = Idle /\ started = 0 /\ serial = TRUE
Zero9 == x9 = 0 /\ x10 = 0
Zero8 == x8 = 0 /\ Zero9
Zero7 == x7 = 0 /\ Zero8
Zero5 == x5 = 0 /\ x6 = 0 /\ Zero7

Purge == INSTANCE RetentionPurge WITH Admins <- Holders, Keys <- PurgeKeys, MaxCuts <- PurgeCuts,
    row <- x1, hold <- x2, placing <- x3, job <- x4, guarded <- x5, cuts <- x6
File == INSTANCE FileCustody WITH
    MaxRequests <- FileRequests, MaxAttempts <- FileAttempts, MaxCuts <- FileCuts,
    row <- x1, held <- x2, stored <- x3, aged <- x4, link <- x5, share <- x6, job <- x7,
    late <- x8, cut <- x9, cuts <- x10
Account == INSTANCE AccountSessions WITH MaxRequests <- AccountRequests, MaxAdmin <- AccountActs,
    acct <- x1, sess <- x2, changer <- x3, outside <- x4
Admin == INSTANCE AdminControl WITH MaxRequests <- AdminRequests, MaxVersion <- SettingVersions,
    user <- x1, owner <- x2, left <- x3, approval <- x4, issued <- x5, version <- x6, writer <- x7,
    open <- x8, returned <- x9
Form == INSTANCE TaskDraft WITH MaxForms <- FormOpenings, MaxSends <- FormSends, MaxFaults <- FormFaults,
    form <- x1, stored <- x2, sent <- x3, wire <- x4, made <- x5, faults <- x6, strayed <- x7
Fields == INSTANCE TaskFields WITH Others <- Colleagues, None <- NoChoice,
    draft <- x1, odd <- x2, pick <- x3, creating <- x4, options <- x5, active <- x6, where <- x7
Drawer == INSTANCE TaskDrawer WITH
    MaxChanges <- DrawerChanges, MaxSends <- DrawerSends, MaxTroubles <- DrawerTroubles, Start <- Initial,
    task <- x1, shown <- x2, fetch <- x3, people <- x4, work <- x5, edit <- x6, dirty <- x7,
    drawer <- x8, wire <- x9, log <- x10

ASSUME AdminAssumption == Admin!Wellformed
ASSUME CommentsAssumption == {"TASK", "OTHER"} \cap Comments = {}
ASSUME FormAssumption == {FormOpenings, FormSends, FormFaults} \subseteq Nat
ASSUME FieldsAssumption == Me \notin Colleagues /\ NoChoice \notin Colleagues \cup {Me}
ASSUME DrawerAssumption == Drawer!Wellformed
ASSUME CountsAssumption == {AccountRequests, AccountActs} \subseteq Nat /\ FileAttempts \in Nat \ {0}

Init ==
    \/ focus = "purge" /\ Purge!Init /\ NoSlots /\ Zero7
    \/ focus = "files" /\ File!Init
    \/ focus = "accounts" /\ Account!Init /\ Zero5
    \/ focus = "admins" /\ Admin!Init /\ x10 = 0
    \/ focus = "form" /\ Form!Init /\ NoSlots /\ Zero8
    \/ focus = "fields" /\ Fields!Init /\ NoSlots /\ Zero8
    \/ focus \in {"edit", "drawer"} /\ Drawer!Init /\ NoSlots

Next ==
    /\ UNCHANGED focus
    /\ \/ focus = "purge" /\ Purge!Next /\ UNCHANGED <<slots, from7>>
       \/ focus = "files" /\ File!Next
       \/ focus = "accounts" /\ Account!Next /\ UNCHANGED from5
       \/ focus = "admins" /\ Admin!Next /\ UNCHANGED x10
       \/ focus = "form" /\ Form!Next /\ UNCHANGED <<slots, from8>>
       \/ focus = "fields" /\ Fields!Next /\ UNCHANGED <<slots, from8>>
       \/ focus = "edit" /\ Drawer!NextOn(Drawer!Forms \cap {"edit"}) /\ UNCHANGED slots
       \/ focus = "drawer" /\ Drawer!NextOn(Drawer!Forms \ {"edit"}) /\ UNCHANGED slots

Spec == Init /\ [][Next]_vars

TypesOK ==
    /\ focus = "purge" => Purge!TypeOK
    /\ focus = "files" => File!TypeOK
    /\ focus = "accounts" => Account!TypeOK
    /\ focus = "admins" => Admin!TypeOK
    /\ focus = "form" => Form!TypeOK
    /\ focus = "fields" => Fields!TypeOK
    /\ focus \in {"edit", "drawer"} => Drawer!TypeOK

\* Bytes, rows and links of files stay together.
FilesKept ==
    focus = "files" => File!LinkedFilesKept /\ File!SerialLinks /\ File!BrokenFilesExplained

\* Sessions end when the password or the account changes.
SessionsEnd == focus = "accounts" => Account!SessionsEnd

\* There is an administrator, and who has left owns what was opened since, if anything.
\* A reset has two administrators, and no accepted change of a setting is lost.
AccountsInOrder ==
    focus = "admins" => /\ Admin!AdminsKept /\ Admin!WorkHandedOver
                        /\ Admin!ResetsApproved /\ Admin!NoLostChange

\* No step of a purge deletes what is on hold.
HeldKept == [][focus = "purge" => Purge!HeldKept]_vars

\* What is typed into the form for a new task becomes one task or stays kept,
\* and a form filled from its own options is accepted, three gaps aside.  The
\* drawer of a task shows what it has written, and writes nothing twice unasked.
FormsHold ==
    /\ focus = "form" => Form!OneTaskPerChange /\ Form!KeptOnDevice /\ Form!SpentDraftGone
    /\ focus = "fields" => Fields!OfferedIsAccepted /\ Fields!FieldsFit
    /\ focus \in {"edit", "drawer"} => Drawer!ShownCurrent /\ Drawer!TwiceOnlyAfterLoss

\* Nothing typed is left behind without having asked, and an edit in the drawer
\* leaves alone what was not touched, three gaps aside.
FormSteps == [][ /\ focus = "form" => Form!NeverLeftUnasked
                 /\ focus \in {"edit", "drawer"} => Drawer!LeavesNothing /\ Drawer!UntouchedKept ]_vars

Symmetry == Permutations(Comments) \cup Permutations(Users)
=============================================================================
