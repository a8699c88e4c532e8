---------------------------- MODULE PlatformProofs ----------------------------
(***************************************************************************)
(* Proofs about four of the components that MCPlatform brings together:    *)
(* retention purges, administration, sessions and files.  The constants    *)
(* are any; the bounds are those of MCPlatform.  A theorem says of Spec    *)
(* what a run of MCPlatform checks.                                        *)
(***************************************************************************)
EXTENDS MCPlatform, FiniteSetTheorems, TLAPS

(* Purges: the holds were read after the rows, by the only job that runs.   *)

row     == x1
hold    == x2
placing == x3
job     == x4
guarded == x5
USE DEF row, hold, placing, job, guarded

OneAtATime  == \A k, o \in PurgeKeys : Purge!Running(k) /\ Purge!Running(o) => k = o
Spared      == \A k \in PurgeKeys : job[k].state = "HOLDS" => job[k].ids \cap guarded = {}
GuardedHeld == \A r \in guarded : Purge!Held(r)

PurgeInv == Purge!TypeOK /\ OneAtATime /\ Spared /\ GuardedHeld

\* The steps that leave the jobs and the guarded rows alone.
LEMMA OthersKeepPurge ==
    ASSUME PurgeInv, Purge!TypeOK', UNCHANGED <<job, guarded>>, \A r \in Rows : Purge!Held(r) => Purge!Held(r)'
    PROVE  PurgeInv'
  BY DEF PurgeInv, Purge!TypeOK, OneAtATime, Purge!Running, Spared, GuardedHeld

\* Purge jobs that no longer run, or do not run yet, are in nobody's way.
LEMMA IdleKeepsPurge ==
    ASSUME PurgeInv, Purge!TypeOK', UNCHANGED hold, guarded' \subseteq guarded,
           \A k \in PurgeKeys : job'[k].state \in {"HOLDS", "ROWS"} => job'[k] = job[k]
    PROVE  PurgeInv'
  BY DEF PurgeInv, Purge!TypeOK, OneAtATime, Purge!Running, Spared, GuardedHeld, Purge!Held

LEMMA InitPurge == Purge!Init => PurgeInv
  BY DEF Purge!Init, PurgeInv, Purge!TypeOK, OneAtATime, Purge!Running, Spared, GuardedHeld

LEMMA StepKeepsPurge == PurgeInv /\ (Purge!Next \/ UNCHANGED Purge!vars) => PurgeInv'
  <1> SUFFICES ASSUME PurgeInv, Purge!Next \/ UNCHANGED Purge!vars PROVE PurgeInv'
    OBVIOUS
  <1> USE DEF PurgeInv
  <1>1. ASSUME NEW a \in Holders, Purge!BeginHold(a) PROVE PurgeInv'
    BY <1>1, OthersKeepPurge DEF Purge!BeginHold, Purge!TypeOK, Purge!Held
  <1>2. ASSUME NEW a \in Holders, Purge!PlaceHold(a) PROVE PurgeInv'
    <2>1. PICK h \in Holds : /\ hold[h].state = "NONE" /\ placing[a] \in Rows
                             /\ hold' = [hold EXCEPT ![h] = [row |-> placing[a], state |-> "ACTIVE"]]
      BY <1>2 DEF Purge!PlaceHold, Purge!TypeOK
    <2>2. Purge!TypeOK'
      BY <1>2, <2>1 DEF Purge!PlaceHold, Purge!TypeOK
    <2>3. \A r \in Rows : Purge!Held(r) => Purge!Held(r)'
      BY <2>1 DEF Purge!Held, Purge!TypeOK
    <2> QED
      BY <1>2, <2>2, <2>3, OthersKeepPurge DEF Purge!PlaceHold
  <1>3. CASE Purge!ReleaseHold
    <2>1. PICK h \in Holds :
             /\ hold' = [hold EXCEPT ![h].state = "RELEASED"]
             /\ guarded' = {r \in guarded : \E o \in Holds \ {h} :
                                               hold[o] = [row |-> r, state |-> "ACTIVE"]}
      BY <1>3 DEF Purge!ReleaseHold
    <2>2. UNCHANGED <<row, placing, job>>
      BY <1>3 DEF Purge!ReleaseHold
    <2>3. \A o \in Holds \ {h} : hold'[o] = hold[o]
      BY <2>1 DEF Purge!TypeOK
    <2>4. GuardedHeld'
      BY <2>1, <2>3 DEF GuardedHeld, Purge!Held
    <2>5. Purge!TypeOK'
      BY <2>1, <2>2 DEF Purge!TypeOK
    <2>6. OneAtATime' /\ Spared'
      BY <2>1, <2>2 DEF OneAtATime, Purge!Running, Spared
    <2> QED
      BY <2>4, <2>5, <2>6
  <1>4. CASE Purge!Change
    BY <1>4, OthersKeepPurge DEF Purge!Change, Purge!TypeOK, Purge!Held
  <1>5. CASE Purge!RequestPurge
    BY <1>5, IdleKeepsPurge DEF Purge!RequestPurge, Purge!TypeOK
  <1>6. CASE Purge!PlanRows
    <2>1. PICK k \in PurgeKeys : /\ \A o \in PurgeKeys : ~Purge!Running(o)
                            /\ job' = [job EXCEPT ![k].state = "ROWS", ![k].ids = Purge!Candidates]
      BY <1>6 DEF Purge!PlanRows
    <2>2. UNCHANGED <<row, hold, placing, guarded>>
      BY <1>6 DEF Purge!PlanRows
    <2>3. Purge!TypeOK'
      BY <2>1, <2>2 DEF Purge!TypeOK, Purge!Candidates
    <2>4. \A o \in PurgeKeys : Purge!Running(o)' => o = k
      BY <2>1 DEF Purge!TypeOK, Purge!Running
    <2>5. Spared' /\ GuardedHeld'
      BY <2>1, <2>2 DEF Purge!TypeOK, Purge!Running, Spared, GuardedHeld, Purge!Held
    <2> QED
      BY <2>3, <2>4, <2>5 DEF OneAtATime
  <1>7. CASE Purge!PlanHolds
    <2>1. PICK k \in PurgeKeys :
             /\ job[k].state = "ROWS"
             /\ job' = [job EXCEPT ![k].state = "HOLDS", ![k].ids = Purge!Unheld(@)]
      BY <1>7 DEF Purge!PlanHolds
    <2>2. guarded' = {r \in Rows : Purge!Held(r)} /\ UNCHANGED <<row, hold, placing>>
      BY <1>7 DEF Purge!PlanHolds
    <2>3. job'[k].ids = Purge!Unheld(job[k].ids) /\ \A o \in PurgeKeys : o # k => job'[o] = job[o]
      BY <2>1 DEF Purge!TypeOK
    <2>4. Purge!TypeOK'
      BY <2>1, <2>2 DEF Purge!TypeOK, Purge!Unheld
    <2>5. \A o \in PurgeKeys : Purge!Running(o)' => o = k
      BY <2>1, <2>3 DEF OneAtATime, Purge!Running
    <2>6. Spared'
      BY <2>2, <2>3, <2>5 DEF Spared, Purge!Running, Purge!Unheld
    <2>7. GuardedHeld'
      BY <2>2 DEF GuardedHeld, Purge!Held
    <2> QED
      BY <2>4, <2>5, <2>6, <2>7 DEF OneAtATime
  <1>8. CASE Purge!DeleteChunk
    <2>1. PICK k \in PurgeKeys, chunk \in SUBSET Rows :
             /\ row' = [r \in Rows |-> IF r \in chunk THEN "PURGED" ELSE row[r]]
             /\ job' = [job EXCEPT ![k].ids = @ \ chunk]
      BY <1>8 DEF Purge!DeleteChunk
    <2>2. UNCHANGED <<hold, placing, guarded>>
      BY <1>8 DEF Purge!DeleteChunk
    <2>3. \A o \in PurgeKeys : job'[o].state = job[o].state /\ job'[o].ids \subseteq job[o].ids
      BY <2>1 DEF Purge!TypeOK
    <2>4. Purge!TypeOK'
      BY <2>1, <2>2 DEF Purge!TypeOK
    <2>5. OneAtATime'
      BY <2>3 DEF OneAtATime, Purge!Running
    <2>6. Spared' /\ GuardedHeld'
      BY <2>2, <2>3 DEF Spared, GuardedHeld, Purge!Held
    <2> QED
      BY <2>4, <2>5, <2>6
  <1>9. CASE Purge!Finish
    BY <1>9, IdleKeepsPurge DEF Purge!Finish, Purge!TypeOK
  <1>10. CASE Purge!Crash
    <2>1. PICK k \in PurgeKeys : job' = [job EXCEPT ![k].state = "QUEUED", ![k].ids = {}]
      BY <1>10 DEF Purge!Crash
    <2>2. guarded' = {} /\ UNCHANGED <<row, hold, placing>>
      BY <1>10 DEF Purge!Crash
    <2>3. job'[k].state = "QUEUED" /\ \A o \in PurgeKeys : o # k => job'[o] = job[o]
      BY <2>1 DEF Purge!TypeOK
    <2>4. Purge!TypeOK'
      BY <2>1, <2>2 DEF Purge!TypeOK
    <2> QED
      BY <2>2, <2>3, <2>4, IdleKeepsPurge
  <1>11. CASE UNCHANGED Purge!vars
    BY <1>11, OthersKeepPurge DEF Purge!vars, Purge!TypeOK, Purge!Held
  <1> QED
    BY <1>1, <1>2, <1>3, <1>4, <1>5, <1>6, <1>7, <1>8, <1>9, <1>10, <1>11 DEF Purge!Next

LEMMA PurgeSteps == PurgeInv /\ (Purge!Next \/ UNCHANGED Purge!vars) => Purge!HeldKept
  <1> SUFFICES ASSUME PurgeInv, Purge!Next \/ UNCHANGED Purge!vars, NEW r \in guarded, row'[r] = "PURGED"
               PROVE  row[r] = "PURGED"
    BY DEF Purge!HeldKept
  <1>1. r \in Rows /\ row[r] \in {"OPEN", "CLOSED", "PURGED"}
    BY DEF PurgeInv, Purge!TypeOK
  <1>2. CASE Purge!DeleteChunk
    <2>1. PICK k \in PurgeKeys, chunk \in SUBSET Rows :
             /\ job[k].state = "HOLDS" /\ chunk \subseteq job[k].ids
             /\ row' = [q \in Rows |-> IF q \in chunk THEN "PURGED" ELSE row[q]]
      BY <1>2 DEF Purge!DeleteChunk
    <2>2. r \notin chunk
      BY <2>1 DEF PurgeInv, Spared
    <2> QED
      BY <1>1, <2>1, <2>2
  <1>3. CASE Purge!Change
    BY <1>1, <1>3 DEF Purge!Change, PurgeInv, Purge!TypeOK
  <1>4. CASE ~Purge!DeleteChunk /\ ~Purge!Change
    BY <1>4 DEF Purge!Next, Purge!BeginHold, Purge!PlaceHold, Purge!ReleaseHold, Purge!RequestPurge,
                Purge!PlanRows, Purge!PlanHolds, Purge!Finish, Purge!Crash, Purge!vars
  <1> QED
    BY <1>2, <1>3, <1>4

\* However holds are placed and released and however many purges are requested and
\* crash: no row is purged that was on hold since the running job read the holds.
THEOREM PurgeSpares == Spec => HeldKept
  <1> DEFINE Inv  == focus = "purge" => PurgeInv
             StepKept == focus = "purge" => Purge!HeldKept
  <1>1. Init => Inv
    BY InitPurge DEF Init
  <1>2. Inv /\ [Next]_vars => Inv'
    BY StepKeepsPurge DEF Next, vars, Purge!vars, from5, from7
  <1>3. Inv /\ [Next]_vars => [StepKept]_vars
    BY PurgeSteps DEF Next, vars, Purge!vars, from5, from7
  <1> QED
    BY <1>1, <1>2, <1>3, PTL DEF Spec, HeldKept

-----------------------------------------------------------------------------
(* Administration.  Two kinds of facts carry a request from its reads to   *)
(* its transaction.  Those of Sound hold whatever overlaps it: an approval *)
(* keeps its initiator and target and is never unapproved.  Those of       *)
(* Standing hold only because nothing comes in between: that an            *)
(* administrator is left, that an account has no work, that a reset has    *)
(* not been issued.                                                        *)

user     == x1
owner    == x2
left     == x3
approval == x4
issued   == x5
version  == x6
writer   == x7
open     == x8
returned == x9
USE DEF user, owner, left, approval, issued, version, writer, open, returned

Third(u, a) == u \in Users /\ u # approval[a].initiator /\ u # approval[a].target
Approved(a) == approval[a].state \in {"APPROVED", "COMPLETED"} /\ Third(approval[a].approver, a)

\* What a request says, and what it knows of its approval whatever overlaps it.
Sound(r) ==
    /\ r \in Admin!Requests
    /\ r.op = "create" => r.on \in Users /\ r.to \in BOOLEAN
    /\ r.op = "update" => r.on \in Users /\ r.to \in [state : {"ON", "OFF"}, admin : BOOLEAN]
    /\ r.op = "deactivate" => r.on \in Users /\ r.to \in Users \cup {NoUser}
    /\ r.op = "approve" => r.on \in Approvals /\ approval[r.on].state # "NONE" /\ Third(r.by, r.on)
    /\ r.op \in {"issue", "complete"} => r.on \in Approvals /\ Approved(r.on)
    /\ r.op = "setting" => r.on \in Settings /\ r.n \in Nat /\ r.n < SettingVersions

RequestsSound == DOMAIN req = Slots /\ \A s \in Slots : req[s] # Idle => Sound(req[s])

\* What a request has checked, while nothing overlaps it.
Standing(r) ==
    /\ r.op = "update" /\ (r.to.state = "OFF" \/ ~r.to.admin) => Admin!Admins \ {r.on} # {}
    /\ r.op = "deactivate" => Admin!Admins \ {r.on} # {} /\ (r.to = NoUser => Admin!Owned(r.on) = {})
    /\ r.op = "approve" => approval[r.on].state = "PENDING"
    /\ r.op = "issue" => approval[r.on].state = "APPROVED" /\ issued[r.on] = 0
    /\ r.op = "complete" => issued[r.on] = 1

\* A password that was issued belongs to an approval that is or is being completed.
Accounted(a) ==
    /\ issued[a] \in {0, 1}
    /\ approval[a].state \in {"NONE", "PENDING"} => issued[a] = 0
    /\ approval[a].state = "APPROVED" /\ issued[a] = 1 =>
          \E s \in Slots : req[s] # Idle /\ req[s].op = "complete" /\ req[s].on = a

OneInFlight == \A s, t \in Slots : req[s] # Idle /\ req[t] # Idle => s = t
StandingAll == \A s \in Slots : req[s] # Idle => Standing(req[s])
LeftAreOff  == \A u \in left : user[u].state = "OFF" /\ Admin!Owned(u) \subseteq returned

AloneInv == serial => /\ OneInFlight /\ StandingAll
                      /\ Admin!Admins # {} /\ LeftAreOff
                      /\ \A a \in Approvals : Accounted(a)

Numbers == issued \in [Approvals -> Nat] /\ writer \in [Settings -> Nat]

Approvings == \A a \in Approvals :
    approval[a].state \in {"APPROVED", "COMPLETED"} \/ issued[a] > 0 => Approved(a)

AdminInv == /\ Admin!Wellformed /\ Admin!TypeOK /\ Numbers /\ RequestsSound
            /\ Approvings /\ AloneInv /\ Admin!NoLostChange

-----------------------------------------------------------------------------
LEMMA InitAdmin == Admin!Wellformed /\ Admin!Init => AdminInv
  <1> SUFFICES ASSUME Admin!Wellformed, Admin!Init PROVE AdminInv
    OBVIOUS
  <1>1. Admin!TypeOK /\ Numbers
    <2>1. user \in [Users -> [state : {"ABSENT", "ON", "OFF"}, admin : BOOLEAN]]
      <3>1. [state : {"ON"}, admin : BOOLEAN] \cup {[state |-> "ABSENT", admin |-> FALSE]}
               \subseteq [state : {"ABSENT", "ON", "OFF"}, admin : BOOLEAN]
        <4>1. [state |-> "ABSENT", admin |-> FALSE] \in [state : {"ABSENT", "ON", "OFF"}, admin : BOOLEAN]
          OBVIOUS
        <4>2. [state : {"ON"}, admin : BOOLEAN] \subseteq [state : {"ABSENT", "ON", "OFF"}, admin : BOOLEAN]
          OBVIOUS
        <4> QED
          BY <4>1, <4>2
      <3>2. PICK first : /\ first = [state : {"ON"}, admin : BOOLEAN]
                                     \cup {[state |-> "ABSENT", admin |-> FALSE]}
                         /\ user \in [Users -> first]
        BY DEF Admin!Init
      <3> QED
        BY <3>1, <3>2
    <2>2. owner \in [Works -> Users]
      BY DEF Admin!Init
    <2>3. approval \in [Approvals -> [state : {"NONE", "PENDING", "APPROVED", "COMPLETED"},
             initiator : Users \cup {NoUser}, target : Users \cup {NoUser},
             approver : Users \cup {NoUser}]]
      BY DEF Admin!Init, Admin!NoReset
    <2>4. 0 \in 0 .. SettingVersions
      BY DEF Admin!Wellformed
    <2> QED
      BY <2>1, <2>2, <2>3, <2>4 DEF Admin!Init, Admin!TypeOK, Numbers
  <1>2. RequestsSound /\ Admin!NoLostChange
    BY DEF Admin!Init, RequestsSound, Admin!NoLostChange
  <1>3. Approvings
    BY DEF Admin!Init, Approvings, Admin!NoReset
  <1>4. AloneInv
    BY DEF Admin!Init, AloneInv, OneInFlight, StandingAll, LeftAreOff, Accounted, Admin!NoReset
  <1> QED
    BY <1>1, <1>2, <1>3, <1>4 DEF AdminInv

LEMMA SameCardinality == \A S : Admin!Cardinality(S) = Cardinality(S)
  BY DEF Cardinality, Admin!Cardinality

\* Who may lose their rights leaves another administrator behind.
LEMMA AnotherStays ==
    ASSUME Admin!Wellformed, NEW u, Admin!MayLose(u), Admin!Admins # {}
    PROVE  Admin!Admins \ {u} # {}
  <1>1. CASE u \notin Admin!Admins
    BY <1>1
  <1>2. CASE u \in Admin!Admins
    <2> SUFFICES ASSUME Admin!Admins = {u} PROVE FALSE
      BY <1>2
    <2>1. Cardinality(Admin!Admins) = 1
      BY FS_Singleton
    <2> QED
      BY <1>2, <2>1, SameCardinality DEF Admin!MayLose
  <1> QED
    BY <1>1, <1>2

\* Approvals keep who they are for, and are not unapproved.
Steady == \A a \in Approvals :
    /\ approval[a].state # "NONE" => /\ approval'[a].state # "NONE"
                                     /\ approval'[a].initiator = approval[a].initiator
                                     /\ approval'[a].target = approval[a].target
    /\ Approved(a) => Approved(a)'

LEMMA SoundStays ==
    ASSUME Steady
    PROVE  \A x : Sound(x) => Sound(x)'
  BY DEF Sound, Steady, Third

-----------------------------------------------------------------------------
(* A request begins.                                                       *)

LEMMA StartKeeps ==
    ASSUME AdminInv, NEW s \in Slots, NEW r, Admin!Free(s), Admin!Start(s, r), Sound(r), serial => Standing(r),
           UNCHANGED <<Admin!people, Admin!resets, Admin!settings, serial>>
    PROVE  AdminInv'
  <1> USE DEF AdminInv, Admin!people, Admin!resets, Admin!settings
  <1>1. /\ DOMAIN req' = Slots /\ req[s] = Idle /\ req'[s] = r
        /\ \A t \in Slots \ {s} : req'[t] = req[t]
    BY DEF Admin!Start, Admin!Free, RequestsSound
  <1>2. serial => \A t \in Slots \ {s} : req'[t] = Idle
    BY <1>1 DEF Admin!Free, Admin!Quiet
  <1>3. \A x : (Sound(x)' <=> Sound(x)) /\ (Standing(x)' <=> Standing(x))
    BY DEF Sound, Standing, Third, Approved, Admin!Admins, Admin!Active, Admin!Owned
  <1>4. Admin!Wellformed' /\ Admin!TypeOK' /\ Numbers' /\ Admin!NoLostChange'
    BY DEF Admin!Wellformed, Admin!TypeOK, Numbers, Admin!NoLostChange
  <1>5. RequestsSound'
    BY <1>1, <1>3 DEF RequestsSound
  <1>6. Approvings'
    BY DEF Approvings, Approved, Third
  <1>7. AloneInv'
    <2> SUFFICES ASSUME serial PROVE AloneInv'
      BY DEF AloneInv
    <2>1. OneInFlight' /\ StandingAll'
      BY <1>1, <1>2, <1>3 DEF OneInFlight, StandingAll
    <2>2. (Admin!Admins # {})' /\ LeftAreOff'
      BY DEF AloneInv, Admin!Admins, Admin!Active, LeftAreOff, Admin!Owned
    <2>3. ASSUME NEW a \in Approvals PROVE Accounted(a)'
      <3>1. Accounted(a) /\ \A t \in Slots : req[t] = Idle
        BY DEF AloneInv, Admin!Free, Admin!Quiet
      <3> QED
        BY <3>1 DEF Accounted
    <2> QED
      BY <2>1, <2>2, <2>3 DEF AloneInv
  <1> QED
    BY <1>4, <1>5, <1>6, <1>7

LEMMA BeginKeeps ==
    ASSUME AdminInv, NEW s \in Slots, Admin!Begin(s)
    PROVE  AdminInv'
  <1> USE DEF AdminInv
  <1>0. Admin!Free(s) /\ UNCHANGED <<Admin!people, Admin!resets, Admin!settings, serial>>
    BY DEF Admin!Begin
  <1>1. CASE Admin!BeginCreate(s)
    <2>1. PICK u \in Users, admin \in BOOLEAN : Admin!Start(s, Admin!Request("create", NoUser, u, admin, 0))
      BY <1>1 DEF Admin!BeginCreate
    <2>2. PICK r : r = Admin!Request("create", NoUser, u, admin, 0)
      OBVIOUS
    <2>r. r \in Admin!Requests
      BY <2>1, <2>2 DEF Admin!Request, Admin!Requests, Admin!Admins, Admin!TypeOK
    <2>3. Sound(r) /\ Standing(r)
      BY <2>2, <2>r DEF Admin!Request, Sound, Standing
    <2> QED
      BY <1>0, <2>1, <2>2, <2>3, StartKeeps
  <1>2. CASE Admin!BeginUpdate(s)
    <2>1. PICK u \in Users, v \in [state : {"ON", "OFF"}, admin : BOOLEAN] :
             /\ Admin!Admins # {} /\ (v.state = "OFF" \/ ~v.admin => Admin!MayLose(u))
             /\ Admin!Start(s, Admin!Request("update", NoUser, u, v, 0))
      BY <1>2 DEF Admin!BeginUpdate
    <2>2. PICK r : r = Admin!Request("update", NoUser, u, v, 0)
      OBVIOUS
    <2>r. r \in Admin!Requests
      BY <2>1, <2>2 DEF Admin!Request, Admin!Requests, Admin!Admins, Admin!TypeOK
    <2>3. v.state = "OFF" \/ ~v.admin => Admin!Admins \ {u} # {}
      BY <2>1, AnotherStays
    <2>4. Sound(r) /\ Standing(r)
      BY <2>2, <2>r, <2>3 DEF Admin!Request, Sound, Standing
    <2> QED
      BY <1>0, <2>1, <2>2, <2>4, StartKeeps
  <1>3. CASE Admin!BeginDeactivate(s)
    <2>1. PICK u \in Users, to \in Users \cup {NoUser} :
             /\ Admin!Admins \ {u} # {} /\ (Admin!Owned(u) # {} => to # NoUser)
             /\ Admin!Start(s, Admin!Request("deactivate", NoUser, u, to, 0))
      BY <1>3 DEF Admin!BeginDeactivate
    <2>2. PICK r : r = Admin!Request("deactivate", NoUser, u, to, 0)
      OBVIOUS
    <2>r. r \in Admin!Requests
      BY <2>1, <2>2 DEF Admin!Request, Admin!Requests, Admin!Admins, Admin!TypeOK
    <2>3. Sound(r) /\ Standing(r)
      BY <2>1, <2>2, <2>r DEF Admin!Request, Sound, Standing
    <2> QED
      BY <1>0, <2>1, <2>2, <2>3, StartKeeps
  <1>4. CASE Admin!BeginApprove(s)
    <2>1. PICK by \in Admin!Admins, a \in Approvals :
             /\ approval[a].state = "PENDING" /\ Admin!MayApprove(by, a)
             /\ Admin!Start(s, Admin!Request("approve", by, a, NoUser, 0))
      BY <1>4 DEF Admin!BeginApprove
    <2>2. PICK r : r = Admin!Request("approve", by, a, NoUser, 0)
      OBVIOUS
    <2>r. r \in Admin!Requests
      BY <2>1, <2>2 DEF Admin!Request, Admin!Requests, Admin!Admins, Admin!TypeOK
    <2>3. Sound(r) /\ Standing(r)
      BY <2>1, <2>2, <2>r DEF Admin!Request, Sound, Standing, Third, Admin!MayApprove, Admin!Admins
    <2> QED
      BY <1>0, <2>1, <2>2, <2>3, StartKeeps
  <1>5. CASE Admin!BeginFinalize(s)
    <2>1. PICK a \in Approvals :
             /\ approval[a].state = "APPROVED"
             /\ Admin!Start(s, Admin!Request("issue", approval[a].initiator, a, NoUser, 0))
      BY <1>5 DEF Admin!BeginFinalize
    <2>2. PICK r : r = Admin!Request("issue", approval[a].initiator, a, NoUser, 0)
      OBVIOUS
    <2>r. r \in Admin!Requests
      BY <2>1, <2>2 DEF Admin!Request, Admin!Requests, Admin!Admins, Admin!TypeOK
    <2>3. Sound(r)
      BY <2>1, <2>2, <2>r DEF Admin!Request, Sound, Approvings
    <2>4. serial => issued[a] = 0
      BY <1>0, <2>1 DEF AloneInv, Accounted, Admin!Free, Admin!Quiet
    <2>5. serial => Standing(r)
      BY <2>1, <2>2, <2>4 DEF Admin!Request, Standing
    <2> QED
      BY <1>0, <2>1, <2>2, <2>3, <2>5, StartKeeps
  <1>6. CASE Admin!BeginSetting(s)
    <2>1. PICK k \in Settings : /\ version[k] < SettingVersions
                                /\ Admin!Start(s, Admin!Request("setting", NoUser, k, NoUser, version[k]))
      BY <1>6 DEF Admin!BeginSetting
    <2>2. PICK r : r = Admin!Request("setting", NoUser, k, NoUser, version[k])
      OBVIOUS
    <2>r. r \in Admin!Requests
      BY <2>1, <2>2 DEF Admin!Request, Admin!Requests, Admin!Admins, Admin!TypeOK
    <2>3. version[k] \in Nat
      BY DEF Admin!TypeOK
    <2>4. Sound(r) /\ Standing(r)
      BY <2>1, <2>2, <2>r, <2>3 DEF Admin!Request, Sound, Standing
    <2> QED
      BY <1>0, <2>1, <2>2, <2>4, StartKeeps
  <1> QED
    BY <1>1, <1>2, <1>3, <1>4, <1>5, <1>6 DEF Admin!Begin

-----------------------------------------------------------------------------
(* A request ends: accounts and settings.                                  *)

LEMMA EndKeepsWaiting ==
    ASSUME AdminInv, NEW s \in Slots, req[s] # Idle, Admin!End(s), Steady
    PROVE  /\ RequestsSound' /\ serial' = serial
           /\ serial => OneInFlight' /\ StandingAll' /\ \A t \in Slots : req'[t] = Idle
  <1> USE DEF AdminInv
  <1>1. DOMAIN req' = Slots /\ req'[s] = Idle /\ \A t \in Slots \ {s} : req'[t] = req[t]
    BY DEF Admin!End, RequestsSound
  <1>2. RequestsSound'
    BY <1>1, SoundStays DEF RequestsSound
  <1>3. serial => \A t \in Slots : req'[t] = Idle
    BY <1>1 DEF AloneInv, OneInFlight
  <1> QED
    BY <1>2, <1>3 DEF Admin!End, OneInFlight, StandingAll

LEMMA EndKeeps ==
    ASSUME AdminInv, NEW s \in Slots, req[s] # Idle, req[s].op # "complete", Admin!End(s),
           UNCHANGED Admin!resets, Admin!TypeOK', Numbers', Admin!NoLostChange',
           serial => (Admin!Admins # {})' /\ LeftAreOff'
    PROVE  AdminInv'
  <1> USE DEF AdminInv, Admin!resets
  <1>1. Steady
    BY DEF Steady, Approved, Third
  <1>2. Admin!Wellformed' /\ Approvings'
    BY DEF Admin!Wellformed, Approvings, Approved, Third
  <1>3. ASSUME serial, NEW a \in Approvals PROVE Accounted(a)'
    <2>1. Accounted(a) /\ \A t \in Slots : req[t] # Idle => t = s
      BY <1>3 DEF AloneInv, OneInFlight
    <2>2. ~(approval[a].state = "APPROVED" /\ issued[a] = 1)
      BY <2>1 DEF Accounted
    <2> QED
      BY <2>1, <2>2 DEF Accounted
  <1> QED
    BY <1>1, <1>2, <1>3, EndKeepsWaiting DEF AloneInv

LEMMA InFlight ==
    ASSUME AdminInv, NEW s \in Slots, req[s] # Idle
    PROVE  /\ Sound(req[s])
           /\ serial => Standing(req[s]) /\ Admin!Admins # {} /\ LeftAreOff
  BY DEF AdminInv, RequestsSound, AloneInv, StandingAll

LEMMA CommitCreateKeeps ==
    ASSUME AdminInv, NEW s \in Slots, Admin!CommitCreate(s)
    PROVE  AdminInv'
  <1> USE DEF AdminInv, Admin!settings
  <1>0. PICK r : r = req[s]
    OBVIOUS
  <1>1. /\ req[s] # Idle /\ r.op = "create" /\ r.on \in Users /\ r.to \in BOOLEAN
        /\ serial => Admin!Admins # {} /\ LeftAreOff
    BY <1>0, InFlight DEF Admin!CommitCreate, Admin!At, Sound
  <1>2. /\ \/ user' = user
           \/ /\ user[r.on].state = "ABSENT"
              /\ user' = [user EXCEPT ![r.on] = [state |-> "ON", admin |-> r.to]]
        /\ Admin!End(s) /\ UNCHANGED <<owner, open, left, returned, Admin!resets, Admin!settings>>
    BY <1>0 DEF Admin!CommitCreate
  <1>3. user' \in [Users -> [state : {"ABSENT", "ON", "OFF"}, admin : BOOLEAN]]
    BY <1>1, <1>2 DEF Admin!TypeOK
  <1>4. Admin!TypeOK' /\ Numbers' /\ Admin!NoLostChange'
    BY <1>2, <1>3 DEF Admin!TypeOK, Numbers, Admin!NoLostChange, Admin!resets
  <1>5. \A u \in Users : user[u].state # "ABSENT" => user'[u] = user[u]
    BY <1>2 DEF Admin!TypeOK
  <1>6. Admin!Admins \subseteq Admin!Admins'
    BY <1>5 DEF Admin!Admins, Admin!Active
  <1>7. LeftAreOff => LeftAreOff'
    BY <1>2, <1>5 DEF LeftAreOff, Admin!Owned, Admin!TypeOK
  <1> QED
    BY <1>0, <1>1, <1>2, <1>4, <1>6, <1>7, EndKeeps

LEMMA CommitUpdateKeeps ==
    ASSUME AdminInv, NEW s \in Slots, Admin!CommitUpdate(s)
    PROVE  AdminInv'
  <1> USE DEF AdminInv, Admin!settings
  <1>0. PICK r : r = req[s]
    OBVIOUS
  <1>1. /\ req[s] # Idle /\ r.op = "update" /\ r.on \in Users
        /\ r.to \in [state : {"ON", "OFF"}, admin : BOOLEAN]
        /\ serial => LeftAreOff /\ Admin!Admins # {} /\
              (r.to.state = "OFF" \/ ~r.to.admin => Admin!Admins \ {r.on} # {})
    BY <1>0, InFlight DEF Admin!CommitUpdate, Admin!At, Sound, Standing
  <1>2. /\ user' = [user EXCEPT ![r.on] = r.to] /\ left' = left \ {r.on}
        /\ Admin!End(s) /\ UNCHANGED <<owner, open, returned, Admin!resets, Admin!settings>>
    BY <1>0 DEF Admin!CommitUpdate
  <1>3. user' \in [Users -> [state : {"ABSENT", "ON", "OFF"}, admin : BOOLEAN]]
    BY <1>1, <1>2 DEF Admin!TypeOK
  <1>4. Admin!TypeOK' /\ Numbers' /\ Admin!NoLostChange'
    BY <1>2, <1>3 DEF Admin!TypeOK, Numbers, Admin!NoLostChange, Admin!resets
  <1>5. user'[r.on] = r.to /\ \A u \in Users \ {r.on} : user'[u] = user[u]
    BY <1>1, <1>2 DEF Admin!TypeOK
  <1>6. serial => Admin!Admins' # {}
    <2>1. Admin!Admins \ {r.on} \subseteq Admin!Admins'
      BY <1>5 DEF Admin!Admins, Admin!Active
    <2>2. r.to.state = "ON" /\ r.to.admin => r.on \in Admin!Admins'
      BY <1>1, <1>5 DEF Admin!Admins, Admin!Active
    <2> QED
      BY <1>1, <2>1, <2>2
  <1>7. LeftAreOff => LeftAreOff'
    BY <1>2, <1>5 DEF LeftAreOff, Admin!Owned, Admin!TypeOK
  <1> QED
    BY <1>0, <1>1, <1>2, <1>4, <1>6, <1>7, EndKeeps

LEMMA CommitDeactivateKeeps ==
    ASSUME AdminInv, NEW s \in Slots, Admin!CommitDeactivate(s)
    PROVE  AdminInv'
  <1> USE DEF AdminInv, Admin!settings
  <1>0. PICK r : r = req[s]
    OBVIOUS
  <1>1. /\ req[s] # Idle /\ r.op = "deactivate" /\ r.on \in Users /\ r.to \in Users \cup {NoUser}
        /\ serial => LeftAreOff /\ Admin!Admins \ {r.on} # {} /\ (r.to = NoUser => Admin!Owned(r.on) = {})
    BY <1>0, InFlight DEF Admin!CommitDeactivate, Admin!At, Sound, Standing
  <1>2. /\ user' = [user EXCEPT ![r.on].state = "OFF"]
        /\ owner' = Admin!HandOver(r.on, r.to)
        /\ left' = (left \cup {r.on}) \ {r.to}
        /\ returned' = IF r.to = NoUser THEN returned ELSE returned \ Admin!Owned(r.on)
        /\ Admin!End(s) /\ UNCHANGED <<open, Admin!resets, Admin!settings>>
    BY <1>0 DEF Admin!CommitDeactivate
  <1>3. user' \in [Users -> [state : {"ABSENT", "ON", "OFF"}, admin : BOOLEAN]]
    BY <1>1, <1>2 DEF Admin!TypeOK
  <1>4. owner' \in [Works -> Users] /\ left' \subseteq Users /\ returned' \subseteq open
    BY <1>1, <1>2 DEF Admin!TypeOK, Admin!HandOver
  <1>5. Admin!TypeOK' /\ Numbers' /\ Admin!NoLostChange'
    BY <1>2, <1>3, <1>4 DEF Admin!TypeOK, Numbers, Admin!NoLostChange, Admin!resets
  <1>6. user'[r.on].state = "OFF" /\ \A u \in Users \ {r.on} : user'[u] = user[u]
    BY <1>1, <1>2 DEF Admin!TypeOK
  <1>7. Admin!Admins \ {r.on} \subseteq Admin!Admins'
    BY <1>6 DEF Admin!Admins, Admin!Active
  <1>8. ASSUME serial, NEW u \in left' PROVE user'[u].state = "OFF" /\ Admin!Owned(u)' \subseteq returned'
    <2>1. u \in Users /\ u # r.to /\ (u = r.on \/ u \in left)
      BY <1>2, <1>4, <1>8
    <2>2. user'[u].state = "OFF"
      BY <1>1, <1>6, <1>8, <2>1 DEF LeftAreOff
    <2>3. u # r.on => Admin!Owned(u) \subseteq returned
      BY <1>1, <1>8, <2>1 DEF LeftAreOff
    <2>4. CASE r.to = NoUser
      BY <1>1, <1>2, <1>8, <2>2, <2>3, <2>4 DEF Admin!HandOver, Admin!Owned
    <2>5. CASE r.to # NoUser
      <3>1. \A w \in Works : owner'[w] = IF w \in Admin!Owned(r.on) THEN r.to ELSE owner[w]
        BY <1>2, <2>5 DEF Admin!HandOver
      <3>2. Admin!Owned(u)' \subseteq Admin!Owned(u) \ Admin!Owned(r.on)
        BY <1>2, <2>1, <3>1 DEF Admin!Owned, Admin!TypeOK
      <3>3. Admin!Owned(u)' \subseteq returned'
        BY <1>2, <2>3, <2>5, <3>2
      <3> QED
        BY <2>2, <3>3
    <2> QED
      BY <2>4, <2>5
  <1> QED
    BY <1>0, <1>1, <1>2, <1>5, <1>7, <1>8, EndKeeps DEF LeftAreOff

LEMMA CommitSettingKeeps ==
    ASSUME AdminInv, NEW s \in Slots, Admin!CommitSetting(s)
    PROVE  AdminInv'
  <1> USE DEF AdminInv, Admin!people
  <1>0. PICK r : r = req[s]
    OBVIOUS
  <1>1. /\ req[s] # Idle /\ r.op = "setting" /\ r.on \in Settings /\ r.n \in Nat /\ r.n < SettingVersions
        /\ serial => Admin!Admins # {} /\ LeftAreOff
    BY <1>0, InFlight DEF Admin!CommitSetting, Admin!At, Sound
  <1>2. Admin!End(s) /\ UNCHANGED <<Admin!people, Admin!resets>>
    BY DEF Admin!CommitSetting
  <1>3. \/ UNCHANGED <<version, writer>>
        \/ /\ version[r.on] = r.n
           /\ version' = [version EXCEPT ![r.on] = r.n + 1]
           /\ writer' = [writer EXCEPT ![r.on] = @ + 1]
    BY <1>0 DEF Admin!CommitSetting, Admin!StillCurrent
  <1>4. r.n + 1 \in 0 .. SettingVersions
    BY <1>1 DEF Admin!Wellformed
  <1>5. version' \in [Settings -> 0 .. SettingVersions] /\ writer' \in [Settings -> Nat]
    BY <1>1, <1>3, <1>4 DEF Admin!TypeOK, Numbers
  <1>6. Admin!TypeOK' /\ Numbers'
    BY <1>2, <1>5 DEF Admin!TypeOK, Numbers, Admin!resets
  <1>7. Admin!NoLostChange'
    <2>1. ASSUME NEW k \in Settings PROVE writer'[k] = version'[k]
      <3>1. writer[k] = version[k]
        BY DEF Admin!NoLostChange
      <3> QED
        BY <1>1, <1>3, <3>1 DEF Admin!TypeOK, Numbers
    <2> QED
      BY <2>1 DEF Admin!NoLostChange
  <1>8. (Admin!Admins # {} => Admin!Admins' # {}) /\ (LeftAreOff => LeftAreOff')
    BY <1>2 DEF Admin!Admins, Admin!Active, LeftAreOff, Admin!Owned
  <1> QED
    BY <1>0, <1>1, <1>2, <1>6, <1>7, <1>8, EndKeeps

-----------------------------------------------------------------------------
(* The reset of a password, and what is not a request.                     *)

\* A step that only touches resets.
LEMMA ResetKeeps ==
    ASSUME AdminInv, UNCHANGED <<Admin!people, Admin!settings, serial>>, Admin!TypeOK', Numbers', RequestsSound', Approvings',
           serial => OneInFlight' /\ StandingAll' /\ \A a \in Approvals : Accounted(a)'
    PROVE  AdminInv'
  <1> USE DEF AdminInv, Admin!people, Admin!settings
  <1>1. Admin!Wellformed' /\ Admin!NoLostChange'
    BY DEF Admin!Wellformed, Admin!NoLostChange
  <1>2. (Admin!Admins # {} => Admin!Admins' # {}) /\ (LeftAreOff => LeftAreOff')
    BY DEF Admin!Admins, Admin!Active, LeftAreOff, Admin!Owned
  <1> QED
    BY <1>1, <1>2 DEF AloneInv

LEMMA CommitApproveKeeps ==
    ASSUME AdminInv, NEW s \in Slots, Admin!CommitApprove(s)
    PROVE  AdminInv'
  <1> USE DEF AdminInv, Admin!people, Admin!settings
  <1>0. PICK r, a : r = req[s] /\ a = r.on
    OBVIOUS
  <1>1. /\ req[s] # Idle /\ r.op = "approve" /\ a \in Approvals
        /\ approval[a].state # "NONE" /\ Third(r.by, a)
        /\ serial => approval[a].state = "PENDING"
    BY <1>0, InFlight DEF Admin!CommitApprove, Admin!At, Sound, Standing
  <1>2. /\ approval' = [approval EXCEPT ![a].state = "APPROVED", ![a].approver = r.by]
        /\ Admin!End(s) /\ UNCHANGED <<Admin!people, issued, Admin!settings>>
    BY <1>0 DEF Admin!CommitApprove
  <1>3. approval' \in [Approvals -> [state : {"NONE", "PENDING", "APPROVED", "COMPLETED"},
           initiator : Users \cup {NoUser}, target : Users \cup {NoUser}, approver : Users \cup {NoUser}]]
    <2>1. r.by \in Users \cup {NoUser}
      BY <1>1 DEF Third
    <2>2. approval \in [Approvals -> [state : {"NONE", "PENDING", "APPROVED", "COMPLETED"},
             initiator : Users \cup {NoUser}, target : Users \cup {NoUser}, approver : Users \cup {NoUser}]]
      BY DEF Admin!TypeOK
    <2> HIDE DEF AdminInv
    <2>3. approval' = [approval EXCEPT ![a].state = "APPROVED", ![a].approver = r.by] /\ a \in Approvals
      BY <1>1, <1>2
    <2> QED
      BY <2>1, <2>2, <2>3
  <1>4. Admin!TypeOK' /\ Numbers'
    BY <1>2, <1>3 DEF Admin!TypeOK, Numbers
  <1>5. /\ approval'[a].state = "APPROVED" /\ approval'[a].approver = r.by
        /\ approval'[a].initiator = approval[a].initiator /\ approval'[a].target = approval[a].target
        /\ \A b \in Approvals \ {a} : approval'[b] = approval[b]
    BY <1>1, <1>2 DEF Admin!TypeOK
  <1>6. Approved(a)'
    BY <1>1, <1>5 DEF Approved, Third
  <1>7. \A b \in Approvals : Approved(b) => Approved(b)'
    BY <1>5, <1>6 DEF Approved, Third
  <1>8. Steady
    BY <1>5, <1>7 DEF Steady
  <1>9. Approvings'
    BY <1>2, <1>5, <1>6, <1>7 DEF Approvings
  <1>10. ASSUME serial, NEW b \in Approvals PROVE Accounted(b)'
    <2>1. Accounted(b) /\ \A t \in Slots : req[t] # Idle => t = s
      BY <1>1, <1>10 DEF AloneInv, OneInFlight
    <2>2. CASE b = a
      BY <1>1, <1>2, <1>5, <1>10, <2>1, <2>2 DEF Accounted
    <2>3. CASE b # a
      <3>1. ~(approval[b].state = "APPROVED" /\ issued[b] = 1)
        BY <1>0, <1>1, <2>1 DEF Accounted
      <3> QED
        BY <1>2, <1>5, <2>1, <2>3, <3>1 DEF Accounted
    <2> QED
      BY <2>2, <2>3
  <1> QED
    BY <1>1, <1>2, <1>4, <1>8, <1>9, <1>10, EndKeepsWaiting, ResetKeeps DEF Admin!End

LEMMA IssueKeeps ==
    ASSUME AdminInv, NEW s \in Slots, Admin!Issue(s)
    PROVE  AdminInv'
  <1> USE DEF AdminInv, Admin!people, Admin!settings
  <1>0. PICK r, a : r = req[s] /\ a = r.on
    OBVIOUS
  <1>1. /\ req[s] # Idle /\ r.op = "issue" /\ a \in Approvals /\ Approved(a)
        /\ serial => approval[a].state = "APPROVED" /\ issued[a] = 0
    BY <1>0, InFlight DEF Admin!Issue, Admin!At, Sound, Standing
  <1>2. /\ issued' = [issued EXCEPT ![a] = @ + 1]
        /\ req' = [req EXCEPT ![s].op = "complete"]
        /\ UNCHANGED <<Admin!people, approval, Admin!settings, started, serial>>
    BY <1>0 DEF Admin!Issue
  <1>3. /\ issued' \in [Approvals -> Nat] /\ issued'[a] = issued[a] + 1
        /\ \A b \in Approvals \ {a} : issued'[b] = issued[b]
    BY <1>1, <1>2 DEF Numbers
  <1>4. Admin!TypeOK' /\ Numbers'
    BY <1>2, <1>3 DEF Admin!TypeOK, Numbers
  <1>5. /\ DOMAIN req' = Slots
        /\ req'[s] \in Admin!Requests /\ req'[s].op = "complete" /\ req'[s].on = a
        /\ \A t \in Slots \ {s} : req'[t] = req[t]
    <2>1. r \in Admin!Requests
      BY <1>0, <1>1, InFlight DEF Sound
    <2>2. PICK q : q = [r EXCEPT !.op = "complete"]
      OBVIOUS
    <2>3. q \in Admin!Requests /\ q.op = "complete" /\ q.on = a
      BY <1>0, <2>1, <2>2 DEF Admin!Requests
    <2>4. req' = [req EXCEPT ![s] = q]
      BY <1>0, <1>2, <2>2
    <2>5. req'[s] = q /\ DOMAIN req' = Slots /\ \A t \in Slots \ {s} : req'[t] = req[t]
      BY <2>4 DEF RequestsSound
    <2> QED
      BY <2>3, <2>5
  <1>6. RequestsSound'
    <2>1. \A x : Sound(x)' <=> Sound(x)
      BY <1>2 DEF Sound, Third, Approved
    <2>2. PICK q : q = req'[s]
      OBVIOUS
    <2>3. Sound(q)
      BY <1>1, <1>5, <2>2 DEF Sound
    <2> QED
      BY <1>5, <2>1, <2>2, <2>3 DEF RequestsSound
  <1>7. Approvings'
    <2>1. \A b \in Approvals : Approved(b)' <=> Approved(b)
      BY <1>2 DEF Approved, Third
    <2> QED
      BY <1>1, <1>2, <1>3, <2>1 DEF Approvings
  <1>8. ASSUME serial
        PROVE  OneInFlight' /\ StandingAll' /\ \A b \in Approvals : Accounted(b)'
    <2>1. \A t \in Slots : req[t] # Idle => t = s
      BY <1>1, <1>8 DEF AloneInv, OneInFlight
    <2>2. \A t \in Slots : req'[t] # Idle => t = s
      BY <1>5, <2>1
    <2>3. StandingAll'
      <3>1. PICK q : q = req'[s]
        OBVIOUS
      <3>2. q.op = "complete" /\ q.on = a /\ issued'[a] = 1
        BY <1>1, <1>3, <1>5, <1>8, <3>1
      <3>3. Standing(q)'
        BY <3>2 DEF Standing
      <3> QED
        BY <2>2, <3>1, <3>3 DEF StandingAll
    <2>4. ASSUME NEW b \in Approvals PROVE Accounted(b)'
      <3>1. Accounted(b)
        BY <1>8 DEF AloneInv
      <3>2. CASE b = a
        <4>1. issued'[a] = 1 /\ approval'[a].state = "APPROVED"
          BY <1>1, <1>2, <1>3, <1>8
        <4>2. req'[s] # Idle
          BY <1>5 DEF Admin!Wellformed
        <4> QED
          BY <1>5, <3>2, <4>1, <4>2 DEF Accounted
      <3>3. CASE b # a
        <4>1. ~(approval[b].state = "APPROVED" /\ issued[b] = 1)
          BY <1>0, <1>1, <2>1, <3>1 DEF Accounted
        <4> QED
          BY <1>2, <1>3, <3>1, <3>3, <4>1 DEF Accounted
      <3> QED
        BY <3>2, <3>3
    <2> QED
      BY <2>2, <2>3, <2>4 DEF OneInFlight
  <1> QED
    BY <1>2, <1>4, <1>6, <1>7, <1>8, ResetKeeps

LEMMA CompleteKeeps ==
    ASSUME AdminInv, NEW s \in Slots, Admin!Complete(s)
    PROVE  AdminInv'
  <1> USE DEF AdminInv, Admin!people, Admin!settings
  <1>0. PICK r, a : r = req[s] /\ a = r.on
    OBVIOUS
  <1>1. /\ req[s] # Idle /\ r.op = "complete" /\ a \in Approvals /\ Approved(a)
        /\ serial => issued[a] = 1
    BY <1>0, InFlight DEF Admin!Complete, Admin!At, Sound, Standing
  <1>2. /\ approval' = [approval EXCEPT ![a].state = "COMPLETED"]
        /\ Admin!End(s) /\ UNCHANGED <<Admin!people, issued, Admin!settings>>
    BY <1>0 DEF Admin!Complete
  <1>3. approval' \in [Approvals -> [state : {"NONE", "PENDING", "APPROVED", "COMPLETED"},
           initiator : Users \cup {NoUser}, target : Users \cup {NoUser}, approver : Users \cup {NoUser}]]
    BY <1>1, <1>2 DEF Admin!TypeOK
  <1>4. Admin!TypeOK' /\ Numbers'
    BY <1>2, <1>3 DEF Admin!TypeOK, Numbers
  <1>5. /\ approval'[a].state = "COMPLETED" /\ approval'[a].approver = approval[a].approver
        /\ approval'[a].initiator = approval[a].initiator /\ approval'[a].target = approval[a].target
        /\ \A b \in Approvals \ {a} : approval'[b] = approval[b]
    BY <1>1, <1>2 DEF Admin!TypeOK
  <1>6. \A b \in Approvals : Approved(b) => Approved(b)'
    BY <1>5 DEF Approved, Third
  <1>7. Steady
    BY <1>5, <1>6 DEF Steady
  <1>8. Approvings'
    BY <1>1, <1>2, <1>5, <1>6 DEF Approvings
  <1>9. ASSUME serial, NEW b \in Approvals PROVE Accounted(b)'
    <2>1. Accounted(b) /\ \A t \in Slots : req[t] # Idle => t = s
      BY <1>1, <1>9 DEF AloneInv, OneInFlight
    <2>2. CASE b = a
      BY <1>1, <1>2, <1>5, <1>9, <2>2 DEF Accounted
    <2>3. CASE b # a
      <3>1. ~(approval[b].state = "APPROVED" /\ issued[b] = 1)
        BY <1>0, <2>1, <2>3 DEF Accounted
      <3> QED
        BY <1>2, <1>5, <2>1, <2>3, <3>1 DEF Accounted
    <2> QED
      BY <2>2, <2>3
  <1> QED
    BY <1>1, <1>2, <1>4, <1>7, <1>8, <1>9, EndKeepsWaiting, ResetKeeps DEF Admin!End

\* A step outside the slots.
LEMMA OutsideKeeps ==
    ASSUME AdminInv, Admin!Quiet, UNCHANGED <<req, serial>>, Steady, Admin!TypeOK', Numbers', Approvings', Admin!NoLostChange',
           serial => Admin!Admins' # {} /\ LeftAreOff' /\ \A a \in Approvals : Accounted(a)'
    PROVE  AdminInv'
  <1> USE DEF AdminInv
  <1>1. Admin!Wellformed'
    BY DEF Admin!Wellformed
  <1>2. RequestsSound'
    BY SoundStays DEF RequestsSound
  <1>3. serial => OneInFlight' /\ StandingAll'
    BY DEF Admin!Quiet, OneInFlight, StandingAll
  <1> QED
    BY <1>1, <1>2, <1>3 DEF AloneInv

LEMMA AssignKeeps == ASSUME AdminInv, Admin!Assign PROVE AdminInv'
  <1> USE DEF AdminInv, Admin!resets, Admin!settings
  <1>1. PICK w \in Works, u \in Users :
           /\ Admin!Quiet /\ Admin!Active(u) /\ owner' = [owner EXCEPT ![w] = u]
           /\ returned' = returned \ {w}
           /\ UNCHANGED <<user, open, left, Admin!resets, Admin!settings, req, started, serial>>
    BY DEF Admin!Assign
  <1>2. Steady /\ Approvings'
    BY <1>1 DEF Steady, Approvings, Approved, Third
  <1>3. Admin!TypeOK' /\ Numbers' /\ Admin!NoLostChange'
    BY <1>1 DEF Admin!TypeOK, Numbers, Admin!NoLostChange
  <1>4. ASSUME serial PROVE Admin!Admins' # {} /\ LeftAreOff' /\ \A a \in Approvals : Accounted(a)'
    <2>1. Admin!Admins' # {} /\ \A a \in Approvals : Accounted(a)'
      BY <1>1, <1>4 DEF AloneInv, Accounted, Admin!Admins, Admin!Active
    <2>2. ASSUME NEW o \in left PROVE user[o].state = "OFF" /\ Admin!Owned(o)' \subseteq returned'
      <3>1. user[o].state = "OFF" /\ Admin!Owned(o) \subseteq returned /\ o # u
        BY <1>1, <1>4 DEF AloneInv, LeftAreOff, Admin!Active
      <3>2. owner'[w] = u /\ \A x \in Works \ {w} : owner'[x] = owner[x]
        BY <1>1 DEF Admin!TypeOK
      <3> QED
        BY <1>1, <3>1, <3>2 DEF Admin!Owned, Admin!TypeOK
    <2> QED
      BY <1>1, <2>1, <2>2 DEF LeftAreOff
  <1> QED
    BY <1>1, <1>2, <1>3, <1>4, OutsideKeeps

LEMMA CloseKeeps == ASSUME AdminInv, Admin!Close PROVE AdminInv'
  <1> USE DEF AdminInv, Admin!resets, Admin!settings
  <1>1. PICK w \in open :
           /\ Admin!Quiet /\ open' = open \ {w} /\ returned' = returned \ {w}
           /\ UNCHANGED <<user, owner, left, Admin!resets, Admin!settings, req, started, serial>>
    BY DEF Admin!Close
  <1>2. Steady /\ Approvings'
    BY <1>1 DEF Steady, Approvings, Approved, Third
  <1>3. Admin!TypeOK' /\ Numbers' /\ Admin!NoLostChange'
    BY <1>1 DEF Admin!TypeOK, Numbers, Admin!NoLostChange
  <1>4. ASSUME serial PROVE Admin!Admins' # {} /\ LeftAreOff' /\ \A a \in Approvals : Accounted(a)'
    <2>1. Admin!Admins' # {} /\ \A a \in Approvals : Accounted(a)'
      BY <1>1, <1>4 DEF AloneInv, Accounted, Admin!Admins, Admin!Active
    <2>2. LeftAreOff'
      BY <1>1, <1>4 DEF AloneInv, LeftAreOff, Admin!Owned
    <2> QED
      BY <2>1, <2>2
  <1> QED
    BY <1>1, <1>2, <1>3, <1>4, OutsideKeeps

\* What is opened for somebody who has left is marked as such.
LEMMA ReopenKeeps == ASSUME AdminInv, Admin!Reopen PROVE AdminInv'
  <1> USE DEF AdminInv, Admin!resets, Admin!settings
  <1>1. PICK w \in Works \ open, t \in Works :
           /\ Admin!Quiet /\ open' = open \cup {w} /\ owner' = [owner EXCEPT ![w] = owner[t]]
           /\ returned' = returned \cup {o \in {w} : owner[t] \in left}
           /\ UNCHANGED <<user, left, Admin!resets, Admin!settings, req, started, serial>>
    BY DEF Admin!Reopen
  <1>2. Steady /\ Approvings'
    BY <1>1 DEF Steady, Approvings, Approved, Third
  <1>3. Admin!TypeOK' /\ Numbers' /\ Admin!NoLostChange'
    BY <1>1 DEF Admin!TypeOK, Numbers, Admin!NoLostChange
  <1>4. ASSUME serial PROVE Admin!Admins' # {} /\ LeftAreOff' /\ \A a \in Approvals : Accounted(a)'
    <2>1. Admin!Admins' # {} /\ \A a \in Approvals : Accounted(a)'
      BY <1>1, <1>4 DEF AloneInv, Accounted, Admin!Admins, Admin!Active
    <2>2. ASSUME NEW o \in left PROVE user[o].state = "OFF" /\ Admin!Owned(o)' \subseteq returned'
      <3>1. user[o].state = "OFF" /\ Admin!Owned(o) \subseteq returned
        BY <1>4 DEF AloneInv, LeftAreOff
      <3>2. owner'[w] = owner[t] /\ \A x \in Works \ {w} : owner'[x] = owner[x]
        BY <1>1 DEF Admin!TypeOK
      <3> QED
        BY <1>1, <3>1, <3>2 DEF Admin!Owned, Admin!TypeOK
    <2> QED
      BY <1>1, <2>1, <2>2 DEF LeftAreOff
  <1> QED
    BY <1>1, <1>2, <1>3, <1>4, OutsideKeeps

LEMMA RescueKeeps == ASSUME AdminInv, Admin!Rescue PROVE AdminInv'
  <1> USE DEF AdminInv, Admin!resets, Admin!settings
  <1>1. PICK u \in Users :
           /\ Admin!Quiet /\ user' = [user EXCEPT ![u] = [state |-> "ON", admin |-> TRUE]]
           /\ left' = left \ {u}
           /\ UNCHANGED <<owner, open, returned, Admin!resets, Admin!settings, req, started, serial>>
    BY DEF Admin!Rescue
  <1>2. Steady /\ Approvings'
    BY <1>1 DEF Steady, Approvings, Approved, Third
  <1>3. user' \in [Users -> [state : {"ABSENT", "ON", "OFF"}, admin : BOOLEAN]]
    BY <1>1 DEF Admin!TypeOK
  <1>4. Admin!TypeOK' /\ Numbers' /\ Admin!NoLostChange'
    BY <1>1, <1>3 DEF Admin!TypeOK, Numbers, Admin!NoLostChange
  <1>5. /\ user'[u].state = "ON" /\ user'[u].admin
        /\ \A o \in Users \ {u} : user'[o] = user[o]
    BY <1>1 DEF Admin!TypeOK
  <1>6. ASSUME serial PROVE Admin!Admins' # {} /\ LeftAreOff' /\ \A a \in Approvals : Accounted(a)'
    <2>1. u \in Admin!Admins'
      BY <1>5 DEF Admin!Admins, Admin!Active
    <2>2. \A a \in Approvals : Accounted(a)'
      BY <1>1, <1>6 DEF AloneInv, Accounted
    <2>3. LeftAreOff'
      BY <1>1, <1>5, <1>6 DEF AloneInv, LeftAreOff, Admin!Owned, Admin!TypeOK
    <2> QED
      BY <2>1, <2>2, <2>3
  <1> QED
    BY <1>1, <1>2, <1>4, <1>6, OutsideKeeps

LEMMA RequestResetKeeps == ASSUME AdminInv, Admin!RequestReset PROVE AdminInv'
  <1> USE DEF AdminInv, Admin!people, Admin!settings
  <1>1. PICK by \in Admin!Admins, u \in Users, a \in Approvals :
           /\ Admin!Quiet /\ approval[a].state = "NONE"
           /\ approval' = [approval EXCEPT ![a] = [state |-> "PENDING", initiator |-> by,
                                                   target |-> u, approver |-> NoUser]]
           /\ UNCHANGED <<Admin!people, issued, Admin!settings, req, started, serial>>
    BY DEF Admin!RequestReset
  <1>2. PICK new : new = [state |-> "PENDING", initiator |-> by, target |-> u, approver |-> NoUser]
    OBVIOUS
  <1>3. new \in [state : {"NONE", "PENDING", "APPROVED", "COMPLETED"},
           initiator : Users \cup {NoUser}, target : Users \cup {NoUser}, approver : Users \cup {NoUser}]
    BY <1>1, <1>2 DEF Admin!Admins
  <1>4. approval' \in [Approvals -> [state : {"NONE", "PENDING", "APPROVED", "COMPLETED"},
           initiator : Users \cup {NoUser}, target : Users \cup {NoUser}, approver : Users \cup {NoUser}]]
    BY <1>1, <1>2, <1>3 DEF Admin!TypeOK
  <1>5. Admin!TypeOK' /\ Numbers' /\ Admin!NoLostChange'
    BY <1>1, <1>4 DEF Admin!TypeOK, Numbers, Admin!NoLostChange
  <1>6. approval'[a].state = "PENDING" /\ \A b \in Approvals \ {a} : approval'[b] = approval[b]
    BY <1>1 DEF Admin!TypeOK
  <1>7. ~Approved(a) /\ issued[a] = 0
    <2>1. ~Approved(a)
      BY <1>1 DEF Approved
    <2> QED
      BY <2>1 DEF Approvings, Numbers
  <1>8. \A b \in Approvals : Approved(b) => Approved(b)'
    BY <1>6, <1>7 DEF Approved, Third
  <1>9. Steady
    BY <1>1, <1>6, <1>8 DEF Steady
  <1>10. Approvings'
    BY <1>1, <1>6, <1>7, <1>8 DEF Approvings
  <1>11. ASSUME serial PROVE Admin!Admins' # {} /\ LeftAreOff' /\ \A b \in Approvals : Accounted(b)'
    BY <1>1, <1>6, <1>7, <1>11 DEF AloneInv, Admin!Admins, Admin!Active, LeftAreOff, Admin!Owned, Accounted
  <1> QED
    BY <1>1, <1>5, <1>9, <1>10, <1>11, OutsideKeeps

-----------------------------------------------------------------------------
(* The invariant and what follows.                                         *)

LEMMA StepKeepsAdmin == AdminInv /\ (Admin!Next \/ UNCHANGED Admin!vars) => AdminInv'
  <1> SUFFICES ASSUME AdminInv, Admin!Next \/ UNCHANGED Admin!vars PROVE AdminInv'
    OBVIOUS
  <1>1. CASE UNCHANGED Admin!vars
    <2> USE <1>1 DEF Admin!vars, Admin!people, Admin!resets, Admin!settings, AdminInv
    <2>1. Admin!Wellformed' /\ Admin!TypeOK' /\ Numbers' /\ Approvings' /\ Admin!NoLostChange'
      BY DEF Admin!Wellformed, Admin!TypeOK, Numbers, Approvings, Approved, Third, Admin!NoLostChange
    <2>2. \A x : (Sound(x)' <=> Sound(x)) /\ (Standing(x)' <=> Standing(x))
      BY DEF Sound, Standing, Third, Approved, Admin!Admins, Admin!Active, Admin!Owned
    <2>3. RequestsSound' /\ (StandingAll => StandingAll')
      BY <2>2 DEF RequestsSound, StandingAll
    <2>4. /\ OneInFlight => OneInFlight'
          /\ Admin!Admins # {} => Admin!Admins' # {}
          /\ LeftAreOff => LeftAreOff'
          /\ \A a \in Approvals : Accounted(a) => Accounted(a)'
      BY DEF OneInFlight, Admin!Admins, Admin!Active, LeftAreOff, Admin!Owned, Accounted
    <2> QED
      BY <2>1, <2>3, <2>4 DEF AloneInv
  <1>2. ASSUME NEW s \in Slots, Admin!Proceed(s) PROVE AdminInv'
    BY <1>2, CommitCreateKeeps, CommitUpdateKeeps, CommitDeactivateKeeps, CommitApproveKeeps,
       IssueKeeps, CompleteKeeps, CommitSettingKeeps DEF Admin!Proceed
  <1> QED
    BY <1>1, <1>2, BeginKeeps, AssignKeeps, CloseKeeps, ReopenKeeps, RescueKeeps, RequestResetKeeps
       DEF Admin!Next, Admin!Outside


LEMMA AdminInvImplies ==
    AdminInv => /\ Admin!TypeOK /\ Admin!AdminsKept /\ Admin!WorkHandedOver
                /\ Admin!ResetsApproved /\ Admin!NoLostChange
  <1> SUFFICES ASSUME AdminInv
               PROVE  /\ Admin!TypeOK /\ Admin!AdminsKept /\ Admin!WorkHandedOver
                      /\ Admin!ResetsApproved /\ Admin!NoLostChange
    OBVIOUS
  <1>1. Admin!TypeOK /\ Admin!NoLostChange
    BY DEF AdminInv
  <1>2. Admin!AdminsKept /\ Admin!WorkHandedOver
    BY DEF AdminInv, AloneInv, LeftAreOff, Admin!AdminsKept, Admin!WorkHandedOver
  <1>3. ASSUME NEW a \in Approvals
        PROVE  /\ issued[a] > 0 => approval[a].approver \notin
                      {NoUser, approval[a].initiator, approval[a].target}
               /\ serial => issued[a] <= 1
    <2>1. issued[a] > 0 => Third(approval[a].approver, a)
      BY DEF AdminInv, Approvings, Approved
    <2>2. serial => issued[a] \in {0, 1}
      BY DEF AdminInv, AloneInv, Accounted
    <2> QED
      BY <2>1, <2>2 DEF AdminInv, Admin!Wellformed, Third
  <1> QED
    BY <1>1, <1>2, <1>3 DEF Admin!ResetsApproved

\* createUser, updateUser, deactivate, the password reset by two administrators and
\* versioned settings: without overlap an administrator is left, and who was
\* deactivated owns open work only where it was opened, or made by a recurrence,
\* after that; whatever overlaps, a reset has a third person's approval and no
\* accepted change of a setting is lost.
THEOREM AdministrationSound == Spec => []AccountsInOrder
  <1> DEFINE Inv == focus = "admins" => AdminInv
  <1>1. Init => Inv
    BY InitAdmin, AdminAssumption DEF Init
  <1>2. Inv /\ [Next]_vars => Inv'
    BY StepKeepsAdmin DEF Next, vars, slots, Admin!vars, Admin!people, Admin!resets, Admin!settings,
       from5, from7, from8
  <1>3. Inv => AccountsInOrder
    BY AdminInvImplies DEF AccountsInOrder
  <1> QED
    BY <1>1, <1>2, <1>3, PTL DEF Spec

-----------------------------------------------------------------------------
(* Sessions.  A session has the version of the account its request was let  *)
(* in with, and so has a request that nothing overlaps the password.        *)

acct    == x1
sess    == x2
changer == x3
USE DEF acct, sess, changer

AccountRecords == [active : BOOLEAN, auth : Nat, pass : Nat, temp : {"NONE", "VALID"},
                   totp : {"NONE", "PENDING", "CONFIRMED"}, must : BOOLEAN, codes : {0, 1}]
SessionRecords == [state : {"NONE", "LIVE", "REVOKED"}, auth : Nat, level : 0 .. 2,
                   pass : Nat, seen : Nat]

AccountTyped == acct \in AccountRecords /\ sess \in [Sessions -> SessionRecords] /\ DOMAIN req = Slots

SeenAtStart == \A x \in Sessions : sess[x].seen = sess[x].auth /\ sess[x].auth <= acct.auth

\* What a request was let in with.  Alone, it knows the password of its version.
LetIn(r, a, alone) == /\ r.auth \in Nat /\ r.auth <= a.auth /\ r.pass \in Nat
                      /\ alone /\ r.auth = a.auth => r.pass = a.pass
AllLetIn == \A s \in Slots : req[s] # Idle => LetIn(req[s], acct, serial)
OneLogin == serial => \A s, t \in Slots : req[s] # Idle /\ req[t] # Idle => s = t

AccountInv == /\ AccountTyped /\ SeenAtStart /\ AllLetIn /\ OneLogin
              /\ Account!NewPasswordEndsOthers

LEMMA InitAccount == Account!Init => AccountInv
  <1> SUFFICES ASSUME Account!Init PROVE AccountInv
    OBVIOUS
  <1>1. acct \in AccountRecords /\ acct.auth = 1
    <2>1. [active : {TRUE}, auth : {1}, pass : {1}, temp : {"NONE"},
           totp : {"NONE", "CONFIRMED"}, must : BOOLEAN, codes : {0}] \subseteq AccountRecords
      <3>1. /\ {TRUE} \subseteq BOOLEAN /\ {1} \subseteq Nat /\ {"NONE"} \subseteq {"NONE", "VALID"}
            /\ {"NONE", "CONFIRMED"} \subseteq {"NONE", "PENDING", "CONFIRMED"} /\ {0} \subseteq {0, 1}
        OBVIOUS
      <3> QED
        BY <3>1, Zenon DEF AccountRecords
    <2>2. acct.auth = 1
      BY DEF Account!Init
    <2> QED
      BY <2>1, <2>2 DEF Account!Init
  <1>2. Account!None \in SessionRecords /\ Account!None.seen = 0 /\ Account!None.auth = 0
        /\ Account!None.state = "NONE"
    BY DEF Account!None, SessionRecords
  <1>3. sess \in [Sessions -> SessionRecords] /\ \A x \in Sessions : sess[x] = Account!None
    BY <1>2 DEF Account!Init
  <1>4. DOMAIN req = Slots /\ \A s \in Slots : req[s] = Idle
    BY DEF Account!Init
  <1> QED
    BY <1>1, <1>2, <1>3, <1>4 DEF AccountInv, AccountTyped, SeenAtStart, AllLetIn, OneLogin,
       Account!NewPasswordEndsOthers, Account!Usable

LEMMA RevokedFacts ==
    ASSUME NEW S \in [Sessions -> SessionRecords], NEW X
    PROVE  /\ Account!Revoked(S, X) \in [Sessions -> SessionRecords]
           /\ \A x \in Sessions :
                 LET y == Account!Revoked(S, X)[x] IN
                 /\ y.auth = S[x].auth /\ y.pass = S[x].pass /\ y.seen = S[x].seen
                 /\ y.state = "LIVE" => S[x].state = "LIVE" /\ x \notin X
  <1> SUFFICES ASSUME NEW x \in Sessions
               PROVE  LET y == Account!Revoked(S, X)[x] IN
                      /\ y \in SessionRecords
                      /\ y.auth = S[x].auth /\ y.pass = S[x].pass /\ y.seen = S[x].seen
                      /\ y.state = "LIVE" => S[x].state = "LIVE" /\ x \notin X
    BY DEF Account!Revoked
  <1>1. PICK z : z = [S[x] EXCEPT !.state = "REVOKED"]
    OBVIOUS
  <1>2. /\ z \in SessionRecords /\ z.auth = S[x].auth /\ z.pass = S[x].pass /\ z.seen = S[x].seen
        /\ z.state = "REVOKED"
    BY <1>1 DEF SessionRecords
  <1>3. Account!Revoked(S, X)[x] = IF x \in X /\ S[x].state = "LIVE" THEN z ELSE S[x]
    BY <1>1 DEF Account!Revoked
  <1> QED
    BY <1>2, <1>3

LEMMA CreatedFacts ==
    ASSUME NEW S \in [Sessions -> SessionRecords], NEW r, r.auth \in Nat, r.pass \in Nat,
           NEW level \in 0 .. 2, NEW T \in Account!Created(S, r, level)
    PROVE  /\ T \in [Sessions -> SessionRecords]
           /\ \E n \in Sessions :
                 /\ T[n].auth = r.auth /\ T[n].pass = r.pass /\ T[n].seen = r.auth
                 /\ \A x \in Sessions : x # n => T[x] = S[x]
  <1>1. PICK n \in Account!New(S) : T = [S EXCEPT ![n] = [state |-> "LIVE", auth |-> r.auth,
                                            level |-> level, pass |-> r.pass, seen |-> r.auth]]
    BY DEF Account!Created
  <1>2. n \in Sessions
    BY DEF Account!New, Account!Unused
  <1>3. PICK z : z = [state |-> "LIVE", auth |-> r.auth, level |-> level, pass |-> r.pass, seen |-> r.auth]
    OBVIOUS
  <1>4. z \in SessionRecords /\ z.auth = r.auth /\ z.pass = r.pass /\ z.seen = r.auth
    BY <1>3 DEF SessionRecords
  <1> QED
    BY <1>1, <1>2, <1>3, <1>4

\* A request that is done leaves the others as they were.
LEMMA DoneLetIn ==
    ASSUME AccountInv, NEW s \in Slots, req[s] # Idle, Account!End(s), UNCHANGED serial,
           acct'.auth = acct.auth
    PROVE  DOMAIN req' = Slots /\ AllLetIn' /\ OneLogin'
  <1>1. DOMAIN req' = Slots /\ \A t \in Slots : req'[t] = IF t = s THEN Idle ELSE req[t]
    BY DEF Account!End, AccountInv, AccountTyped
  <1>2. OneLogin'
    BY <1>1 DEF AccountInv, OneLogin
  <1>3. ASSUME NEW t \in Slots, req'[t] # Idle PROVE LetIn(req'[t], acct', serial')
    <2>1. t # s /\ req'[t] = req[t] /\ LetIn(req[t], acct, serial)
      BY <1>1, <1>3 DEF AccountInv, AllLetIn
    <2>2. ~serial
      BY <1>1, <1>3, <2>1 DEF AccountInv, OneLogin
    <2> QED
      BY <2>1, <2>2 DEF LetIn
  <1> QED
    BY <1>1, <1>2, <1>3 DEF AllLetIn

LEMMA BeginKeepsAccount ==
    ASSUME AccountInv, NEW s \in Slots, Account!Free(s), Account!Begin(s) PROVE AccountInv'
  <1>1. PICK r : /\ Account!Start(s, r) /\ r.auth = acct.auth /\ r.pass = acct.pass
    <2>1. ASSUME NEW op, NEW x, NEW kind,
                 Account!Start(s, [op |-> op, sess |-> x, auth |-> acct.auth, pass |-> acct.pass, kind |-> kind])
          PROVE  \E r : Account!Start(s, r) /\ r.auth = acct.auth /\ r.pass = acct.pass
      BY <2>1
    <2> QED
      BY <2>1, Zenon DEF Account!Begin, Account!BeginRequest, Account!BeginLogin
  <1>2. UNCHANGED <<acct, sess, changer, serial>>
    BY DEF Account!Begin, Account!BeginRequest, Account!BeginLogin, Account!bounds
  <1>3. DOMAIN req' = Slots /\ \A t \in Slots : req'[t] = IF t = s THEN r ELSE req[t]
    BY <1>1 DEF Account!Start, AccountInv, AccountTyped
  <1>4. acct.auth \in Nat /\ acct.pass \in Nat
    BY DEF AccountInv, AccountTyped, AccountRecords
  <1>5. AllLetIn'
    BY <1>1, <1>2, <1>3, <1>4 DEF AllLetIn, LetIn, AccountInv
  <1>6. OneLogin'
    BY <1>2, <1>3 DEF OneLogin, Account!Free
  <1>7. AccountTyped' /\ SeenAtStart' /\ Account!NewPasswordEndsOthers'
    BY <1>2, <1>3 DEF AccountInv, AccountTyped, SeenAtStart, Account!NewPasswordEndsOthers, Account!Usable
  <1> QED
    BY <1>5, <1>6, <1>7 DEF AccountInv

\* A request that creates a session, having ended some.
LEMMA CreateKeeps ==
    ASSUME AccountInv, NEW s \in Slots, req[s] # Idle, Account!End(s), UNCHANGED <<changer, serial>>,
           acct' \in AccountRecords, acct'.auth = acct.auth, acct'.pass = acct.pass,
           acct'.active = acct.active, NEW X, NEW level \in 0 .. 2,
           sess' \in Account!Created(Account!Revoked(sess, X), req[s], level)
             \/ sess' \in Account!Created(sess, req[s], level)
    PROVE  AccountInv'
  <1>1. LetIn(req[s], acct, serial)
    BY DEF AccountInv, AllLetIn
  <1>2. PICK S \in [Sessions -> SessionRecords] :
            /\ sess' \in Account!Created(S, req[s], level)
            /\ \A x \in Sessions : /\ S[x].auth = sess[x].auth /\ S[x].pass = sess[x].pass
                                   /\ S[x].seen = sess[x].seen
                                   /\ S[x].state = "LIVE" => sess[x].state = "LIVE"
    BY RevokedFacts DEF AccountInv, AccountTyped
  <1>3. PICK n \in Sessions : /\ sess' \in [Sessions -> SessionRecords]
                              /\ sess'[n].auth = req[s].auth /\ sess'[n].pass = req[s].pass
                              /\ sess'[n].seen = req[s].auth
                              /\ \A x \in Sessions : x # n => sess'[x] = S[x]
    BY <1>1, <1>2, CreatedFacts DEF LetIn
  <1>4. DOMAIN req' = Slots /\ AllLetIn' /\ OneLogin'
    BY DoneLetIn
  <1>5. AccountTyped' /\ SeenAtStart'
    BY <1>1, <1>2, <1>3, <1>4 DEF AccountInv, AccountTyped, SeenAtStart, LetIn
  <1>6. ASSUME serial, NEW x \in Sessions, sess'[x].state = "LIVE", acct'.active,
               sess'[x].auth = acct'.auth, sess'[x].pass < acct'.pass
        PROVE  x \in changer
    <2>1. x # n
      BY <1>1, <1>3, <1>6 DEF LetIn, AccountInv, AccountTyped, AccountRecords
    <2> QED
      BY <1>2, <1>3, <1>6, <2>1 DEF AccountInv, Account!NewPasswordEndsOthers, Account!Usable
  <1>7. Account!NewPasswordEndsOthers'
    BY <1>6 DEF Account!NewPasswordEndsOthers, Account!Usable
  <1> QED
    BY <1>4, <1>5, <1>7 DEF AccountInv

\* A request that ends sessions, and may set the password if only its own is left.
LEMMA RevokeKeeps ==
    ASSUME AccountInv, NEW s \in Slots, req[s] # Idle, Account!End(s), UNCHANGED serial,
           acct' \in AccountRecords, acct'.auth = acct.auth, acct'.active = acct.active,
           NEW X, sess' = Account!Revoked(sess, X) \/ sess' = sess,
           \/ acct'.pass = acct.pass /\ changer' = changer
           \/ sess' = Account!Revoked(sess, X) /\ Sessions \ X \subseteq changer'
    PROVE  AccountInv'
  <1>1. /\ sess' \in [Sessions -> SessionRecords]
        /\ \A x \in Sessions : /\ sess'[x].auth = sess[x].auth /\ sess'[x].pass = sess[x].pass
                               /\ sess'[x].seen = sess[x].seen
                               /\ sess'[x].state = "LIVE" => sess[x].state = "LIVE"
                               /\ sess' = Account!Revoked(sess, X) /\ sess'[x].state = "LIVE" => x \notin X
    BY RevokedFacts DEF AccountInv, AccountTyped
  <1>2. DOMAIN req' = Slots /\ AllLetIn' /\ OneLogin'
    BY DoneLetIn
  <1>3. AccountTyped' /\ SeenAtStart'
    BY <1>1, <1>2 DEF AccountInv, AccountTyped, SeenAtStart
  <1>4. Account!NewPasswordEndsOthers'
    BY <1>1 DEF AccountInv, Account!NewPasswordEndsOthers, Account!Usable
  <1> QED
    BY <1>2, <1>3, <1>4 DEF AccountInv

LEMMA ProceedKeepsAccount ==
    ASSUME AccountInv, NEW s \in Slots, Account!Proceed(s) PROVE AccountInv'
  <1>1. acct \in AccountRecords /\ req[s] # Idle /\ UNCHANGED serial /\ Account!End(s)
    BY DEF AccountInv, AccountTyped, Account!Proceed, Account!CommitLogin, Account!FirstLogin,
       Account!StartTotp, Account!Verify, Account!ChangePassword, Account!EndSessions, Account!Fails,
       Account!At, Account!bounds
  <1>2. CASE Account!CommitLogin(s)
    <2>1. PICK level \in 0 .. 2 : sess' \in Account!Created(sess, req[s], level)
      BY <1>2 DEF Account!CommitLogin
    <2> QED
      BY <1>1, <1>2, <2>1, CreateKeeps DEF Account!CommitLogin
  <1>3. CASE Account!Verify(s)
    <2>1. acct' \in AccountRecords /\ acct'.auth = acct.auth /\ acct'.pass = acct.pass
          /\ acct'.active = acct.active
      <3>1. CASE acct' = [acct EXCEPT !.totp = "CONFIRMED", !.must = FALSE, !.codes = 1]
        BY <1>1, <3>1 DEF AccountRecords
      <3>2. CASE acct' = [acct EXCEPT !.codes = 0]
        BY <1>1, <3>2 DEF AccountRecords
      <3>3. CASE acct' = acct
        BY <1>1, <3>3
      <3> QED
        BY <1>3, <3>1, <3>2, <3>3 DEF Account!Verify
    <2>2. sess' \in Account!Created(Account!Revoked(sess, {req[s].sess}), req[s], 2)
      BY <1>3 DEF Account!Verify, Account!Rotated
    <2> QED
      BY <1>1, <1>3, <2>1, <2>2, CreateKeeps DEF Account!Verify
  <1>4. CASE Account!FirstLogin(s)
    <2>1. PICK n \in Nat : n = acct.pass + 1
      BY <1>1 DEF AccountRecords
    <2>4. PICK a : a = [acct EXCEPT !.pass = n, !.temp = "NONE"]
      OBVIOUS
    <2>2. a \in AccountRecords /\ a.auth = acct.auth /\ a.active = acct.active
      BY <1>1, <2>4 DEF AccountRecords
    <2>3. acct' = a /\ sess' = Account!Revoked(sess, Sessions) /\ Sessions \ Sessions \subseteq changer'
      BY <1>4, <2>1, <2>4 DEF Account!FirstLogin
    <2> QED
      BY <1>1, <2>2, <2>3, RevokeKeeps
  <1>5. CASE Account!ChangePassword(s)
    <2>1. PICK a : a = [acct EXCEPT !.pass = @ + 1]
      OBVIOUS
    <2>2. a \in AccountRecords /\ a.auth = acct.auth /\ a.active = acct.active
      BY <1>1, <2>1 DEF AccountRecords
    <2>3. PICK X : X = Sessions \ {req[s].sess}
      OBVIOUS
    <2>4. acct' = a /\ sess' = Account!Revoked(sess, X) /\ Sessions \ X \subseteq changer'
      BY <1>5, <2>1, <2>3 DEF Account!ChangePassword
    <2> QED
      BY <1>1, <2>2, <2>4, RevokeKeeps
  <1>6. CASE Account!StartTotp(s)
    <2>1. acct' \in AccountRecords /\ acct'.auth = acct.auth /\ acct'.pass = acct.pass
          /\ acct'.active = acct.active
      BY <1>1, <1>6 DEF Account!StartTotp, AccountRecords
    <2> QED
      BY <1>1, <1>6, <2>1, RevokeKeeps DEF Account!StartTotp
  <1>7. CASE Account!EndSessions(s)
    BY <1>1, <1>7, RevokeKeeps DEF Account!EndSessions
  <1>8. CASE Account!Fails(s)
    BY <1>1, <1>8, RevokeKeeps DEF Account!Fails
  <1> QED
    BY <1>2, <1>3, <1>4, <1>5, <1>6, <1>7, <1>8 DEF Account!Proceed

\* From outside: a new version of the account, which no session and no request has.
LEMMA NewVersionKeeps ==
    ASSUME AccountInv, UNCHANGED <<changer, req, serial>>,
           acct' \in AccountRecords, acct'.auth = acct.auth + 1,
           sess' = Account!Revoked(sess, Sessions) \/ sess' = sess
    PROVE  AccountInv'
  <1>1. acct.auth \in Nat
    BY DEF AccountInv, AccountTyped, AccountRecords
  <1>2. /\ sess' \in [Sessions -> SessionRecords]
        /\ \A x \in Sessions : sess'[x].auth = sess[x].auth /\ sess'[x].seen = sess[x].seen
    BY RevokedFacts DEF AccountInv, AccountTyped
  <1>3. \A x \in Sessions : sess'[x].auth \in Nat /\ sess'[x].auth < acct'.auth
    BY <1>1, <1>2 DEF AccountInv, SeenAtStart, SessionRecords
  <1>4. AccountTyped' /\ SeenAtStart' /\ OneLogin'
    BY <1>1, <1>2, <1>3 DEF AccountInv, AccountTyped, SeenAtStart, OneLogin
  <1>5. AllLetIn'
    BY <1>1 DEF AccountInv, AllLetIn, LetIn
  <1>6. Account!NewPasswordEndsOthers'
    BY <1>1, <1>3 DEF Account!NewPasswordEndsOthers, Account!Usable
  <1> QED
    BY <1>4, <1>5, <1>6 DEF AccountInv

LEMMA OutsideKeepsAccount ==
    ASSUME AccountInv,
           Account!IssueTemporary \/ Account!DevReset \/ Account!UpdateUser \/ Account!Expire
    PROVE  AccountInv'
  <1>1. acct \in AccountRecords
    BY DEF AccountInv, AccountTyped
  <1>7. PICK n \in Nat : n = acct.auth + 1
    BY <1>1 DEF AccountRecords
  <1>2. UNCHANGED <<changer, req, serial>>
    BY Zenon DEF Account!IssueTemporary, Account!DevReset, Account!UpdateUser, Account!Expire
  <1>3. CASE Account!IssueTemporary
    <2>1. PICK recover \in BOOLEAN :
              acct' = [acct EXCEPT !.temp = "VALID", !.auth = @ + 1,
                                   !.active = @ \/ recover, !.must = @ \/ recover]
      BY <1>3, Zenon DEF Account!IssueTemporary
    <2>2. PICK active \in BOOLEAN : active = (acct.active \/ recover)
      OBVIOUS
    <2>3. PICK must \in BOOLEAN : must = (acct.must \/ recover)
      OBVIOUS
    <2>4. PICK a : a = [acct EXCEPT !.temp = "VALID", !.auth = n, !.active = active, !.must = must]
      OBVIOUS
    <2>5. a \in AccountRecords
      BY <1>1, <2>4 DEF AccountRecords
    <2>6. a.auth = acct.auth + 1
      BY <1>1, <1>7, <2>4 DEF AccountRecords
    <2>7. acct' = a
      BY <1>7, <2>1, <2>2, <2>3, <2>4
    <2>8. sess' = Account!Revoked(sess, Sessions)
      BY <1>3, Zenon DEF Account!IssueTemporary
    <2> QED
      BY <1>2, <2>5, <2>6, <2>7, <2>8, NewVersionKeeps
  <1>4. CASE Account!DevReset
    <2>1. PICK p \in Nat : p = acct.pass + 1
      BY <1>1 DEF AccountRecords
    <2>2. PICK a : a = [acct EXCEPT !.temp = "NONE", !.totp = "NONE", !.codes = 0, !.must = FALSE,
                                    !.pass = p, !.auth = n]
      OBVIOUS
    <2>3. a \in AccountRecords
      BY <1>1, <2>2 DEF AccountRecords
    <2>4. a.auth = acct.auth + 1
      BY <1>1, <1>7, <2>2 DEF AccountRecords
    <2>5. acct' = a /\ sess' = Account!Revoked(sess, Sessions)
      BY <1>4, <1>7, <2>1, <2>2, Zenon DEF Account!DevReset
    <2> QED
      BY <1>2, <2>3, <2>4, <2>5, NewVersionKeeps
  <1>5. CASE Account!UpdateUser
    <2>1. PICK active \in BOOLEAN :
              /\ acct' = [acct EXCEPT !.active = active, !.auth = @ + 1]
              /\ sess' = Account!Revoked(sess, Sessions) \/ sess' = sess
      BY <1>5, Zenon DEF Account!UpdateUser
    <2>2. PICK a : a = [acct EXCEPT !.active = active, !.auth = n]
      OBVIOUS
    <2>3. a \in AccountRecords
      BY <1>1, <2>2 DEF AccountRecords
    <2>4. a.auth = acct.auth + 1
      BY <1>1, <1>7, <2>2 DEF AccountRecords
    <2>5. acct' = a
      BY <1>7, <2>1, <2>2
    <2> QED
      BY <1>2, <2>1, <2>3, <2>4, <2>5, NewVersionKeeps
  <1>6. CASE Account!Expire
    <2>1. /\ acct' \in AccountRecords /\ acct'.auth = acct.auth /\ acct'.pass = acct.pass
          /\ acct'.active = acct.active
      BY <1>1, <1>6 DEF AccountRecords, Account!Expire
    <2>2. /\ sess' \in [Sessions -> SessionRecords]
          /\ \A x \in Sessions : /\ sess'[x].auth = sess[x].auth /\ sess'[x].pass = sess[x].pass
                                 /\ sess'[x].seen = sess[x].seen
                                 /\ sess'[x].state = "LIVE" => sess[x].state = "LIVE"
      <3>1. sess' = sess \/ \E x \in Sessions : sess' = Account!Revoked(sess, {x})
        BY <1>6, Zenon DEF Account!Expire
      <3>2. sess \in [Sessions -> SessionRecords]
        BY DEF AccountInv, AccountTyped
      <3>3. CASE sess' = sess
        BY <3>2, <3>3
      <3>4. ASSUME NEW y \in Sessions, sess' = Account!Revoked(sess, {y})
            PROVE  /\ sess' \in [Sessions -> SessionRecords]
                   /\ \A x \in Sessions : /\ sess'[x].auth = sess[x].auth /\ sess'[x].pass = sess[x].pass
                                          /\ sess'[x].seen = sess[x].seen
                                          /\ sess'[x].state = "LIVE" => sess[x].state = "LIVE"
        BY <3>2, <3>4, RevokedFacts
      <3> QED
        BY <3>1, <3>3, <3>4
    <2>3. AccountTyped' /\ SeenAtStart' /\ OneLogin'
      BY <1>2, <2>1, <2>2 DEF AccountInv, AccountTyped, SeenAtStart, OneLogin
    <2>4. AllLetIn'
      BY <1>2, <2>1 DEF AccountInv, AllLetIn, LetIn
    <2>5. Account!NewPasswordEndsOthers'
      BY <1>2, <2>1, <2>2 DEF AccountInv, Account!NewPasswordEndsOthers, Account!Usable
    <2> QED
      BY <2>3, <2>4, <2>5 DEF AccountInv
  <1> QED
    BY <1>3, <1>4, <1>5, <1>6

LEMMA StepKeepsAccount == AccountInv /\ (Account!Next \/ UNCHANGED Account!vars) => AccountInv'
  <1>1. AccountInv /\ UNCHANGED Account!vars => AccountInv'
    BY DEF Account!vars, AccountInv, AccountTyped, SeenAtStart, AllLetIn, LetIn, OneLogin,
           Account!NewPasswordEndsOthers, Account!Usable
  <1> QED
    BY <1>1, BeginKeepsAccount, ProceedKeepsAccount, OutsideKeepsAccount DEF Account!Next

\* Logins, first logins, second factors, changed and reset passwords: a session the
\* guard lets in began after the last change from outside, and without overlapping
\* requests a new password leaves only the session that has set it.
THEOREM SessionsSound == Spec => []SessionsEnd
  <1> DEFINE Inv == focus = "accounts" => AccountInv
  <1>1. Init => Inv
    BY InitAccount DEF Init
  <1>2. Inv /\ [Next]_vars => Inv'
    BY StepKeepsAccount DEF Next, vars, slots, Account!vars, from5, from7, from8
  <1>3. Inv => SessionsEnd
    BY DEF AccountInv, SeenAtStart, SessionsEnd, Account!SessionsEnd, Account!ResetEndsAll, Account!Usable
  <1> QED
    BY <1>1, <1>2, <1>3, PTL DEF Spec

-----------------------------------------------------------------------------
(* The counters of an account and the versions in its sessions.  A password *)
(* is set by a request that ends or from outside, so that it is never newer *)
(* than the requests that have ended and what was done from outside.        *)

outside == x4
USE DEF outside

Busy == {s \in Slots : req[s] # Idle}

AccountCounts ==
    /\ started \in 0 .. AccountRequests /\ outside \in 0 .. AccountActs
    /\ 1 <= acct.auth /\ acct.auth <= outside + 1 /\ 1 <= acct.pass
    /\ IsFiniteSet(Busy) /\ acct.pass + Cardinality(Busy) <= started + outside + 1
    /\ \A x \in Sessions : sess[x].pass <= acct.pass
    /\ \A s \in Busy : req[s].pass <= acct.pass /\ (req[s].op = "changePassword" => req[s].sess \in Sessions)
    /\ changer \subseteq Sessions

LEMMA InitCounts == CountsAssumption /\ Account!Init => AccountCounts
  <1> SUFFICES ASSUME CountsAssumption, Account!Init PROVE AccountCounts
    OBVIOUS
  <1>1. Busy = {}
    BY DEF Busy, Account!Init
  <1>2. IsFiniteSet(Busy) /\ Cardinality(Busy) = 0
    BY <1>1, FS_EmptySet
  <1>3. acct.auth = 1 /\ acct.pass = 1
    BY DEF Account!Init
  <1>4. \A x \in Sessions : sess[x].pass = 0
    BY DEF Account!Init, Account!None
  <1> QED
    BY <1>1, <1>2, <1>3, <1>4 DEF AccountCounts, Account!Init, CountsAssumption

\* The sessions after a request: some are ended, and one may be new.
LEMMA SessionsAfter ==
    ASSUME AccountInv, AccountCounts, NEW s \in Slots, Account!Proceed(s)
    PROVE  \A x \in Sessions : sess'[x].pass <= acct.pass
  <1>1. /\ sess \in [Sessions -> SessionRecords] /\ req[s] # Idle /\ req[s].pass <= acct.pass
        /\ req[s].auth \in Nat /\ req[s].pass \in Nat
    BY DEF AccountInv, AccountTyped, AllLetIn, LetIn, AccountCounts, Busy, Account!Proceed, Account!CommitLogin,
       Account!FirstLogin, Account!StartTotp, Account!Verify, Account!ChangePassword, Account!EndSessions,
       Account!Fails, Account!At
  <1>2. ASSUME NEW S \in [Sessions -> SessionRecords], \A x \in Sessions : S[x].pass <= acct.pass,
               NEW level \in 0 .. 2, sess' \in Account!Created(S, req[s], level)
        PROVE  \A x \in Sessions : sess'[x].pass <= acct.pass
    BY <1>1, <1>2, CreatedFacts
  <1>3. \A X : /\ Account!Revoked(sess, X) \in [Sessions -> SessionRecords]
               /\ \A x \in Sessions : Account!Revoked(sess, X)[x].pass <= acct.pass
    BY <1>1, RevokedFacts DEF AccountCounts
  <1>4. CASE Account!CommitLogin(s)
    <2>1. PICK level \in 0 .. 2 : sess' \in Account!Created(sess, req[s], level)
      BY <1>4 DEF Account!CommitLogin
    <2> QED
      BY <1>1, <1>2, <2>1 DEF AccountCounts
  <1>5. CASE Account!Verify(s)
    <2>1. sess' \in Account!Created(Account!Revoked(sess, {req[s].sess}), req[s], 2)
      BY <1>5 DEF Account!Verify, Account!Rotated
    <2> QED
      BY <1>2, <1>3, <2>1
  <1>6. CASE sess' = sess \/ \E X : sess' = Account!Revoked(sess, X)
    BY <1>3, <1>6 DEF AccountCounts
  <1> QED
    BY <1>4, <1>5, <1>6 DEF Account!Proceed, Account!FirstLogin, Account!StartTotp, Account!ChangePassword,
       Account!EndSessions, Account!Fails

LEMMA AccountAfter ==
    ASSUME AccountInv, AccountCounts, NEW s \in Slots, Account!Proceed(s)
    PROVE  /\ acct'.auth = acct.auth /\ (acct'.pass = acct.pass \/ acct'.pass = acct.pass + 1)
           /\ changer' \subseteq Sessions
  <1>1. acct \in AccountRecords /\ changer \subseteq Sessions
    BY DEF AccountInv, AccountTyped, AccountCounts
  <1>2. PICK n \in Nat : n = acct.pass + 1
    BY <1>1 DEF AccountRecords
  <1>3. CASE Account!FirstLogin(s)
    <2>1. PICK a : a = [acct EXCEPT !.pass = n, !.temp = "NONE"]
      OBVIOUS
    <2>2. a.auth = acct.auth /\ a.pass = acct.pass + 1
      BY <1>1, <1>2, <2>1 DEF AccountRecords
    <2>3. acct' = a /\ changer' = {}
      BY <1>2, <1>3, <2>1 DEF Account!FirstLogin
    <2> QED
      BY <2>2, <2>3
  <1>4. CASE Account!ChangePassword(s)
    <2>1. PICK a : a = [acct EXCEPT !.pass = @ + 1]
      OBVIOUS
    <2>2. a.auth = acct.auth /\ a.pass = acct.pass + 1
      BY <1>1, <2>1 DEF AccountRecords
    <2>3. acct' = a /\ changer' = {req[s].sess} /\ req[s].sess \in Sessions
      BY <1>4, <2>1 DEF Account!ChangePassword, Account!At, AccountCounts, Busy
    <2> QED
      BY <2>2, <2>3
  <1>5. CASE Account!StartTotp(s)
    BY <1>1, <1>5 DEF Account!StartTotp, AccountRecords
  <1>6. CASE Account!Verify(s)
    <2>1. \/ acct' = [acct EXCEPT !.totp = "CONFIRMED", !.must = FALSE, !.codes = 1]
          \/ acct' = [acct EXCEPT !.codes = 0] \/ acct' = acct
      BY <1>6 DEF Account!Verify
    <2> QED
      BY <1>1, <1>6, <2>1 DEF Account!Verify, AccountRecords
  <1>7. CASE Account!CommitLogin(s) \/ Account!EndSessions(s) \/ Account!Fails(s)
    BY <1>1, <1>7 DEF Account!CommitLogin, Account!EndSessions, Account!Fails
  <1> QED
    BY <1>3, <1>4, <1>5, <1>6, <1>7 DEF Account!Proceed

LEMMA OutsideAfter ==
    ASSUME AccountInv, AccountCounts,
           Account!IssueTemporary \/ Account!DevReset \/ Account!UpdateUser \/ Account!Expire
    PROVE  /\ outside < AccountActs /\ outside' = outside + 1 /\ UNCHANGED <<changer, req, started>>
           /\ acct'.auth = acct.auth \/ acct'.auth = acct.auth + 1
           /\ acct'.pass = acct.pass \/ acct'.pass = acct.pass + 1
           /\ \A x \in Sessions : sess'[x].pass <= acct.pass
  <1>1. acct \in AccountRecords /\ sess \in [Sessions -> SessionRecords]
    BY DEF AccountInv, AccountTyped
  <1>2. outside < AccountActs /\ outside' = outside + 1 /\ UNCHANGED <<changer, req, started>>
    BY Zenon DEF Account!IssueTemporary, Account!DevReset, Account!UpdateUser, Account!Expire, Account!Outside
  <1>3. \A x \in Sessions : sess'[x].pass <= acct.pass
    <2>1. sess' = sess \/ \E X : sess' = Account!Revoked(sess, X)
      BY Zenon DEF Account!IssueTemporary, Account!DevReset, Account!UpdateUser, Account!Expire
    <2> QED
      BY <1>1, <2>1, RevokedFacts DEF AccountCounts
  <1>4. PICK n \in Nat : n = acct.auth + 1
    BY <1>1 DEF AccountRecords
  <1>5. PICK p \in Nat : p = acct.pass + 1
    BY <1>1 DEF AccountRecords
  <1>6. CASE Account!IssueTemporary
    <2>1. PICK recover \in BOOLEAN :
              acct' = [acct EXCEPT !.temp = "VALID", !.auth = @ + 1,
                                   !.active = @ \/ recover, !.must = @ \/ recover]
      BY <1>6, Zenon DEF Account!IssueTemporary
    <2>2. PICK active \in BOOLEAN : active = (acct.active \/ recover)
      OBVIOUS
    <2>3. PICK must \in BOOLEAN : must = (acct.must \/ recover)
      OBVIOUS
    <2>4. PICK a : a = [acct EXCEPT !.temp = "VALID", !.auth = n, !.active = active, !.must = must]
      OBVIOUS
    <2>5. a.auth = acct.auth + 1 /\ a.pass = acct.pass
      BY <1>1, <1>4, <2>4 DEF AccountRecords
    <2>6. acct' = a
      BY <1>4, <2>1, <2>2, <2>3, <2>4
    <2> QED
      BY <1>2, <1>3, <2>5, <2>6
  <1>7. CASE Account!DevReset
    <2>1. PICK a : a = [acct EXCEPT !.temp = "NONE", !.totp = "NONE", !.codes = 0, !.must = FALSE,
                                    !.pass = p, !.auth = n]
      OBVIOUS
    <2>2. a.auth = acct.auth + 1 /\ a.pass = acct.pass + 1
      BY <1>1, <1>4, <1>5, <2>1 DEF AccountRecords
    <2>3. acct' = a
      BY <1>4, <1>5, <1>7, <2>1, Zenon DEF Account!DevReset
    <2> QED
      BY <1>2, <1>3, <2>2, <2>3
  <1>8. CASE Account!UpdateUser
    <2>1. PICK active \in BOOLEAN : acct' = [acct EXCEPT !.active = active, !.auth = @ + 1]
      BY <1>8, Zenon DEF Account!UpdateUser
    <2>2. PICK a : a = [acct EXCEPT !.active = active, !.auth = n]
      OBVIOUS
    <2>3. a.auth = acct.auth + 1 /\ a.pass = acct.pass
      BY <1>1, <1>4, <2>2 DEF AccountRecords
    <2>4. acct' = a
      BY <1>4, <2>1, <2>2
    <2> QED
      BY <1>2, <1>3, <2>3, <2>4
  <1>9. CASE Account!Expire
    <2>1. acct'.auth = acct.auth /\ acct'.pass = acct.pass
      BY <1>1, <1>9 DEF AccountRecords, Account!Expire
    <2> QED
      BY <1>2, <1>3, <2>1
  <1> QED
    BY <1>6, <1>7, <1>8, <1>9

LEMMA StepKeepsCounts ==
    ASSUME CountsAssumption, AccountInv, AccountCounts, Account!Next \/ UNCHANGED Account!vars
    PROVE  AccountCounts'
  <1>1. /\ AccountRequests \in Nat /\ AccountActs \in Nat /\ started \in Nat /\ outside \in Nat
        /\ started <= AccountRequests /\ outside <= AccountActs /\ IsFiniteSet(Busy) /\ Cardinality(Busy) \in Nat
        /\ acct.auth \in Nat /\ acct.pass \in Nat /\ acct.pass + Cardinality(Busy) <= started + outside + 1
        /\ 1 <= acct.auth /\ 1 <= acct.pass /\ acct.auth <= outside + 1 /\ DOMAIN req = Slots
        /\ \A x \in Sessions : sess[x].pass \in Nat /\ sess[x].pass <= acct.pass
        /\ \A s \in Busy : req[s].pass \in Nat /\ req[s].pass <= acct.pass
    BY FS_CardinalityType DEF AccountCounts, CountsAssumption, AccountInv, AccountTyped, AccountRecords,
       SessionRecords, AllLetIn, LetIn, Busy
  <1>2. ASSUME NEW s \in Slots, Account!Free(s), Account!Begin(s) PROVE AccountCounts'
    <2>1. PICK r : Account!Start(s, r) /\ r.pass = acct.pass /\ (r.op = "changePassword" => r.sess \in Sessions)
      <3>1. CASE Account!BeginRequest(s)
        <4>1. PICK x \in Sessions, op \in Account!Handlers :
                  Account!Start(s, [op |-> op, sess |-> x, auth |-> acct.auth, pass |-> acct.pass, kind |-> "PASSWORD"])
          BY <3>1, Zenon DEF Account!BeginRequest
        <4>2. PICK r : r = [op |-> op, sess |-> x, auth |-> acct.auth, pass |-> acct.pass, kind |-> "PASSWORD"]
          OBVIOUS
        <4> QED
          BY <4>1, <4>2
      <3>2. CASE Account!BeginLogin(s)
        <4>1. PICK kind : Account!Start(s, [op |-> "login", sess |-> Idle, auth |-> acct.auth,
                                            pass |-> acct.pass, kind |-> kind])
          BY <3>2, Zenon DEF Account!BeginLogin
        <4>2. PICK r : r = [op |-> "login", sess |-> Idle, auth |-> acct.auth, pass |-> acct.pass, kind |-> kind]
          OBVIOUS
        <4> QED
          BY <4>1, <4>2
      <3> QED
        BY <1>2, <3>1, <3>2 DEF Account!Begin
    <2>2. UNCHANGED <<acct, sess, changer, outside>> /\ started' = started + 1 /\ started < AccountRequests
      BY <1>2, <2>1 DEF Account!Begin, Account!BeginRequest, Account!BeginLogin, Account!bounds, Account!Start,
         Account!Free
    <2>3. \A t \in Slots : req'[t] = IF t = s THEN r ELSE req[t]
      BY <1>1, <2>1 DEF Account!Start
    <2>4. IsFiniteSet(Busy') /\ Cardinality(Busy') <= Cardinality(Busy) + 1 /\ Cardinality(Busy') \in Nat
      <3>1. IsFiniteSet(Busy \cup {s}) /\ Cardinality(Busy \cup {s}) = Cardinality(Busy) + 1
        BY <1>1, <1>2, FS_AddElement DEF Busy, Account!Free
      <3>2. Busy' \subseteq Busy \cup {s}
        BY <2>3 DEF Busy
      <3> QED
        BY <3>1, <3>2, FS_Subset, FS_CardinalityType
    <2>5. \A t \in Busy' : req'[t].pass <= acct.pass /\ (req'[t].op = "changePassword" => req'[t].sess \in Sessions)
      BY <1>1, <2>1, <2>3 DEF Busy, AccountCounts
    <2> QED
      BY <1>1, <2>2, <2>4, <2>5 DEF AccountCounts
  <1>3. ASSUME NEW s \in Slots, Account!Proceed(s) PROVE AccountCounts'
    <2>1. req[s] # Idle /\ Account!End(s) /\ UNCHANGED outside
      BY <1>3 DEF Account!Proceed, Account!CommitLogin, Account!FirstLogin, Account!StartTotp, Account!Verify,
         Account!ChangePassword, Account!EndSessions, Account!Fails, Account!At, Account!bounds
    <2>2. started' = started /\ \A t \in Slots : req'[t] = IF t = s THEN Idle ELSE req[t]
      BY <1>1, <2>1 DEF Account!End
    <2>3. Busy' = Busy \ {s} /\ s \in Busy
      BY <2>1, <2>2 DEF Busy
    <2>4. IsFiniteSet(Busy') /\ Cardinality(Busy') = Cardinality(Busy) - 1
      BY <1>1, <2>3, FS_RemoveElement
    <2>5. \A t \in Busy' : t # s /\ req'[t] = req[t] /\ t \in Busy
      BY <2>2, <2>3 DEF Busy
    <2>6. /\ acct'.auth = acct.auth /\ (acct'.pass = acct.pass \/ acct'.pass = acct.pass + 1)
          /\ changer' \subseteq Sessions /\ \A x \in Sessions : sess'[x].pass <= acct.pass
      BY <1>3, AccountAfter, SessionsAfter
    <2>7. \A x \in Sessions : sess'[x].pass \in Nat
      BY <1>3, ProceedKeepsAccount DEF AccountInv, AccountTyped, SessionRecords
    <2>8. \A x \in Sessions : sess'[x].pass <= acct'.pass
      BY <1>1, <2>6, <2>7
    <2>9. \A t \in Busy' : req'[t].pass <= acct'.pass /\ (req'[t].op = "changePassword" => req'[t].sess \in Sessions)
      BY <1>1, <2>5, <2>6 DEF AccountCounts
    <2> QED
      BY <1>1, <2>1, <2>2, <2>4, <2>6, <2>8, <2>9 DEF AccountCounts
  <1>4. CASE Account!IssueTemporary \/ Account!DevReset \/ Account!UpdateUser \/ Account!Expire
    <2>1. /\ outside < AccountActs /\ outside' = outside + 1 /\ UNCHANGED <<changer, req, started>>
          /\ acct'.auth = acct.auth \/ acct'.auth = acct.auth + 1
          /\ acct'.pass = acct.pass \/ acct'.pass = acct.pass + 1
          /\ \A x \in Sessions : sess'[x].pass <= acct.pass
      BY <1>4, OutsideAfter
    <2>2. Busy' = Busy
      BY <2>1 DEF Busy
    <2>3. \A x \in Sessions : sess'[x].pass \in Nat
      BY <1>4, OutsideKeepsAccount DEF AccountInv, AccountTyped, SessionRecords
    <2>4. \A x \in Sessions : sess'[x].pass <= acct'.pass
      BY <1>1, <2>1, <2>3
    <2>5. \A t \in Busy : req'[t].pass <= acct'.pass /\ (req'[t].op = "changePassword" => req'[t].sess \in Sessions)
      BY <1>1, <2>1 DEF AccountCounts
    <2> QED
      BY <1>1, <2>1, <2>2, <2>4, <2>5 DEF AccountCounts
  <1>5. CASE UNCHANGED Account!vars
    BY <1>5 DEF Account!vars, AccountCounts, Busy
  <1> QED
    BY <1>2, <1>3, <1>4, <1>5 DEF Account!Next

LEMMA AccountTypes == CountsAssumption /\ AccountInv /\ AccountCounts => Account!TypeOK
  <1> SUFFICES ASSUME CountsAssumption, AccountInv, AccountCounts PROVE Account!TypeOK
    OBVIOUS
  <1>1. acct.auth \in 1 .. AccountActs + 1 /\ acct.pass \in 1 .. AccountRequests + AccountActs + 1
    BY FS_CardinalityType DEF CountsAssumption, AccountInv, AccountTyped, AccountRecords, AccountCounts
  <1>2. acct \in [active : BOOLEAN, auth : 1 .. AccountActs + 1, pass : 1 .. AccountRequests + AccountActs + 1,
                  temp : {"NONE", "VALID"}, totp : {"NONE", "PENDING", "CONFIRMED"},
                  must : BOOLEAN, codes : {0, 1}]
    BY <1>1 DEF AccountInv, AccountTyped, AccountRecords
  <1> QED
    BY <1>2 DEF Account!TypeOK, AccountInv, AccountTyped, SessionRecords, SeenAtStart, AccountCounts

-----------------------------------------------------------------------------
(* Files.  What holds of a file speaks of its row, bytes, jobs, links and  *)
(* shares; a step concerns one file, and the others stay as they are.      *)

held   == x2
stored == x3
link   == x5
share  == x6
jobs   == x7
late   == x8
cut    == x9
USE DEF held, stored, link, share, jobs, late, cut

JobRecords == [state : {"NONE", "QUEUED", "RUNNING", "SUCCEEDED", "FAILED"},
               step : File!Steps, attempts : Nat]

FilesTyped ==
    /\ row \in [Files -> {"NONE", "QUARANTINED", "CLEAN"}]
    /\ jobs \in [File!Kinds -> [Files -> JobRecords]]
    /\ share \in [Shares -> [file : Files \cup {Idle}, status : {"NONE", "ACTIVE", "REVOKED"}]]
    /\ DOMAIN req = Slots

OnDisk(f)     == f \in held \/ f \in stored
Linked(f)     == \E t \in File!Targets : <<f, t>> \in link
Shared(f)     == \E h \in Shares : share[h].file = f /\ share[h].status = "ACTIVE"
EverShared(f) == \E h \in Shares : share[h].file = f /\ share[h].status \in {"ACTIVE", "REVOKED"}

Scanning(f, step) == jobs["file.scan"][f].state = "RUNNING" /\ jobs["file.scan"][f].step = step
Cleaning(f, step) == jobs["file.staged.cleanup"][f].state = "RUNNING" /\
                     jobs["file.staged.cleanup"][f].step = step

\* The life of a file: bytes, row, scan, clean-up, in this order, and back.
LifeSound(f) ==
    /\ f \notin held \/ f \notin stored
    /\ jobs["file.staged.cleanup"][f].state # "NONE" => jobs["file.scan"][f].state # "NONE"
    /\ jobs["file.scan"][f].state = "NONE" => f \notin stored /\ row[f] # "CLEAN"
    /\ jobs["file.staged.cleanup"][f].state = "NONE" /\ row[f] # "NONE" => OnDisk(f)
    /\ jobs["file.scan"][f].state # "NONE" /\ row[f] = "NONE" => ~OnDisk(f)
    /\ row[f] = "CLEAN" => f \notin held
    /\ Scanning(f, "mark") => f \in stored
    /\ Cleaning(f, "row") => ~OnDisk(f)

\* How far a clean-up is, unless somebody linked or shared what it had passed.
CleanSound(f) ==
    f \in late \/ /\ Linked(f) \/ Shared(f) => row[f] # "NONE" /\ OnDisk(f)
                  /\ Cleaning(f, "links") => ~Shared(f)
                  /\ Cleaning(f, "bytes") \/ Cleaning(f, "row") => ~Linked(f) /\ ~Shared(f)
                  /\ Cleaning(f, "kept") => OnDisk(f)

\* What a job that ended left, and why.
EndSound(f) ==
    /\ jobs["file.scan"][f].state \in {"QUEUED", "RUNNING", "FAILED"} =>
           f \in held \/ <<"file.scan", f>> \in cut \/ ~OnDisk(f) \/ Scanning(f, "mark")
    /\ jobs["file.scan"][f].state = "FAILED" => <<"file.scan", f>> \in cut \/ ~OnDisk(f)
    /\ row[f] # "NONE" /\ ~OnDisk(f) =>
           /\ jobs["file.staged.cleanup"][f].state = "SUCCEEDED" => f \in late
           /\ jobs["file.staged.cleanup"][f].state = "FAILED" =>
                  EverShared(f) \/ <<"file.staged.cleanup", f>> \in cut

FileSound(f) == LifeSound(f) /\ CleanSound(f) /\ EndSound(f)

OneJob == \A k, l \in File!Kinds, f, g \in Files :
    jobs[k][f].state = "RUNNING" /\ jobs[l][g].state = "RUNNING" => k = l /\ f = g

\* An upload under way: nobody else uploads the file, and its jobs have not begun.
Uploading(s) == req[s] # Idle /\ req[s].op = "upload"
UploadSound(s) ==
    LET f == req[s].file IN
    /\ f \in Files /\ req[s].step \in {"row", "scan", "STAGED", "TASK"}
    /\ req[s].step = "scan" => req[s].mode \in {"PLAIN", "STAGED", "TASK"}
    /\ req[s].step = "row" => /\ f \in held /\ row[f] = "NONE" /\ req[s].mode \in {"PLAIN", "STAGED", "TASK"}
                              /\ jobs["file.scan"][f].state = "NONE"
    /\ req[s].step # "row" => row[f] # "NONE" /\ jobs["file.staged.cleanup"][f].state = "NONE"
    /\ req[s].step = "scan" => f \in held /\ jobs["file.scan"][f].state = "NONE"
    /\ req[s].step \in {"STAGED", "TASK"} => jobs["file.scan"][f].state # "NONE"
UploadsSound ==
    /\ \A s \in Slots : Uploading(s) => UploadSound(s)
    /\ \A s, t \in Slots : Uploading(s) /\ Uploading(t) /\ req[s].file = req[t].file => s = t

FilesFit == FilesTyped /\ OneJob /\ UploadsSound /\ \A f \in Files : FileSound(f)

LEMMA KindsFacts == File!Kinds = {"file.scan", "file.staged.cleanup"}
  BY DEF File!Kinds

LEMMA StepsFacts == File!Steps = {"read", "promote", "mark", "links", "kept", "bytes", "row"}
  BY DEF File!Steps

\* The operators of the component in these words.
LEMMA SharingFacts ==
    ASSUME NEW f
    PROVE  /\ File!Links(f) # {} <=> Linked(f)
           /\ File!Sharing(f, {"ACTIVE"}) # {} <=> Shared(f)
           /\ File!Sharing(f, {"ACTIVE", "REVOKED"}) # {} <=> EverShared(f)
  BY DEF File!Links, Linked, File!Sharing, Shared, EverShared

\* A file that only loses links and shares, or is noticed to be late, stays sound.
LEMMA FileStays ==
    ASSUME NEW g \in Files, FileSound(g), row'[g] = row[g],
           g \in held' <=> g \in held, g \in stored' <=> g \in stored,
           \A k \in File!Kinds : jobs'[k][g] = jobs[k][g],
           Linked(g)' => Linked(g), Shared(g)' => Shared(g), EverShared(g) => EverShared(g)',
           g \in late => g \in late', \A k \in File!Kinds : <<k, g>> \in cut => <<k, g>> \in cut'
    PROVE  FileSound(g)'
  <1>1. /\ jobs'["file.scan"][g] = jobs["file.scan"][g]
        /\ jobs'["file.staged.cleanup"][g] = jobs["file.staged.cleanup"][g]
    BY KindsFacts
  <1>2. \A step : (Cleaning(g, step)' <=> Cleaning(g, step)) /\ (Scanning(g, step)' <=> Scanning(g, step))
    BY <1>1 DEF Cleaning, Scanning
  <1>3. OnDisk(g)' <=> OnDisk(g)
    BY DEF OnDisk
  <1>4. LifeSound(g)'
    BY <1>1, <1>2, <1>3 DEF FileSound, LifeSound
  <1>5. CleanSound(g)'
    BY <1>1, <1>2, <1>3 DEF FileSound, CleanSound
  <1>6. EndSound(g)'
    BY <1>1, <1>2, <1>3, KindsFacts DEF FileSound, EndSound
  <1> QED
    BY <1>4, <1>5, <1>6 DEF FileSound

\* What a step makes of one job.
JobIs(k, f, state, step) ==
    /\ jobs' \in [File!Kinds -> [Files -> JobRecords]]
    /\ jobs'[k][f].state = state /\ jobs'[k][f].step = step
    /\ \A l \in File!Kinds, g \in Files : l # k \/ g # f => jobs'[l][g] = jobs[l][g]

LEMMA JobChanged ==
    ASSUME FilesTyped, NEW k \in File!Kinds, NEW f \in Files, NEW r \in JobRecords,
           jobs' = [jobs EXCEPT ![k][f] = r]
    PROVE  JobIs(k, f, r.state, r.step)
  BY DEF FilesTyped, JobIs

LEMMA StepIs ==
    ASSUME FilesTyped, NEW k \in File!Kinds, NEW f \in Files, NEW step \in File!Steps, File!Step(k, f, step)
    PROVE  JobIs(k, f, jobs[k][f].state, step)
  <1>0. jobs[k][f] \in JobRecords
    BY DEF FilesTyped
  <1>1. PICK r : r = [jobs[k][f] EXCEPT !.step = step]
    OBVIOUS
  <1>2. r \in JobRecords /\ r.state = jobs[k][f].state /\ r.step = step
    BY <1>0, <1>1 DEF JobRecords
  <1>3. jobs' = [jobs EXCEPT ![k][f] = r]
    BY <1>1 DEF File!Step, FilesTyped
  <1> QED
    BY <1>2, <1>3, JobChanged

LEMMA SucceedIs ==
    ASSUME FilesTyped, NEW k \in File!Kinds, NEW f \in Files, File!Succeed(k, f)
    PROVE  JobIs(k, f, "SUCCEEDED", "read")
  <1>0. jobs[k][f] \in JobRecords
    BY DEF FilesTyped
  <1>1. PICK r : r = [jobs[k][f] EXCEPT !.state = "SUCCEEDED", !.step = "read"]
    OBVIOUS
  <1>2. r \in JobRecords /\ r.state = "SUCCEEDED" /\ r.step = "read"
    BY <1>0, <1>1, StepsFacts DEF JobRecords
  <1>3. jobs' = [jobs EXCEPT ![k][f] = r]
    BY <1>1 DEF File!Succeed, FilesTyped
  <1> QED
    BY <1>2, <1>3, JobChanged

LEMMA FailIs ==
    ASSUME FilesTyped, NEW k \in File!Kinds, NEW f \in Files, File!Fail(k, f)
    PROVE  JobIs(k, f, "FAILED", "read") \/ JobIs(k, f, "QUEUED", "read")
  <1>0. jobs[k][f] \in JobRecords
    BY DEF FilesTyped
  <1>1. PICK state \in {"FAILED", "QUEUED"} :
            jobs' = [jobs EXCEPT ![k][f].step = "read", ![k][f].state = state]
    BY DEF File!Fail
  <1>2. PICK r : r = [jobs[k][f] EXCEPT !.step = "read", !.state = state]
    OBVIOUS
  <1>3. r \in JobRecords /\ r.state = state /\ r.step = "read"
    BY <1>0, <1>2, StepsFacts DEF JobRecords
  <1>4. jobs' = [jobs EXCEPT ![k][f] = r]
    BY <1>1, <1>2 DEF FilesTyped
  <1> QED
    BY <1>3, <1>4, JobChanged

LEMMA EnqueueIs ==
    ASSUME FilesTyped, NEW k \in File!Kinds, NEW f \in Files, File!Enqueue(k, f)
    PROVE  JobIs(k, f, "QUEUED", jobs[k][f].step)
  <1>0. jobs[k][f] \in JobRecords
    BY DEF FilesTyped
  <1>1. PICK r : r = [jobs[k][f] EXCEPT !.state = "QUEUED"]
    OBVIOUS
  <1>2. r \in JobRecords /\ r.state = "QUEUED" /\ r.step = jobs[k][f].step
    BY <1>0, <1>1 DEF JobRecords
  <1>3. jobs' = [jobs EXCEPT ![k][f] = r]
    BY <1>1 DEF File!Enqueue, FilesTyped
  <1> QED
    BY <1>2, <1>3, JobChanged

\* Links and shares that are left alone.
LEMMA SameShares ==
    ASSUME NEW g
    PROVE  /\ UNCHANGED link => (Linked(g)' <=> Linked(g))
           /\ UNCHANGED share => (Shared(g)' <=> Shared(g)) /\ (EverShared(g)' <=> EverShared(g))
  BY DEF Linked, Shared, EverShared

\* A step of a job, or with a job, that concerns its file only.
LEMMA WorkKeeps ==
    ASSUME FilesFit, NEW k \in File!Kinds, NEW f \in Files, NEW state, NEW step, JobIs(k, f, state, step),
           jobs[k][f].state # "NONE", state # "NONE",
           state = "RUNNING" => \/ jobs[k][f].state = "RUNNING"
                                \/ \A l \in File!Kinds, g \in Files : jobs[l][g].state # "RUNNING",
           UNCHANGED <<req, link, share, late>>, \A x : x \in cut => x \in cut',
           row' \in [Files -> {"NONE", "QUARANTINED", "CLEAN"}],
           \A g \in Files : g # f => /\ row'[g] = row[g] /\ (g \in held' <=> g \in held)
                                    /\ (g \in stored' <=> g \in stored),
           k = "file.scan" /\ row[f] # "NONE" => row'[f] # "NONE",
           FileSound(f)'
    PROVE  FilesFit'
  <1>1. FilesTyped'
    BY DEF FilesFit, FilesTyped, JobIs
  <1>2. OneJob'
    BY DEF FilesFit, OneJob, JobIs
  <1>3. ASSUME NEW g \in Files, g # f PROVE FileSound(g)'
    <2>1. \A l \in File!Kinds : jobs'[l][g] = jobs[l][g]
      BY <1>3 DEF JobIs
    <2>2. Linked(g)' <=> Linked(g)
      BY SameShares
    <2>3. (Shared(g)' <=> Shared(g)) /\ (EverShared(g)' <=> EverShared(g))
      BY SameShares
    <2>4. FileSound(g) /\ row'[g] = row[g] /\ (g \in held' <=> g \in held) /\ (g \in stored' <=> g \in stored)
      BY <1>3 DEF FilesFit
    <2> QED
      BY <2>1, <2>2, <2>3, <2>4, FileStays
  <1>4. ASSUME NEW s \in Slots, Uploading(s) PROVE UploadSound(s)'
    <2>1. UploadSound(s) /\ LifeSound(req[s].file) /\ req[s].file \in Files
      BY <1>4 DEF FilesFit, UploadsSound, UploadSound, FileSound
    <2>2. CASE req[s].file = f /\ k = "file.staged.cleanup"
      BY <2>1, <2>2 DEF UploadSound, LifeSound
    <2>3. CASE req[s].file = f /\ k = "file.scan"
      <3>1. jobs'["file.staged.cleanup"][f] = jobs["file.staged.cleanup"][f]
        BY <2>3, KindsFacts DEF JobIs
      <3>2. jobs'["file.scan"][f].state # "NONE"
        BY <2>3 DEF JobIs
      <3> QED
        BY <2>1, <2>3, <3>1, <3>2 DEF UploadSound
    <2>4. CASE req[s].file # f
      <3> DEFINE g == req[s].file
      <3>1. /\ jobs'["file.scan"][g] = jobs["file.scan"][g]
            /\ jobs'["file.staged.cleanup"][g] = jobs["file.staged.cleanup"][g]
        BY <2>1, <2>4, KindsFacts DEF JobIs
      <3>2. row'[g] = row[g] /\ (g \in held' <=> g \in held) /\ req'[s] = req[s]
        BY <2>1, <2>4
      <3> QED
        BY <2>1, <3>1, <3>2 DEF UploadSound
    <2> QED
      BY <2>2, <2>3, <2>4, KindsFacts
  <1>5. UploadsSound'
    BY <1>4 DEF FilesFit, UploadsSound, Uploading
  <1> QED
    BY <1>1, <1>2, <1>3, <1>5 DEF FilesFit

LEMMA ScanIs ==
    ASSUME NEW f \in Files, NEW state, NEW step, JobIs("file.scan", f, state, step)
    PROVE  /\ jobs'["file.scan"][f].state = state
           /\ jobs'["file.staged.cleanup"][f] = jobs["file.staged.cleanup"][f]
           /\ \A p : Cleaning(f, p)' <=> Cleaning(f, p)
           /\ \A p : Scanning(f, p)' <=> state = "RUNNING" /\ step = p
  <1>1. /\ jobs'["file.scan"][f].state = state /\ jobs'["file.scan"][f].step = step
        /\ jobs'["file.staged.cleanup"][f] = jobs["file.staged.cleanup"][f]
    BY KindsFacts DEF JobIs
  <1> QED
    BY <1>1 DEF Cleaning, Scanning

LEMMA CleanIs ==
    ASSUME NEW f \in Files, NEW state, NEW step, JobIs("file.staged.cleanup", f, state, step)
    PROVE  /\ jobs'["file.staged.cleanup"][f].state = state
           /\ jobs'["file.scan"][f] = jobs["file.scan"][f]
           /\ \A p : Scanning(f, p)' <=> Scanning(f, p)
           /\ \A p : Cleaning(f, p)' <=> state = "RUNNING" /\ step = p
  <1>1. /\ jobs'["file.staged.cleanup"][f].state = state /\ jobs'["file.staged.cleanup"][f].step = step
        /\ jobs'["file.scan"][f] = jobs["file.scan"][f]
    BY KindsFacts DEF JobIs
  <1> QED
    BY <1>1 DEF Cleaning, Scanning

\* What a step of a job leaves alone, and what it may do to the file it works on.
Apart(f) ==
    /\ UNCHANGED <<req, link, share, late>> /\ \A x : x \in cut => x \in cut'
    /\ row' \in [Files -> {"NONE", "QUARANTINED", "CLEAN"}]
    /\ \A g \in Files : g # f => /\ row'[g] = row[g] /\ (g \in held' <=> g \in held)
                                 /\ (g \in stored' <=> g \in stored)

Permitted(k, f, state) ==
    state = "RUNNING" => \/ jobs[k][f].state = "RUNNING"
                         \/ \A l \in File!Kinds, g \in Files : jobs[l][g].state # "RUNNING"

LEMMA ScanKeeps ==
    ASSUME FilesFit, NEW f \in Files, NEW state, NEW step, JobIs("file.scan", f, state, step),
           jobs["file.scan"][f].state # "NONE", state # "NONE", Permitted("file.scan", f, state), Apart(f),
           row'[f] = "NONE" <=> row[f] = "NONE", OnDisk(f)' <=> OnDisk(f),
           f \notin held' \/ f \notin stored', row'[f] = "CLEAN" => f \notin held',
           state = "RUNNING" /\ step = "mark" => f \in stored',
           state \in {"QUEUED", "RUNNING", "FAILED"} =>
               \/ f \in held' \/ <<"file.scan", f>> \in cut' \/ ~OnDisk(f)
               \/ state = "RUNNING" /\ step = "mark",
           state = "FAILED" => <<"file.scan", f>> \in cut' \/ ~OnDisk(f)
    PROVE  FilesFit'
  <1>1. FileSound(f) /\ row'[f] \in {"NONE", "QUARANTINED", "CLEAN"}
    BY DEF FilesFit, Apart
  <1>2. /\ Linked(f)' <=> Linked(f)
        /\ Shared(f)' <=> Shared(f)
        /\ EverShared(f)' <=> EverShared(f)
    BY SameShares DEF Apart
  <1>3. /\ f \in late' <=> f \in late
        /\ <<"file.staged.cleanup", f>> \in cut => <<"file.staged.cleanup", f>> \in cut'
    BY DEF Apart
  <1>4. LifeSound(f)'
    BY <1>1, ScanIs DEF FileSound, LifeSound
  <1>5. CleanSound(f)'
    BY <1>1, <1>2, <1>3, ScanIs DEF FileSound, CleanSound
  <1>6. EndSound(f)'
    BY <1>1, <1>2, <1>3, ScanIs DEF FileSound, EndSound
  <1> QED
    BY <1>1, <1>4, <1>5, <1>6, KindsFacts, WorkKeeps DEF FileSound, Apart, Permitted

LEMMA CleanKeeps ==
    ASSUME FilesFit, NEW f \in Files, NEW state, NEW step, JobIs("file.staged.cleanup", f, state, step),
           jobs["file.staged.cleanup"][f].state # "NONE", state # "NONE",
           Permitted("file.staged.cleanup", f, state), Apart(f),
           \/ (f \in held' <=> f \in held) /\ (f \in stored' <=> f \in stored)
           \/ ~OnDisk(f)',
           row'[f] = row[f] \/ (row'[f] = "NONE" /\ ~OnDisk(f)'),
           state = "RUNNING" /\ step = "row" => ~OnDisk(f)',
           f \in late \/ /\ Linked(f) \/ Shared(f) => row'[f] # "NONE" /\ OnDisk(f)'
                         /\ state = "RUNNING" /\ step = "links" => ~Shared(f)
                         /\ state = "RUNNING" /\ step \in {"bytes", "row"} => ~Linked(f) /\ ~Shared(f)
                         /\ state = "RUNNING" /\ step = "kept" => OnDisk(f)',
           row'[f] # "NONE" /\ ~OnDisk(f)' =>
               /\ state = "SUCCEEDED" => f \in late
               /\ state = "FAILED" => EverShared(f) \/ <<"file.staged.cleanup", f>> \in cut',
           OnDisk(f)' \/ ~Scanning(f, "mark")
    PROVE  FilesFit'
  <1>1. FileSound(f)
    BY DEF FilesFit
  <1>2. /\ Linked(f)' <=> Linked(f)
        /\ Shared(f)' <=> Shared(f)
        /\ EverShared(f)' <=> EverShared(f)
    BY SameShares DEF Apart
  <1>3. /\ f \in late' <=> f \in late
        /\ <<"file.scan", f>> \in cut => <<"file.scan", f>> \in cut'
    BY DEF Apart
  <1>4. LifeSound(f)'
    BY <1>1, CleanIs DEF FileSound, LifeSound, OnDisk
  <1>5. CleanSound(f)'
    BY <1>1, <1>2, <1>3, CleanIs DEF FileSound, CleanSound
  <1>6. EndSound(f)'
    BY <1>1, <1>2, <1>3, CleanIs DEF FileSound, EndSound, OnDisk
  <1> QED
    BY <1>1, <1>4, <1>5, <1>6, KindsFacts, WorkKeeps DEF FileSound, Apart, Permitted

USE DEF File!disk, File!data

LEMMA ScanReadKeeps == ASSUME FilesFit, NEW f \in Files, File!ScanRead(f) PROVE FilesFit'
  <1>1. jobs["file.scan"][f].state = "RUNNING" /\ Apart(f)
    BY DEF File!ScanRead, File!AtStep, FilesFit, FilesTyped, Apart
  <1>2. /\ FilesTyped /\ FileSound(f) /\ "file.scan" \in File!Kinds /\ "promote" \in File!Steps
        /\ OnDisk(f)' <=> OnDisk(f)
    BY KindsFacts, StepsFacts DEF FilesFit, OnDisk, File!ScanRead
  <1>3. CASE row[f] = "NONE"
    <2>1. ~OnDisk(f)
      BY <1>1, <1>2, <1>3 DEF FileSound, LifeSound
    <2>2. JobIs("file.scan", f, "FAILED", "read") \/ JobIs("file.scan", f, "QUEUED", "read")
      BY <1>2, <1>3, FailIs DEF File!ScanRead
    <2> QED
      BY <1>1, <1>2, <2>1, <2>2, ScanKeeps DEF File!ScanRead, Permitted, OnDisk, FileSound, LifeSound
  <1>4. CASE row[f] # "NONE"
    <2>1. JobIs("file.scan", f, "RUNNING", "promote")
      BY <1>1, <1>2, <1>4, StepIs DEF File!ScanRead
    <2>2. \/ f \in held \/ <<"file.scan", f>> \in cut \/ ~OnDisk(f)
      BY <1>1, <1>2 DEF FileSound, EndSound, Scanning, File!ScanRead, File!AtStep
    <2> QED
      BY <1>1, <1>2, <2>1, <2>2, ScanKeeps DEF File!ScanRead, Permitted, FileSound, LifeSound
  <1> QED
    BY <1>3, <1>4

LEMMA ScanPromoteKeeps == ASSUME FilesFit, NEW f \in Files, File!ScanPromote(f) PROVE FilesFit'
  <1>1. jobs["file.scan"][f].state = "RUNNING" /\ Apart(f)
    BY DEF File!ScanPromote, File!AtStep, FilesFit, FilesTyped, Apart
  <1>2. FilesTyped /\ FileSound(f) /\ "file.scan" \in File!Kinds /\ "mark" \in File!Steps
    BY KindsFacts, StepsFacts DEF FilesFit
  <1>3. CASE f \in held
    <2>1. JobIs("file.scan", f, "RUNNING", "mark")
      BY <1>1, <1>2, <1>3, StepIs DEF File!ScanPromote
    <2> QED
      BY <1>1, <1>2, <1>3, <2>1, ScanKeeps
      DEF File!ScanPromote, Permitted, OnDisk, FileSound, LifeSound
  <1>4. CASE f \notin held
    <2>1. JobIs("file.scan", f, "FAILED", "read") \/ JobIs("file.scan", f, "QUEUED", "read")
      BY <1>2, <1>4, FailIs DEF File!ScanPromote
    <2>2. <<"file.scan", f>> \in cut \/ ~OnDisk(f)
      BY <1>1, <1>2, <1>4 DEF FileSound, EndSound, Scanning, File!ScanPromote, File!AtStep
    <2> QED
      BY <1>1, <1>2, <1>4, <2>1, <2>2, ScanKeeps
      DEF File!ScanPromote, Permitted, OnDisk, FileSound, LifeSound
  <1> QED
    BY <1>3, <1>4

LEMMA ScanMarkKeeps == ASSUME FilesFit, NEW f \in Files, File!ScanMark(f) PROVE FilesFit'
  <1>1. jobs["file.scan"][f].state = "RUNNING" /\ Apart(f) /\ row'[f] = "CLEAN"
    BY DEF File!ScanMark, File!AtStep, FilesFit, FilesTyped, Apart
  <1>2. FilesTyped /\ FileSound(f) /\ "file.scan" \in File!Kinds
    BY KindsFacts DEF FilesFit
  <1>3. f \in stored /\ f \notin held /\ row[f] # "NONE"
    BY <1>2 DEF File!ScanMark, File!AtStep, FileSound, LifeSound, Scanning, OnDisk
  <1>4. JobIs("file.scan", f, "SUCCEEDED", "read")
    BY <1>2, SucceedIs DEF File!ScanMark
  <1> QED
    BY <1>1, <1>2, <1>3, <1>4, ScanKeeps DEF File!ScanMark, Permitted, OnDisk

\* While a clean-up runs, no scan does.
LEMMA CleanAlone ==
    ASSUME FilesFit, NEW f \in Files, jobs["file.staged.cleanup"][f].state = "RUNNING"
    PROVE  jobs["file.scan"][f].state # "RUNNING" /\ \A p : ~Scanning(f, p)
  BY KindsFacts DEF FilesFit, OneJob, Scanning

LEMMA CleanReadKeeps == ASSUME FilesFit, NEW f \in Files, File!CleanRead(f) PROVE FilesFit'
  <1>1. jobs["file.staged.cleanup"][f].state = "RUNNING" /\ Apart(f)
    BY DEF File!CleanRead, File!AtStep, FilesFit, FilesTyped, Apart
  <1>2. /\ FilesTyped /\ FileSound(f) /\ "file.staged.cleanup" \in File!Kinds
        /\ "links" \in File!Steps /\ "kept" \in File!Steps
        /\ OnDisk(f)' <=> OnDisk(f)
        /\ ~Scanning(f, "mark")
    BY <1>1, KindsFacts, StepsFacts, CleanAlone DEF FilesFit, OnDisk, File!CleanRead
  <1>3. CASE row[f] = "NONE"
    <2>1. JobIs("file.staged.cleanup", f, "SUCCEEDED", "read")
      BY <1>2, <1>3, SucceedIs DEF File!CleanRead
    <2> QED
      BY <1>1, <1>2, <1>3, <2>1, CleanKeeps DEF File!CleanRead, Permitted, FileSound, CleanSound
  <1>4. CASE row[f] # "NONE" /\ Shared(f)
    <2>1. JobIs("file.staged.cleanup", f, "RUNNING", "kept")
      BY <1>1, <1>2, <1>4, StepIs, SharingFacts DEF File!CleanRead
    <2> QED
      BY <1>1, <1>2, <1>4, <2>1, CleanKeeps DEF File!CleanRead, Permitted, FileSound, CleanSound
  <1>5. CASE row[f] # "NONE" /\ ~Shared(f)
    <2>1. JobIs("file.staged.cleanup", f, "RUNNING", "links")
      BY <1>1, <1>2, <1>5, StepIs, SharingFacts DEF File!CleanRead
    <2> QED
      BY <1>1, <1>2, <1>5, <2>1, CleanKeeps DEF File!CleanRead, Permitted, FileSound, CleanSound
  <1> QED
    BY <1>3, <1>4, <1>5

LEMMA CleanLinksKeeps == ASSUME FilesFit, NEW f \in Files, File!CleanLinks(f) PROVE FilesFit'
  <1>1. /\ jobs["file.staged.cleanup"][f].state = "RUNNING" /\ Apart(f)
        /\ Cleaning(f, "links") \/ Cleaning(f, "kept")
    BY DEF File!CleanLinks, File!AtStep, FilesFit, FilesTyped, Apart, Cleaning
  <1>2. /\ FilesTyped /\ FileSound(f) /\ "file.staged.cleanup" \in File!Kinds /\ "bytes" \in File!Steps
        /\ OnDisk(f)' <=> OnDisk(f)
        /\ ~Scanning(f, "mark")
    BY <1>1, KindsFacts, StepsFacts, CleanAlone DEF FilesFit, OnDisk, File!CleanLinks
  <1>3. CASE Cleaning(f, "kept") \/ Linked(f)
    <2>1. JobIs("file.staged.cleanup", f, "SUCCEEDED", "read")
      BY <1>2, <1>3, SucceedIs, SharingFacts DEF File!CleanLinks, File!Clean, Cleaning
    <2> QED
      BY <1>1, <1>2, <1>3, <2>1, CleanKeeps DEF File!CleanLinks, Permitted, FileSound, CleanSound
  <1>4. CASE Cleaning(f, "links") /\ ~Linked(f)
    <2>1. JobIs("file.staged.cleanup", f, "RUNNING", "bytes")
      BY <1>1, <1>2, <1>4, StepIs, SharingFacts DEF File!CleanLinks, File!Clean, Cleaning
    <2> QED
      BY <1>1, <1>2, <1>4, <2>1, CleanKeeps DEF File!CleanLinks, Permitted, FileSound, CleanSound
  <1> QED
    BY <1>1, <1>3, <1>4

LEMMA CleanBytesKeeps == ASSUME FilesFit, NEW f \in Files, File!CleanBytes(f) PROVE FilesFit'
  <1>1. /\ jobs["file.staged.cleanup"][f].state = "RUNNING" /\ Apart(f)
        /\ Cleaning(f, "bytes") /\ ~OnDisk(f)'
    BY DEF File!CleanBytes, File!AtStep, FilesFit, FilesTyped, Apart, Cleaning, OnDisk
  <1>2. /\ FilesTyped /\ FileSound(f) /\ "file.staged.cleanup" \in File!Kinds /\ "row" \in File!Steps
        /\ ~Scanning(f, "mark")
    BY <1>1, KindsFacts, StepsFacts, CleanAlone DEF FilesFit
  <1>3. JobIs("file.staged.cleanup", f, "RUNNING", "row")
    BY <1>1, <1>2, StepIs DEF File!CleanBytes
  <1> QED
    BY <1>1, <1>2, <1>3, CleanKeeps DEF File!CleanBytes, Permitted, FileSound, CleanSound

LEMMA CleanRowKeeps == ASSUME FilesFit, NEW f \in Files, File!CleanRow(f) PROVE FilesFit'
  <1>1. /\ jobs["file.staged.cleanup"][f].state = "RUNNING" /\ Apart(f) /\ Cleaning(f, "row")
    BY DEF File!CleanRow, File!AtStep, FilesFit, FilesTyped, Apart, Cleaning
  <1>2. /\ FilesTyped /\ FileSound(f) /\ "file.staged.cleanup" \in File!Kinds
        /\ ~Scanning(f, "mark") /\ ~OnDisk(f) /\ ~OnDisk(f)'
    BY <1>1, KindsFacts, CleanAlone DEF FilesFit, FileSound, LifeSound, OnDisk, File!CleanRow
  <1>3. CASE EverShared(f)
    <2>1. /\ row'[f] = row[f]
          /\ JobIs("file.staged.cleanup", f, "FAILED", "read") \/ JobIs("file.staged.cleanup", f, "QUEUED", "read")
      BY <1>2, <1>3, FailIs, SharingFacts DEF File!CleanRow
    <2> QED
      BY <1>1, <1>2, <1>3, <2>1, CleanKeeps DEF File!CleanRow, Permitted, FileSound, CleanSound
  <1>4. CASE ~EverShared(f)
    <2>1. row'[f] = "NONE" /\ JobIs("file.staged.cleanup", f, "SUCCEEDED", "read")
      BY <1>2, <1>4, SucceedIs, SharingFacts DEF File!CleanRow, FilesTyped
    <2> QED
      BY <1>1, <1>2, <2>1, CleanKeeps DEF File!CleanRow, Permitted, FileSound, CleanSound
  <1> QED
    BY <1>3, <1>4

LEMMA ClaimKeeps ==
    ASSUME FilesFit, NEW k \in File!Kinds, NEW f \in Files, File!Claim(k, f)
    PROVE  FilesFit'
  <1>1. /\ jobs[k][f].state = "QUEUED" /\ Apart(f) /\ Permitted(k, f, "RUNNING")
        /\ OnDisk(f)' <=> OnDisk(f)
        /\ row'[f] = row[f] /\ (f \in held' <=> f \in held) /\ (f \in stored' <=> f \in stored)
    BY DEF File!Claim, FilesFit, FilesTyped, Apart, Permitted, OnDisk
  <1>2. FilesTyped /\ FileSound(f) /\ ~Scanning(f, "mark") /\ jobs[k][f] \in JobRecords
    BY KindsFacts DEF FilesFit, FilesTyped, Scanning, File!Claim
  <1>3. JobIs(k, f, "RUNNING", "read")
    <2>1. PICK r : r = [state |-> "RUNNING", step |-> "read", attempts |-> jobs[k][f].attempts + 1]
      OBVIOUS
    <2>2. r \in JobRecords /\ r.state = "RUNNING" /\ r.step = "read"
      BY <1>2, <2>1, StepsFacts DEF JobRecords
    <2>3. jobs' = [jobs EXCEPT ![k][f] = r]
      BY <2>1 DEF File!Claim, FilesTyped
    <2> QED
      BY <1>2, <2>2, <2>3, JobChanged
  <1>4. CASE k = "file.scan"
    <2>1. f \in held \/ <<"file.scan", f>> \in cut \/ ~OnDisk(f)
      BY <1>1, <1>2, <1>4 DEF FileSound, EndSound, Scanning
    <2> QED
      BY <1>1, <1>2, <1>3, <1>4, <2>1, ScanKeeps DEF FileSound, LifeSound, File!Claim
  <1>5. CASE k = "file.staged.cleanup"
    BY <1>1, <1>2, <1>3, <1>5, CleanKeeps DEF FileSound, CleanSound, File!Claim
  <1> QED
    BY <1>4, <1>5, KindsFacts

LEMMA CutKeeps ==
    ASSUME FilesFit, NEW k \in File!Kinds, NEW f \in Files, File!Cut(k, f)
    PROVE  FilesFit'
  <1>1. /\ jobs[k][f].state = "RUNNING" /\ Apart(f) /\ Permitted(k, f, "FAILED") /\ Permitted(k, f, "QUEUED")
        /\ OnDisk(f)' <=> OnDisk(f)
        /\ row'[f] = row[f] /\ (f \in held' <=> f \in held) /\ (f \in stored' <=> f \in stored)
        /\ <<k, f>> \in cut'
    BY DEF File!Cut, FilesFit, FilesTyped, Apart, Permitted, OnDisk
  <1>2. FilesTyped /\ FileSound(f)
    BY DEF FilesFit
  <1>3. JobIs(k, f, "FAILED", "read") \/ JobIs(k, f, "QUEUED", "read")
    BY <1>2, FailIs DEF File!Cut
  <1>4. CASE k = "file.scan"
    BY <1>1, <1>2, <1>3, <1>4, ScanKeeps DEF FileSound, LifeSound
  <1>5. CASE k = "file.staged.cleanup"
    <2>1. ~Scanning(f, "mark")
      BY <1>1, <1>5, CleanAlone
    <2> QED
      BY <1>1, <1>2, <1>3, <1>5, <2>1, CleanKeeps DEF FileSound, CleanSound
  <1> QED
    BY <1>4, <1>5, KindsFacts

LEMMA SameKeeps ==
    ASSUME FilesFit, UNCHANGED <<row, held, stored, link, share, jobs, late, cut, req>>
    PROVE  FilesFit'
  <1>1. FilesTyped' /\ OneJob'
    BY DEF FilesFit, FilesTyped, OneJob
  <1>2. UploadsSound'
    BY DEF FilesFit, UploadsSound, Uploading, UploadSound
  <1>3. ASSUME NEW g \in Files PROVE FileSound(g)'
    BY SameShares, FileStays DEF FilesFit
  <1> QED
    BY <1>1, <1>2, <1>3 DEF FilesFit

LEMMA WorkKeepsFiles == ASSUME FilesFit, NEW f \in Files, File!Work(f) PROVE FilesFit'
  <1>1. CASE File!Age(f)
    BY <1>1, SameKeeps DEF File!Age
  <1> QED
    BY <1>1, ScanReadKeeps, ScanPromoteKeeps, ScanMarkKeeps, CleanReadKeeps, CleanLinksKeeps, CleanBytesKeeps,
       CleanRowKeeps, ClaimKeeps, CutKeeps DEF File!Work

\* Requests.  One that is no upload leaves rows, bytes and jobs alone.
LEMMA RequestKeeps ==
    ASSUME FilesFit, NEW s \in Slots, NEW r, r = Idle \/ r.op # "upload", req' = [req EXCEPT ![s] = r],
           UNCHANGED <<row, held, stored, jobs, cut>>,
           share' \in [Shares -> [file : Files \cup {Idle}, status : {"NONE", "ACTIVE", "REVOKED"}]],
           \A g \in Files : FileSound(g)'
    PROVE  FilesFit'
  <1>1. FilesTyped' /\ OneJob'
    BY DEF FilesFit, FilesTyped, OneJob
  <1>2. ASSUME NEW t \in Slots, Uploading(t)' PROVE t # s /\ req'[t] = req[t] /\ Uploading(t)
    <2>1. t # s
      BY <1>2 DEF FilesFit, FilesTyped, Uploading
    <2> QED
      BY <1>2, <2>1 DEF FilesFit, FilesTyped, Uploading
  <1>3. ASSUME NEW t \in Slots, Uploading(t)' PROVE UploadSound(t)'
    <2>1. UploadSound(t) /\ req'[t] = req[t]
      BY <1>2, <1>3 DEF FilesFit, UploadsSound
    <2> QED
      BY <2>1 DEF UploadSound
  <1>4. UploadsSound'
    BY <1>2, <1>3 DEF FilesFit, UploadsSound
  <1> QED
    BY <1>1, <1>4 DEF FilesFit

\* A request that begins or gives up, and one that only takes links or shares away.
LEMMA QuietKeeps ==
    ASSUME FilesFit, NEW s \in Slots, NEW r, r = Idle \/ r.op # "upload", req' = [req EXCEPT ![s] = r],
           UNCHANGED <<row, held, stored, jobs, cut, late>>,
           share' \in [Shares -> [file : Files \cup {Idle}, status : {"NONE", "ACTIVE", "REVOKED"}]],
           \A g \in Files : /\ Linked(g)' => Linked(g)
                            /\ Shared(g)' => Shared(g)
                            /\ EverShared(g) => EverShared(g)'
    PROVE  FilesFit'
  <1>1. ASSUME NEW g \in Files PROVE FileSound(g)'
    BY FileStays DEF FilesFit
  <1> QED
    BY <1>1, RequestKeeps

\* A link or a share that is added, noticed where a clean-up is past its checks.
LEMMA NoticeKeeps ==
    ASSUME FilesFit, NEW s \in Slots, req' = [req EXCEPT ![s] = Idle], NEW f \in Files, File!Notice(f),
           UNCHANGED <<row, held, stored, jobs, cut>>,
           share' \in [Shares -> [file : Files \cup {Idle}, status : {"NONE", "ACTIVE", "REVOKED"}]],
           \A g \in Files : /\ g # f => (Linked(g)' => Linked(g)) /\ (Shared(g)' => Shared(g))
                            /\ EverShared(g) => EverShared(g)'
    PROVE  FilesFit'
  <1>1. \A x : x \in late => x \in late'
    BY DEF File!Notice
  <1>2. ASSUME NEW g \in Files, g # f PROVE FileSound(g)'
    BY <1>1, <1>2, FileStays DEF FilesFit
  <1>3. FileSound(f)
    BY DEF FilesFit
  <1>4. LifeSound(f)'
    BY <1>3 DEF FileSound, LifeSound, OnDisk, Scanning, Cleaning
  <1>5. CleanSound(f)'
    <2>1. CASE File!Overlooked(f)
      BY <2>1 DEF File!Notice, CleanSound
    <2>2. CASE ~File!Overlooked(f)
      BY <2>2 DEF File!Overlooked, File!Clean, CleanSound, Cleaning, OnDisk
    <2> QED
      BY <2>1, <2>2
  <1>6. EndSound(f)'
    BY <1>1, <1>3 DEF FileSound, EndSound, OnDisk, Scanning
  <1>7. FileSound(f)'
    BY <1>4, <1>5, <1>6 DEF FileSound
  <1> QED
    BY <1>2, <1>7, RequestKeeps

\* One step of an upload under way, which concerns its file only.
LEMMA UploadKeeps ==
    ASSUME FilesFit, NEW s \in Slots, Uploading(s), NEW f \in Files, req[s].file = f,
           NEW r, req' = [req EXCEPT ![s] = r], r = Idle \/ r.file = f,
           UNCHANGED <<held, stored, link, share, late, cut>>,
           row' \in [Files -> {"NONE", "QUARANTINED", "CLEAN"}],
           jobs' \in [File!Kinds -> [Files -> JobRecords]],
           \A g \in Files : g # f => row'[g] = row[g] /\ \A k \in File!Kinds : jobs'[k][g] = jobs[k][g],
           \A k \in File!Kinds : jobs'[k][f].state = "RUNNING" => jobs[k][f].state = "RUNNING",
           FileSound(f)', Uploading(s)' => UploadSound(s)'
    PROVE  FilesFit'
  <1>1. FilesTyped'
    BY DEF FilesFit, FilesTyped
  <1>2. \A k \in File!Kinds, g \in Files : jobs'[k][g].state = "RUNNING" => jobs[k][g].state = "RUNNING"
    OBVIOUS
  <1>3. OneJob'
    BY <1>2 DEF FilesFit, OneJob
  <1>4. ASSUME NEW g \in Files, g # f PROVE FileSound(g)'
    BY <1>4, SameShares, FileStays DEF FilesFit
  <1>5. ASSUME NEW t \in Slots, t # s, Uploading(t)'
        PROVE  Uploading(t) /\ req'[t] = req[t] /\ req[t].file \in Files /\ req[t].file # f /\ UploadSound(t)
    <2>1. Uploading(t) /\ req'[t] = req[t]
      BY <1>5 DEF FilesFit, FilesTyped, Uploading
    <2>2. UploadSound(t) /\ req[t].file # f
      BY <1>5, <2>1 DEF FilesFit, UploadsSound
    <2> QED
      BY <2>1, <2>2 DEF UploadSound
  <1>6. ASSUME NEW t \in Slots, t # s, Uploading(t)' PROVE UploadSound(t)'
    <2> DEFINE g == req[t].file
    <2>1. /\ jobs'["file.scan"][g] = jobs["file.scan"][g]
          /\ jobs'["file.staged.cleanup"][g] = jobs["file.staged.cleanup"][g]
          /\ row'[g] = row[g] /\ (g \in held' <=> g \in held)
      BY <1>5, <1>6, KindsFacts
    <2> QED
      BY <1>5, <1>6, <2>1 DEF UploadSound
  <1>7. Uploading(s)' => req'[s].file = f
    BY DEF Uploading, FilesFit, FilesTyped
  <1>8. ASSUME NEW t \in Slots, NEW u \in Slots, Uploading(t)', Uploading(u)', req'[t].file = req'[u].file
        PROVE  t = u
    <2>1. CASE t = s \/ u = s
      BY <1>5, <1>7, <1>8, <2>1
    <2>2. CASE t # s /\ u # s
      BY <1>5, <1>8, <2>2 DEF FilesFit, UploadsSound
    <2> QED
      BY <2>1, <2>2
  <1>9. UploadsSound'
    BY <1>6, <1>8 DEF UploadsSound
  <1> QED
    BY <1>1, <1>3, <1>4, <1>9 DEF FilesFit

LEMMA BeginUploadKeeps == ASSUME FilesFit, NEW s \in Slots, File!BeginUpload(s) PROVE FilesFit'
  <1>1. PICK f \in Files, mode \in {"PLAIN", "STAGED", "TASK"} :
          /\ row[f] = "NONE" /\ jobs["file.scan"][f] = File!NoJob /\ f \notin held
          /\ \A o \in Slots \ {s} : req[o] # Idle => req[o].file # f
          /\ held' = held \cup {f}
          /\ File!Start(s, [op |-> "upload", file |-> f, mode |-> mode, step |-> "row"])
          /\ UNCHANGED <<stored, row, link, share, jobs, late, cut>>
    BY DEF File!BeginUpload, File!Scan
  <1>2. PICK r : r = [op |-> "upload", file |-> f, mode |-> mode, step |-> "row"]
    OBVIOUS
  <1>3. r.op = "upload" /\ r.file = f /\ r.mode = mode /\ r.step = "row"
    BY <1>2
  <1>4. req' = [req EXCEPT ![s] = r] /\ req'[s] = r
    BY <1>1, <1>2 DEF File!Start, FilesFit, FilesTyped
  <1>5. FilesTyped' /\ OneJob'
    BY <1>1, <1>4 DEF FilesFit, FilesTyped, OneJob
  <1>6. ASSUME NEW g \in Files, g # f PROVE FileSound(g)'
    BY <1>1, <1>6, SameShares, FileStays DEF FilesFit
  <1>7. FileSound(f) /\ jobs["file.scan"][f].state = "NONE" /\ OnDisk(f)'
    BY <1>1 DEF FilesFit, File!NoJob, OnDisk
  <1>8. FileSound(f)'
    <2>1. LifeSound(f)'
      BY <1>1, <1>7 DEF FileSound, LifeSound, Scanning, Cleaning
    <2>2. /\ Linked(f)' <=> Linked(f)
          /\ Shared(f)' <=> Shared(f)
      BY <1>1, SameShares
    <2>3. CleanSound(f)'
      BY <1>1, <1>7, <2>2 DEF FileSound, LifeSound, CleanSound, Cleaning
    <2>4. EndSound(f)'
      BY <1>1, <1>7 DEF EndSound
    <2> QED
      BY <2>1, <2>3, <2>4 DEF FileSound
  <1>9. ASSUME NEW t \in Slots, t # s, Uploading(t)'
        PROVE  Uploading(t) /\ req'[t] = req[t] /\ req[t].file # f /\ UploadSound(t)
    <2>1. Uploading(t) /\ req'[t] = req[t] /\ req[t].file # f
      BY <1>1, <1>4, <1>9 DEF FilesFit, FilesTyped, Uploading
    <2> QED
      BY <2>1 DEF FilesFit, UploadsSound
  <1>10. ASSUME NEW t \in Slots, t # s, Uploading(t)' PROVE UploadSound(t)'
    BY <1>1, <1>9, <1>10 DEF UploadSound
  <1>11. UploadSound(s)'
    BY <1>1, <1>3, <1>4, <1>7 DEF UploadSound
  <1>12. ASSUME NEW t \in Slots, NEW u \in Slots, Uploading(t)', Uploading(u)', req'[t].file = req'[u].file
         PROVE  t = u
    <2>1. CASE t = s \/ u = s
      BY <1>3, <1>4, <1>9, <1>12, <2>1
    <2>2. CASE t # s /\ u # s
      BY <1>9, <1>12, <2>2 DEF FilesFit, UploadsSound
    <2> QED
      BY <2>1, <2>2
  <1>13. UploadsSound'
    BY <1>10, <1>11, <1>12 DEF UploadsSound
  <1> QED
    BY <1>5, <1>6, <1>8, <1>13 DEF FilesFit

LEMMA UploadRowKeeps == ASSUME FilesFit, NEW s \in Slots, File!UploadRow(s) PROVE FilesFit'
  <1>a. PICK f : f = req[s].file
    OBVIOUS
  <1>1. /\ Uploading(s) /\ req[s].step = "row" /\ UploadSound(s)
        /\ row' = [row EXCEPT ![f] = "QUARANTINED"] /\ req' = [req EXCEPT ![s].step = "scan"]
        /\ UNCHANGED <<held, stored, link, share, jobs, late, cut>>
    BY <1>a DEF File!UploadRow, File!At, Uploading, FilesFit, UploadsSound, File!Go
  <1>2. /\ f \in Files /\ f \in held /\ jobs["file.scan"][f].state = "NONE"
        /\ req[s].mode \in {"PLAIN", "STAGED", "TASK"} /\ FileSound(f)
    BY <1>a, <1>1 DEF UploadSound, FilesFit
  <1>3. PICK r : r = [req[s] EXCEPT !.step = "scan"]
    OBVIOUS
  <1>4. req' = [req EXCEPT ![s] = r] /\ req'[s] = r
    BY <1>a, <1>1, <1>3 DEF FilesFit, FilesTyped
  <1>5. /\ row' \in [Files -> {"NONE", "QUARANTINED", "CLEAN"}] /\ row'[f] = "QUARANTINED"
        /\ \A g \in Files : g # f => row'[g] = row[g]
    BY <1>a, <1>1, <1>2 DEF FilesFit, FilesTyped
  <1>6. jobs["file.staged.cleanup"][f].state = "NONE" /\ f \notin stored /\ OnDisk(f)'
    BY <1>a, <1>1, <1>2 DEF FileSound, LifeSound, OnDisk
  <1>7. LifeSound(f)' /\ CleanSound(f)' /\ EndSound(f)'
    BY <1>a, <1>1, <1>2, <1>5, <1>6 DEF LifeSound, CleanSound, EndSound, Scanning, Cleaning
  <1>8. Uploading(s)' => UploadSound(s)'
    <2>1. \/ r = Idle
          \/ r.file = f /\ r.step = "scan" /\ r.mode \in {"PLAIN", "STAGED", "TASK"}
      BY <1>a, <1>1, <1>2, <1>3 DEF UploadSound
    <2> QED
      BY <1>a, <1>1, <1>2, <1>4, <1>5, <1>6, <2>1 DEF UploadSound, Uploading
  <1>9. r = Idle \/ r.file = f
    BY <1>a, <1>3
  <1> QED
    BY <1>a, <1>1, <1>2, <1>4, <1>5, <1>7, <1>8, <1>9, UploadKeeps DEF FileSound, FilesFit, FilesTyped

LEMMA UploadScanKeeps == ASSUME FilesFit, NEW s \in Slots, File!UploadScan(s) PROVE FilesFit'
  <1>a. PICK f : f = req[s].file
    OBVIOUS
  <1>1. /\ Uploading(s) /\ req[s].step = "scan" /\ UploadSound(s)
        /\ File!Enqueue("file.scan", f)
        /\ UNCHANGED <<row, held, stored, link, share, late, cut>>
    BY <1>a DEF File!UploadScan, File!At, Uploading, FilesFit, UploadsSound
  <1>2. /\ f \in Files /\ f \in held /\ row[f] # "NONE" /\ jobs["file.staged.cleanup"][f].state = "NONE"
        /\ req[s].mode \in {"PLAIN", "STAGED", "TASK"} /\ FileSound(f) /\ FilesTyped
        /\ OnDisk(f)' /\ OnDisk(f)
    BY <1>a, <1>1 DEF UploadSound, FilesFit, OnDisk
  <1>3. PICK step : JobIs("file.scan", f, "QUEUED", step)
    BY <1>a, <1>1, <1>2, KindsFacts, EnqueueIs
  <1>4. PICK r : r = IF req[s].mode = "PLAIN" THEN Idle ELSE [req[s] EXCEPT !.step = req[s].mode]
    OBVIOUS
  <1>5. req' = [req EXCEPT ![s] = r] /\ req'[s] = r
    BY <1>a, <1>4 DEF FilesFit, FilesTyped, File!UploadScan, File!Go, File!End
  <1>6. /\ Linked(f)' <=> Linked(f)
        /\ Shared(f)' <=> Shared(f)
        /\ EverShared(f)' <=> EverShared(f)
    BY <1>a, <1>1, SameShares
  <1>7. LifeSound(f)'
    BY <1>a, <1>1, <1>2, <1>3, ScanIs DEF FileSound, LifeSound
  <1>8. CleanSound(f)'
    BY <1>a, <1>1, <1>2, <1>3, <1>6, ScanIs DEF FileSound, CleanSound
  <1>9. EndSound(f)'
    BY <1>a, <1>1, <1>2, <1>3, <1>6, ScanIs DEF FileSound, EndSound
  <1>10. r = Idle \/ (r.file = f /\ r.step \in {"STAGED", "TASK"} /\ r.step = req[s].mode)
    BY <1>a, <1>1, <1>2, <1>4 DEF UploadSound
  <1>11. Uploading(s)' => UploadSound(s)'
    BY <1>a, <1>1, <1>2, <1>3, <1>5, <1>10, ScanIs DEF UploadSound, Uploading
  <1>12. /\ jobs' \in [File!Kinds -> [Files -> JobRecords]]
         /\ \A g \in Files : g # f => \A k \in File!Kinds : jobs'[k][g] = jobs[k][g]
         /\ \A k \in File!Kinds : jobs'[k][f].state = "RUNNING" => jobs[k][f].state = "RUNNING"
    BY <1>a, <1>2, <1>3, KindsFacts DEF JobIs
  <1> QED
    BY <1>a, <1>1, <1>2, <1>5, <1>7, <1>8, <1>9, <1>10, <1>11, <1>12, UploadKeeps DEF FileSound, FilesTyped

LEMMA StageCleanupKeeps == ASSUME FilesFit, NEW s \in Slots, File!StageCleanup(s) PROVE FilesFit'
  <1>a. PICK f : f = req[s].file
    OBVIOUS
  <1>1. /\ Uploading(s) /\ req[s].step = "STAGED" /\ UploadSound(s)
        /\ File!Enqueue("file.staged.cleanup", f) /\ req' = [req EXCEPT ![s] = Idle]
        /\ UNCHANGED <<row, held, stored, link, share, late, cut>>
    BY <1>a DEF File!StageCleanup, File!At, File!End, Uploading, FilesFit, UploadsSound
  <1>2. /\ f \in Files /\ row[f] # "NONE" /\ jobs["file.staged.cleanup"][f].state = "NONE"
        /\ jobs["file.scan"][f].state # "NONE" /\ FileSound(f) /\ FilesTyped
        /\ OnDisk(f)' <=> OnDisk(f)
    BY <1>a, <1>1 DEF UploadSound, FilesFit, OnDisk
  <1>3. PICK step : JobIs("file.staged.cleanup", f, "QUEUED", step)
    BY <1>a, <1>1, <1>2, KindsFacts, EnqueueIs
  <1>4. PICK r : r = Idle
    OBVIOUS
  <1>5. req' = [req EXCEPT ![s] = r] /\ ~Uploading(s)'
    BY <1>a, <1>1, <1>4 DEF FilesTyped, FilesFit, Uploading
  <1>6. /\ Linked(f)' <=> Linked(f)
        /\ Shared(f)' <=> Shared(f)
        /\ EverShared(f)' <=> EverShared(f)
    BY <1>a, <1>1, SameShares
  <1>7. LifeSound(f)'
    BY <1>a, <1>1, <1>2, <1>3, CleanIs DEF FileSound, LifeSound
  <1>8. CleanSound(f)'
    BY <1>a, <1>1, <1>2, <1>3, <1>6, CleanIs DEF FileSound, CleanSound
  <1>9. EndSound(f)'
    BY <1>a, <1>1, <1>2, <1>3, <1>6, CleanIs DEF FileSound, EndSound
  <1>10. /\ jobs' \in [File!Kinds -> [Files -> JobRecords]]
         /\ \A g \in Files : g # f => \A k \in File!Kinds : jobs'[k][g] = jobs[k][g]
         /\ \A k \in File!Kinds : jobs'[k][f].state = "RUNNING" => jobs[k][f].state = "RUNNING"
    BY <1>a, <1>2, <1>3, KindsFacts DEF JobIs
  <1>11. row' \in [Files -> {"NONE", "QUARANTINED", "CLEAN"}] /\ UNCHANGED row /\ FileSound(f)'
    BY <1>1, <1>2, <1>7, <1>8, <1>9 DEF FilesTyped, FileSound
  <1>12. \A g \in Files : g # f => row'[g] = row[g] /\ \A k \in File!Kinds : jobs'[k][g] = jobs[k][g]
    BY <1>10, <1>11
  <1>13. f \in Files /\ req[s].file = f /\ (r = Idle \/ r.file = f)
    BY <1>a, <1>2, <1>4
  <1>14. UNCHANGED <<held, stored, link, share, late, cut>>
    BY <1>1
  <1> QED
    BY <1>1, <1>5, <1>10, <1>11, <1>12, <1>13, <1>14, UploadKeeps

\* The steps of the other requests.
LEMMA UploadLinkKeeps == ASSUME FilesFit, NEW s \in Slots, File!UploadLink(s) PROVE FilesFit'
  <1>1. PICK f : f = req[s].file
    OBVIOUS
  <1>2. /\ Uploading(s) /\ UploadSound(s) /\ req' = [req EXCEPT ![s] = Idle] /\ File!Notice(f)
        /\ UNCHANGED <<row, held, stored, jobs, cut, share>> /\ link' = link \cup {<<f, "TASK">>}
    BY <1>1 DEF File!UploadLink, File!At, File!End, Uploading, FilesFit, UploadsSound
  <1>3. f \in Files
    BY <1>1, <1>2 DEF UploadSound
  <1>4. \A g \in Files : /\ g # f => (Linked(g)' => Linked(g)) /\ (Shared(g)' => Shared(g))
                         /\ EverShared(g) => EverShared(g)'
    BY <1>2, SameShares DEF Linked
  <1> QED
    BY <1>2, <1>3, <1>4, NoticeKeeps DEF FilesFit, FilesTyped

LEMMA CommitAttachKeeps ==
    ASSUME FilesFit, NEW s \in Slots, File!CommitAttach(s), req[s].file \in Files
    PROVE  FilesFit'
  <1>1. PICK f \in Files : f = req[s].file
    OBVIOUS
  <1>2. /\ req' = [req EXCEPT ![s] = Idle] /\ File!Notice(f)
        /\ UNCHANGED <<row, held, stored, jobs, cut, share>> /\ link' = link \cup {<<f, req[s].to>>}
    BY <1>1 DEF File!CommitAttach, File!At, File!End
  <1>3. \A g \in Files : /\ g # f => (Linked(g)' => Linked(g)) /\ (Shared(g)' => Shared(g))
                         /\ EverShared(g) => EverShared(g)'
    BY <1>2, SameShares DEF Linked
  <1> QED
    BY <1>2, <1>3, NoticeKeeps DEF FilesFit, FilesTyped

LEMMA CommitShareKeeps ==
    ASSUME FilesFit, NEW s \in Slots, File!CommitShare(s), req[s].file \in Files
    PROVE  FilesFit'
  <1>1. PICK f \in Files : f = req[s].file
    OBVIOUS
  <1>2. PICK h \in Shares :
          /\ share[h].status = "NONE" /\ share' = [share EXCEPT ![h] = [file |-> f, status |-> "ACTIVE"]]
          /\ req' = [req EXCEPT ![s] = Idle] /\ File!Notice(f)
          /\ UNCHANGED <<row, held, stored, link, jobs, cut>>
    BY <1>1 DEF File!CommitShare, File!At, File!End
  <1>3. /\ share'[h] = [file |-> f, status |-> "ACTIVE"]
        /\ \A i \in Shares : i # h => share'[i] = share[i]
        /\ share' \in [Shares -> [file : Files \cup {Idle}, status : {"NONE", "ACTIVE", "REVOKED"}]]
    BY <1>2 DEF FilesFit, FilesTyped
  <1>4. ASSUME NEW g \in Files, g # f PROVE (Linked(g)' => Linked(g)) /\ (Shared(g)' => Shared(g))
    BY <1>2, <1>3, <1>4, SameShares DEF Shared
  <1>5. ASSUME NEW g \in Files, EverShared(g) PROVE EverShared(g)'
    <2>1. PICK i \in Shares : share[i].file = g /\ share[i].status \in {"ACTIVE", "REVOKED"}
      BY <1>5 DEF EverShared
    <2>2. share'[i] = share[i]
      BY <1>2, <1>3, <2>1
    <2> QED
      BY <2>1, <2>2 DEF EverShared
  <1> QED
    BY <1>2, <1>3, <1>4, <1>5, NoticeKeeps

LEMMA CommitDetachKeeps == ASSUME FilesFit, NEW s \in Slots, File!CommitDetach(s) PROVE FilesFit'
  <1>1. /\ req' = [req EXCEPT ![s] = Idle] /\ link' \subseteq link
        /\ UNCHANGED <<row, held, stored, share, jobs, cut, late>>
    BY DEF File!CommitDetach, File!At, File!End
  <1>2. \A g \in Files : /\ Linked(g)' => Linked(g)
                         /\ Shared(g)' => Shared(g)
                         /\ EverShared(g) => EverShared(g)'
    BY <1>1, SameShares DEF Linked
  <1> QED
    BY <1>1, <1>2, QuietKeeps DEF FilesFit, FilesTyped

LEMMA CommitRevokeKeeps == ASSUME FilesFit, NEW s \in Slots, File!CommitRevoke(s) PROVE FilesFit'
  <1>1. PICK h : h = req[s].share
    OBVIOUS
  <1>2. /\ req' = [req EXCEPT ![s] = Idle] /\ share' = [share EXCEPT ![h].status = "REVOKED"]
        /\ UNCHANGED <<row, held, stored, link, jobs, cut, late>>
    BY <1>1 DEF File!CommitRevoke, File!At, File!End
  <1>3. /\ share' \in [Shares -> [file : Files \cup {Idle}, status : {"NONE", "ACTIVE", "REVOKED"}]]
        /\ \A i \in Shares : /\ share'[i].file = share[i].file
                             /\ share'[i].status = share[i].status \/ (i = h /\ share'[i].status = "REVOKED")
    <2>1. CASE h \in Shares
      <3>1. PICK r : r = [share[h] EXCEPT !.status = "REVOKED"]
        OBVIOUS
      <3>2. share[h] \in [file : Files \cup {Idle}, status : {"NONE", "ACTIVE", "REVOKED"}]
        BY <2>1 DEF FilesFit, FilesTyped
      <3>3. /\ r \in [file : Files \cup {Idle}, status : {"NONE", "ACTIVE", "REVOKED"}]
            /\ r.file = share[h].file /\ r.status = "REVOKED"
        BY <3>1, <3>2
      <3>4. share' = [share EXCEPT ![h] = r]
        BY <1>2, <3>1
      <3> QED
        BY <2>1, <3>3, <3>4 DEF FilesFit, FilesTyped
    <2>2. CASE h \notin Shares
      <3>1. share' = share
        BY <1>2, <2>2 DEF FilesFit, FilesTyped
      <3> QED
        BY <3>1 DEF FilesFit, FilesTyped
    <2> QED
      BY <2>1, <2>2
  <1>4. \A g \in Files : /\ Linked(g)' => Linked(g)
                         /\ Shared(g)' => Shared(g)
                         /\ EverShared(g) => EverShared(g)'
    BY <1>2, <1>3, SameShares DEF Shared, EverShared
  <1> QED
    BY <1>2, <1>3, <1>4, QuietKeeps

\* A request that begins, is refused or is cut short changes no data.
LEMMA OnlyRequestKeeps ==
    ASSUME FilesFit, NEW s \in Slots, NEW r, r = Idle \/ r.op # "upload", req' = [req EXCEPT ![s] = r],
           UNCHANGED <<row, held, stored, link, share, jobs, cut, late>>
    PROVE  FilesFit'
  <1>1. share' \in [Shares -> [file : Files \cup {Idle}, status : {"NONE", "ACTIVE", "REVOKED"}]]
    BY DEF FilesFit, FilesTyped
  <1>2. \A g \in Files : /\ Linked(g)' => Linked(g)
                         /\ Shared(g)' => Shared(g)
                         /\ EverShared(g) => EverShared(g)'
    BY SameShares
  <1> QED
    BY <1>1, <1>2, QuietKeeps

LEMMA BeginKeepsFiles == ASSUME FilesFit, NEW s \in Slots, File!Begin(s) PROVE FilesFit'
  <1>1. CASE File!BeginAttach(s)
    <2>1. PICK r : r.op = "attach" /\ req' = [req EXCEPT ![s] = r]
      BY <1>1 DEF File!BeginAttach, File!Start, File!Seen
    <2> QED
      BY <1>1, <2>1, OnlyRequestKeeps DEF File!BeginAttach
  <1>2. CASE File!BeginDetach(s)
    <2>1. PICK r : r.op = "detach" /\ req' = [req EXCEPT ![s] = r]
      BY <1>2 DEF File!BeginDetach, File!Start
    <2> QED
      BY <1>2, <2>1, OnlyRequestKeeps DEF File!BeginDetach
  <1>3. CASE File!BeginShare(s)
    <2>1. PICK r : r.op = "share" /\ req' = [req EXCEPT ![s] = r]
      BY <1>3 DEF File!BeginShare, File!Start
    <2> QED
      BY <1>3, <2>1, OnlyRequestKeeps DEF File!BeginShare
  <1>4. CASE File!BeginRevoke(s)
    <2>1. PICK r : r.op = "revoke" /\ req' = [req EXCEPT ![s] = r]
      BY <1>4 DEF File!BeginRevoke, File!Start
    <2> QED
      BY <1>4, <2>1, OnlyRequestKeeps DEF File!BeginRevoke
  <1> QED
    BY <1>1, <1>2, <1>3, <1>4, BeginUploadKeeps DEF File!Begin

\* The file an attachment or a share is about.
AboutFiles == \A s \in Slots :
    req[s] # Idle /\ req[s].op \in {"attach", "share"} => req[s].file \in Files

LEMMA ProceedKeepsFiles == ASSUME FilesFit, AboutFiles, NEW s \in Slots, File!Proceed(s) PROVE FilesFit'
  <1>1. CASE File!CommitAttach(s)
    BY <1>1, CommitAttachKeeps DEF AboutFiles, File!CommitAttach, File!At
  <1>2. CASE File!CommitShare(s)
    BY <1>2, CommitShareKeeps DEF AboutFiles, File!CommitShare, File!At
  <1>3. CASE File!Refuse(s)
    BY <1>3, OnlyRequestKeeps DEF File!Refuse, File!End
  <1>4. CASE File!Abandon(s)
    BY <1>4, OnlyRequestKeeps DEF File!Abandon, File!End
  <1> QED
    BY <1>1, <1>2, <1>3, <1>4, UploadRowKeeps, UploadScanKeeps, StageCleanupKeeps, UploadLinkKeeps,
       CommitDetachKeeps, CommitRevokeKeeps DEF File!Proceed

(* Requests that do not overlap: what one has read is still so when it commits. *)

Timely(r) ==
    /\ r.op = "attach" /\ r.to \in Comments => <<r.file, "TASK">> \in link
    /\ r.op = "detach" => r.seen = File!Links(r.file) \cap Comments
    /\ r.op = "share" => ~Shared(r.file)

CommentsFit(f) == \A c \in Comments : <<f, c>> \in link => <<f, "TASK">> \in link
OneShare(f)    == \A h, i \in Shares :
    share[h].file = f /\ share[h].status = "ACTIVE" /\ share[i].file = f /\ share[i].status = "ACTIVE" => h = i

SerialFit == serial =>
    /\ \A s, t \in Slots : req[s] # Idle /\ req[t] # Idle => s = t
    /\ \A s \in Slots : req[s] # Idle => Timely(req[s])
    /\ \A f \in Files : CommentsFit(f) /\ OneShare(f)

FilesInv == FilesFit /\ AboutFiles /\ SerialFit

LEMMA SameSerial ==
    ASSUME AboutFiles, SerialFit, UNCHANGED <<req, link, share, serial>>
    PROVE  AboutFiles' /\ SerialFit'
  BY DEF AboutFiles, SerialFit, Timely, File!Links, Shared, CommentsFit, OneShare

LEMMA StartSerial ==
    ASSUME FilesTyped, AboutFiles, SerialFit, NEW s \in Slots, NEW r, File!Free(s), req' = [req EXCEPT ![s] = r],
           UNCHANGED <<link, share, serial>>, r.op \in {"attach", "share"} => r.file \in Files, Timely(r)
    PROVE  AboutFiles' /\ SerialFit'
  <1>1. req'[s] = r /\ \A t \in Slots : t # s => req'[t] = req[t]
    BY DEF FilesTyped
  <1>2. AboutFiles'
    BY <1>1 DEF AboutFiles
  <1>3. \A f \in Files : (CommentsFit(f) <=> CommentsFit(f)') /\ (OneShare(f) <=> OneShare(f)')
    BY DEF CommentsFit, OneShare
  <1>4. Timely(req[s])'
    BY <1>1 DEF Timely, File!Links, Shared
  <1>5. serial => \A t \in Slots : t # s => req'[t] = Idle
    BY <1>1 DEF File!Free
  <1> QED
    BY <1>2, <1>3, <1>4, <1>5 DEF SerialFit

LEMMA EndSerial ==
    ASSUME FilesTyped, AboutFiles, SerialFit, NEW s \in Slots, req[s] # Idle, req' = [req EXCEPT ![s] = Idle],
           UNCHANGED serial, serial => \A f \in Files : CommentsFit(f)' /\ OneShare(f)'
    PROVE  AboutFiles' /\ SerialFit'
  <1>1. req'[s] = Idle /\ \A t \in Slots : t # s => req'[t] = req[t]
    BY DEF FilesTyped
  <1>2. AboutFiles'
    BY <1>1 DEF AboutFiles
  <1>3. serial => \A t \in Slots : req'[t] = Idle
    BY <1>1 DEF SerialFit
  <1> QED
    BY <1>2, <1>3 DEF SerialFit

LEMMA GoSerial ==
    ASSUME FilesTyped, AboutFiles, SerialFit, NEW s \in Slots, NEW step, Uploading(s), File!Go(s, step),
           UNCHANGED <<link, share, serial>>
    PROVE  AboutFiles' /\ SerialFit'
  <1>1. PICK r : r = [req[s] EXCEPT !.step = step]
    OBVIOUS
  <1>2. req'[s] = r /\ \A t \in Slots : t # s => req'[t] = req[t]
    BY <1>1 DEF FilesTyped, File!Go
  <1>3. r = req[s] \/ r.op = "upload"
    BY <1>1 DEF Uploading
  <1>4. AboutFiles'
    BY <1>2, <1>3 DEF AboutFiles
  <1>5. \A f \in Files : (CommentsFit(f) <=> CommentsFit(f)') /\ (OneShare(f) <=> OneShare(f)')
    BY DEF CommentsFit, OneShare
  <1>6. serial => \A t \in Slots : t # s => req'[t] = Idle
    BY <1>2 DEF SerialFit, Uploading
  <1>7. serial => Timely(req[s])'
    <2>1. CASE r.op = "upload"
      BY <1>2, <2>1 DEF Timely
    <2>2. CASE r = req[s]
      BY <1>2, <2>2 DEF Timely, Uploading
    <2> QED
      BY <1>3, <2>1, <2>2
  <1> QED
    BY <1>4, <1>5, <1>6, <1>7 DEF SerialFit

LEMMA SameFiles ==
    ASSUME SerialFit, UNCHANGED <<link, share, serial>>
    PROVE  serial => \A f \in Files : CommentsFit(f)' /\ OneShare(f)'
  BY DEF SerialFit, CommentsFit, OneShare

LEMMA BeginSerial ==
    ASSUME FilesInv, NEW s \in Slots, File!Free(s), File!Begin(s)
    PROVE  AboutFiles' /\ SerialFit'
  <1> USE DEF FilesInv, FilesFit
  <1>1. CASE File!BeginUpload(s)
    <2>1. PICK r : r.op = "upload" /\ req' = [req EXCEPT ![s] = r]
      BY <1>1 DEF File!BeginUpload, File!Start
    <2> QED
      BY <1>1, <2>1, StartSerial DEF File!BeginUpload, Timely
  <1>2. CASE File!BeginAttach(s)
    <2>1. PICK f \in Files, t \in File!Targets :
             /\ t \in Comments /\ t \notin {"TASK", "OTHER"} => <<f, "TASK">> \in link
             /\ req' = [req EXCEPT ![s] = File!Seen(f, t)]
      BY <1>2 DEF File!BeginAttach, File!Start, File!OnTask
    <2>2. PICK r : r = File!Seen(f, t)
      OBVIOUS
    <2>3. r.op = "attach" /\ r.file = f /\ r.to = t
      BY <2>2 DEF File!Seen
    <2>4. Timely(r)
      BY <2>1, <2>3, CommentsAssumption DEF Timely
    <2> QED
      BY <1>2, <2>1, <2>2, <2>3, <2>4, StartSerial DEF File!BeginAttach
  <1>3. CASE File!BeginDetach(s)
    <2>1. PICK f \in Files : req' = [req EXCEPT ![s] =
            [op |-> "detach", file |-> f, step |-> "commit", seen |-> File!Links(f) \cap Comments]]
      BY <1>3 DEF File!BeginDetach, File!Start
    <2>2. PICK r : r = [op |-> "detach", file |-> f, step |-> "commit", seen |-> File!Links(f) \cap Comments]
      OBVIOUS
    <2>3. r.op = "detach" /\ Timely(r)
      BY <2>2 DEF Timely
    <2> QED
      BY <1>3, <2>1, <2>2, <2>3, StartSerial DEF File!BeginDetach
  <1>4. CASE File!BeginShare(s)
    <2>1. PICK f \in Files : /\ ~Shared(f)
                             /\ req' = [req EXCEPT ![s] = [op |-> "share", file |-> f, step |-> "commit"]]
      BY <1>4, SharingFacts DEF File!BeginShare, File!Start
    <2>2. PICK r : r = [op |-> "share", file |-> f, step |-> "commit"]
      OBVIOUS
    <2>3. r.op = "share" /\ r.file \in Files /\ Timely(r)
      BY <2>1, <2>2 DEF Timely
    <2> QED
      BY <1>4, <2>1, <2>2, <2>3, StartSerial DEF File!BeginShare
  <1>5. CASE File!BeginRevoke(s)
    <2>1. PICK r : r.op = "revoke" /\ req' = [req EXCEPT ![s] = r]
      BY <1>5 DEF File!BeginRevoke, File!Start
    <2> QED
      BY <1>5, <2>1, StartSerial DEF File!BeginRevoke, Timely
  <1> QED
    BY <1>1, <1>2, <1>3, <1>4, <1>5 DEF File!Begin

LEMMA ProceedSerial ==
    ASSUME FilesInv, NEW s \in Slots, File!Proceed(s)
    PROVE  AboutFiles' /\ SerialFit'
  <1> USE DEF FilesInv, FilesFit
  <1>1. CASE File!UploadRow(s)
    BY <1>1, GoSerial DEF File!UploadRow, File!At, Uploading
  <1>2. CASE File!UploadScan(s)
    <2>1. Uploading(s) /\ UNCHANGED <<link, share, serial>>
      BY <1>2 DEF File!UploadScan, File!At, Uploading
    <2>2. CASE req[s].mode = "PLAIN"
      BY <1>2, <2>1, <2>2, SameFiles, EndSerial DEF File!UploadScan, File!End, Uploading
    <2>3. CASE req[s].mode # "PLAIN"
      <3>1. PICK mode : mode = req[s].mode
        OBVIOUS
      <3> QED
        BY <1>2, <2>1, <2>3, <3>1, GoSerial DEF File!UploadScan
    <2> QED
      BY <2>2, <2>3
  <1>3. CASE File!StageCleanup(s)
    BY <1>3, SameFiles, EndSerial DEF File!StageCleanup, File!At, File!End
  <1>4. CASE File!UploadLink(s)
    <2>1. /\ req[s] # Idle /\ req' = [req EXCEPT ![s] = Idle] /\ UNCHANGED <<share, serial>>
          /\ link' = link \cup {<<req[s].file, "TASK">>}
      BY <1>4 DEF File!UploadLink, File!At, File!End
    <2>2. serial => \A f \in Files : CommentsFit(f)' /\ OneShare(f)'
      BY <2>1, CommentsAssumption DEF SerialFit, CommentsFit, OneShare
    <2> QED
      BY <2>1, <2>2, EndSerial
  <1>5. CASE File!CommitAttach(s)
    <2>1. /\ req[s] # Idle /\ req[s].op = "attach" /\ req' = [req EXCEPT ![s] = Idle] /\ UNCHANGED <<share, serial>>
          /\ link' = link \cup {<<req[s].file, req[s].to>>}
      BY <1>5 DEF File!CommitAttach, File!At, File!End
    <2>2. serial => (req[s].to \in Comments => <<req[s].file, "TASK">> \in link)
      BY <2>1 DEF SerialFit, Timely
    <2>3. serial => \A f \in Files : CommentsFit(f)' /\ OneShare(f)'
      BY <2>1, <2>2 DEF SerialFit, CommentsFit, OneShare
    <2> QED
      BY <2>1, <2>3, EndSerial
  <1>6. CASE File!CommitDetach(s)
    <2>1. PICK f : f = req[s].file
      OBVIOUS
    <2>2. /\ req[s] # Idle /\ req[s].op = "detach" /\ req' = [req EXCEPT ![s] = Idle] /\ UNCHANGED <<share, serial>>
          /\ link' = link \ ({<<f, "TASK">>} \cup {<<f, c>> : c \in req[s].seen})
      BY <1>6, <2>1 DEF File!CommitDetach, File!At, File!End
    <2>3. serial => req[s].seen = File!Links(f) \cap Comments
      BY <2>1, <2>2 DEF SerialFit, Timely
    <2>4. ASSUME serial, NEW g \in Files PROVE CommentsFit(g)'
      <3>1. CASE g = f
        <4>1. ASSUME NEW c \in Comments PROVE <<f, c>> \notin link'
          <5>1. <<f, c>> \in link => c \in File!Links(f) \cap Comments
            BY DEF File!Links, File!Targets
          <5> QED
            BY <2>2, <2>3, <2>4, <5>1
        <4> QED
          BY <3>1, <4>1 DEF CommentsFit
      <3>2. CASE g # f
        <4>1. \A t : <<g, t>> \in link' <=> <<g, t>> \in link
          BY <2>2, <3>2
        <4>2. CommentsFit(g)
          BY <2>4 DEF SerialFit
        <4> QED
          BY <4>1, <4>2 DEF CommentsFit
      <3> QED
        BY <3>1, <3>2
    <2>5. serial => \A g \in Files : OneShare(g)'
      BY <2>2 DEF SerialFit, OneShare
    <2> QED
      BY <2>2, <2>4, <2>5, EndSerial
  <1>7. CASE File!CommitShare(s)
    <2>1. PICK f \in Files : f = req[s].file
      BY <1>7 DEF AboutFiles, File!CommitShare, File!At
    <2>2. PICK h \in Shares : share' = [share EXCEPT ![h] = [file |-> f, status |-> "ACTIVE"]]
      BY <1>7, <2>1 DEF File!CommitShare
    <2>3. /\ req[s] # Idle /\ req[s].op = "share" /\ req' = [req EXCEPT ![s] = Idle] /\ UNCHANGED <<link, serial>>
      BY <1>7 DEF File!CommitShare, File!At, File!End
    <2>4. /\ share'[h] = [file |-> f, status |-> "ACTIVE"]
          /\ \A i \in Shares : i # h => share'[i] = share[i]
      BY <2>2 DEF FilesTyped
    <2>5. serial => ~Shared(f)
      BY <2>1, <2>3 DEF SerialFit, Timely
    <2>6. ASSUME serial, NEW g \in Files PROVE OneShare(g)'
      <3>1. OneShare(g)
        BY <2>6 DEF SerialFit
      <3> QED
        BY <2>4, <2>5, <2>6, <3>1 DEF OneShare, Shared
    <2>7. serial => \A g \in Files : CommentsFit(g)'
      BY <2>3 DEF SerialFit, CommentsFit
    <2> QED
      BY <2>3, <2>6, <2>7, EndSerial
  <1>8. CASE File!CommitRevoke(s)
    <2>1. PICK h : h = req[s].share
      OBVIOUS
    <2>2. /\ req[s] # Idle /\ req' = [req EXCEPT ![s] = Idle] /\ UNCHANGED <<link, serial>>
          /\ share' = [share EXCEPT ![h].status = "REVOKED"]
      BY <1>8, <2>1 DEF File!CommitRevoke, File!At, File!End
    <2>3. \A i \in Shares : share'[i].status = "ACTIVE" => share'[i] = share[i]
      BY <2>2 DEF FilesTyped
    <2>4. serial => \A g \in Files : CommentsFit(g)' /\ OneShare(g)'
      BY <2>2, <2>3 DEF SerialFit, CommentsFit, OneShare
    <2> QED
      BY <2>2, <2>4, EndSerial
  <1>9. CASE File!Refuse(s) \/ File!Abandon(s)
    <2>1. req[s] # Idle /\ req' = [req EXCEPT ![s] = Idle] /\ UNCHANGED <<link, share, serial>>
      BY <1>9 DEF File!Refuse, File!Abandon, File!At, File!End
    <2> QED
      BY <2>1, SameFiles, EndSerial
  <1> QED
    BY <1>1, <1>2, <1>3, <1>4, <1>5, <1>6, <1>7, <1>8, <1>9 DEF File!Proceed

LEMMA InitFiles == File!Init => FilesInv
  <1> SUFFICES ASSUME File!Init PROVE FilesInv
    OBVIOUS
  <1>1. FilesTyped
    BY StepsFacts DEF File!Init, FilesTyped, JobRecords, File!NoJob
  <1>2. \A k \in File!Kinds, f \in Files : jobs[k][f].state = "NONE"
    <2>1. jobs = [k \in File!Kinds |-> [f \in Files |-> File!NoJob]]
      BY DEF File!Init
    <2>2. File!NoJob.state = "NONE"
      BY DEF File!NoJob
    <2> QED
      BY <2>1, <2>2
  <1>3. \A s \in Slots : req[s] = Idle
    BY DEF File!Init
  <1>4. ASSUME NEW f \in Files PROVE FileSound(f)
    BY <1>2, KindsFacts DEF File!Init, FileSound, LifeSound, CleanSound, EndSound, OnDisk, Linked, Shared,
                            Scanning, Cleaning
  <1>5. OneJob /\ UploadsSound /\ AboutFiles
    BY <1>2, <1>3 DEF OneJob, UploadsSound, Uploading, AboutFiles
  <1>6. SerialFit
    BY <1>3 DEF SerialFit, CommentsFit, OneShare, File!Init
  <1> QED
    BY <1>1, <1>4, <1>5, <1>6 DEF FilesInv, FilesFit

LEMMA StepKeepsFiles == FilesInv /\ (File!Next \/ UNCHANGED File!vars) => FilesInv'
  <1> SUFFICES ASSUME FilesInv, File!Next \/ UNCHANGED File!vars PROVE FilesInv'
    OBVIOUS
  <1> USE DEF FilesInv
  <1>1. CASE UNCHANGED File!vars
    BY <1>1, SameKeeps, SameSerial DEF File!vars
  <1>2. ASSUME NEW f \in Files, File!Work(f) PROVE FilesInv'
    <2>1. UNCHANGED <<req, link, share, serial>>
      BY <1>2 DEF File!Work, File!ScanRead, File!ScanPromote, File!ScanMark, File!CleanRead, File!CleanLinks,
                  File!CleanBytes, File!CleanRow, File!Age, File!Claim, File!Cut
    <2> QED
      BY <1>2, <2>1, WorkKeepsFiles, SameSerial
  <1>3. ASSUME NEW s \in Slots, File!Free(s), File!Begin(s) PROVE FilesInv'
    BY <1>3, BeginKeepsFiles, BeginSerial
  <1>4. ASSUME NEW s \in Slots, File!Proceed(s) PROVE FilesInv'
    BY <1>4, ProceedKeepsFiles, ProceedSerial
  <1> QED
    BY <1>1, <1>2, <1>3, <1>4 DEF File!Next

LEMMA AtMostOne ==
    ASSUME NEW S, \A a, b \in S : a = b
    PROVE  File!Cardinality(S) <= 1
  <1>1. File!Cardinality(S) = Cardinality(S)
    BY DEF Cardinality, File!Cardinality
  <1>2. CASE S = {}
    BY <1>1, <1>2, FS_EmptySet
  <1>3. CASE S # {}
    <2>1. PICK a : S = {a}
      BY <1>3
    <2>2. Cardinality({a}) = 1
      BY FS_Singleton
    <2> QED
      BY <1>1, <2>1, <2>2
  <1> QED
    BY <1>2, <1>3

LEMMA FilesInvImplies == FilesInv => File!LinkedFilesKept /\ File!SerialLinks /\ File!BrokenFilesExplained
  <1> SUFFICES ASSUME FilesInv
               PROVE  File!LinkedFilesKept /\ File!SerialLinks /\ File!BrokenFilesExplained
    OBVIOUS
  <1>1. \A f \in Files : FileSound(f)
    BY Zenon DEF FilesInv, FilesFit
  <1>2. File!LinkedFilesKept
    <2> SUFFICES ASSUME NEW f \in Files, f \notin late, Linked(f) \/ Shared(f)
                 PROVE  File!Shown(f) /\ f \in held \cup stored /\ (row[f] = "CLEAN" => File!Served(f))
      BY SharingFacts DEF File!LinkedFilesKept
    <2>1. row[f] # "NONE" /\ OnDisk(f) /\ (row[f] = "CLEAN" => f \notin held)
      BY <1>1 DEF FileSound, LifeSound, CleanSound
    <2> QED
      BY <2>1, SharingFacts DEF File!Shown, File!Served, OnDisk
  <1>3. File!SerialLinks
    <2> SUFFICES ASSUME serial, NEW f \in Files
                 PROVE  /\ File!Links(f) \cap Comments # {} => File!OnTask(f)
                        /\ File!Cardinality(File!Sharing(f, {"ACTIVE"})) <= 1
      BY Zenon DEF File!SerialLinks
    <2>1. CommentsFit(f) /\ OneShare(f)
      BY DEF FilesInv, SerialFit
    <2>2. File!Links(f) \cap Comments # {} => File!OnTask(f)
      BY <2>1 DEF CommentsFit, File!Links, File!OnTask
    <2>3. \A h, i \in File!Sharing(f, {"ACTIVE"}) : h = i
      BY <2>1 DEF OneShare, File!Sharing
    <2>4. PICK S : S = File!Sharing(f, {"ACTIVE"})
      OBVIOUS
    <2> QED
      BY <2>2, <2>3, <2>4, AtMostOne
  <1>4. File!BrokenFilesExplained
    <2>1. ASSUME NEW f \in Files, jobs["file.scan"][f].state = "FAILED"
          PROVE  <<"file.scan", f>> \in cut \/ f \notin held \cup stored
      BY <1>1, <2>1 DEF FileSound, EndSound, OnDisk
    <2>2. ASSUME NEW f \in Files, row[f] # "NONE", f \notin held \cup stored,
                 jobs["file.staged.cleanup"][f].state = "SUCCEEDED"
          PROVE  f \in late
      BY <1>1, <2>2 DEF FileSound, EndSound, OnDisk
    <2>3. ASSUME NEW f \in Files, row[f] # "NONE", f \notin held \cup stored,
                 jobs["file.staged.cleanup"][f].state = "FAILED"
          PROVE  File!Sharing(f, {"ACTIVE", "REVOKED"}) # {} \/ <<"file.staged.cleanup", f>> \in cut
      <3>1. EverShared(f) \/ <<"file.staged.cleanup", f>> \in cut
        BY <1>1, <2>3 DEF FileSound, EndSound, OnDisk
      <3> QED
        BY <3>1 DEF EverShared, File!Sharing
    <2> QED
      BY Zenon, <2>1, <2>2, <2>3 DEF File!BrokenFilesExplained, File!Scan, File!Clean
  <1> QED
    BY <1>2, <1>3, <1>4

\* A linked or shared file keeps its bytes and its row, unless it was linked
\* while a clean-up that had found nothing was at work; without overlapping
\* requests a comment shows only files of its task, and a file has one active
\* share; and a file that is left broken has one of the stated reasons.
THEOREM FilesSafe == Spec => []FilesKept
  <1> DEFINE Inv == focus = "files" => FilesInv
  <1>1. Init => Inv
    BY InitFiles DEF Init
  <1>2. Inv /\ [Next]_vars => Inv'
    BY StepKeepsFiles DEF Next, vars, slots, File!vars, from5
  <1>3. Inv => FilesKept
    BY FilesInvImplies DEF FilesKept
  <1> QED
    BY <1>1, <1>2, <1>3, PTL DEF Spec

-----------------------------------------------------------------------------
(* Where files, links and shares are, and how often their jobs are tried.   *)

aged == x4

Places ==
    /\ held \subseteq Files /\ stored \subseteq Files /\ aged \subseteq Files
    /\ link \subseteq Files \X File!Targets
    /\ \A h \in Shares : share[h].status = "NONE" \/ share[h].file \in Files
    /\ \A s \in Slots : req[s] # Idle /\ req[s].op = "attach" => req[s].to \in File!Targets

\* A job that waits, or is not there yet, has an attempt left.
MayTry(j) == j.attempts <= FileAttempts /\ (j.state \in {"NONE", "QUEUED"} => j.attempts < FileAttempts)
Tries == \A k \in File!Kinds, f \in Files : MayTry(jobs[k][f])

LEMMA InitPlaces == CountsAssumption /\ File!Init => Places /\ Tries
  <1> SUFFICES ASSUME CountsAssumption, File!Init PROVE Places /\ Tries
    OBVIOUS
  <1>1. Places
    BY DEF Places, File!Init, aged
  <1>2. \A k \in File!Kinds, f \in Files : jobs[k][f] = File!NoJob
    <2>1. jobs = [k \in File!Kinds |-> [f \in Files |-> File!NoJob]]
      BY DEF File!Init
    <2> QED
      BY <2>1
  <1>3. File!NoJob.attempts = 0
    BY DEF File!NoJob
  <1> QED
    BY <1>1, <1>2, <1>3 DEF Tries, MayTry, CountsAssumption

LEMMA OneTry ==
    ASSUME FilesTyped, Tries, NEW k \in File!Kinds, NEW f \in Files, NEW r, MayTry(r),
           jobs' = [jobs EXCEPT ![k][f] = r]
    PROVE  Tries'
  <1>1. \A l \in File!Kinds, g \in Files : jobs'[l][g] = IF l = k /\ g = f THEN r ELSE jobs[l][g]
    BY DEF FilesTyped
  <1> QED
    BY <1>1 DEF Tries, MayTry

\* What the steps of a job make of its attempts.
LEMMA JobTries ==
    ASSUME CountsAssumption, FilesTyped, Tries, NEW k \in File!Kinds, NEW f \in Files,
           \/ \E step : File!Step(k, f, step)
           \/ File!Succeed(k, f) \/ File!Fail(k, f) \/ File!Claim(k, f)
           \/ jobs[k][f].state = "NONE" /\ File!Enqueue(k, f)
    PROVE  Tries'
  <1>1. /\ jobs[k][f] \in JobRecords /\ MayTry(jobs[k][f]) /\ FileAttempts \in Nat
        /\ DOMAIN jobs = File!Kinds /\ jobs[k] \in [Files -> JobRecords]
    BY DEF FilesTyped, Tries, CountsAssumption
  <1>2. CASE \E step : File!Step(k, f, step)
    <2>1. PICK step : File!Step(k, f, step)
      BY <1>2
    <2>2. PICK r : r = [jobs[k][f] EXCEPT !.step = step]
      OBVIOUS
    <2>3. MayTry(r)
      BY <1>1, <2>2 DEF MayTry, JobRecords
    <2>4. jobs' = [jobs EXCEPT ![k][f] = r]
      BY <1>1, <2>1, <2>2 DEF File!Step
    <2> QED
      BY <2>3, <2>4, OneTry
  <1>3. CASE File!Succeed(k, f)
    <2>1. PICK r : r = [jobs[k][f] EXCEPT !.state = "SUCCEEDED", !.step = "read"]
      OBVIOUS
    <2>2. MayTry(r)
      BY <1>1, <2>1 DEF MayTry, JobRecords
    <2>3. jobs' = [jobs EXCEPT ![k][f] = r]
      BY <1>1, <1>3, <2>1 DEF File!Succeed
    <2> QED
      BY <2>2, <2>3, OneTry
  <1>4. CASE File!Fail(k, f)
    <2>1. PICK state : state = IF jobs[k][f].attempts >= FileAttempts THEN "FAILED" ELSE "QUEUED"
      OBVIOUS
    <2>2. PICK r : r = [jobs[k][f] EXCEPT !.step = "read", !.state = state]
      OBVIOUS
    <2>3. MayTry(r)
      BY <1>1, <2>1, <2>2 DEF MayTry, JobRecords
    <2>4. jobs' = [jobs EXCEPT ![k][f].step = "read", ![k][f].state = state]
      BY <1>4, <2>1 DEF File!Fail
    <2>5. jobs' = [jobs EXCEPT ![k][f] = r]
      BY <1>1, <2>2, <2>4
    <2> QED
      BY <2>3, <2>5, OneTry
  <1>5. CASE File!Claim(k, f)
    <2>1. PICK r : r = [state |-> "RUNNING", step |-> "read", attempts |-> jobs[k][f].attempts + 1]
      OBVIOUS
    <2>2. MayTry(r)
      BY <1>1, <1>5, <2>1 DEF MayTry, JobRecords, File!Claim
    <2>3. jobs' = [jobs EXCEPT ![k][f] = r]
      BY <1>1, <1>5, <2>1 DEF File!Claim
    <2> QED
      BY <2>2, <2>3, OneTry
  <1>6. CASE jobs[k][f].state = "NONE" /\ File!Enqueue(k, f)
    <2>1. PICK r : r = [jobs[k][f] EXCEPT !.state = "QUEUED"]
      OBVIOUS
    <2>2. MayTry(r)
      BY <1>1, <1>6, <2>1 DEF MayTry, JobRecords
    <2>3. jobs' = [jobs EXCEPT ![k][f] = r]
      BY <1>1, <1>6, <2>1 DEF File!Enqueue
    <2> QED
      BY <2>2, <2>3, OneTry
  <1> QED
    BY <1>2, <1>3, <1>4, <1>5, <1>6

LEMMA StepKeepsTries ==
    ASSUME CountsAssumption, FilesInv, Tries, File!Next \/ UNCHANGED File!vars
    PROVE  Tries'
  <1>1. FilesTyped /\ UploadsSound
    BY DEF FilesInv, FilesFit
  <1>2. UNCHANGED jobs => Tries'
    BY DEF Tries, MayTry
  <1>3. ASSUME NEW f \in Files, File!Work(f) PROVE Tries'
    <2>1. \/ UNCHANGED jobs
          \/ \E k \in File!Kinds : \/ \E step : File!Step(k, f, step)
                                   \/ File!Succeed(k, f) \/ File!Fail(k, f) \/ File!Claim(k, f)
      BY <1>3, KindsFacts DEF File!Work, File!ScanRead, File!ScanPromote, File!ScanMark, File!CleanRead,
         File!CleanLinks, File!CleanBytes, File!CleanRow, File!Age, File!Cut
    <2> QED
      BY <1>1, <1>2, <2>1, JobTries
  <1>4. ASSUME NEW s \in Slots, File!Begin(s) \/ File!Proceed(s) PROVE Tries'
    <2>1. CASE File!UploadScan(s)
      <3>1. req[s].file \in Files /\ jobs["file.scan"][req[s].file].state = "NONE"
        BY <1>1, <2>1 DEF UploadsSound, Uploading, UploadSound, File!UploadScan, File!At
      <3> QED
        BY <1>1, <2>1, <3>1, JobTries, KindsFacts DEF File!UploadScan
    <2>2. CASE File!StageCleanup(s)
      <3>1. req[s].file \in Files /\ jobs["file.staged.cleanup"][req[s].file].state = "NONE"
        BY <1>1, <2>2 DEF UploadsSound, Uploading, UploadSound, File!StageCleanup, File!At
      <3> QED
        BY <1>1, <2>2, <3>1, JobTries, KindsFacts DEF File!StageCleanup
    <2>3. CASE UNCHANGED jobs
      BY <1>2, <2>3
    <2> QED
      BY <1>4, <2>1, <2>2, <2>3 DEF File!Begin, File!BeginUpload, File!BeginAttach, File!BeginDetach,
         File!BeginShare, File!BeginRevoke, File!Proceed, File!UploadRow, File!UploadLink, File!CommitAttach,
         File!CommitDetach, File!CommitShare, File!CommitRevoke, File!Refuse, File!Abandon, File!data
  <1>5. CASE UNCHANGED File!vars
    BY <1>2, <1>5 DEF File!vars
  <1> QED
    BY <1>3, <1>4, <1>5 DEF File!Next

LEMMA StepKeepsPlaces ==
    ASSUME FilesInv, Places, File!Next \/ UNCHANGED File!vars
    PROVE  Places'
  <1> USE DEF aged
  <1>1. FilesTyped /\ UploadsSound /\ AboutFiles /\ row \in [Files -> {"NONE", "QUARANTINED", "CLEAN"}]
    BY DEF FilesInv, FilesFit, FilesTyped
  <1>2. ASSUME NEW f \in Files, File!Work(f) PROVE Places'
    <2>1. UNCHANGED <<req, link, share>> /\ aged' \subseteq aged \cup {f} /\ held' \subseteq held
          /\ stored' \subseteq stored \cup {f}
      BY <1>2 DEF File!Work, File!ScanRead, File!ScanPromote, File!ScanMark, File!CleanRead, File!CleanLinks,
                  File!CleanBytes, File!CleanRow, File!Age, File!Claim, File!Cut, File!disk, File!data
    <2> QED
      BY <1>2, <2>1 DEF Places
  <1>3. ASSUME NEW s \in Slots, NEW r, req' = [req EXCEPT ![s] = r],
               r = Idle \/ (r.op = "attach" => r.to \in File!Targets)
        PROVE  \A t \in Slots : req'[t] # Idle /\ req'[t].op = "attach" => req'[t].to \in File!Targets
    BY <1>1, <1>3 DEF Places, FilesTyped
  <1>4. ASSUME NEW s \in Slots, File!Begin(s) PROVE Places'
    <2>1. UNCHANGED <<link, share, aged, stored>> /\ (held' = held \/ \E f \in Files : held' = held \cup {f})
      BY <1>4 DEF File!Begin, File!BeginUpload, File!BeginAttach, File!BeginDetach, File!BeginShare,
         File!BeginRevoke, File!disk, File!data
    <2>2. \E r : req' = [req EXCEPT ![s] = r] /\ (r.op = "attach" => r.to \in File!Targets)
      <3>1. CASE File!BeginAttach(s)
        <4>1. PICK f \in Files, t \in File!Targets : File!Start(s, File!Seen(f, t))
          BY <3>1, Zenon DEF File!BeginAttach
        <4>2. PICK r : r = File!Seen(f, t)
          OBVIOUS
        <4>3. r.to = t
          BY <4>2 DEF File!Seen
        <4> QED
          BY <4>1, <4>2, <4>3 DEF File!Start
      <3>2. CASE File!BeginUpload(s)
        <4>1. PICK f, mode : File!Start(s, [op |-> "upload", file |-> f, mode |-> mode, step |-> "row"])
          BY <3>2, Zenon DEF File!BeginUpload
        <4>2. PICK r : r = [op |-> "upload", file |-> f, mode |-> mode, step |-> "row"]
          OBVIOUS
        <4>3. r.op # "attach"
          BY <4>2
        <4> QED
          BY <4>1, <4>2, <4>3 DEF File!Start
      <3>3. CASE File!BeginDetach(s)
        <4>1. PICK f, seen : File!Start(s, [op |-> "detach", file |-> f, step |-> "commit", seen |-> seen])
          BY <3>3, Zenon DEF File!BeginDetach
        <4>2. PICK r : r = [op |-> "detach", file |-> f, step |-> "commit", seen |-> seen]
          OBVIOUS
        <4>3. r.op # "attach"
          BY <4>2
        <4> QED
          BY <4>1, <4>2, <4>3 DEF File!Start
      <3>4. CASE File!BeginShare(s)
        <4>1. PICK f : File!Start(s, [op |-> "share", file |-> f, step |-> "commit"])
          BY <3>4, Zenon DEF File!BeginShare
        <4>2. PICK r : r = [op |-> "share", file |-> f, step |-> "commit"]
          OBVIOUS
        <4>3. r.op # "attach"
          BY <4>2
        <4> QED
          BY <4>1, <4>2, <4>3 DEF File!Start
      <3>5. CASE File!BeginRevoke(s)
        <4>1. PICK f, h : File!Start(s, [op |-> "revoke", file |-> f, share |-> h, step |-> "commit"])
          BY <3>5, Zenon DEF File!BeginRevoke
        <4>2. PICK r : r = [op |-> "revoke", file |-> f, share |-> h, step |-> "commit"]
          OBVIOUS
        <4>3. r.op # "attach"
          BY <4>2
        <4> QED
          BY <4>1, <4>2, <4>3 DEF File!Start
      <3> QED
        BY <1>4, <3>1, <3>2, <3>3, <3>4, <3>5 DEF File!Begin
    <2>3. \A t \in Slots : req'[t] # Idle /\ req'[t].op = "attach" => req'[t].to \in File!Targets
      BY <1>3, <2>2
    <2> QED
      BY <2>1, <2>3 DEF Places
  <1>5. ASSUME NEW s \in Slots, File!Proceed(s), \E r : req' = [req EXCEPT ![s] = r] /\ (r = Idle \/ r.op # "attach")
        PROVE  Places'
    <2>1. \A t \in Slots : req'[t] # Idle /\ req'[t].op = "attach" => req'[t].to \in File!Targets
      BY <1>3, <1>5
    <2>2. UNCHANGED <<held, stored, aged>>
      BY <1>5 DEF File!Proceed, File!UploadRow, File!UploadScan, File!StageCleanup, File!UploadLink,
         File!CommitAttach, File!CommitDetach, File!CommitShare, File!CommitRevoke, File!Refuse, File!Abandon,
         File!disk, File!data
    <2>3. link' \subseteq Files \X File!Targets
      <3>1. CASE File!UploadLink(s)
        <4>1. req[s].file \in Files
          BY <1>1, <3>1 DEF UploadsSound, Uploading, UploadSound, File!UploadLink, File!At
        <4> QED
          BY <3>1, <4>1 DEF File!UploadLink, File!Targets, Places
      <3>2. CASE File!CommitAttach(s)
        <4>1. req[s].file \in Files /\ req[s].to \in File!Targets
          BY <1>1, <3>2 DEF AboutFiles, Places, File!CommitAttach, File!At
        <4> QED
          BY <3>2, <4>1 DEF File!CommitAttach, Places
      <3>3. CASE link' \subseteq link
        BY <3>3 DEF Places
      <3> QED
        BY <1>5, <3>1, <3>2, <3>3 DEF File!Proceed, File!UploadRow, File!UploadScan, File!StageCleanup,
           File!CommitDetach, File!CommitShare, File!CommitRevoke, File!Refuse, File!Abandon, File!data
    <2>4. \A h \in Shares : share'[h].status = "NONE" \/ share'[h].file \in Files
      <3>1. CASE File!CommitShare(s)
        <4>1. PICK h \in Shares : share' = [share EXCEPT ![h] = [file |-> req[s].file, status |-> "ACTIVE"]]
          BY <3>1, Zenon DEF File!CommitShare
        <4>2. req[s].file \in Files
          BY <1>1, <3>1 DEF AboutFiles, File!CommitShare, File!At
        <4> QED
          BY <1>1, <4>1, <4>2 DEF FilesTyped, Places
      <3>2. CASE File!CommitRevoke(s)
        <4>1. /\ share' = [share EXCEPT ![req[s].share].status = "REVOKED"]
              /\ share[req[s].share].status = "ACTIVE"
          BY <3>2 DEF File!CommitRevoke
        <4>2. \A h \in Shares : share'[h].file = share[h].file
                                /\ (share'[h].status = share[h].status \/ (h = req[s].share /\ share[h].status = "ACTIVE"))
          BY <1>1, <4>1 DEF FilesTyped
        <4> QED
          BY <4>2 DEF Places
      <3>3. CASE UNCHANGED share
        BY <3>3 DEF Places
      <3> QED
        BY <1>5, <3>1, <3>2, <3>3 DEF File!Proceed, File!UploadRow, File!UploadScan, File!StageCleanup,
           File!UploadLink, File!CommitAttach, File!CommitDetach, File!Refuse, File!Abandon, File!data
    <2> QED
      BY <2>1, <2>2, <2>3, <2>4 DEF Places
  <1>6. ASSUME NEW s \in Slots, File!Proceed(s)
        PROVE  \E r : req' = [req EXCEPT ![s] = r] /\ (r = Idle \/ r.op # "attach")
    <2>1. CASE File!End(s)
      BY <2>1 DEF File!End
    <2>2. ASSUME NEW step, File!Go(s, step), req[s] # Idle, req[s].op = "upload"
          PROVE  \E r : req' = [req EXCEPT ![s] = r] /\ r.op = "upload"
      <3>1. PICK r : r = [req[s] EXCEPT !.step = step]
        OBVIOUS
      <3>2. req' = [req EXCEPT ![s] = r]
        BY <1>1, <2>2, <3>1 DEF File!Go, FilesTyped
      <3>3. r.op = req[s].op
        BY <3>1
      <3> QED
        BY <2>2, <3>2, <3>3
    <2> QED
      BY <1>6, <2>1, <2>2 DEF File!Proceed, File!UploadRow, File!UploadScan, File!StageCleanup, File!UploadLink,
         File!CommitAttach, File!CommitDetach, File!CommitShare, File!CommitRevoke, File!Refuse, File!Abandon,
         File!At
  <1>7. CASE UNCHANGED File!vars
    BY <1>7 DEF File!vars, File!disk, File!data, Places
  <1> QED
    BY <1>2, <1>4, <1>5, <1>6, <1>7 DEF File!Next

LEMMA FilesTypes == CountsAssumption /\ FilesInv /\ Places /\ Tries => File!TypeOK
  <1> SUFFICES ASSUME CountsAssumption, FilesInv, Places, Tries PROVE File!TypeOK
    OBVIOUS
  <1>1. FilesTyped /\ \A f \in Files : f \notin held \/ f \notin stored
    BY DEF FilesInv, FilesFit, FileSound, LifeSound
  <1>2. held \cap stored = {}
    BY <1>1 DEF Places
  <1>3. ASSUME NEW k \in File!Kinds, NEW f \in Files
        PROVE  jobs[k][f] \in [state : {"NONE", "QUEUED", "RUNNING", "SUCCEEDED", "FAILED"}, step : File!Steps,
                               attempts : 0 .. FileAttempts]
    <2>1. jobs[k][f] \in JobRecords /\ jobs[k][f].attempts <= FileAttempts /\ FileAttempts \in Nat
      BY <1>1 DEF FilesTyped, Tries, MayTry, CountsAssumption
    <2> QED
      BY <2>1 DEF JobRecords
  <1> QED
    BY <1>1, <1>2, <1>3 DEF File!TypeOK, FilesTyped, Places, aged
====
