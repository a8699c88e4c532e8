----------------------------- MODULE OfficeProofs -----------------------------
(***************************************************************************)
(* Proofs about the components of MCOffice, for any users, requests, rows  *)
(* and bounds.                                                             *)
(***************************************************************************)
EXTENDS MCOffice, FiniteSetTheorems, FunctionTheorems, TLAPS

-----------------------------------------------------------------------------
(* Work groups.                                                            *)

group    == x1
role     == x2
ask      == x3
admitted == x4
USE DEF group, role, ask, admitted

\* A request to join or leave is of somebody else than the owner; one that
\* decides is of a request that exists.
GroupSound(r) ==
    /\ r.op \in {"join", "leave"} => r.on \in Users \ {Owner}
    /\ r.op = "join" => r.x \in Grp!Policies
    /\ r.op = "decide" => /\ r.on \in Asks /\ ask[r.on].status # "NONE"
                          /\ r.x \in {"APPROVED", "REJECTED"}

\* Without overlap it is still undecided.
GroupStanding(r) == r.op = "decide" => ask[r.on].status = "PENDING"

AsksFit ==
    \A a \in Asks : /\ ask[a].status # "NONE" => ask[a].by \in Users \ {Owner}
                    /\ ask[a].status = "PENDING" <=> ask[a].key

OneRequest == \A s, t \in Slots : req[s] # Idle /\ req[t] # Idle => s = t

GroupRequestsFit ==
    /\ DOMAIN req = Slots
    /\ \A s \in Slots : req[s] # Idle => GroupSound(req[s])
    /\ serial => OneRequest /\ \A s \in Slots : req[s] # Idle => GroupStanding(req[s])

GroupInv == Grp!TypeOK /\ Grp!GroupHolds /\ Grp!DecidedOnce /\ AsksFit /\ GroupRequestsFit

LEMMA InitGroup == Grp!Init => GroupInv
  <1> SUFFICES ASSUME Grp!Init PROVE GroupInv
    OBVIOUS
  <1> USE DEF Grp!Init
  <1>1. Grp!TypeOK
    BY DEF Grp!TypeOK, Grp!Policies
  <1>2. Grp!GroupHolds /\ Grp!DecidedOnce
    BY DEF Grp!GroupHolds, Grp!DecidedOnce, Grp!Listed, Grp!Opens, Grp!Member, Users
  <1>3. AsksFit /\ GroupRequestsFit
    BY DEF AsksFit, GroupRequestsFit, OneRequest
  <1> QED
    BY <1>1, <1>2, <1>3 DEF GroupInv

\* A request begins and rows stay.
LEMMA StartKeepsGroup ==
    ASSUME GroupInv, NEW s \in Slots, NEW op, NEW on, NEW x, Grp!Free(s), Grp!Start(s, op, on, x),
           GroupSound([op |-> op, on |-> on, x |-> x]),
           serial => GroupStanding([op |-> op, on |-> on, x |-> x])
    PROVE  GroupInv'
  <1> USE DEF GroupInv, Grp!rows
  <1>1. UNCHANGED <<group, role, ask, admitted, serial>>
    BY DEF Grp!Start
  <1>2. Grp!TypeOK' /\ Grp!GroupHolds' /\ Grp!DecidedOnce' /\ AsksFit'
    BY <1>1 DEF Grp!TypeOK, Grp!GroupHolds, Grp!DecidedOnce, AsksFit, Grp!Listed, Grp!Opens, Grp!Member
  <1>3. PICK r : r = [op |-> op, on |-> on, x |-> x]
    OBVIOUS
  <1>4. DOMAIN req' = Slots /\ \A t \in Slots : req'[t] = IF t = s THEN r ELSE req[t]
    BY <1>3 DEF Grp!Start, GroupRequestsFit
  <1>5. serial => \A t \in Slots : req[t] = Idle
    BY DEF Grp!Free
  <1>6. GroupRequestsFit'
    BY <1>1, <1>3, <1>4, <1>5 DEF GroupRequestsFit, GroupSound, GroupStanding, OneRequest
  <1> QED
    BY <1>2, <1>6

\* A request ends, and no row of a request is taken away.
LEMMA EndKeepsGroup ==
    ASSUME GroupInv, NEW s \in Slots, req[s] # Idle, Grp!End(s),
           \A a \in Asks : ask[a].status # "NONE" => ask'[a].status # "NONE"
    PROVE  GroupRequestsFit'
  <1>1. /\ DOMAIN req' = Slots /\ serial' = serial
        /\ \A t \in Slots : req'[t] # Idle => t # s /\ req'[t] = req[t]
    BY DEF Grp!End, GroupInv, GroupRequestsFit
  <1> QED
    BY <1>1 DEF GroupInv, GroupRequestsFit, GroupSound, OneRequest

LEMMA StepKeepsGroup == GroupInv /\ (Grp!Next \/ UNCHANGED Grp!vars) => GroupInv'
  <1> SUFFICES ASSUME GroupInv, Grp!Next \/ UNCHANGED Grp!vars PROVE GroupInv'
    OBVIOUS
  <1> USE DEF GroupInv
  <1>a. \A s \in Slots : req[s] # Idle =>
            GroupSound(req[s]) /\ (serial => GroupStanding(req[s]))
    BY DEF GroupRequestsFit
  <1>1. ASSUME NEW s \in Slots, Grp!Free(s), Grp!BeginJoin(s) PROVE GroupInv'
    <2>1. PICK u \in Users : ~Grp!Member(u) /\ Grp!Start(s, "join", u, group.policy)
      BY <1>1 DEF Grp!BeginJoin
    <2>2. u # Owner /\ group.policy \in Grp!Policies
      BY <2>1 DEF Grp!Member, Grp!GroupHolds, Grp!TypeOK
    <2> QED
      BY <1>1, <2>1, <2>2, StartKeepsGroup DEF GroupSound, GroupStanding
  <1>2. ASSUME NEW s \in Slots, Grp!Free(s), Grp!BeginLeave(s) PROVE GroupInv'
    <2>1. PICK u \in Users : Grp!MayLeave(u) /\ Grp!Start(s, "leave", u, "")
      BY <1>2 DEF Grp!BeginLeave
    <2>2. u # Owner
      BY <2>1 DEF Grp!MayLeave, Grp!GroupHolds
    <2> QED
      BY <1>2, <2>1, <2>2, StartKeepsGroup DEF GroupSound, GroupStanding
  <1>3. ASSUME NEW s \in Slots, Grp!Free(s), Grp!BeginDecide(s) PROVE GroupInv'
    <2>1. PICK a \in Asks, d \in {"APPROVED", "REJECTED"} :
             Grp!Undecided(a) /\ Grp!Start(s, "decide", a, d)
      BY <1>3 DEF Grp!BeginDecide
    <2> QED
      BY <1>3, <2>1, StartKeepsGroup DEF GroupSound, GroupStanding, Grp!Undecided
  <1>4. ASSUME NEW s \in Slots, Grp!CommitJoin(s) PROVE GroupInv'
    <2>1. PICK u \in Users \ {Owner} :
             role' = [role EXCEPT ![u] = "MEMBER"] /\ UNCHANGED <<group, ask, admitted>>
      BY <1>4, <1>a DEF Grp!CommitJoin, Grp!At, GroupSound
    <2>2. req[s] # Idle /\ Grp!End(s)
      BY <1>4 DEF Grp!CommitJoin, Grp!At
    <2>3. GroupRequestsFit'
      BY <2>1, <2>2, EndKeepsGroup
    <2>4. Grp!TypeOK' /\ AsksFit'
      BY <2>1 DEF Grp!TypeOK, AsksFit
    <2>5. Grp!GroupHolds' /\ Grp!DecidedOnce'
      BY <2>1, <2>2, <2>4 DEF Grp!TypeOK, Grp!GroupHolds, Grp!DecidedOnce, Grp!Listed, Grp!Opens,
         Grp!Member, Grp!End
    <2> QED
      BY <2>3, <2>4, <2>5
  <1>5. ASSUME NEW s \in Slots, Grp!CommitAsk(s) PROVE GroupInv'
    <2>1. req[s] # Idle /\ Grp!End(s) /\ req[s].op = "join" /\ req[s].on \in Users \ {Owner}
      BY <1>5, <1>a DEF Grp!CommitAsk, Grp!At, GroupSound
    <2>2. PICK a \in Asks, u \in Users \ {Owner} :
             /\ ask[a].status = "NONE" /\ Grp!KeyFree(u)
             /\ ask' = [ask EXCEPT ![a] = [by |-> u, status |-> "PENDING", key |-> TRUE]]
             /\ UNCHANGED <<group, role, admitted>>
      BY <1>5, <2>1 DEF Grp!CommitAsk
    <2>3. \A b \in Asks : ask'[b] = IF b = a THEN [by |-> u, status |-> "PENDING", key |-> TRUE]
                                    ELSE ask[b]
      BY <2>2 DEF Grp!TypeOK
    <2>4. GroupRequestsFit'
      BY <2>1, <2>3, EndKeepsGroup
    <2>5. Grp!TypeOK'
      BY <2>2 DEF Grp!TypeOK
    <2>6. AsksFit'
      BY <2>3 DEF AsksFit
    <2>7. Grp!GroupHolds'
      BY <2>2, <2>3
      DEF Grp!GroupHolds, Grp!KeyFree, Grp!PendingOf, AsksFit, Grp!Listed, Grp!Opens, Grp!Member
    <2>8. Grp!DecidedOnce'
      BY <2>1, <2>2, <2>3 DEF Grp!DecidedOnce, Grp!End
    <2> QED
      BY <2>4, <2>5, <2>6, <2>7, <2>8
  <1>6. ASSUME NEW s \in Slots, Grp!RefuseAsk(s) PROVE GroupInv'
    <2>1. req[s] # Idle /\ Grp!End(s) /\ UNCHANGED <<group, role, ask, admitted>>
      BY <1>6 DEF Grp!RefuseAsk, Grp!At, Grp!rows
    <2>2. GroupRequestsFit'
      BY <2>1, EndKeepsGroup
    <2> QED
      BY <2>1, <2>2 DEF Grp!TypeOK, Grp!GroupHolds, Grp!DecidedOnce, AsksFit, Grp!Listed,
         Grp!Opens, Grp!Member, Grp!End
  <1>7. ASSUME NEW s \in Slots, Grp!CommitLeave(s) PROVE GroupInv'
    <2>1. PICK u \in Users \ {Owner} :
             role' = [role EXCEPT ![u] = "NONE"] /\ UNCHANGED <<group, ask, admitted>>
      BY <1>7, <1>a DEF Grp!CommitLeave, Grp!At, GroupSound
    <2>2. req[s] # Idle /\ Grp!End(s)
      BY <1>7 DEF Grp!CommitLeave, Grp!At
    <2>3. GroupRequestsFit'
      BY <2>1, <2>2, EndKeepsGroup
    <2>4. Grp!TypeOK' /\ AsksFit'
      BY <2>1 DEF Grp!TypeOK, AsksFit
    <2>5. Grp!GroupHolds' /\ Grp!DecidedOnce'
      BY <2>1, <2>2, <2>4 DEF Grp!TypeOK, Grp!GroupHolds, Grp!DecidedOnce, Grp!Listed, Grp!Opens,
         Grp!Member, Grp!End
    <2> QED
      BY <2>3, <2>4, <2>5
  <1>8. ASSUME NEW s \in Slots, Grp!CommitDecide(s) PROVE GroupInv'
    <2>1. req[s] # Idle /\ Grp!End(s)
      BY <1>8 DEF Grp!CommitDecide, Grp!At
    <2>2. PICK a \in Asks, d \in {"APPROVED", "REJECTED"} :
             /\ a = req[s].on /\ d = req[s].x
             /\ ask[a].status # "NONE" /\ (serial => ask[a].status = "PENDING")
      BY <1>8, <1>a DEF Grp!CommitDecide, Grp!At, GroupSound, GroupStanding
    <2>3. ask' = [ask EXCEPT ![a].status = d, ![a].key = FALSE] /\ UNCHANGED group
      BY <1>8, <2>2 DEF Grp!CommitDecide
    <2>4. PICK u \in Users \ {Owner} : u = ask[a].by
      BY <2>2 DEF AsksFit
    <2>5. \/ /\ d = "APPROVED" /\ role' = [role EXCEPT ![u] = "MEMBER"]
             /\ admitted' = admitted \cup {a}
          \/ d = "REJECTED" /\ UNCHANGED <<role, admitted>>
      BY <1>8, <2>2, <2>4 DEF Grp!CommitDecide
    <2>6. /\ \A b \in Asks \ {a} : ask'[b] = ask[b]
          /\ ask'[a].by = u /\ ask'[a].status = d /\ ~ask'[a].key
      BY <2>3, <2>4 DEF Grp!TypeOK
    <2>7. GroupRequestsFit'
      BY <2>1, <2>2, <2>6, EndKeepsGroup
    <2>8. Grp!TypeOK'
      <3>1. ask' \in [Asks -> [by : Users \cup {NoUser}, key : BOOLEAN,
                               status : {"NONE", "PENDING", "APPROVED", "REJECTED"}]]
        BY <2>3 DEF Grp!TypeOK
      <3>2. role' \in [Users -> {"NONE", "MEMBER", "MODERATOR", "OWNER"}] /\ admitted' \subseteq Asks
        BY <2>5 DEF Grp!TypeOK
      <3> QED
        BY <2>3, <3>1, <3>2 DEF Grp!TypeOK
    <2>9. AsksFit'
      BY <2>6 DEF AsksFit
    <2>10. Grp!GroupHolds'
      <3>1. role'[Owner] = "OWNER"
        BY <2>5 DEF Grp!GroupHolds, Grp!TypeOK, Users
      <3>2. \A v \in Users : Grp!Listed(v)' => Grp!Opens(v)'
        BY <2>8 DEF Grp!Listed, Grp!Opens, Grp!Member, Grp!TypeOK
      <3>3. \A b, c \in Asks : b # c /\ ask'[b].status = "PENDING" /\ ask'[c].status = "PENDING"
                                => ask'[b].by # ask'[c].by
        BY <2>2, <2>6 DEF Grp!GroupHolds
      <3> QED
        BY <3>1, <3>2, <3>3 DEF Grp!GroupHolds
    <2>11. Grp!DecidedOnce'
      BY <2>1, <2>2, <2>5, <2>6 DEF Grp!DecidedOnce, Grp!End
    <2> QED
      BY <2>7, <2>8, <2>9, <2>10, <2>11
  <1>9. CASE Grp!Update \/ Grp!Archive
    <2>1. UNCHANGED <<role, ask, admitted, req, serial>>
      BY <1>9 DEF Grp!Update, Grp!Archive
    <2>2. Grp!TypeOK'
      BY <1>9, <2>1 DEF Grp!Update, Grp!Archive, Grp!TypeOK
    <2>3. Grp!GroupHolds'
      BY <2>1, <2>2 DEF Grp!GroupHolds, Grp!Listed, Grp!Opens, Grp!Member, Grp!TypeOK
    <2> QED
      BY <2>1, <2>2, <2>3
      DEF Grp!DecidedOnce, AsksFit, GroupRequestsFit, GroupSound, GroupStanding, OneRequest
  <1>10. CASE UNCHANGED Grp!vars
    <2>1. UNCHANGED <<group, role, ask, admitted, req, serial>>
      BY <1>10 DEF Grp!vars, Grp!rows
    <2> QED
      BY <2>1 DEF Grp!TypeOK, Grp!GroupHolds, Grp!DecidedOnce, AsksFit, Grp!Listed, Grp!Opens,
         Grp!Member, GroupRequestsFit, GroupSound, GroupStanding, OneRequest
  <1> QED
    BY <1>1, <1>2, <1>3, <1>4, <1>5, <1>6, <1>7, <1>8, <1>9, <1>10 DEF Grp!Next

\* join, leave and decideRequest: the owner stays, nobody has two requests pending,
\* what is listed can be opened, and without overlap a decision is made once.
THEOREM GroupsSound == Spec => []GroupHolds
  <1> DEFINE Inv == focus = "groups" => GroupInv
  <1>1. Init => Inv
    BY InitGroup DEF Init
  <1>2. Inv /\ [Next]_vars => Inv'
    BY StepKeepsGroup DEF Next, vars, Grp!vars, Grp!rows, from5, from6, from7
  <1>3. Inv => GroupHolds
    BY DEF GroupHolds, GroupInv
  <1> QED
    BY <1>1, <1>2, <1>3, PTL DEF Spec

-----------------------------------------------------------------------------
(* The calendar.                                                           *)

version == x1
body    == x2
record  == x3
outbox  == x4
answers == x5
USE DEF version, body, record, outbox, answers

CalRequestsFit ==
    /\ DOMAIN req = Slots
    /\ \A s \in Slots : req[s] # Idle =>
           /\ req[s].op = "create" => req[s].k \in Keys /\ req[s].x \in Bodies
           /\ req[s].op = "update" => req[s].k \in Nat \ {0} /\ req[s].x \in Events

\* What was answered is what the record of the key says.
AnswersStand ==
    \A a \in answers : /\ a.key \in Keys /\ a.event \in Events
                       /\ record[a.key] = a.event /\ a.body = body[a.event]

EventsRecorded ==
    /\ \A k \in Keys : record[k] # NoUser => version[record[k]] > 0
    /\ \A e \in Events : version[e] > 0 => \E k \in Keys : record[k] = e

VersionsAnnounced ==
    \A e \in Events, n \in Nat : [event |-> e, version |-> n] \in outbox <=> n \in 1 .. version[e]

CalInv == Cal!TypeOK /\ CalRequestsFit /\ AnswersStand /\ EventsRecorded /\ VersionsAnnounced

LEMMA CalInvImplies == CalInv => Cal!OneEventPerKey
  <1> SUFFICES ASSUME CalInv PROVE Cal!OneEventPerKey
    OBVIOUS
  <1> USE DEF CalInv
  <1>1. \A a, b \in answers : a.key = b.key => a.event = b.event /\ a.body = b.body
    BY DEF AnswersStand
  <1>2. {e \in Events : version[e] > 0} = {record[k] : k \in Keys} \ {NoUser}
    BY ConstantsAssumption DEF EventsRecorded, Cal!TypeOK
  <1>3. ASSUME NEW e \in Events
        PROVE  {o.version : o \in {p \in outbox : p.event = e}} = 1 .. version[e]
    <2>1. ASSUME NEW p \in outbox, p.event = e
          PROVE  p.version \in 1 .. version[e]
      <3>1. p = [event |-> e, version |-> p.version] /\ p.version \in Nat
        BY <2>1 DEF Cal!TypeOK
      <3> QED
        BY <3>1 DEF VersionsAnnounced
    <2>2. ASSUME NEW n \in 1 .. version[e]
          PROVE  \E p \in outbox : p.event = e /\ p.version = n
      <3>1. n \in Nat
        BY DEF Cal!TypeOK
      <3>2. [event |-> e, version |-> n] \in outbox
        BY <3>1 DEF VersionsAnnounced
      <3> QED
        BY <3>2
    <2> QED
      BY <2>1, <2>2
  <1> QED
    BY <1>1, <1>2, <1>3 DEF Cal!OneEventPerKey

LEMMA InitCal == Cal!Init => CalInv
  BY DEF Cal!Init, CalInv, Cal!TypeOK, CalRequestsFit, AnswersStand, EventsRecorded, VersionsAnnounced

LEMMA StartKeepsCal ==
    ASSUME CalInv, NEW s \in Slots, NEW r, Cal!Start(s, r), UNCHANGED answers,
           r.op = "create" => r.k \in Keys /\ r.x \in Bodies,
           r.op = "update" => r.k \in Nat \ {0} /\ r.x \in Events
    PROVE  CalInv'
  <1> USE DEF CalInv
  <1>1. UNCHANGED <<version, body, record, outbox>>
    BY DEF Cal!Start
  <1>2. DOMAIN req' = Slots /\ \A t \in Slots : req'[t] = IF t = s THEN r ELSE req[t]
    BY DEF Cal!Start, CalRequestsFit
  <1>3. CalRequestsFit'
    BY <1>2 DEF CalRequestsFit
  <1> QED
    BY <1>1, <1>3 DEF Cal!TypeOK, AnswersStand, EventsRecorded, VersionsAnnounced

LEMMA EndKeepsCal ==
    ASSUME CalInv, NEW s \in Slots, Cal!End(s)
    PROVE  CalRequestsFit'
  <1>1. DOMAIN req' = Slots /\ \A t \in Slots : req'[t] # Idle => req'[t] = req[t]
    BY DEF Cal!End, CalInv, CalRequestsFit
  <1> QED
    BY <1>1 DEF CalInv, CalRequestsFit

LEMMA StepKeepsCal == CalInv /\ (Cal!Next \/ UNCHANGED Cal!vars) => CalInv'
  <1> SUFFICES ASSUME CalInv, Cal!Next \/ UNCHANGED Cal!vars PROVE CalInv'
    OBVIOUS
  <1> USE DEF CalInv
  <1>1. ASSUME NEW s \in Slots, Cal!BeginCreate(s) PROVE CalInv'
    <2>1. PICK k \in Keys, b \in Bodies :
             IF record[k] = NoUser
             THEN Cal!Start(s, [op |-> "create", k |-> k, x |-> b]) /\ UNCHANGED answers
             ELSE /\ Cal!SameBody(k, b)
                  /\ answers' = answers \cup {[key |-> k, event |-> record[k], body |-> b]}
                  /\ UNCHANGED <<version, body, record, outbox, req>>
      BY <1>1 DEF Cal!BeginCreate
    <2>2. CASE record[k] = NoUser
      <3>1. PICK r : r = [op |-> "create", k |-> k, x |-> b]
        OBVIOUS
      <3> QED
        BY <2>1, <2>2, <3>1, StartKeepsCal
    <2>3. CASE record[k] # NoUser
      <3>1. record[k] \in Events /\ body[record[k]] = b
        BY <2>1, <2>3 DEF Cal!TypeOK, Cal!SameBody
      <3>2. AnswersStand'
        BY <2>1, <2>3, <3>1 DEF AnswersStand
      <3> QED
        BY <2>1, <2>3, <3>2 DEF Cal!TypeOK, CalRequestsFit, EventsRecorded, VersionsAnnounced
    <2> QED
      BY <2>2, <2>3
  <1>2. ASSUME NEW s \in Slots, Cal!BeginUpdate(s) PROVE CalInv'
    <2>1. PICK e \in Events : /\ version[e] > 0 /\ UNCHANGED answers
                              /\ Cal!Start(s, [op |-> "update", k |-> version[e], x |-> e])
      BY <1>2 DEF Cal!BeginUpdate
    <2>2. PICK r : r = [op |-> "update", k |-> version[e], x |-> e]
      OBVIOUS
    <2>3. version[e] \in Nat \ {0}
      BY <2>1 DEF Cal!TypeOK
    <2> QED
      BY <2>1, <2>2, <2>3, StartKeepsCal
  <1>3. ASSUME NEW s \in Slots, Cal!CommitCreate(s) PROVE CalInv'
    <2>0. req[s] # Idle /\ req[s].op = "create" /\ Cal!End(s)
      BY <1>3 DEF Cal!CommitCreate, Cal!At
    <2>1. PICK e \in Events, k \in Keys, b \in Bodies :
             /\ record[k] = NoUser /\ version[e] = 0
             /\ version' = [version EXCEPT ![e] = 1]
             /\ body' = [body EXCEPT ![e] = b]
             /\ record' = [record EXCEPT ![k] = e]
             /\ outbox' = outbox \cup {[event |-> e, version |-> 1]}
             /\ answers' = answers \cup {[key |-> k, event |-> e, body |-> b]}
      BY <1>3, <2>0 DEF Cal!CommitCreate, Cal!KeyFree, CalRequestsFit
    <2>2. Cal!TypeOK'
      BY <2>1 DEF Cal!TypeOK
    <2>3. AnswersStand'
      <3>1. ASSUME NEW a \in answers
            PROVE  a.key # k /\ a.event # e
        BY <2>1, ConstantsAssumption DEF AnswersStand, EventsRecorded, Cal!TypeOK
      <3>2. \A a \in answers : record'[a.key] = a.event /\ a.body = body'[a.event]
        BY <2>1, <3>1 DEF AnswersStand, Cal!TypeOK
      <3>3. record'[k] = e /\ body'[e] = b
        BY <2>1 DEF Cal!TypeOK
      <3> QED
        BY <2>1, <3>2, <3>3 DEF AnswersStand
    <2>4. EventsRecorded'
      <3>1. ASSUME NEW j \in Keys, record'[j] # NoUser
            PROVE  version'[record'[j]] > 0
        BY <2>1, <3>1 DEF EventsRecorded, Cal!TypeOK
      <3>2. ASSUME NEW f \in Events, version'[f] > 0
            PROVE  \E j \in Keys : record'[j] = f
        <4>1. CASE f = e
          BY <2>1, <4>1 DEF Cal!TypeOK
        <4>2. CASE f # e
          <5>1. PICK j \in Keys : record[j] = f
            BY <2>1, <3>2, <4>2 DEF EventsRecorded, Cal!TypeOK
          <5>2. j # k
            BY <2>1, <5>1, ConstantsAssumption
          <5> QED
            BY <2>1, <5>1, <5>2 DEF Cal!TypeOK
        <4> QED
          BY <4>1, <4>2
      <3> QED
        BY <3>1, <3>2 DEF EventsRecorded
    <2>5. VersionsAnnounced'
      <3>1. ASSUME NEW f \in Events, NEW m \in Nat
            PROVE  [event |-> f, version |-> m] \in outbox' <=> m \in 1 .. version'[f]
        <4>1. version'[e] = 1 /\ (f # e => version'[f] = version[f])
          BY <2>1 DEF Cal!TypeOK
        <4>2. [event |-> f, version |-> m] \in outbox <=> m \in 1 .. version[f]
          BY DEF VersionsAnnounced
        <4>3. [event |-> f, version |-> m] = [event |-> e, version |-> 1] <=> f = e /\ m = 1
          BY Zenon
        <4> QED
          BY <2>1, <4>1, <4>2, <4>3 DEF Cal!TypeOK
      <3> QED
        BY <3>1 DEF VersionsAnnounced
    <2> QED
      BY <2>0, <2>2, <2>3, <2>4, <2>5, EndKeepsCal
  <1>4. ASSUME NEW s \in Slots, Cal!CommitUpdate(s) PROVE CalInv'
    <2>0. req[s] # Idle /\ req[s].op = "update" /\ Cal!End(s)
      BY <1>4 DEF Cal!CommitUpdate, Cal!At
    <2>1. PICK e \in Events, n \in Nat \ {0} :
             /\ version[e] = n /\ version' = [version EXCEPT ![e] = n + 1]
             /\ outbox' = outbox \cup {[event |-> e, version |-> n + 1]}
             /\ UNCHANGED <<body, record, answers>>
      BY <1>4, <2>0 DEF Cal!CommitUpdate, Cal!Fresh, CalRequestsFit
    <2>2. Cal!TypeOK'
      BY <2>1 DEF Cal!TypeOK
    <2>3. AnswersStand'
      BY <2>1 DEF AnswersStand
    <2>4. \A f \in Events : version'[f] > 0 <=> version[f] > 0
      BY <2>1 DEF Cal!TypeOK
    <2>5. EventsRecorded'
      BY <2>1, <2>4, ConstantsAssumption DEF EventsRecorded, Cal!TypeOK
    <2>6. VersionsAnnounced'
      <3>1. ASSUME NEW f \in Events, NEW m \in Nat
            PROVE  [event |-> f, version |-> m] \in outbox' <=> m \in 1 .. version'[f]
        <4>1. version'[e] = n + 1 /\ (f # e => version'[f] = version[f])
          BY <2>1 DEF Cal!TypeOK
        <4>2. [event |-> f, version |-> m] \in outbox <=> m \in 1 .. version[f]
          BY DEF VersionsAnnounced
        <4>3. [event |-> f, version |-> m] = [event |-> e, version |-> n + 1]
                <=> f = e /\ m = n + 1
          BY Zenon
        <4> QED
          BY <2>1, <4>1, <4>2, <4>3 DEF Cal!TypeOK
      <3> QED
        BY <3>1 DEF VersionsAnnounced
    <2> QED
      BY <2>0, <2>2, <2>3, <2>5, <2>6, EndKeepsCal
  <1>5. ASSUME NEW s \in Slots, Cal!RefuseCreate(s) \/ Cal!RefuseUpdate(s) PROVE CalInv'
    <2>1. Cal!End(s) /\ UNCHANGED <<version, body, record, outbox, answers>>
      BY <1>5 DEF Cal!RefuseCreate, Cal!RefuseUpdate
    <2> QED
      BY <2>1, EndKeepsCal DEF Cal!TypeOK, AnswersStand, EventsRecorded, VersionsAnnounced
  <1>6. CASE UNCHANGED Cal!vars
    BY <1>6 DEF Cal!vars, Cal!TypeOK, CalRequestsFit, AnswersStand, EventsRecorded, VersionsAnnounced
  <1> QED
    BY <1>1, <1>2, <1>3, <1>4, <1>5, <1>6 DEF Cal!Next

\* create and update of an event: a key makes one event however its retries
\* overlap, each event is the one of its body, and each version is announced.
THEOREM CalendarSound == Spec => []OneEventPerKey
  <1> DEFINE Inv == focus = "calendar" => CalInv
  <1>1. Init => Inv
    BY InitCal DEF Init
  <1>2. Inv /\ [Next]_vars => Inv'
    BY StepKeepsCal DEF Next, vars, Cal!vars, from5, from6, from7
  <1>3. Inv => OneEventPerKey
    BY CalInvImplies DEF OneEventPerKey, CalInv
  <1> QED
    BY <1>1, <1>2, <1>3, PTL DEF Spec

-----------------------------------------------------------------------------
(* Documents.                                                              *)

doc    == x1
page   == x2
public == x3
acl    == x4
near   == x5
USE DEF doc, page, public, acl, near

\* A publication is of a version that exists, and a new version has at most the
\* number after the latest: versions are never taken away.
DocSound(r) == /\ r.op = "publish" => r.n \in 1 .. Len(page)
               /\ r.op = "add" => r.n \in 1 .. Len(page) + 1

\* Without overlap it is of the latest.
DocStanding(r) == r.op = "publish" => r.n = Len(page)

DocRequestsFit ==
    /\ DOMAIN req = Slots
    /\ \A s \in Slots : req[s] # Idle => DocSound(req[s])
    /\ serial => OneRequest /\ \A s \in Slots : req[s] # Idle => DocStanding(req[s])

DocInv == Doc!TypeOK /\ Doc!CurrentAgrees /\ Doc!LatestIsCurrent /\ DocRequestsFit

LEMMA InitDoc == Doc!Init => DocInv
  <1> SUFFICES ASSUME Doc!Init PROVE DocInv
    OBVIOUS
  <1>1. PICK u \in Users : doc = [owner |-> u, status |-> "DRAFT", archived |-> FALSE, current |-> 1]
    BY DEF Doc!Init
  <1>2. page = <<"DRAFT">> /\ Len(page) = 1 /\ page[1] = "DRAFT" /\ page \in Seq({"DRAFT", "PUBLISHED"})
    BY DEF Doc!Init
  <1>3. Doc!TypeOK /\ Doc!CurrentAgrees /\ Doc!LatestIsCurrent
    BY <1>1, <1>2 DEF Doc!Init, Doc!TypeOK, Doc!CurrentAgrees, Doc!LatestIsCurrent
  <1>4. DocRequestsFit
    BY DEF Doc!Init, DocRequestsFit, OneRequest
  <1> QED
    BY <1>3, <1>4 DEF DocInv

\* The sections go by who may open the document.
LEMMA SectionsAlwaysFit == Doc!SectionsFit
  BY DEF Doc!SectionsFit, Doc!Sections, Doc!Openable, Doc!Visible

LEMMA StartKeepsDoc ==
    ASSUME DocInv, NEW s \in Slots, NEW op, NEW n, Doc!Free(s), Doc!Start(s, op, n),
           op = "publish" => n = Len(page), op = "add" => n = Len(page) + 1
    PROVE  DocInv'
  <1> USE DEF DocInv
  <1>1. UNCHANGED <<doc, page, public, acl, near, serial>>
    BY DEF Doc!Start, Doc!shelf
  <1>2. PICK r : r = [op |-> op, n |-> n]
    OBVIOUS
  <1>3. DOMAIN req' = Slots /\ \A t \in Slots : req'[t] = IF t = s THEN r ELSE req[t]
    BY <1>2 DEF Doc!Start, DocRequestsFit
  <1>4. serial => \A t \in Slots : req[t] = Idle
    BY DEF Doc!Free
  <1>5. Len(page) \in Nat /\ Len(page) \in 1 .. Len(page)
    BY DEF Doc!TypeOK
  <1>6. DocSound(r) /\ DocStanding(r)
    BY <1>2, <1>5 DEF DocSound, DocStanding
  <1>7. DocRequestsFit'
    BY <1>1, <1>3, <1>4, <1>6 DEF DocRequestsFit, DocSound, DocStanding, OneRequest
  <1> QED
    BY <1>1, <1>7 DEF Doc!TypeOK, Doc!CurrentAgrees, Doc!LatestIsCurrent

LEMMA EndKeepsDoc ==
    ASSUME DocInv, NEW s \in Slots, req[s] # Idle, Doc!End(s), Len(page') \in Nat, Len(page') >= Len(page)
    PROVE  DocRequestsFit'
  <1>1. /\ DOMAIN req' = Slots /\ serial' = serial
        /\ \A t \in Slots : req'[t] # Idle => t # s /\ req'[t] = req[t]
    BY DEF Doc!End, DocInv, DocRequestsFit
  <1>2. Len(page) \in Nat
    BY DEF DocInv, Doc!TypeOK
  <1>3. ASSUME NEW t \in Slots, req'[t] # Idle
        PROVE  (req'[t].op = "publish" => req'[t].n \in 1 .. Len(page'))
               /\ (req'[t].op = "add" => req'[t].n \in 1 .. Len(page') + 1)
    BY <1>1, <1>2, <1>3 DEF DocInv, DocRequestsFit, DocSound
  <1>4. serial' => \A t \in Slots : req'[t] = Idle
    BY <1>1 DEF DocInv, DocRequestsFit, OneRequest
  <1> QED
    BY <1>1, <1>3, <1>4 DEF DocRequestsFit, DocSound, OneRequest

LEMMA StepKeepsDoc == DocInv /\ (Doc!Next \/ UNCHANGED Doc!vars) => DocInv'
  <1> SUFFICES ASSUME DocInv, Doc!Next \/ UNCHANGED Doc!vars PROVE DocInv'
    OBVIOUS
  <1> USE DEF DocInv
  <1>0. Len(page) \in Nat /\ doc.current \in 1 .. Len(page) /\ page \in Seq({"DRAFT", "PUBLISHED"})
    BY DEF Doc!TypeOK
  <1>1. ASSUME NEW s \in Slots, Doc!Free(s), Doc!BeginPublish(s) \/ Doc!BeginAdd(s) PROVE DocInv'
    BY <1>1, StartKeepsDoc DEF Doc!BeginPublish, Doc!BeginAdd
  <1>2. ASSUME NEW s \in Slots, Doc!Free(s), Doc!BeginArchive(s) \/ Doc!BeginRestore(s) PROVE DocInv'
    BY <1>2, StartKeepsDoc DEF Doc!BeginArchive, Doc!BeginRestore
  <1>3. ASSUME NEW s \in Slots, Doc!CommitPublish(s) PROVE DocInv'
    <2>1. PICK n \in 1 .. Len(page) :
             /\ doc' = [doc EXCEPT !.status = "PUBLISHED", !.current = n]
             /\ page' = [page EXCEPT ![n] = "PUBLISHED"]
             /\ serial => n = Len(page)
      BY <1>3 DEF Doc!CommitPublish, Doc!At, DocRequestsFit, DocSound, DocStanding
    <2>2. req[s] # Idle /\ Doc!End(s) /\ UNCHANGED <<public, acl, near>>
      BY <1>3 DEF Doc!CommitPublish, Doc!At
    <2>3. /\ page' \in Seq({"DRAFT", "PUBLISHED"}) /\ Len(page') = Len(page)
          /\ page'[n] = "PUBLISHED"
      BY <1>0, <2>1
    <2>4. Doc!TypeOK'
      BY <1>0, <2>1, <2>2, <2>3 DEF Doc!TypeOK
    <2>5. doc'.current = n /\ doc'.status = "PUBLISHED"
      BY <2>1 DEF Doc!TypeOK
    <2>6. Doc!CurrentAgrees' /\ Doc!LatestIsCurrent'
      BY <2>1, <2>2, <2>3, <2>5 DEF Doc!CurrentAgrees, Doc!LatestIsCurrent, Doc!End
    <2> QED
      BY <1>0, <2>2, <2>3, <2>4, <2>6, EndKeepsDoc
  <1>4. ASSUME NEW s \in Slots, Doc!CommitAdd(s) PROVE DocInv'
    <2>1. PICK n : n = Len(page) + 1
      OBVIOUS
    <2>2. /\ doc' = [doc EXCEPT !.status = "DRAFT", !.current = n] /\ page' = Append(page, "DRAFT")
          /\ req[s] # Idle /\ Doc!End(s) /\ UNCHANGED <<public, acl, near>>
      BY <1>4, <2>1 DEF Doc!CommitAdd, Doc!At, Doc!Current
    <2>3. page' \in Seq({"DRAFT", "PUBLISHED"}) /\ Len(page') = n /\ page'[n] = "DRAFT"
      BY <1>0, <2>1, <2>2
    <2>4. Doc!TypeOK'
      <3>1. n \in 1 .. n
        BY <1>0, <2>1
      <3>2. doc' \in [owner : Users, status : {"DRAFT", "PUBLISHED"}, archived : BOOLEAN, current : 1 .. n]
        BY <2>2, <3>1 DEF Doc!TypeOK
      <3> QED
        BY <2>2, <2>3, <3>2 DEF Doc!TypeOK
    <2>5. doc'.current = n /\ doc'.status = "DRAFT"
      BY <2>2 DEF Doc!TypeOK
    <2>6. Doc!CurrentAgrees' /\ Doc!LatestIsCurrent'
      BY <2>3, <2>5 DEF Doc!CurrentAgrees, Doc!LatestIsCurrent
    <2> QED
      BY <1>0, <2>1, <2>2, <2>3, <2>4, <2>6, EndKeepsDoc
  <1>5. ASSUME NEW s \in Slots, Doc!RefuseAdd(s) PROVE DocInv'
    <2>1. /\ req[s] # Idle /\ Doc!End(s) /\ UNCHANGED <<doc, page, public, acl, near, serial>>
      BY <1>5 DEF Doc!RefuseAdd, Doc!At, Doc!shelf, Doc!End
    <2> QED
      BY <1>0, <2>1, EndKeepsDoc DEF Doc!TypeOK, Doc!CurrentAgrees, Doc!LatestIsCurrent
  <1>6. ASSUME NEW s \in Slots, Doc!CommitArchive(s) PROVE DocInv'
    <2>1. PICK b \in BOOLEAN : doc' = [doc EXCEPT !.archived = b]
      BY <1>6 DEF Doc!CommitArchive
    <2>2. req[s] # Idle /\ Doc!End(s) /\ UNCHANGED <<page, public, acl, near, serial>>
      BY <1>6 DEF Doc!CommitArchive, Doc!At, Doc!End
    <2>3. Doc!TypeOK' /\ doc'.current = doc.current /\ doc'.status = doc.status
      BY <2>1, <2>2 DEF Doc!TypeOK
    <2> QED
      BY <1>0, <2>2, <2>3, EndKeepsDoc DEF Doc!CurrentAgrees, Doc!LatestIsCurrent
  <1>7. CASE Doc!HandOver
    <2>1. PICK u \in Users : doc' = [doc EXCEPT !.owner = u]
      BY <1>7 DEF Doc!HandOver
    <2>2. UNCHANGED <<page, public, acl, near, req, serial>>
      BY <1>7 DEF Doc!HandOver
    <2>3. Doc!TypeOK' /\ doc'.current = doc.current /\ doc'.status = doc.status
      BY <2>1, <2>2 DEF Doc!TypeOK
    <2> QED
      BY <2>2, <2>3 DEF Doc!CurrentAgrees, Doc!LatestIsCurrent, DocRequestsFit, DocSound, DocStanding, OneRequest
  <1>8. CASE Doc!Move
    BY <1>8 DEF Doc!Move, Doc!TypeOK, Doc!CurrentAgrees, Doc!LatestIsCurrent, DocRequestsFit, DocSound, DocStanding, OneRequest
  <1>9. CASE UNCHANGED Doc!vars
    BY <1>9 DEF Doc!vars, Doc!shelf, Doc!TypeOK, Doc!CurrentAgrees, Doc!LatestIsCurrent, DocRequestsFit, DocSound, DocStanding, OneRequest
  <1> QED
    BY <1>1, <1>2, <1>3, <1>4, <1>5, <1>6, <1>7, <1>8, <1>9 DEF Doc!Next

\* publish, addVersion, archive and restore: the document has the status of the
\* version it points to however they overlap, without overlap it points to the
\* latest, and what a section of the list shows can be opened.
THEOREM DocumentsSound == Spec => []DocumentsAgree
  <1> DEFINE Inv == focus = "documents" => DocInv
  <1>1. Init => Inv
    BY InitDoc DEF Init
  <1>2. Inv /\ [Next]_vars => Inv'
    BY StepKeepsDoc DEF Next, vars, Doc!vars, Doc!shelf, from5, from6
  <1>3. Inv => DocumentsAgree
    BY SectionsAlwaysFit DEF DocumentsAgree, DocInv
  <1> QED
    BY <1>1, <1>2, <1>3, PTL DEF Spec

-----------------------------------------------------------------------------
(* Announcements.                                                          *)

ann      == x1
due      == x2
audience == x3
event    == x4
receipt  == x5
USE DEF ann, due, audience, event, receipt

Statuses == {"DRAFT", "SCHEDULED", "PUBLISHED", "ARCHIVED"}
Active(v) == event[v].at \in {"READ", "PROMOTED", "USERS"}

JobsFit ==
    /\ DOMAIN req = Slots
    /\ event \in [Ann!Versions -> [at : {"NONE", "QUEUED", "READ", "PROMOTED", "USERS", "DONE"},
                                   status : Statuses, v : Nat, to : SUBSET Users]]

\* Jobs start when the time has come, and nobody has a receipt without one.
TimeFits == /\ \A v \in Ann!Versions : Active(v) => due
            /\ \A u \in Users : receipt[u].version > 0 => due

\* A draft has never been published.
DraftFits ==
    ann.status = "DRAFT" => /\ \A v \in Ann!Versions : event[v].at = "NONE"
                            /\ \A u \in Users : receipt[u].version = 0

\* Without overlap one request or one job is at work.  A request publishes a
\* draft; a job knows the status, and has promoted what is scheduled.
OneActive ==
    /\ OneRequest
    /\ \A v, w \in Ann!Versions : Active(v) /\ Active(w) => v = w
    /\ \A s \in Slots, v \in Ann!Versions : ~(req[s] # Idle /\ Active(v))

AnnStanding ==
    /\ \A s \in Slots : req[s] # Idle => ann.status = "DRAFT"
    /\ \A v \in Ann!Versions :
           /\ event[v].at = "READ" => event[v].status = ann.status
           /\ event[v].at \in {"PROMOTED", "USERS"} => ann.status # "SCHEDULED"
    /\ ann.status = "SCHEDULED" => \A u \in Users : receipt[u].version = 0

AnnInv == Ann!TypeOK /\ JobsFit /\ TimeFits /\ DraftFits /\ (serial => OneActive /\ AnnStanding)

LEMMA InitAnn == Ann!Init => AnnInv
  <1> SUFFICES ASSUME Ann!Init PROVE AnnInv
    OBVIOUS
  <1>1. PICK timed \in BOOLEAN :
           ann = [status |-> "DRAFT", version |-> 1, timed |-> timed] /\ due = ~timed
    BY DEF Ann!Init
  <1>2. event = [v \in Ann!Versions |-> [at |-> "NONE", status |-> "DRAFT", v |-> 0, to |-> {}]]
    BY DEF Ann!Init, Ann!NoJob
  <1>3. Ann!TypeOK
    BY <1>1 DEF Ann!Init, Ann!TypeOK
  <1>4. JobsFit
    BY <1>2 DEF Ann!Init, JobsFit, Statuses
  <1>5. TimeFits /\ DraftFits /\ (serial => OneActive /\ AnnStanding)
    BY <1>1, <1>2 DEF Ann!Init, TimeFits, DraftFits, OneActive, AnnStanding, OneRequest, Active
  <1> QED
    BY <1>3, <1>4, <1>5 DEF AnnInv

LEMMA AnnInvImplies == AnnInv => Ann!NotBeforeItsTime
  BY DEF AnnInv, Ann!TypeOK, TimeFits, AnnStanding, Ann!NotBeforeItsTime, Ann!Listed

\* Whoever begins without overlap finds nothing at work.
LEMMA FreeIsQuiet ==
    ASSUME JobsFit, Ann!Quiet
    PROVE  (\A s \in Slots : req[s] = Idle) /\ (\A v \in Ann!Versions : ~Active(v))
  BY DEF Ann!Quiet, Active

\* One statement of the job of v, of the announcement and of its own row only.
LEMMA JobKeepsAnn ==
    ASSUME AnnInv, NEW v \in Ann!Versions, NEW j, event' = [event EXCEPT ![v] = j],
           j \in [at : {"NONE", "QUEUED", "READ", "PROMOTED", "USERS", "DONE"},
                  status : Statuses, v : Nat, to : SUBSET Users],
           event[v].at # "NONE",
           j.at \in {"READ", "PROMOTED", "USERS"} => due,
           UNCHANGED <<audience, req, serial>>, due' = due,
           Ann!TypeOK', ann'.status # "DRAFT", ann.status # "DRAFT",
           \A u \in Users : receipt'[u].version > 0 => due,
           serial => /\ j.at \in {"READ", "PROMOTED", "USERS"} =>
                            Active(v) \/ Ann!Quiet
                     /\ j.at = "READ" => j.status = ann'.status
                     /\ j.at \in {"PROMOTED", "USERS"} => ann'.status # "SCHEDULED"
                     /\ ann'.status # ann.status => Active(v)
                     /\ ann'.status = "SCHEDULED" => \A u \in Users : receipt'[u].version = 0
    PROVE  AnnInv'
  <1> USE DEF AnnInv
  <1>1. JobsFit'
    BY DEF JobsFit
  <1>2. \A w \in Ann!Versions : event'[w] = IF w = v THEN j ELSE event[w]
    BY DEF JobsFit
  <1>3. TimeFits' /\ DraftFits'
    BY <1>2 DEF TimeFits, DraftFits, Active
  <1>4. ASSUME serial PROVE OneActive' /\ AnnStanding'
    <2>1. CASE j.at \in {"READ", "PROMOTED", "USERS"}
      <3>1. Active(v) \/ ((\A s \in Slots : req[s] = Idle) /\ (\A w \in Ann!Versions : ~Active(w)))
        BY <1>4, <2>1, FreeIsQuiet
      <3>2. /\ \A s \in Slots : req'[s] = Idle
            /\ \A w \in Ann!Versions : event'[w].at \in {"READ", "PROMOTED", "USERS"} => w = v
        BY <1>2, <1>4, <3>1 DEF OneActive, Active
      <3>3. OneActive'
        BY <3>2 DEF OneActive, OneRequest, Active
      <3> QED
        BY <1>2, <1>4, <3>2, <3>3 DEF AnnStanding
    <2>2. CASE j.at \notin {"READ", "PROMOTED", "USERS"}
      <3>1. OneActive'
        BY <1>2, <1>4, <2>2 DEF OneActive, OneRequest, Active
      <3>2. ASSUME NEW s \in Slots, req[s] # Idle PROVE FALSE
        BY <1>4, <3>2 DEF AnnStanding
      <3>3. ASSUME NEW w \in Ann!Versions, Active(w)', ann'.status # ann.status PROVE FALSE
        BY <1>2, <1>4, <2>2, <3>3 DEF OneActive, Active
      <3> QED
        BY <1>2, <1>4, <2>2, <3>1, <3>2, <3>3 DEF AnnStanding, Active
    <2> QED
      BY <2>1, <2>2
  <1> QED
    BY <1>1, <1>3, <1>4

LEMMA StepKeepsAnn == AnnInv /\ (Ann!Next \/ UNCHANGED Ann!vars) => AnnInv'
  <1> SUFFICES ASSUME AnnInv, Ann!Next \/ UNCHANGED Ann!vars PROVE AnnInv'
    OBVIOUS
  <1> USE DEF AnnInv
  <1>a. ASSUME NEW v \in Ann!Versions, event[v].at # "NONE" PROVE ann.status # "DRAFT"
    BY <1>a DEF DraftFits
  <1>1. ASSUME NEW s \in Slots, Ann!Free(s), Ann!BeginPublish(s) PROVE AnnInv'
    <2>1. /\ ann.status = "DRAFT" /\ UNCHANGED <<ann, due, audience, event, receipt, serial>>
          /\ DOMAIN req' = Slots /\ \A t \in Slots : t # s => req'[t] = req[t]
      BY <1>1 DEF Ann!BeginPublish, Ann!Draft, JobsFit
    <2>2. Ann!TypeOK' /\ JobsFit' /\ TimeFits' /\ DraftFits'
      BY <2>1 DEF Ann!TypeOK, JobsFit, TimeFits, DraftFits, Active
    <2>3. ASSUME serial PROVE OneActive' /\ AnnStanding'
      <3>1. (\A t \in Slots : req[t] = Idle) /\ (\A v \in Ann!Versions : ~Active(v))
        BY <1>1, <2>3, FreeIsQuiet DEF Ann!Free
      <3> QED
        BY <2>1, <2>3, <3>1 DEF OneActive, AnnStanding, OneRequest, Active
    <2> QED
      BY <2>1, <2>2, <2>3
  <1>2. ASSUME NEW s \in Slots, Ann!CommitPublish(s) PROVE AnnInv'
    <2>1. PICK x, n : x = req[s].v + 1 /\ n \in {"SCHEDULED", "PUBLISHED"} /\
             ann' = [ann EXCEPT !.status = n, !.version = @ + 1]
      BY <1>2 DEF Ann!CommitPublish
    <2>2. /\ event' = [event EXCEPT ![x] = [event[x] EXCEPT !.at = "QUEUED"]]
          /\ req[s] # Idle /\ req' = [req EXCEPT ![s] = Idle]
          /\ UNCHANGED <<due, audience, receipt, serial>>
      BY <1>2, <2>1 DEF Ann!CommitPublish
    <2>3. Ann!TypeOK' /\ ann'.status = n
      <3>1. ann.version + 1 \in Nat
        BY DEF Ann!TypeOK
      <3>2. /\ ann' \in [status : {"DRAFT", "SCHEDULED", "PUBLISHED", "ARCHIVED"}, version : Nat,
                          timed : BOOLEAN]
            /\ ann'.status = n
        BY <2>1, <3>1 DEF Ann!TypeOK
      <3> QED
        BY <2>2, <3>2 DEF Ann!TypeOK
    <2>4. \A v \in Ann!Versions : event'[v] = IF v = x THEN [event[x] EXCEPT !.at = "QUEUED"] ELSE event[v]
      BY <2>2 DEF JobsFit
    <2>5. JobsFit'
      BY <2>2 DEF JobsFit
    <2>6. \A v \in Ann!Versions : Active(v)' => Active(v) /\ event'[v] = event[v]
      BY <2>4 DEF JobsFit, Active
    <2>7. TimeFits' /\ DraftFits'
      BY <2>1, <2>2, <2>3, <2>6 DEF TimeFits, DraftFits
    <2>8. ASSUME serial PROVE OneActive' /\ AnnStanding'
      <3>1. ann.status = "DRAFT" /\ (\A v \in Ann!Versions : ~Active(v))
        BY <2>2, <2>8 DEF OneActive, AnnStanding
      <3>2. (\A t \in Slots : req'[t] = Idle) /\ (\A v \in Ann!Versions : ~Active(v)')
        BY <2>2, <2>6, <2>8, <3>1 DEF OneActive, OneRequest, JobsFit
      <3> QED
        BY <2>2, <3>1, <3>2 DEF OneActive, AnnStanding, OneRequest, DraftFits, Active
    <2> QED
      BY <2>2, <2>3, <2>5, <2>7, <2>8
  <1>3. ASSUME NEW s \in Slots, Ann!RefusePublish(s) PROVE AnnInv'
    <2>1. /\ UNCHANGED <<ann, due, audience, event, receipt, serial>> /\ DOMAIN req' = Slots
          /\ \A t \in Slots : req'[t] # Idle => req'[t] = req[t]
      BY <1>3 DEF Ann!RefusePublish, JobsFit
    <2> QED
      BY <2>1 DEF Ann!TypeOK, JobsFit, TimeFits, DraftFits, OneActive, AnnStanding, OneRequest, Active
  <1>4. CASE Ann!Archive
    <2>1. /\ ann' = [ann EXCEPT !.status = "ARCHIVED", !.version = @ + 1] /\ ann.version + 1 \in Nat
          /\ UNCHANGED <<due, audience, event, receipt, req, serial>>
      BY <1>4 DEF Ann!Archive, Ann!TypeOK
    <2>2. Ann!TypeOK' /\ ann'.status = "ARCHIVED"
      BY <2>1 DEF Ann!TypeOK
    <2>3. JobsFit' /\ TimeFits' /\ DraftFits'
      BY <2>1, <2>2 DEF JobsFit, TimeFits, DraftFits, Active
    <2>4. ASSUME serial PROVE OneActive' /\ AnnStanding'
      <3>1. (\A t \in Slots : req[t] = Idle) /\ (\A v \in Ann!Versions : ~Active(v))
        BY <1>4, <2>4, FreeIsQuiet DEF Ann!Archive, Ann!Free
      <3> QED
        BY <2>1, <2>2, <3>1 DEF OneActive, AnnStanding, OneRequest, Active
    <2> QED
      BY <2>1, <2>2, <2>3, <2>4
  <1>5. ASSUME NEW u \in Users, Ann!MarkRead(u) PROVE AnnInv'
    <2>1. PICK read \in BOOLEAN : receipt' = [receipt EXCEPT ![u].read = read]
      BY <1>5 DEF Ann!MarkRead
    <2>2. UNCHANGED <<ann, due, audience, event, req, serial>>
      BY <1>5 DEF Ann!MarkRead
    <2>3. Ann!TypeOK' /\ \A w \in Users : receipt'[w].version = receipt[w].version
      BY <2>1, <2>2 DEF Ann!TypeOK
    <2> QED
      BY <2>2, <2>3 DEF JobsFit, TimeFits, DraftFits, OneActive, AnnStanding, OneRequest, Active
  <1>6. CASE Ann!Pass \/ Ann!Leave
    <2>1. UNCHANGED <<ann, event, receipt, req, serial>> /\ (due => due') /\ Ann!TypeOK'
      BY <1>6 DEF Ann!Pass, Ann!Leave, Ann!TypeOK
    <2> QED
      BY <2>1 DEF JobsFit, TimeFits, DraftFits, OneActive, AnnStanding, OneRequest, Active
  <1>7. ASSUME NEW v \in Ann!Versions, Ann!JobRead(v) PROVE AnnInv'
    <2>1. PICK j : j = [at |-> "READ", status |-> ann.status, v |-> ann.version, to |-> {}]
      OBVIOUS
    <2>2. /\ event' = [event EXCEPT ![v] = j] /\ event[v].at = "QUEUED" /\ due /\ (serial => Ann!Quiet)
          /\ UNCHANGED <<ann, due, audience, receipt, req, serial>>
      BY <1>7, <2>1 DEF Ann!JobRead
    <2>3. j \in [at : {"NONE", "QUEUED", "READ", "PROMOTED", "USERS", "DONE"},
                 status : Statuses, v : Nat, to : SUBSET Users]
      BY <2>1 DEF Ann!TypeOK, Statuses
    <2>4. Ann!TypeOK' /\ ann.status # "DRAFT"
      BY <1>a, <2>2 DEF Ann!TypeOK
    <2>5. (\A u \in Users : receipt'[u].version > 0 => due)
          /\ (serial /\ ann.status = "SCHEDULED" => \A u \in Users : receipt'[u].version = 0)
      BY <2>2 DEF AnnStanding
    <2> QED
      BY <2>1, <2>2, <2>3, <2>4, <2>5, JobKeepsAnn
  <1>8. ASSUME NEW v \in Ann!Versions, Ann!JobPromote(v) PROVE AnnInv'
    <2>0. /\ event[v].at = "READ" /\ ann.status # "DRAFT" /\ due /\ Active(v)
          /\ serial => event[v].status = ann.status
          /\ UNCHANGED <<due, audience, receipt, req, serial>>
          /\ event[v] \in [at : {"NONE", "QUEUED", "READ", "PROMOTED", "USERS", "DONE"},
                           status : Statuses, v : Nat, to : SUBSET Users]
      BY <1>8, <1>a DEF Ann!JobPromote, AnnStanding, TimeFits, Active, JobsFit
    <2>1. CASE event[v].status = "SCHEDULED"
      <3>1. PICK j : j = [event[v] EXCEPT !.at = "PROMOTED", !.v = ann.version + 1]
        OBVIOUS
      <3>2. /\ ann' = [ann EXCEPT !.status = "PUBLISHED", !.version = @ + 1]
            /\ event' = [event EXCEPT ![v] = j]
        BY <1>8, <2>1, <3>1 DEF Ann!JobPromote, Ann!Promotes, JobsFit
      <3>3. Ann!TypeOK' /\ ann'.status = "PUBLISHED" /\ ann.version + 1 \in Nat
        <4>1. ann.version + 1 \in Nat
          BY DEF Ann!TypeOK
        <4>2. /\ ann' \in [status : {"DRAFT", "SCHEDULED", "PUBLISHED", "ARCHIVED"}, version : Nat,
                            timed : BOOLEAN]
              /\ ann'.status = "PUBLISHED"
          BY <3>2, <4>1 DEF Ann!TypeOK
        <4> QED
          BY <2>0, <4>1, <4>2 DEF Ann!TypeOK
      <3>4. j.at = "PROMOTED" /\ j \in [at : {"NONE", "QUEUED", "READ", "PROMOTED", "USERS", "DONE"},
                                        status : Statuses, v : Nat, to : SUBSET Users]
        BY <2>0, <3>1, <3>3
      <3> QED
        BY <2>0, <3>2, <3>3, <3>4, JobKeepsAnn
    <2>2. CASE event[v].status # "SCHEDULED"
      <3>1. PICK j : j = [event[v] EXCEPT !.at = "PROMOTED"]
        OBVIOUS
      <3>2. UNCHANGED ann /\ event' = [event EXCEPT ![v] = j]
        BY <1>8, <2>2, <3>1 DEF Ann!JobPromote, Ann!Promotes
      <3>3. Ann!TypeOK'
        BY <2>0, <3>2 DEF Ann!TypeOK
      <3>4. j.at = "PROMOTED" /\ j \in [at : {"NONE", "QUEUED", "READ", "PROMOTED", "USERS", "DONE"},
                                        status : Statuses, v : Nat, to : SUBSET Users]
        BY <2>0, <3>1
      <3>5. serial => ann'.status # "SCHEDULED"
        BY <2>0, <2>2, <3>2
      <3> QED
        BY <2>0, <3>2, <3>3, <3>4, <3>5, JobKeepsAnn
    <2> QED
      BY <2>1, <2>2
  <1>9. ASSUME NEW v \in Ann!Versions, Ann!JobAudience(v) PROVE AnnInv'
    <2>1. PICK j : j = [event[v] EXCEPT !.at = "USERS", !.to = audience]
      OBVIOUS
    <2>2. /\ event[v].at = "PROMOTED" /\ ann.status # "DRAFT" /\ due /\ Active(v)
          /\ event' = [event EXCEPT ![v] = j]
          /\ UNCHANGED <<ann, due, audience, receipt, req, serial>>
      BY <1>9, <1>a, <2>1 DEF Ann!JobAudience, TimeFits, Active, JobsFit
    <2>3. j.at = "USERS" /\ j \in [at : {"NONE", "QUEUED", "READ", "PROMOTED", "USERS", "DONE"},
                                   status : Statuses, v : Nat, to : SUBSET Users]
      BY <2>1 DEF JobsFit, Ann!TypeOK
    <2>4. Ann!TypeOK' /\ (serial => ann.status # "SCHEDULED")
      BY <2>2 DEF Ann!TypeOK, AnnStanding
    <2> QED
      BY <2>2, <2>3, <2>4, JobKeepsAnn
  <1>10. ASSUME NEW v \in Ann!Versions, Ann!JobDeliver(v) PROVE AnnInv'
    <2>1. PICK j : j = [Ann!NoJob EXCEPT !.at = "DONE"]
      OBVIOUS
    <2>2. /\ event[v].at = "USERS" /\ ann.status # "DRAFT" /\ due /\ Active(v)
          /\ event' = [event EXCEPT ![v] = j]
          /\ UNCHANGED <<ann, due, audience, req, serial>>
      BY <1>10, <1>a, <2>1 DEF Ann!JobDeliver, TimeFits, Active, JobsFit
    <2>3. j.at = "DONE" /\ j \in [at : {"NONE", "QUEUED", "READ", "PROMOTED", "USERS", "DONE"},
                                  status : Statuses, v : Nat, to : SUBSET Users]
      BY <2>1 DEF Ann!NoJob, Statuses
    <2>4. receipt' \in [Users -> [version : Nat, read : BOOLEAN]]
      BY <1>10 DEF Ann!JobDeliver, Ann!Upsert, JobsFit, Ann!TypeOK
    <2>5. Ann!TypeOK' /\ (serial => ann.status # "SCHEDULED")
      BY <2>2, <2>4 DEF Ann!TypeOK, AnnStanding
    <2> QED
      BY <2>2, <2>3, <2>5, JobKeepsAnn
  <1>11. ASSUME NEW v \in Ann!Versions, Ann!Crash(v) PROVE AnnInv'
    <2>1. PICK j : j = [Ann!NoJob EXCEPT !.at = "QUEUED"]
      OBVIOUS
    <2>2. /\ event[v].at \notin {"NONE", "QUEUED"} /\ event' = [event EXCEPT ![v] = j]
          /\ UNCHANGED <<ann, due, audience, receipt, req, serial>>
      BY <1>11, <2>1 DEF Ann!Crash
    <2>3. j.at = "QUEUED" /\ j \in [at : {"NONE", "QUEUED", "READ", "PROMOTED", "USERS", "DONE"},
                                    status : Statuses, v : Nat, to : SUBSET Users]
      BY <2>1 DEF Ann!NoJob, Statuses
    <2>4. ann.status # "DRAFT"
      BY <2>2, <1>a
    <2>5. Ann!TypeOK' /\ (\A u \in Users : receipt'[u].version > 0 => due)
          /\ (serial /\ ann.status = "SCHEDULED" => \A u \in Users : receipt'[u].version = 0)
      BY <2>2 DEF Ann!TypeOK, TimeFits, AnnStanding
    <2> QED
      BY <2>2, <2>3, <2>4, <2>5, JobKeepsAnn
  <1>12. CASE UNCHANGED Ann!vars
    BY <1>12 DEF Ann!vars, Ann!TypeOK, JobsFit, TimeFits, DraftFits, OneActive, AnnStanding, OneRequest, Active
  <1> QED
    BY <1>1, <1>2, <1>3, <1>4, <1>5, <1>6, <1>7, <1>8, <1>9, <1>10, <1>11, <1>12 DEF Ann!Next

\* What a step of an announcement may not do.
LEMMA AnnSteps == AnnInv /\ (Ann!Next \/ UNCHANGED Ann!vars) => Ann!ArchivedLast /\ Ann!ReadStays
  <1> SUFFICES ASSUME AnnInv, Ann!Next \/ UNCHANGED Ann!vars PROVE Ann!ArchivedLast /\ Ann!ReadStays
    OBVIOUS
  <1> USE DEF AnnInv
  <1>1. ASSUME NEW s \in Slots, Ann!CommitPublish(s) PROVE Ann!ArchivedLast /\ Ann!ReadStays
    <2>1. req[s] # Idle /\ UNCHANGED receipt
      BY <1>1 DEF Ann!CommitPublish
    <2> QED
      BY <2>1 DEF AnnStanding, Ann!ArchivedLast, Ann!ReadStays
  <1>2. CASE Ann!Archive
    <2>1. ann'.status = "ARCHIVED" /\ UNCHANGED receipt
      BY <1>2 DEF Ann!Archive, Ann!TypeOK
    <2> QED
      BY <2>1 DEF Ann!ArchivedLast, Ann!ReadStays
  <1>3. ASSUME NEW v \in Ann!Versions, Ann!JobPromote(v) PROVE Ann!ArchivedLast /\ Ann!ReadStays
    <2>1. UNCHANGED receipt /\ event[v].at = "READ" /\ (event[v].status = "SCHEDULED" \/ UNCHANGED ann)
      BY <1>3 DEF Ann!JobPromote, Ann!Promotes
    <2> QED
      BY <2>1 DEF AnnStanding, Ann!ArchivedLast, Ann!ReadStays
  <1>4. ASSUME NEW v \in Ann!Versions, Ann!JobDeliver(v) PROVE Ann!ArchivedLast /\ Ann!ReadStays
    <2>1. UNCHANGED ann /\ \A u \in Users : receipt'[u].read = receipt[u].read
      BY <1>4 DEF Ann!JobDeliver, Ann!Upsert, Ann!TypeOK
    <2> QED
      BY <2>1 DEF Ann!ArchivedLast, Ann!ReadStays
  <1>5. ASSUME NEW u \in Users, Ann!MarkRead(u) PROVE Ann!ArchivedLast /\ Ann!ReadStays
    BY <1>5 DEF Ann!MarkRead, Ann!ArchivedLast, Ann!ReadStays
  <1>6. ASSUME NEW s \in Slots, Ann!BeginPublish(s) \/ Ann!RefusePublish(s)
        PROVE  Ann!ArchivedLast /\ Ann!ReadStays
    BY <1>6 DEF Ann!BeginPublish, Ann!RefusePublish, Ann!ArchivedLast, Ann!ReadStays
  <1>7. CASE Ann!Pass \/ Ann!Leave \/ UNCHANGED Ann!vars
    BY <1>7 DEF Ann!Pass, Ann!Leave, Ann!vars, Ann!ArchivedLast, Ann!ReadStays
  <1>8. ASSUME NEW v \in Ann!Versions, Ann!JobRead(v) \/ Ann!JobAudience(v) \/ Ann!Crash(v)
        PROVE  Ann!ArchivedLast /\ Ann!ReadStays
    BY <1>8 DEF Ann!JobRead, Ann!JobAudience, Ann!Crash, Ann!ArchivedLast, Ann!ReadStays
  <1> QED
    BY <1>1, <1>2, <1>3, <1>4, <1>5, <1>6, <1>7, <1>8 DEF Ann!Next

\* publish, archive and the job that delivers: nobody has an announcement before
\* its time, however publications, crashes and repeated deliveries interleave.
THEOREM AnnouncementsSound == Spec => []NotBeforeItsTime
  <1> DEFINE Inv == focus = "announcements" => AnnInv
  <1>1. Init => Inv
    BY InitAnn DEF Init
  <1>2. Inv /\ [Next]_vars => Inv'
    BY StepKeepsAnn DEF Next, vars, Ann!vars, from5, from6, from7
  <1>3. Inv => NotBeforeItsTime
    BY AnnInvImplies DEF NotBeforeItsTime, AnnInv
  <1> QED
    BY <1>1, <1>2, <1>3, PTL DEF Spec

-----------------------------------------------------------------------------
(* Positions without gaps, as those of a checklist.                        *)

Dense(p, L) == {p[i] : i \in L} = 0 .. Cardinality(L) - 1

\* A set of items has as many positions as items.
LEMMA DenseNumber ==
    ASSUME NEW L, IsFiniteSet(L)
    PROVE  /\ Cardinality(L) \in Nat
           /\ IsFiniteSet(0 .. Cardinality(L) - 1)
           /\ Cardinality(0 .. Cardinality(L) - 1) = Cardinality(L)
  <1>1. Cardinality(L) \in Nat
    BY FS_CardinalityType
  <1> QED
    BY <1>1, FS_Interval

\* No two items share a position.
LEMMA DenseDistinct ==
    ASSUME NEW L, NEW p, IsFiniteSet(L), Dense(p, L)
    PROVE  \A i, j \in L : p[i] = p[j] => i = j
  <1> DEFINE T == 0 .. Cardinality(L) - 1
             f == [i \in L |-> p[i]]
  <1>1. f \in [L -> T] /\ \A t \in T : \E i \in L : f[i] = t
    BY DEF Dense
  <1>2. f \in Surjection(L, T)
    BY <1>1, Fun_IsSurj
  <1>3. f \in Injection(L, T)
    BY <1>2, DenseNumber, FS_SurjSameCardinalityImpliesInj
  <1>4. \A i, j \in L : f[i] = f[j] => i = j
    BY <1>3, Fun_InjectionProperties
  <1> QED
    BY <1>4

\* As many items come before one as its position says.
LEMMA DenseBelow ==
    ASSUME NEW L, NEW p, IsFiniteSet(L), Dense(p, L), NEW i \in L
    PROVE  /\ IsFiniteSet({j \in L : p[j] < p[i]})
           /\ Cardinality({j \in L : p[j] < p[i]}) = p[i]
  <1>1. PICK n : n = p[i]
    OBVIOUS
  <1>2. n \in 0 .. Cardinality(L) - 1 /\ Cardinality(L) \in Nat
    BY <1>1, DenseNumber DEF Dense
  <1> DEFINE B == {j \in L : p[j] < p[i]}
             g == [j \in B |-> p[j]]
  <1>3. IsFiniteSet(B)
    BY FS_Subset
  <1>4. g \in [B -> 0 .. n - 1]
    BY <1>1, <1>2 DEF Dense
  <1>5. \A t \in 0 .. n - 1 : \E j \in B : g[j] = t
    <2>1. TAKE t \in 0 .. n - 1
    <2>2. t \in 0 .. Cardinality(L) - 1 /\ t < n
      BY <1>2
    <2>3. PICK j \in L : p[j] = t
      BY <2>2 DEF Dense
    <2>4. j \in B
      BY <1>1, <2>2, <2>3
    <2> QED
      BY <2>3, <2>4
  <1>6. \A a, b \in B : g[a] = g[b] => a = b
    BY DenseDistinct
  <1>7. g \in Bijection(B, 0 .. n - 1)
    BY <1>4, <1>5, <1>6, Fun_IsBij
  <1>8. ExistsBijection(B, 0 .. n - 1)
    BY <1>7 DEF ExistsBijection
  <1>9. Cardinality(0 .. n - 1) = Cardinality(B)
    BY <1>3, <1>8, FS_Bijection
  <1> HIDE DEF B
  <1>10. Cardinality(0 .. n - 1) = n
    BY <1>2, FS_Interval
  <1> QED
    BY <1>1, <1>3, <1>9, <1>10 DEF B

LEMMA DenseAdd ==
    ASSUME NEW L, NEW p, NEW q, NEW i, IsFiniteSet(L), Dense(p, L), i \notin L,
           q[i] = Cardinality(L), \A j \in L : q[j] = p[j]
    PROVE  Dense(q, L \cup {i})
  <1>1. Cardinality(L) \in Nat /\ Cardinality(L \cup {i}) = Cardinality(L) + 1
    BY DenseNumber, FS_AddElement
  <1>2. {q[j] : j \in L \cup {i}} = {p[j] : j \in L} \cup {Cardinality(L)}
    OBVIOUS
  <1>3. 0 .. Cardinality(L) + 1 - 1 = (0 .. Cardinality(L) - 1) \cup {Cardinality(L)}
    <2>1. PICK n \in Nat : n = Cardinality(L)
      BY <1>1
    <2>2. 0 .. n + 1 - 1 = (0 .. n - 1) \cup {n}
      OBVIOUS
    <2> QED
      BY <2>1, <2>2
  <1> QED
    BY <1>1, <1>2, <1>3 DEF Dense

LEMMA DenseOrder ==
    ASSUME NEW L, NEW p, NEW f, IsFiniteSet(L), f \in [L -> 0 .. Cardinality(L) - 1],
           \A i, j \in L : f[i] = f[j] => i = j, \A i \in L : p[i] = f[i]
    PROVE  Dense(p, L)
  <1> DEFINE T == 0 .. Cardinality(L) - 1
  <1>1. f \in Injection(L, T)
    BY Fun_IsInj
  <1>2. f \in Surjection(L, T)
    <2>1. IsFiniteSet(T) /\ Cardinality(T) = Cardinality(L)
      BY DenseNumber
    <2> HIDE DEF T
    <2> QED
      BY <1>1, <2>1, FS_Injection
  <1>3. \A t \in T : \E i \in L : f[i] = t
    <2> HIDE DEF T
    <2> QED
      BY <1>2, Fun_SurjectionProperties
  <1>4. (\A t \in T : \E i \in L : p[i] = t) /\ (\A i \in L : p[i] \in T)
    BY <1>3
  <1> HIDE DEF T
  <1>5. {p[i] : i \in L} = T
    BY <1>4
  <1> QED
    BY <1>5 DEF Dense, T

LEMMA DenseDrop ==
    ASSUME NEW L, NEW p, NEW q, NEW x \in L, IsFiniteSet(L), Dense(p, L),
           \A i \in L \ {x} : q[i] = Cardinality({j \in L \ {x} : p[j] < p[i]})
    PROVE  Dense(q, L \ {x})
  <1>1. PICK n, k : n = Cardinality(L) /\ k = p[x]
    OBVIOUS
  <1>2. n \in Nat /\ Cardinality(L \ {x}) = n - 1 /\ k \in 0 .. n - 1
    BY <1>1, DenseNumber, FS_RemoveElement DEF Dense
  <1>3. ASSUME NEW i \in L \ {x}
        PROVE  /\ p[i] \in 0 .. n - 1 /\ p[i] # k
               /\ q[i] = IF k < p[i] THEN p[i] - 1 ELSE p[i]
    <2>1. p[i] \in 0 .. n - 1 /\ p[i] # k
      BY <1>1, DenseDistinct DEF Dense
    <2> DEFINE B == {j \in L : p[j] < p[i]}
    <2>2. IsFiniteSet(B) /\ Cardinality(B) = p[i]
      BY DenseBelow
    <2>3. {j \in L \ {x} : p[j] < p[i]} = B \ {x} /\ (x \in B <=> k < p[i])
      BY <1>1
    <2> HIDE DEF B
    <2>4. Cardinality(B \ {x}) = IF x \in B THEN Cardinality(B) - 1 ELSE Cardinality(B)
      BY <2>2, FS_RemoveElement
    <2> QED
      BY <2>1, <2>2, <2>3, <2>4
  <1>4. ASSUME NEW t \in 0 .. n - 2 PROVE \E i \in L \ {x} : q[i] = t
    <2>1. PICK m \in 0 .. n - 1 : m = IF t < k THEN t ELSE t + 1
      BY <1>2
    <2>2. PICK i \in L : p[i] = m
      BY <1>1 DEF Dense
    <2>3. i # x
      BY <1>1, <1>2, <2>1, <2>2
    <2> QED
      BY <1>2, <1>3, <2>1, <2>2, <2>3
  <1>5. \A i \in L \ {x} : q[i] \in 0 .. n - 2
    BY <1>2, <1>3
  <1>6. (n - 1) - 1 = n - 2
    BY <1>2
  <1> QED
    BY <1>2, <1>4, <1>5, <1>6 DEF Dense

-----------------------------------------------------------------------------
(* The work on a task.                                                     *)

part     == x2
reporter == x3
member   == x4
open     == x5
follows  == x6
reminder == x7
told     == x8
gone     == x9
excused  == x10
pos      == x11
timer    == x12
mark     == x13
asked    == x14
USE DEF part, reporter, member, open, follows, reminder, told, gone, excused, pos, timer, mark, asked

\* What a request knows still holds while the version is the one it read.
PeopleSound(r) ==
    /\ r.op = "put" => r.on \in Users /\ r.x \in Wrk!Roles
    /\ r.op = "remove" => r.on \in Users /\ (r.v = version => excused \/ Wrk!MayRemove(r.on))
    /\ r.op = "update" => r.on \in Users /\ r.x \in Users
    /\ r.op = "follow" => r.on \in Users
    /\ r.op = "remind" => (r.v = version => \A u \in Users : u \in r.x => u \notin gone)
    /\ r.op = "cancel" => /\ r.on \in Users /\ r.x \in {"ACTIVE", "SENT", "CANCELLED"}
                          /\ reminder[r.on].status # "NONE"
                          /\ r.x = "CANCELLED" => reminder[r.on].status = "CANCELLED"

OwnSound(r) ==
    /\ r.op = "add" => r.x \in Items /\ (r.v = version => pos[r.x] = -1)
    /\ r.op = "drop" => r.x \in Items /\ (r.v = version => pos[r.x] # -1)
    /\ r.op = "order" => (r.v = version => r.x \in Wrk!Orders(Wrk!Listing))
    /\ r.op = "timer" => r.on \in Users
    /\ r.op = "mark" => r.on \in Users /\ r.x \in [favorited : BOOLEAN, important : BOOLEAN]

WorkRequestsFit ==
    /\ DOMAIN req = Slots
    /\ \A s \in Slots : req[s] # Idle => /\ req[s].v \in Nat /\ req[s].v <= version
                                         /\ PeopleSound(req[s]) /\ OwnSound(req[s])

\* Without overlap a request for a timer still finds none, and one for a mark
\* writes what was asked.
OwnStanding ==
    /\ OneRequest
    /\ \A u \in Users : timer[u] <= 1
    /\ \A s \in Slots : req[s] # Idle =>
           /\ req[s].op = "timer" => timer[req[s].on] = 0
           /\ req[s].op = "mark" => asked = [mark EXCEPT ![req[s].on] = req[s].x]
    /\ ~Wrk!Doing("mark") => mark = asked

\* Whoever was removed has nothing to do with the task.
GoneLeft == \A u \in Users : u \in gone => u \notin {Owner, reporter} /\ ~part[u].on

ToldEnded == \A u \in Users : u \in told => reminder[u].status \in {"SENT", "CANCELLED"}

ReminderFits ==
    \A u \in Users : u \in gone => reminder[u].status # "ACTIVE"

WorkInv ==
    /\ Wrk!TypeOK /\ gone \subseteq Users /\ told \subseteq Users
    /\ Wrk!ResponsibleKept /\ GoneLeft /\ ReminderFits /\ ToldEnded
    /\ Wrk!ChecklistDense
    /\ WorkRequestsFit /\ (serial => OwnStanding)

\* The cardinality of the module is that of the library.
LEMMA SameCardinality == \A S : Wrk!Cardinality(S) = Cardinality(S)
  BY DEF Cardinality, Wrk!Cardinality

LEMMA ChecklistIsDense == Wrk!ChecklistDense <=> Dense(pos, Wrk!Listing)
  BY SameCardinality DEF Wrk!ChecklistDense, Dense

LEMMA UsersFinite == IsFiniteSet(Users) /\ Owner \in Users
  BY FiniteAssumption, FS_AddElement DEF Users

LEMMA InitWork == Wrk!Init => WorkInv
  <1> SUFFICES ASSUME Wrk!Init PROVE WorkInv
    OBVIOUS
  <1> USE UsersFinite DEF Wrk!Init
  <1>1. Wrk!TypeOK /\ gone \subseteq Users /\ told \subseteq Users
    BY DEF Wrk!TypeOK, Wrk!Roles, Wrk!Off
  <1>2. Owner \in Wrk!Responsibles
    BY DEF Wrk!Responsibles
  <1>3. Wrk!ResponsibleKept /\ GoneLeft /\ ReminderFits /\ ToldEnded
    BY <1>2 DEF Wrk!ResponsibleKept, GoneLeft, ReminderFits, ToldEnded
  <1>4. Wrk!Listing = {}
    BY DEF Wrk!Listing, Wrk!Off
  <1>5. Wrk!ChecklistDense
    <2>1. {pos[i] : i \in Wrk!Listing} = {} /\ Cardinality(Wrk!Listing) = 0 /\ 0 .. 0 - 1 = {}
      BY <1>4, FS_EmptySet
    <2> QED
      BY <2>1, ChecklistIsDense DEF Dense
  <1>6. WorkRequestsFit /\ OwnStanding
    BY DEF WorkRequestsFit, OwnStanding, OneRequest, Wrk!Doing, Wrk!At
  <1> QED
    BY <1>1, <1>3, <1>5, <1>6 DEF WorkInv

\* Listed is readable by what the two ask.
LEMMA ListedIsAlwaysReadable == Wrk!ListedIsReadable
  BY DEF Wrk!ListedIsReadable, Wrk!Listed, Wrk!RoleWhere, Wrk!Has, Wrk!Readable, Wrk!Actor,
     Wrk!Present, Wrk!ViewerRoles, Wrk!Summarised, Wrk!Roles

LEMMA WorkInvImplies ==
    WorkInv => /\ Wrk!TypeOK /\ Wrk!ResponsibleKept /\ Wrk!RemovedNotReminded /\ Wrk!ListedIsReadable
               /\ Wrk!ChecklistDense /\ Wrk!OneTimer /\ Wrk!MarksAsAsked
  BY ListedIsAlwaysReadable DEF WorkInv, ReminderFits, OwnStanding, Wrk!RemovedNotReminded,
     Wrk!OneTimer, Wrk!MarksAsAsked

-----------------------------------------------------------------------------
(* What requests know survives the steps of others.                        *)

\* The version does not go back; while it stays so do the checklist, whoever is
\* removed and, but for what is excused, the participants; and a reminder that
\* ended stays so.
Advances ==
    /\ version' \in Nat /\ version' >= version
    /\ version' = version => /\ pos' = pos /\ gone' \subseteq gone /\ (excused => excused')
                             /\ excused' \/ part' = part \/ ~Wrk!Doing("remove")
    /\ \A u \in Users :
           /\ reminder[u].status # "NONE" => reminder'[u].status # "NONE"
           /\ reminder[u].status = "CANCELLED" => reminder'[u].status = "CANCELLED"

LEMMA SoundAdvances ==
    ASSUME WorkInv, Advances, NEW r, r.v \in Nat, r.v <= version, PeopleSound(r), OwnSound(r),
           r.op = "remove" => Wrk!Doing("remove")
    PROVE  r.v <= version' /\ PeopleSound(r)' /\ OwnSound(r)'
  <1>1. version \in Nat /\ version' \in Nat /\ version' >= version
    BY DEF WorkInv, Wrk!TypeOK, Advances
  <1>2. r.v <= version' /\ (r.v = version' => version' = version)
    BY <1>1
  <1>3. PeopleSound(r)'
    <2>1. r.op = "remove" => r.on \in Users /\ (r.v = version' => excused' \/ Wrk!MayRemove(r.on)')
      BY <1>2 DEF Advances, PeopleSound, Wrk!MayRemove, Wrk!Has, Wrk!Responsibles
    <2>2. r.op = "remind" => (r.v = version' => \A u \in Users : u \in r.x => u \notin gone')
      BY <1>2 DEF Advances, PeopleSound
    <2> QED
      BY <2>1, <2>2 DEF Advances, PeopleSound
  <1>4. OwnSound(r)'
    BY <1>2 DEF Advances, OwnSound, Wrk!Orders, Wrk!Listing
  <1> QED
    BY <1>2, <1>3, <1>4

\* Requests that go on, while one of them may end.
LEMMA RequestsGoOn ==
    ASSUME WorkInv, Advances, DOMAIN req' = Slots,
           \A t \in Slots : req'[t] # Idle => req'[t] = req[t]
    PROVE  WorkRequestsFit'
  <1>1. ASSUME NEW t \in Slots, req'[t] # Idle
        PROVE  (req[t].v \in Nat /\ req[t].v <= version /\ PeopleSound(req[t]) /\ OwnSound(req[t]))'
    <2>1. PICK r : r = req[t]
      OBVIOUS
    <2>2. r # Idle /\ r = req'[t]
      BY <1>1, <2>1
    <2>3. r.v \in Nat /\ r.v <= version /\ PeopleSound(r) /\ OwnSound(r)
      BY <2>1, <2>2 DEF WorkInv, WorkRequestsFit
    <2>4. r.op = "remove" => Wrk!Doing("remove")
      BY <2>1, <2>2 DEF Wrk!Doing, Wrk!At
    <2>5. r.v <= version' /\ PeopleSound(r)' /\ OwnSound(r)'
      BY <2>3, <2>4, SoundAdvances
    <2> QED
      BY <2>2, <2>3, <2>5
  <1> QED
    BY <1>1 DEF WorkRequestsFit

LEMMA RequestEnds ==
    ASSUME WorkInv, Advances, NEW s \in Slots, Wrk!End(s)
    PROVE  WorkRequestsFit'
  <1>1. DOMAIN req' = Slots /\ \A t \in Slots : req'[t] # Idle => req'[t] = req[t]
    BY DEF Wrk!End, WorkInv, WorkRequestsFit
  <1> QED
    BY <1>1, RequestsGoOn

LEMMA RequestStarts ==
    ASSUME WorkInv, NEW s \in Slots, NEW r, req' = [req EXCEPT ![s] = r],
           r.v = version, PeopleSound(r), OwnSound(r),
           UNCHANGED <<version, part, reminder, gone, excused, pos>>
    PROVE  WorkRequestsFit'
  <1>1. DOMAIN req' = Slots /\ \A t \in Slots : req'[t] = IF t = s THEN r ELSE req[t]
    BY DEF WorkInv, WorkRequestsFit
  <1>2. ASSUME NEW q, PeopleSound(q), OwnSound(q) PROVE PeopleSound(q)' /\ OwnSound(q)'
    BY <1>2 DEF PeopleSound, OwnSound, Wrk!MayRemove, Wrk!Has, Wrk!Responsibles, Wrk!Orders, Wrk!Listing
  <1>3. ASSUME NEW t \in Slots, req'[t] # Idle
        PROVE  (req[t].v \in Nat /\ req[t].v <= version /\ PeopleSound(req[t]) /\ OwnSound(req[t]))'
    <2>1. PICK q : q = req'[t]
      OBVIOUS
    <2>2. q.v \in Nat /\ q.v <= version /\ PeopleSound(q) /\ OwnSound(q)
      <3>1. CASE t = s
        BY <1>1, <2>1, <3>1 DEF WorkInv, Wrk!TypeOK
      <3>2. CASE t # s
        BY <1>1, <1>3, <2>1, <3>2 DEF WorkInv, WorkRequestsFit
      <3> QED
        BY <3>1, <3>2
    <2>3. PeopleSound(q)' /\ OwnSound(q)'
      BY <1>2, <2>2
    <2> QED
      BY <2>1, <2>2, <2>3
  <1> QED
    BY <1>1, <1>3 DEF WorkRequestsFit

\* Without overlap.
LEMMA StandingStarts ==
    ASSUME WorkInv, NEW s \in Slots, NEW r, Wrk!Free(s), req' = [req EXCEPT ![s] = r],
           UNCHANGED <<timer, mark, serial>>,
           r.op = "timer" => timer[r.on] = 0,
           r.op = "mark" => r # Idle /\ asked' = [mark EXCEPT ![r.on] = r.x],
           r.op # "mark" => UNCHANGED asked
    PROVE  (serial => OwnStanding)'
  <1>1. SUFFICES ASSUME serial PROVE OwnStanding'
    OBVIOUS
  <1>2. \A t \in Slots : req'[t] = IF t = s THEN r ELSE Idle
    BY <1>1 DEF Wrk!Free, WorkInv, WorkRequestsFit
  <1>3. ~Wrk!Doing("mark")
    BY <1>1 DEF Wrk!Free, Wrk!Doing, Wrk!At
  <1>4. mark = asked /\ \A u \in Users : timer[u] <= 1
    BY <1>1, <1>3 DEF WorkInv, OwnStanding
  <1>5. r.op = "mark" => Wrk!Doing("mark")'
    BY <1>2 DEF Wrk!Doing, Wrk!At
  <1> QED
    BY <1>2, <1>4, <1>5 DEF OwnStanding, OneRequest

LEMMA StandingEnds ==
    ASSUME WorkInv, NEW s \in Slots, req[s] # Idle, Wrk!End(s), req[s].op # "mark",
           UNCHANGED <<timer, mark, asked>>
    PROVE  (serial => OwnStanding)'
  <1>1. SUFFICES ASSUME serial PROVE OwnStanding'
    BY DEF Wrk!End
  <1>2. \A t \in Slots : req'[t] = Idle
    BY <1>1 DEF Wrk!End, WorkInv, WorkRequestsFit, OwnStanding, OneRequest
  <1>3. ~Wrk!Doing("mark")
    BY <1>1 DEF WorkInv, OwnStanding, OneRequest, Wrk!Doing, Wrk!At
  <1> QED
    BY <1>1, <1>2, <1>3 DEF WorkInv, OwnStanding, OneRequest

LEMMA StandingStays ==
    ASSUME WorkInv, UNCHANGED <<req, serial, timer, mark, asked>>
    PROVE  (serial => OwnStanding)'
  BY DEF WorkInv, OwnStanding, OneRequest, Wrk!Doing, Wrk!At

LEMMA ChecklistStays ==
    ASSUME WorkInv, UNCHANGED pos
    PROVE  Wrk!ChecklistDense'
  BY DEF WorkInv, Wrk!ChecklistDense, Wrk!Listing

LEMMA StartKeepsWork ==
    ASSUME WorkInv, NEW s \in Slots, NEW op, NEW on, NEW x, NEW r,
           Wrk!Free(s), Wrk!Start(s, op, on, x),
           r = [op |-> op, on |-> on, x |-> x, v |-> version],
           PeopleSound(r), OwnSound(r), op # "mark", op = "timer" => timer[on] = 0
    PROVE  WorkInv'
  <1>1. /\ req' = [req EXCEPT ![s] = r] /\ r.v = version /\ r.op = op /\ r.on = on
        /\ UNCHANGED <<version, part, reporter, follows, gone, excused, member, open,
                       reminder, told, pos, timer, mark, asked, serial>>
    BY DEF Wrk!Start, Wrk!people, Wrk!access, Wrk!calls, Wrk!mine
  <1>2. WorkRequestsFit'
    BY <1>1, RequestStarts
  <1>3. (serial => OwnStanding)'
    BY <1>1, StandingStarts
  <1>4. Wrk!ChecklistDense'
    BY <1>1, ChecklistStays
  <1>5. /\ Wrk!TypeOK' /\ (gone \subseteq Users)' /\ (told \subseteq Users)'
        /\ Wrk!ResponsibleKept' /\ GoneLeft' /\ ReminderFits' /\ ToldEnded'
    BY <1>1 DEF WorkInv, Wrk!TypeOK, Wrk!ResponsibleKept, Wrk!Responsibles, GoneLeft, ReminderFits, ToldEnded
  <1> QED
    BY <1>2, <1>3, <1>4, <1>5 DEF WorkInv

\* The last responsible may not be removed.
LEMMA AnotherResponsible ==
    ASSUME NEW on \in Users, Wrk!MayRemove(on), on \in Wrk!Responsibles
    PROVE  \E u \in Wrk!Responsibles : u # on
  <1> SUFFICES ASSUME Wrk!Responsibles = {on} PROVE FALSE
    BY DEF Wrk!Responsibles
  <1>1. Cardinality(Wrk!Responsibles) = 1
    BY FS_Singleton
  <1> QED
    BY <1>1, SameCardinality DEF Wrk!MayRemove, Wrk!Has, Wrk!Responsibles

\* What a step on reminders alone keeps.
LEMMA RemindersKeepWork ==
    ASSUME WorkInv, UNCHANGED <<version, part, reporter, follows, gone, excused, member, open,
                                pos, timer, mark, asked, serial>>,
           reminder' \in [Users -> [status : {"NONE", "ACTIVE", "SENT", "CANCELLED"},
                                    job : {"NONE", "QUEUED", "READ", "DONE", "CANCELLED"}]],
           \A u \in Users :
               /\ reminder'[u].status = "ACTIVE" => reminder[u].status = "ACTIVE"
               /\ reminder[u].status # "NONE" => reminder'[u].status # "NONE"
               /\ reminder[u].status = "CANCELLED" => reminder'[u].status = "CANCELLED"
    PROVE  /\ Wrk!TypeOK' /\ (gone \subseteq Users)' /\ Wrk!ResponsibleKept' /\ GoneLeft'
           /\ ReminderFits' /\ Wrk!ChecklistDense' /\ Advances
  <1>1. Wrk!TypeOK' /\ (gone \subseteq Users)' /\ Advances
    BY DEF WorkInv, Wrk!TypeOK, Advances
  <1>2. Wrk!ResponsibleKept' /\ GoneLeft' /\ ReminderFits'
    BY DEF WorkInv, Wrk!ResponsibleKept, Wrk!Responsibles, GoneLeft, ReminderFits
  <1> QED
    BY <1>1, <1>2, ChecklistStays

LEMMA PutKeepsWork == ASSUME WorkInv, NEW s \in Slots, Wrk!CommitPut(s) PROVE WorkInv'
  <1>1. PICK on \in Users, x \in Wrk!Roles :
           /\ part' = [part EXCEPT ![on] = [role |-> x, on |-> TRUE]]
           /\ gone' = gone \ {on}
           /\ excused' <=> excused \/ (Wrk!Responsibles = {on} /\ x # "RESPONSIBLE")
    BY DEF Wrk!CommitPut, Wrk!At, WorkInv, WorkRequestsFit, PeopleSound
  <1>2. /\ req[s] # Idle /\ req[s].op # "mark" /\ Wrk!End(s) /\ version' = version + 1
        /\ UNCHANGED <<reporter, follows, member, open, reminder, told, pos, timer, mark, asked, serial>>
    BY DEF Wrk!CommitPut, Wrk!At, Wrk!End, Wrk!Current, Wrk!access, Wrk!calls, Wrk!mine
  <1>3. version \in Nat /\ version' \in Nat \ {0} /\ version' > version
    BY <1>2 DEF WorkInv, Wrk!TypeOK
  <1>4. \A u \in Users : part'[u] = IF u = on THEN [role |-> x, on |-> TRUE] ELSE part[u]
    BY <1>1 DEF WorkInv, Wrk!TypeOK
  <1>5. Wrk!TypeOK' /\ (gone \subseteq Users)' /\ (told \subseteq Users)'
    <2>1. part' \in [Users -> [role : Wrk!Roles \cup {"NONE"}, on : BOOLEAN]]
      BY <1>1 DEF WorkInv, Wrk!TypeOK
    <2> QED
      BY <1>1, <1>2, <1>3, <2>1 DEF WorkInv, Wrk!TypeOK
  <1>6. Wrk!ResponsibleKept'
    <2>1. CASE x = "RESPONSIBLE"
      BY <1>4, <2>1 DEF Wrk!ResponsibleKept, Wrk!Responsibles
    <2>2. CASE x # "RESPONSIBLE" /\ ~excused'
      <3>1. PICK u \in Wrk!Responsibles : u # on
        BY <1>1, <2>2 DEF WorkInv, Wrk!ResponsibleKept
      <3>2. u \in Wrk!Responsibles'
        BY <1>4, <3>1 DEF Wrk!Responsibles
      <3> QED
        BY <3>2 DEF Wrk!ResponsibleKept
    <2> QED
      BY <2>1, <2>2 DEF Wrk!ResponsibleKept
  <1>7. GoneLeft' /\ ReminderFits' /\ ToldEnded'
    BY <1>1, <1>2, <1>4 DEF WorkInv, GoneLeft, ReminderFits, ToldEnded
  <1>8. Advances
    BY <1>2, <1>3 DEF Advances
  <1>9. WorkRequestsFit' /\ (serial => OwnStanding)' /\ Wrk!ChecklistDense'
    BY <1>2, <1>8, RequestEnds, StandingEnds, ChecklistStays
  <1> QED
    BY <1>5, <1>6, <1>7, <1>9 DEF WorkInv

LEMMA RemoveKeepsWork == ASSUME WorkInv, NEW s \in Slots, Wrk!CommitRemove(s) PROVE WorkInv'
  <1>1. PICK on \in Users :
           /\ part' = [part EXCEPT ![on].on = FALSE]
           /\ follows' = follows \ {on}
           /\ gone' = IF on \in {Owner, reporter} THEN gone ELSE gone \cup {on}
           /\ reminder' = [reminder EXCEPT ![on] =
                  IF @.status = "ACTIVE"
                  THEN [status |-> "CANCELLED", job |-> IF @.job = "QUEUED" THEN "CANCELLED" ELSE @.job]
                  ELSE @]
           /\ excused \/ Wrk!MayRemove(on)
    BY DEF Wrk!CommitRemove, Wrk!At, Wrk!Current, WorkInv, WorkRequestsFit, PeopleSound
  <1>2. /\ req[s] # Idle /\ req[s].op # "mark" /\ Wrk!End(s) /\ version' = version + 1
        /\ UNCHANGED <<reporter, member, open, told, pos, timer, mark, asked, excused, serial>>
    BY DEF Wrk!CommitRemove, Wrk!At, Wrk!End, Wrk!Current, Wrk!access, Wrk!mine
  <1>3. version \in Nat /\ version' \in Nat \ {0} /\ version' > version
    BY <1>2 DEF WorkInv, Wrk!TypeOK
  <1>4. /\ ~part'[on].on /\ \A u \in Users : u # on => part'[u] = part[u]
        /\ part' \in [Users -> [role : Wrk!Roles \cup {"NONE"}, on : BOOLEAN]]
    BY <1>1 DEF WorkInv, Wrk!TypeOK
  <1>5. /\ reminder' \in [Users -> [status : {"NONE", "ACTIVE", "SENT", "CANCELLED"},
                                    job : {"NONE", "QUEUED", "READ", "DONE", "CANCELLED"}]]
        /\ \A u \in Users : /\ u # on => reminder'[u] = reminder[u]
                            /\ reminder'[u].status = IF u = on /\ reminder[u].status = "ACTIVE"
                                                     THEN "CANCELLED" ELSE reminder[u].status
    BY <1>1 DEF WorkInv, Wrk!TypeOK
  <1>6. Wrk!TypeOK' /\ (gone \subseteq Users)' /\ (told \subseteq Users)'
    BY <1>1, <1>2, <1>3, <1>4, <1>5 DEF WorkInv, Wrk!TypeOK
  <1>7. Wrk!ResponsibleKept'
    <2>1. SUFFICES ASSUME ~excused PROVE \E u \in Users : u \in Wrk!Responsibles'
      BY <1>2 DEF Wrk!ResponsibleKept
    <2>2. PICK u \in Wrk!Responsibles : u # on
      <3>1. CASE on \in Wrk!Responsibles
        BY <1>1, <2>1, <3>1, AnotherResponsible
      <3>2. CASE on \notin Wrk!Responsibles
        BY <2>1, <3>2 DEF WorkInv, Wrk!ResponsibleKept
      <3> QED
        BY <3>1, <3>2
    <2> QED
      BY <1>4, <2>2 DEF Wrk!Responsibles
  <1>8. GoneLeft'
    BY <1>1, <1>2, <1>4 DEF WorkInv, GoneLeft
  <1>9. ReminderFits' /\ ToldEnded'
    BY <1>1, <1>2, <1>5 DEF WorkInv, ReminderFits, ToldEnded
  <1>10. Advances
    BY <1>2, <1>3, <1>5 DEF Advances
  <1>11. WorkRequestsFit' /\ (serial => OwnStanding)' /\ Wrk!ChecklistDense'
    BY <1>2, <1>10, RequestEnds, StandingEnds, ChecklistStays
  <1> QED
    BY <1>6, <1>7, <1>8, <1>9, <1>11 DEF WorkInv

LEMMA UpdateKeepsWork == ASSUME WorkInv, NEW s \in Slots, Wrk!CommitUpdate(s) PROVE WorkInv'
  <1>1. PICK to \in Users, new \in Users :
           /\ part' = [u \in Users |->
                  IF u = to THEN [role |-> "RESPONSIBLE", on |-> TRUE]
                  ELSE [part[u] EXCEPT !.on = @ /\ part[u].role # "RESPONSIBLE"]]
           /\ reporter' = new /\ gone' = gone \ {to, new}
    BY DEF Wrk!CommitUpdate, Wrk!At, WorkInv, WorkRequestsFit, PeopleSound
  <1>2. /\ req[s] # Idle /\ req[s].op # "mark" /\ Wrk!End(s) /\ version' = version + 1
        /\ UNCHANGED <<follows, excused, member, open, reminder, told, pos, timer, mark, asked, serial>>
    BY DEF Wrk!CommitUpdate, Wrk!At, Wrk!End, Wrk!Current, Wrk!access, Wrk!calls, Wrk!mine
  <1>3. version \in Nat /\ version' \in Nat \ {0} /\ version' > version
    BY <1>2 DEF WorkInv, Wrk!TypeOK
  <1>4. /\ part'[to].on /\ part'[to].role = "RESPONSIBLE"
        /\ \A u \in Users : u # to /\ part'[u].on => part[u].on
        /\ part' \in [Users -> [role : Wrk!Roles \cup {"NONE"}, on : BOOLEAN]]
    BY <1>1 DEF WorkInv, Wrk!TypeOK, Wrk!Roles
  <1>5. Wrk!TypeOK' /\ (gone \subseteq Users)' /\ (told \subseteq Users)'
    BY <1>1, <1>2, <1>3, <1>4 DEF WorkInv, Wrk!TypeOK
  <1>6. Wrk!ResponsibleKept'
    BY <1>4 DEF Wrk!ResponsibleKept, Wrk!Responsibles
  <1>7. GoneLeft' /\ ReminderFits' /\ ToldEnded'
    BY <1>1, <1>2, <1>4 DEF WorkInv, GoneLeft, ReminderFits, ToldEnded
  <1>8. Advances
    BY <1>2, <1>3 DEF Advances
  <1>9. WorkRequestsFit' /\ (serial => OwnStanding)' /\ Wrk!ChecklistDense'
    BY <1>2, <1>8, RequestEnds, StandingEnds, ChecklistStays
  <1> QED
    BY <1>5, <1>6, <1>7, <1>9 DEF WorkInv

LEMMA HandOverKeepsWork ==
    ASSUME WorkInv, NEW from \in Users, NEW to \in Users, Wrk!HandOver(from, to)
    PROVE  WorkInv'
  <1>1. /\ reporter' = IF from = reporter THEN to ELSE reporter
        /\ version' = IF from = reporter THEN version + 1 ELSE version
        /\ part' = [u \in Users |->
               IF ~Wrk!Has(from, "RESPONSIBLE") THEN part[u]
               ELSE IF u = from THEN [part[u] EXCEPT !.on = FALSE]
               ELSE IF u = to THEN [role |-> "RESPONSIBLE", on |-> TRUE]
               ELSE part[u]]
        /\ gone' = gone \ {to}
        /\ excused' <=> excused \/ from = to \/ Wrk!Doing("remove")
        /\ member' = member \ {from}
        /\ UNCHANGED <<follows, open, reminder, told, pos, timer, mark, asked, req, serial>>
    BY DEF Wrk!HandOver, Wrk!calls, Wrk!mine
  <1>2. version \in Nat /\ version' \in Nat \ {0} /\ version' >= version
    BY <1>1 DEF WorkInv, Wrk!TypeOK
  <1>3. part' \in [Users -> [role : Wrk!Roles \cup {"NONE"}, on : BOOLEAN]]
    BY <1>1 DEF WorkInv, Wrk!TypeOK, Wrk!Roles
  <1>4. Wrk!TypeOK' /\ (gone \subseteq Users)' /\ (told \subseteq Users)'
    BY <1>1, <1>2, <1>3 DEF WorkInv, Wrk!TypeOK
  <1>5. Wrk!ResponsibleKept'
    <2>1. SUFFICES ASSUME ~excused' PROVE \E u \in Users : u \in Wrk!Responsibles'
      BY DEF Wrk!ResponsibleKept
    <2>2. CASE Wrk!Has(from, "RESPONSIBLE")
      BY <1>1, <2>1, <2>2 DEF Wrk!Responsibles
    <2>3. CASE ~Wrk!Has(from, "RESPONSIBLE")
      BY <1>1, <2>1, <2>3 DEF Wrk!Responsibles, WorkInv, Wrk!ResponsibleKept
    <2> QED
      BY <2>2, <2>3
  <1>6. \A u \in Users : u # to /\ part'[u].on => part[u].on
    BY <1>1 DEF WorkInv, Wrk!TypeOK
  <1>7. GoneLeft' /\ ReminderFits' /\ ToldEnded'
    BY <1>1, <1>6 DEF WorkInv, GoneLeft, ReminderFits, ToldEnded
  <1>8. Advances
    BY <1>1, <1>2 DEF Advances
  <1>9. DOMAIN req' = Slots /\ req' = req
    BY <1>1 DEF WorkInv, WorkRequestsFit
  <1>10. WorkRequestsFit' /\ (serial => OwnStanding)' /\ Wrk!ChecklistDense'
    BY <1>1, <1>8, <1>9, RequestsGoOn, StandingStays, ChecklistStays
  <1> QED
    BY <1>4, <1>5, <1>7, <1>10 DEF WorkInv

LEMMA MoveKeepsWork == ASSUME WorkInv, Wrk!Move \/ Wrk!Comment PROVE WorkInv'
  <1>1. /\ version' \in {version, version + 1}
        /\ UNCHANGED <<part, reporter, follows, gone, excused, reminder, told, pos, timer, mark,
                       asked, req, serial>>
    BY DEF Wrk!Move, Wrk!Comment, Wrk!people, Wrk!calls, Wrk!mine
  <1>2. member' \subseteq Users
    BY DEF Wrk!Move, Wrk!Comment, Wrk!access, WorkInv, Wrk!TypeOK
  <1>3. version \in Nat /\ version' \in Nat \ {0} /\ version' >= version
    BY <1>1 DEF WorkInv, Wrk!TypeOK
  <1>4. Wrk!TypeOK' /\ (gone \subseteq Users)' /\ (told \subseteq Users)'
    BY <1>1, <1>2, <1>3 DEF WorkInv, Wrk!TypeOK
  <1>5. Wrk!ResponsibleKept' /\ GoneLeft' /\ ReminderFits' /\ ToldEnded'
    BY <1>1 DEF WorkInv, Wrk!ResponsibleKept, Wrk!Responsibles, GoneLeft, ReminderFits, ToldEnded
  <1>6. Advances
    BY <1>1, <1>3 DEF Advances
  <1>7. DOMAIN req' = Slots /\ req' = req
    BY <1>1 DEF WorkInv, WorkRequestsFit
  <1>8. WorkRequestsFit' /\ (serial => OwnStanding)' /\ Wrk!ChecklistDense'
    BY <1>1, <1>6, <1>7, RequestsGoOn, StandingStays, ChecklistStays
  <1> QED
    BY <1>4, <1>5, <1>8 DEF WorkInv

LEMMA FollowKeepsWork ==
    ASSUME WorkInv, NEW s \in Slots, Wrk!CommitFollow(s) \/ Wrk!Refuse(s)
    PROVE  WorkInv'
  <1>1. /\ req[s] # Idle /\ req[s].op # "mark" /\ Wrk!End(s)
        /\ UNCHANGED <<version, part, reporter, gone, excused, member, open, reminder, told, pos,
                       timer, mark, asked, serial>>
    BY DEF Wrk!CommitFollow, Wrk!Refuse, Wrk!At, Wrk!End, Wrk!people, Wrk!access, Wrk!calls, Wrk!mine
  <1>2. follows' \subseteq Users
    <2>1. CASE Wrk!Refuse(s)
      BY <2>1 DEF Wrk!Refuse, Wrk!people, WorkInv, Wrk!TypeOK
    <2>2. CASE Wrk!CommitFollow(s)
      <3>1. req[s].on \in Users
        BY <2>2 DEF Wrk!CommitFollow, Wrk!At, WorkInv, WorkRequestsFit, PeopleSound
      <3>2. follows' = follows \cup {req[s].on} \/ follows' = follows \ {req[s].on}
        BY <2>2 DEF Wrk!CommitFollow
      <3> QED
        BY <3>1, <3>2 DEF WorkInv, Wrk!TypeOK
    <2> QED
      BY <2>1, <2>2
  <1>3. Wrk!TypeOK' /\ (gone \subseteq Users)' /\ (told \subseteq Users)'
    BY <1>1, <1>2 DEF WorkInv, Wrk!TypeOK
  <1>4. Wrk!ResponsibleKept' /\ GoneLeft' /\ ReminderFits' /\ ToldEnded'
    BY <1>1 DEF WorkInv, Wrk!ResponsibleKept, Wrk!Responsibles, GoneLeft, ReminderFits, ToldEnded
  <1>5. Advances
    BY <1>1 DEF Advances, WorkInv, Wrk!TypeOK
  <1>6. WorkRequestsFit' /\ (serial => OwnStanding)' /\ Wrk!ChecklistDense'
    BY <1>1, <1>5, RequestEnds, StandingEnds, ChecklistStays
  <1> QED
    BY <1>3, <1>4, <1>6 DEF WorkInv

LEMMA RemindKeepsWork == ASSUME WorkInv, NEW s \in Slots, Wrk!CommitRemind(s) PROVE WorkInv'
  <1>1. PICK for :
           /\ reminder' = [u \in Users |->
                  IF u \in for /\ reminder[u].status = "NONE"
                  THEN [status |-> "ACTIVE", job |-> "QUEUED"] ELSE reminder[u]]
           /\ \A u \in Users : u \in for => u \notin gone
    BY DEF Wrk!CommitRemind, Wrk!At, Wrk!Current, WorkInv, WorkRequestsFit, PeopleSound
  <1>2. /\ req[s] # Idle /\ req[s].op # "mark" /\ Wrk!End(s) /\ version' = version + 1
        /\ UNCHANGED <<part, reporter, follows, gone, excused, member, open, told, pos, timer, mark,
                       asked, serial>>
    BY DEF Wrk!CommitRemind, Wrk!At, Wrk!End, Wrk!Current, Wrk!people, Wrk!access, Wrk!mine
  <1>3. version \in Nat /\ version' \in Nat \ {0} /\ version' > version
    BY <1>2 DEF WorkInv, Wrk!TypeOK
  <1>4. reminder' \in [Users -> [status : {"NONE", "ACTIVE", "SENT", "CANCELLED"},
                                 job : {"NONE", "QUEUED", "READ", "DONE", "CANCELLED"}]]
    BY <1>1 DEF WorkInv, Wrk!TypeOK
  <1>5. \A u \in Users : /\ reminder'[u].status \in {reminder[u].status, "ACTIVE"}
                         /\ reminder[u].status # "NONE" => reminder'[u].status = reminder[u].status
                         /\ u \in gone => reminder'[u] = reminder[u]
    BY <1>1
  <1>6. Wrk!TypeOK' /\ (gone \subseteq Users)' /\ (told \subseteq Users)'
    BY <1>2, <1>3, <1>4 DEF WorkInv, Wrk!TypeOK
  <1>7. Wrk!ResponsibleKept' /\ GoneLeft'
    BY <1>2 DEF WorkInv, Wrk!ResponsibleKept, Wrk!Responsibles, GoneLeft
  <1>8. ReminderFits' /\ ToldEnded'
    BY <1>2, <1>5 DEF WorkInv, ReminderFits, ToldEnded
  <1>9. Advances
    BY <1>2, <1>3, <1>5 DEF Advances
  <1>10. WorkRequestsFit' /\ (serial => OwnStanding)' /\ Wrk!ChecklistDense'
    BY <1>2, <1>9, RequestEnds, StandingEnds, ChecklistStays
  <1> QED
    BY <1>6, <1>7, <1>8, <1>10 DEF WorkInv

LEMMA CancelKeepsWork == ASSUME WorkInv, NEW s \in Slots, Wrk!CommitCancel(s) PROVE WorkInv'
  <1>1. PICK u \in Users, x \in {"ACTIVE", "SENT", "CANCELLED"} :
           /\ reminder[u].status # "NONE" /\ (x = "CANCELLED" => reminder[u].status = "CANCELLED")
           /\ reminder' = IF x # "ACTIVE" THEN reminder ELSE [reminder EXCEPT ![u] =
                  [status |-> IF @.status = "ACTIVE" THEN "CANCELLED" ELSE @.status,
                   job |-> IF @.job = "QUEUED" THEN "CANCELLED" ELSE @.job]]
           /\ told' = IF x = "SENT" THEN told ELSE told \cup {u}
    BY DEF Wrk!CommitCancel, Wrk!At, WorkInv, WorkRequestsFit, PeopleSound
  <1>2. /\ req[s] # Idle /\ req[s].op # "mark" /\ Wrk!End(s)
        /\ UNCHANGED <<version, part, reporter, follows, gone, excused, member, open, pos, timer, mark,
                       asked, serial>>
    BY DEF Wrk!CommitCancel, Wrk!At, Wrk!End, Wrk!people, Wrk!access, Wrk!mine
  <1>3. reminder' \in [Users -> [status : {"NONE", "ACTIVE", "SENT", "CANCELLED"},
                                 job : {"NONE", "QUEUED", "READ", "DONE", "CANCELLED"}]]
    BY <1>1 DEF WorkInv, Wrk!TypeOK
  <1>4. \A v \in Users :
           reminder'[v].status = IF v = u /\ x = "ACTIVE" /\ reminder[v].status = "ACTIVE"
                                 THEN "CANCELLED" ELSE reminder[v].status
    BY <1>1 DEF WorkInv, Wrk!TypeOK
  <1>5. /\ Wrk!TypeOK' /\ (gone \subseteq Users)' /\ Wrk!ResponsibleKept' /\ GoneLeft'
        /\ ReminderFits' /\ Wrk!ChecklistDense' /\ Advances
    BY <1>2, <1>3, <1>4, RemindersKeepWork
  <1>6. reminder[u].status \in {"NONE", "ACTIVE", "SENT", "CANCELLED"}
    BY DEF WorkInv, Wrk!TypeOK
  <1>7. (told \subseteq Users)' /\ ToldEnded'
    BY <1>1, <1>4, <1>6 DEF WorkInv, ToldEnded
  <1>8. WorkRequestsFit' /\ (serial => OwnStanding)'
    BY <1>2, <1>5, RequestEnds, StandingEnds
  <1> QED
    BY <1>5, <1>7, <1>8 DEF WorkInv

LEMMA DeliverKeepsWork ==
    ASSUME WorkInv, NEW u \in Users, Wrk!DeliverRead(u) \/ Wrk!Deliver(u) \/ Wrk!Crash(u)
    PROVE  WorkInv'
  <1>1. UNCHANGED <<version, part, reporter, follows, gone, excused, member, open, told, pos, timer,
                    mark, asked, req, serial>>
    BY DEF Wrk!DeliverRead, Wrk!Deliver, Wrk!Crash, Wrk!people, Wrk!access, Wrk!mine
  <1>2. PICK r : /\ reminder' = [reminder EXCEPT ![u] = r]
                 /\ r \in [status : {"NONE", "ACTIVE", "SENT", "CANCELLED"},
                           job : {"NONE", "QUEUED", "READ", "DONE", "CANCELLED"}]
                 /\ r.status = reminder[u].status
                    \/ (reminder[u].status = "ACTIVE" /\ r.status \in {"SENT", "CANCELLED"})
    <2>1. reminder[u] \in [status : {"NONE", "ACTIVE", "SENT", "CANCELLED"},
                           job : {"NONE", "QUEUED", "READ", "DONE", "CANCELLED"}]
      BY DEF WorkInv, Wrk!TypeOK
    <2>2. CASE Wrk!DeliverRead(u)
      <3>1. PICK r : r = IF reminder[u].status # "ACTIVE" THEN [reminder[u] EXCEPT !.job = "DONE"]
                         ELSE IF u \in member /\ Wrk!Actor(u) THEN [reminder[u] EXCEPT !.job = "READ"]
                         ELSE [status |-> "CANCELLED", job |-> "DONE"]
        OBVIOUS
      <3>2. reminder' = [reminder EXCEPT ![u] = r]
        BY <2>2, <3>1 DEF Wrk!DeliverRead
      <3>3. /\ r \in [status : {"NONE", "ACTIVE", "SENT", "CANCELLED"},
                     job : {"NONE", "QUEUED", "READ", "DONE", "CANCELLED"}]
            /\ r.status = reminder[u].status
               \/ (reminder[u].status = "ACTIVE" /\ r.status \in {"SENT", "CANCELLED"})
        BY <2>1, <3>1
      <3> QED
        BY <3>2, <3>3, Zenon
    <2>3. CASE Wrk!Deliver(u)
      <3>1. PICK r : r = [status |-> Wrk!Send(reminder[u]), job |-> "DONE"]
        OBVIOUS
      <3>2. reminder' = [reminder EXCEPT ![u] = r]
        BY <2>3, <3>1 DEF Wrk!Deliver
      <3>3. /\ r \in [status : {"NONE", "ACTIVE", "SENT", "CANCELLED"},
                     job : {"NONE", "QUEUED", "READ", "DONE", "CANCELLED"}]
            /\ r.status = reminder[u].status
               \/ (reminder[u].status = "ACTIVE" /\ r.status \in {"SENT", "CANCELLED"})
        BY <2>1, <3>1 DEF Wrk!Send
      <3> QED
        BY <3>2, <3>3, Zenon
    <2>4. CASE Wrk!Crash(u)
      <3>1. PICK r : r = [reminder[u] EXCEPT !.job = "QUEUED"]
        OBVIOUS
      <3>2. reminder' = [reminder EXCEPT ![u] = r]
        BY <2>4, <3>1 DEF Wrk!Crash
      <3>3. /\ r \in [status : {"NONE", "ACTIVE", "SENT", "CANCELLED"},
                     job : {"NONE", "QUEUED", "READ", "DONE", "CANCELLED"}]
            /\ r.status = reminder[u].status
               \/ (reminder[u].status = "ACTIVE" /\ r.status \in {"SENT", "CANCELLED"})
        BY <2>1, <3>1
      <3> QED
        BY <3>2, <3>3, Zenon
    <2> QED
      BY <2>2, <2>3, <2>4
  <1>3. \A v \in Users : reminder'[v] = IF v = u THEN r ELSE reminder[v]
    BY <1>2 DEF WorkInv, Wrk!TypeOK
  <1>4. reminder' \in [Users -> [status : {"NONE", "ACTIVE", "SENT", "CANCELLED"},
                                 job : {"NONE", "QUEUED", "READ", "DONE", "CANCELLED"}]]
    BY <1>2 DEF WorkInv, Wrk!TypeOK
  <1>5. /\ Wrk!TypeOK' /\ (gone \subseteq Users)' /\ Wrk!ResponsibleKept' /\ GoneLeft'
        /\ ReminderFits' /\ Wrk!ChecklistDense' /\ Advances
    BY <1>1, <1>2, <1>3, <1>4, RemindersKeepWork
  <1>6. (told \subseteq Users)' /\ ToldEnded'
    BY <1>1, <1>2, <1>3 DEF WorkInv, ToldEnded
  <1>7. DOMAIN req' = Slots /\ req' = req
    BY <1>1 DEF WorkInv, WorkRequestsFit
  <1>8. WorkRequestsFit' /\ (serial => OwnStanding)'
    BY <1>1, <1>5, <1>7, RequestsGoOn, StandingStays
  <1> QED
    BY <1>5, <1>6, <1>8 DEF WorkInv

\* What a step on the checklist, the timers and the marks keeps.
LEMMA OwnKeepsPeople ==
    ASSUME WorkInv, UNCHANGED <<part, reporter, follows, gone, excused, member, open, reminder, told>>,
           version' \in Nat \ {0}, pos' \in [Items -> {-1} \cup Nat], timer' \in [Users -> Nat],
           mark' \in [Users -> [favorited : BOOLEAN, important : BOOLEAN]]
    PROVE  /\ Wrk!TypeOK' /\ (gone \subseteq Users)' /\ (told \subseteq Users)'
           /\ Wrk!ResponsibleKept' /\ GoneLeft' /\ ReminderFits' /\ ToldEnded'
  <1>1. Wrk!TypeOK' /\ (gone \subseteq Users)' /\ (told \subseteq Users)'
    BY DEF WorkInv, Wrk!TypeOK, Wrk!Off
  <1> QED
    BY <1>1 DEF WorkInv, Wrk!ResponsibleKept, Wrk!Responsibles, GoneLeft, ReminderFits, ToldEnded

\* A step on the checklist moves the version.
LEMMA ItemsKeepWork ==
    ASSUME WorkInv, NEW s \in Slots, req[s] # Idle, req[s].op # "mark", Wrk!End(s),
           version' = version + 1, pos' \in [Items -> {-1} \cup Nat], Dense(pos', Wrk!Listing'),
           UNCHANGED <<part, reporter, follows, gone, excused, member, open, reminder, told, timer,
                       mark, asked, serial>>
    PROVE  WorkInv'
  <1>1. version \in Nat /\ version' \in Nat \ {0} /\ version' > version
    BY DEF WorkInv, Wrk!TypeOK
  <1>2. /\ Wrk!TypeOK' /\ (gone \subseteq Users)' /\ (told \subseteq Users)'
        /\ Wrk!ResponsibleKept' /\ GoneLeft' /\ ReminderFits' /\ ToldEnded'
    <2>1. timer' \in [Users -> Nat] /\ mark' \in [Users -> [favorited : BOOLEAN, important : BOOLEAN]]
      BY DEF WorkInv, Wrk!TypeOK
    <2> QED
      BY <1>1, <2>1, OwnKeepsPeople
  <1>3. Wrk!ChecklistDense'
    BY SameCardinality DEF Wrk!ChecklistDense, Dense
  <1>4. Advances
    BY <1>1 DEF Advances
  <1>5. WorkRequestsFit' /\ (serial => OwnStanding)'
    BY <1>4, RequestEnds, StandingEnds
  <1> QED
    BY <1>2, <1>3, <1>5 DEF WorkInv

LEMMA ChecklistFacts ==
    ASSUME WorkInv
    PROVE  /\ Wrk!Listing \subseteq Items /\ IsFiniteSet(Wrk!Listing) /\ Cardinality(Wrk!Listing) \in Nat
           /\ Dense(pos, Wrk!Listing)
           /\ pos \in [Items -> {-1} \cup Nat]
           /\ \A i \in Items : i \in Wrk!Listing <=> pos[i] # -1
  <1>1. Wrk!Listing \subseteq Items
    BY DEF Wrk!Listing
  <1>2. IsFiniteSet(Wrk!Listing)
    BY <1>1, FiniteAssumption, FS_Subset
  <1> QED
    BY <1>1, <1>2, FS_CardinalityType, ChecklistIsDense DEF WorkInv, Wrk!TypeOK, Wrk!Off, Wrk!Listing

LEMMA AddKeepsWork == ASSUME WorkInv, NEW s \in Slots, Wrk!CommitAdd(s) PROVE WorkInv'
  <1> DEFINE Ends == {-1} \cup {pos[j] : j \in Items}
  <1>0. PICK m : m = CHOOSE n \in Ends : \A j \in Items : pos[j] <= n
    OBVIOUS
  <1>1. PICK i \in Items : pos[i] = -1 /\ pos' = [pos EXCEPT ![i] = 1 + m]
    BY <1>0 DEF Wrk!CommitAdd, Wrk!At, Wrk!Current, Wrk!Off, WorkInv, WorkRequestsFit, OwnSound
  <1>2. /\ req[s] # Idle /\ req[s].op # "mark" /\ Wrk!End(s) /\ version' = version + 1
        /\ UNCHANGED <<part, reporter, follows, gone, excused, member, open, reminder, told, timer,
                       mark, asked, serial>>
    BY DEF Wrk!CommitAdd, Wrk!At, Wrk!End, Wrk!Current, Wrk!people, Wrk!access, Wrk!calls, Wrk!mine
  <1>3. PICK c \in Nat : c = Cardinality(Wrk!Listing)
    BY ChecklistFacts
  <1>4. c - 1 \in Ends /\ \A j \in Items : pos[j] <= c - 1
    <2>1. ASSUME NEW j \in Items PROVE pos[j] <= c - 1
      <3>1. CASE j \in Wrk!Listing
        BY <1>3, <3>1, ChecklistFacts DEF Dense
      <3>2. CASE j \notin Wrk!Listing
        BY <3>2, ChecklistFacts
      <3> QED
        BY <3>1, <3>2
    <2>2. CASE c = 0
      BY <2>1, <2>2
    <2>3. CASE c # 0
      <3>1. c - 1 \in 0 .. c - 1
        BY <2>3
      <3>2. PICK j \in Wrk!Listing : pos[j] = c - 1
        BY <1>3, <3>1, ChecklistFacts DEF Dense
      <3> QED
        BY <2>1, <3>2, ChecklistFacts
    <2> QED
      BY <2>2, <2>3
  <1>5. m \in Ends /\ \A j \in Items : pos[j] <= m
    BY <1>0, <1>4
  <1>6. 1 + m = c
    <2>1. m <= c - 1 /\ m \in Int
      BY <1>4, <1>5, ChecklistFacts
    <2>2. c - 1 <= m
      BY <1>4, <1>5, ChecklistFacts
    <2> QED
      BY <2>1, <2>2
  <1>7. /\ pos' \in [Items -> {-1} \cup Nat] /\ pos'[i] = c
        /\ \A j \in Items : j # i => pos'[j] = pos[j]
    BY <1>1, <1>6, ChecklistFacts
  <1>8. Wrk!Listing' = Wrk!Listing \cup {i} /\ i \notin Wrk!Listing
    <2>1. \A j \in Items : pos'[j] # -1 <=> j \in Wrk!Listing \cup {i}
      BY <1>3, <1>7, ChecklistFacts
    <2> QED
      BY <1>1, <2>1, ChecklistFacts DEF Wrk!Listing, Wrk!Off
  <1>9. Dense(pos', Wrk!Listing \cup {i})
    BY <1>3, <1>7, <1>8, ChecklistFacts, DenseAdd
  <1> QED
    BY <1>2, <1>7, <1>8, <1>9, ItemsKeepWork

LEMMA DropKeepsWork == ASSUME WorkInv, NEW s \in Slots, Wrk!CommitDrop(s) PROVE WorkInv'
  <1>1. PICK x \in Items : pos[x] # -1 /\ pos' = Wrk!Reposition([pos EXCEPT ![x] = -1])
    BY DEF Wrk!CommitDrop, Wrk!At, Wrk!Current, Wrk!Off, WorkInv, WorkRequestsFit, OwnSound
  <1>2. /\ req[s] # Idle /\ req[s].op # "mark" /\ Wrk!End(s) /\ version' = version + 1
        /\ UNCHANGED <<part, reporter, follows, gone, excused, member, open, reminder, told, timer,
                       mark, asked, serial>>
    BY DEF Wrk!CommitDrop, Wrk!At, Wrk!End, Wrk!Current, Wrk!people, Wrk!access, Wrk!calls, Wrk!mine
  <1>3. PICK p : p = [pos EXCEPT ![x] = -1]
    OBVIOUS
  <1>4. /\ p[x] = -1 /\ \A i \in Items : i # x => p[i] = pos[i]
        /\ x \in Wrk!Listing
    BY <1>1, <1>3, ChecklistFacts
  <1>5. \A i \in Items : pos'[i] = IF p[i] = -1 THEN -1
                                   ELSE Cardinality({j \in Items : p[j] # -1 /\ p[j] < p[i]})
    BY <1>1, <1>3, SameCardinality DEF Wrk!Reposition, Wrk!Off
  <1>6. ASSUME NEW i \in Items
        PROVE  IF i \in Wrk!Listing \ {x}
               THEN /\ pos'[i] = Cardinality({j \in Wrk!Listing \ {x} : pos[j] < pos[i]})
                    /\ pos'[i] \in Nat
               ELSE pos'[i] = -1
    <2>1. CASE i \in Wrk!Listing \ {x}
      <3>1. p[i] = pos[i] /\ p[i] # -1
        BY <1>4, <2>1, ChecklistFacts
      <3>2. {j \in Items : p[j] # -1 /\ p[j] < p[i]} = {j \in Wrk!Listing \ {x} : pos[j] < pos[i]}
        BY <1>4, <3>1, ChecklistFacts
      <3>3. IsFiniteSet({j \in Wrk!Listing \ {x} : pos[j] < pos[i]})
        BY ChecklistFacts, FS_Subset
      <3>4. Cardinality({j \in Wrk!Listing \ {x} : pos[j] < pos[i]}) \in Nat
        BY <3>3, FS_CardinalityType
      <3> QED
        BY <1>5, <2>1, <3>1, <3>2, <3>4
    <2>2. CASE i \notin Wrk!Listing \ {x}
      BY <1>4, <1>5, <2>2, ChecklistFacts
    <2> QED
      BY <2>1, <2>2
  <1>7. pos' \in [Items -> {-1} \cup Nat]
    <2>1. pos' = [i \in Items |-> pos'[i]]
      BY <1>1 DEF Wrk!Reposition
    <2> QED
      BY <1>6, <2>1
  <1>8. Wrk!Listing' = Wrk!Listing \ {x}
    <2>1. ASSUME NEW i \in Items PROVE pos'[i] # -1 <=> i \in Wrk!Listing \ {x}
      <3>1. CASE i \in Wrk!Listing \ {x}
        <4>1. pos'[i] \in Nat
          BY <1>6, <3>1
        <4> QED
          BY <3>1, <4>1
      <3>2. CASE i \notin Wrk!Listing \ {x}
        BY <1>6, <3>2
      <3> QED
        BY <3>1, <3>2
    <2> QED
      BY <2>1, ChecklistFacts DEF Wrk!Listing, Wrk!Off
  <1>9. Dense(pos', Wrk!Listing \ {x})
    <2>1. \A i \in Wrk!Listing \ {x} :
              pos'[i] = Cardinality({j \in Wrk!Listing \ {x} : pos[j] < pos[i]})
      BY <1>6, ChecklistFacts
    <2> QED
      BY <1>4, <2>1, ChecklistFacts, DenseDrop
  <1> QED
    BY <1>2, <1>7, <1>8, <1>9, ItemsKeepWork

LEMMA OrderKeepsWork == ASSUME WorkInv, NEW s \in Slots, Wrk!CommitOrder(s) PROVE WorkInv'
  <1>1. PICK f \in Wrk!Orders(Wrk!Listing) :
           pos' = [i \in Items |-> IF i \in DOMAIN f THEN f[i] ELSE pos[i]]
    BY DEF Wrk!CommitOrder, Wrk!At, Wrk!Current, WorkInv, WorkRequestsFit, OwnSound
  <1>2. /\ req[s] # Idle /\ req[s].op # "mark" /\ Wrk!End(s) /\ version' = version + 1
        /\ UNCHANGED <<part, reporter, follows, gone, excused, member, open, reminder, told, timer,
                       mark, asked, serial>>
    BY DEF Wrk!CommitOrder, Wrk!At, Wrk!End, Wrk!Current, Wrk!people, Wrk!access, Wrk!calls, Wrk!mine
  <1>3. /\ f \in [Wrk!Listing -> 0 .. Cardinality(Wrk!Listing) - 1]
        /\ \A i, j \in Wrk!Listing : f[i] = f[j] => i = j
    BY SameCardinality DEF Wrk!Orders
  <1>4. \A i \in Items : /\ i \in Wrk!Listing => pos'[i] = f[i] /\ f[i] \in Nat
                         /\ i \notin Wrk!Listing => pos'[i] = -1
    BY <1>1, <1>3, ChecklistFacts
  <1>5. pos' \in [Items -> {-1} \cup Nat]
    <2>1. pos' = [i \in Items |-> pos'[i]]
      BY <1>1
    <2> QED
      BY <1>4, <2>1
  <1>6. Wrk!Listing' = Wrk!Listing
    BY <1>4, ChecklistFacts DEF Wrk!Listing, Wrk!Off
  <1>7. Dense(pos', Wrk!Listing)
    BY <1>3, <1>4, ChecklistFacts, DenseOrder
  <1> QED
    BY <1>2, <1>5, <1>6, <1>7, ItemsKeepWork

\* A step on timers and marks leaves the task as it is.
LEMMA TimerKeepsWork ==
    ASSUME WorkInv, NEW s \in Slots, Wrk!CommitTimer(s) \/ Wrk!CommitMark(s)
    PROVE  WorkInv'
  <1>1. /\ req[s] # Idle /\ Wrk!End(s) /\ req[s].op \in {"timer", "mark"}
        /\ UNCHANGED <<version, part, reporter, follows, gone, excused, member, open, reminder, told,
                       pos, asked, serial>>
    BY DEF Wrk!CommitTimer, Wrk!CommitMark, Wrk!At, Wrk!End, Wrk!people, Wrk!access, Wrk!calls
  <1>2. PICK u : u = req[s].on
    OBVIOUS
  <1>3. u \in Users /\ (req[s].op = "mark" => req[s].x \in [favorited : BOOLEAN, important : BOOLEAN])
    BY <1>1, <1>2 DEF WorkInv, WorkRequestsFit, OwnSound
  <1>4. \/ req[s].op = "timer" /\ timer' = [timer EXCEPT ![u] = @ + 1] /\ UNCHANGED mark
        \/ req[s].op = "mark" /\ mark' = [mark EXCEPT ![u] = req[s].x] /\ UNCHANGED timer
    BY <1>2 DEF Wrk!CommitTimer, Wrk!CommitMark, Wrk!At
  <1>5. timer' \in [Users -> Nat] /\ mark' \in [Users -> [favorited : BOOLEAN, important : BOOLEAN]]
    <2>1. timer \in [Users -> Nat] /\ mark \in [Users -> [favorited : BOOLEAN, important : BOOLEAN]]
      BY DEF WorkInv, Wrk!TypeOK
    <2>2. CASE req[s].op = "timer" /\ timer' = [timer EXCEPT ![u] = @ + 1] /\ UNCHANGED mark
      BY <1>3, <2>1, <2>2
    <2>3. CASE req[s].op = "mark" /\ mark' = [mark EXCEPT ![u] = req[s].x] /\ UNCHANGED timer
      <3>1. PICK k \in [favorited : BOOLEAN, important : BOOLEAN] : k = req[s].x
        BY <1>3, <2>3
      <3>2. mark' = [mark EXCEPT ![u] = k]
        BY <2>3, <3>1
      <3> HIDE <2>3
      <3>3. mark' \in [Users -> [favorited : BOOLEAN, important : BOOLEAN]]
        BY <1>3, <2>1, <3>2, Zenon
      <3> QED
        BY <2>1, <2>3, <3>3
    <2> QED
      BY <1>4, <2>2, <2>3
  <1>6. version' \in Nat \ {0} /\ pos' \in [Items -> {-1} \cup Nat]
    BY <1>1 DEF WorkInv, Wrk!TypeOK, Wrk!Off
  <1>7. /\ Wrk!TypeOK' /\ (gone \subseteq Users)' /\ (told \subseteq Users)'
        /\ Wrk!ResponsibleKept' /\ GoneLeft' /\ ReminderFits' /\ ToldEnded'
    BY <1>1, <1>5, <1>6, OwnKeepsPeople
  <1>8. Advances
    BY <1>1 DEF Advances, WorkInv, Wrk!TypeOK
  <1>9. WorkRequestsFit' /\ Wrk!ChecklistDense'
    BY <1>1, <1>8, RequestEnds, ChecklistStays
  <1>10. ASSUME serial PROVE OwnStanding'
    <2>1. \A t \in Slots : req'[t] = Idle /\ (req[t] # Idle => t = s)
      BY <1>1, <1>10 DEF Wrk!End, WorkInv, WorkRequestsFit, OwnStanding, OneRequest
    <2>2. ~Wrk!Doing("mark")'
      BY <2>1 DEF Wrk!Doing, Wrk!At
    <2>3. CASE req[s].op = "timer"
      <3>1. timer[u] = 0 /\ \A v \in Users : timer[v] <= 1
        BY <1>1, <1>2, <1>10, <2>3 DEF WorkInv, OwnStanding
      <3>2. \A v \in Users : timer'[v] <= 1
        BY <1>3, <1>4, <2>3, <3>1 DEF WorkInv, Wrk!TypeOK
      <3>3. ~Wrk!Doing("mark")
        BY <2>1, <2>3 DEF Wrk!Doing, Wrk!At
      <3>4. mark' = asked'
        BY <1>1, <1>4, <1>10, <2>3, <3>3 DEF WorkInv, OwnStanding
      <3> QED
        BY <2>1, <3>2, <3>4 DEF OwnStanding, OneRequest
    <2>4. CASE req[s].op = "mark"
      <3>1. mark' = asked'
        BY <1>1, <1>2, <1>4, <1>10, <2>4 DEF WorkInv, OwnStanding
      <3> QED
        BY <1>4, <1>10, <2>1, <2>4, <3>1 DEF WorkInv, OwnStanding, OneRequest
    <2> QED
      BY <1>1, <2>3, <2>4
  <1> QED
    BY <1>1, <1>7, <1>9, <1>10 DEF WorkInv

LEMMA StopKeepsWork == ASSUME WorkInv, Wrk!StopTimer PROVE WorkInv'
  <1>1. PICK u \in Users : timer[u] > 0 /\ timer' = [timer EXCEPT ![u] = @ - 1]
    BY DEF Wrk!StopTimer
  <1>2. UNCHANGED <<version, part, reporter, follows, gone, excused, member, open, reminder, told,
                    pos, mark, asked, req, serial>>
    BY DEF Wrk!StopTimer, Wrk!people, Wrk!access, Wrk!calls
  <1>3. /\ timer' \in [Users -> Nat]
        /\ \A v \in Users : timer'[v] <= timer[v] /\ (timer[v] = 0 => timer'[v] = 0)
    BY <1>1 DEF WorkInv, Wrk!TypeOK
  <1>4. /\ version' \in Nat \ {0} /\ pos' \in [Items -> {-1} \cup Nat]
        /\ mark' \in [Users -> [favorited : BOOLEAN, important : BOOLEAN]]
    BY <1>2 DEF WorkInv, Wrk!TypeOK, Wrk!Off
  <1>5. /\ Wrk!TypeOK' /\ (gone \subseteq Users)' /\ (told \subseteq Users)'
        /\ Wrk!ResponsibleKept' /\ GoneLeft' /\ ReminderFits' /\ ToldEnded'
    BY <1>2, <1>3, <1>4, OwnKeepsPeople
  <1>6. Advances /\ DOMAIN req' = Slots /\ req' = req
    BY <1>2 DEF Advances, WorkInv, WorkRequestsFit, Wrk!TypeOK
  <1>7. WorkRequestsFit' /\ Wrk!ChecklistDense'
    BY <1>2, <1>6, RequestsGoOn, ChecklistStays
  <1>8. ASSUME serial PROVE OwnStanding'
    <2>1. \A v \in Users : timer'[v] <= 1
      BY <1>3, <1>8 DEF WorkInv, OwnStanding, Wrk!TypeOK
    <2>2. \A t \in Slots : req[t] # Idle /\ req[t].op = "timer" => req[t].on \in Users
      BY DEF WorkInv, WorkRequestsFit, OwnSound
    <2> QED
      BY <1>2, <1>3, <1>8, <2>1, <2>2 DEF WorkInv, OwnStanding, OneRequest, Wrk!Doing, Wrk!At
  <1> QED
    BY <1>2, <1>5, <1>7, <1>8 DEF WorkInv

LEMMA MarkKeepsWork == ASSUME WorkInv, NEW s \in Slots, Wrk!Free(s), Wrk!BeginMark(s) PROVE WorkInv'
  <1>1. PICK u \in Users, field \in {"favorited", "important"}, b \in BOOLEAN :
           /\ asked' = [asked EXCEPT ![u][field] = b]
           /\ req' = [req EXCEPT ![s] = [op |-> "mark", on |-> u, x |-> Wrk!Kept(u, field, b), v |-> version]]
    BY DEF Wrk!BeginMark
  <1>2. UNCHANGED <<version, part, reporter, follows, gone, excused, member, open, reminder, told,
                    pos, timer, mark, serial>>
    BY DEF Wrk!BeginMark, Wrk!people, Wrk!access, Wrk!calls
  <1>3. PICK k : k = Wrk!Kept(u, field, b)
    OBVIOUS
  <1>4. PICK r : r = [op |-> "mark", on |-> u, x |-> k, v |-> version]
    OBVIOUS
  <1>5. k \in [favorited : BOOLEAN, important : BOOLEAN]
    <2>1. mark[u] \in [favorited : BOOLEAN, important : BOOLEAN]
      BY DEF WorkInv, Wrk!TypeOK
    <2>2. CASE field = "favorited"
      BY <1>3, <2>1, <2>2 DEF Wrk!Kept
    <2>3. CASE field = "important"
      BY <1>3, <2>1, <2>3 DEF Wrk!Kept
    <2> QED
      BY <2>2, <2>3
  <1>6. r # Idle
    <2>1. version \in Nat
      BY DEF WorkInv, Wrk!TypeOK
    <2>2. r \in [op : {"mark"}, on : Users, x : [favorited : BOOLEAN, important : BOOLEAN], v : Nat]
      BY <1>4, <1>5, <2>1
    <2> QED
      BY <2>2, IdleAssumption
  <1>7. PeopleSound(r) /\ OwnSound(r) /\ r.v = version
    BY <1>4, <1>5 DEF PeopleSound, OwnSound
  <1>8. WorkRequestsFit'
    BY <1>1, <1>2, <1>3, <1>4, <1>7, RequestStarts
  <1>9. (serial => OwnStanding)'
    <2>1. SUFFICES ASSUME serial PROVE OwnStanding'
      BY <1>2
    <2>2. ~Wrk!Doing("mark")
      BY <2>1 DEF Wrk!Free, Wrk!Doing, Wrk!At
    <2>3. mark = asked
      BY <2>1, <2>2 DEF WorkInv, OwnStanding
    <2>4. asked' = [mark EXCEPT ![u] = k]
      BY <1>1, <1>3, <2>3 DEF Wrk!Kept
    <2>5. \/ ~serial \/ asked' = [mark EXCEPT ![r.on] = r.x]
      BY <1>4, <2>4
    <2>6. r.op = "mark"
      BY <1>4
    <2>7. (serial => OwnStanding)'
      BY <1>1, <1>2, <1>3, <1>4, <1>6, <2>1, <2>5, <2>6, StandingStarts
    <2> QED
      BY <1>2, <2>1, <2>7
  <1>10. Wrk!ChecklistDense'
    BY <1>2, ChecklistStays
  <1>11. /\ version' \in Nat \ {0} /\ pos' \in [Items -> {-1} \cup Nat] /\ timer' \in [Users -> Nat]
         /\ mark' \in [Users -> [favorited : BOOLEAN, important : BOOLEAN]]
    BY <1>2 DEF WorkInv, Wrk!TypeOK, Wrk!Off
  <1>12. /\ Wrk!TypeOK' /\ (gone \subseteq Users)' /\ (told \subseteq Users)'
         /\ Wrk!ResponsibleKept' /\ GoneLeft' /\ ReminderFits' /\ ToldEnded'
    BY <1>2, <1>11, OwnKeepsPeople
  <1> QED
    BY <1>8, <1>9, <1>10, <1>12 DEF WorkInv

\* What a request knows when it begins.
LEMMA BeginsKeepWork ==
    ASSUME WorkInv, NEW s \in Slots, Wrk!Free(s),
           \/ Wrk!BeginPut(s) \/ Wrk!BeginRemove(s) \/ Wrk!BeginUpdate(s) \/ Wrk!BeginFollow(s)
           \/ Wrk!BeginRemind(s) \/ Wrk!BeginCancel(s) \/ Wrk!BeginItem(s) \/ Wrk!BeginTimer(s)
    PROVE  WorkInv'
  <1>1. ASSUME NEW op, NEW on, NEW x, Wrk!Start(s, op, on, x), op # "mark",
               op = "timer" => timer[on] = 0,
               ASSUME NEW r, r.op = op, r.on = on, r.x = x PROVE PeopleSound(r) /\ OwnSound(r)
        PROVE  WorkInv'
    <2>1. PICK r : r = [op |-> op, on |-> on, x |-> x, v |-> version]
      OBVIOUS
    <2>2. PeopleSound(r) /\ OwnSound(r)
      BY <1>1, <2>1
    <2> QED
      BY <1>1, <2>1, <2>2, StartKeepsWork
  <1> USE DEF PeopleSound, OwnSound
  <1>2. CASE Wrk!BeginPut(s)
    <2>1. PICK on \in member, x \in Wrk!Roles : Wrk!Start(s, "put", on, x)
      BY <1>2 DEF Wrk!BeginPut
    <2>2. on \in Users
      BY DEF WorkInv, Wrk!TypeOK
    <2> QED
      BY <1>1, <2>1, <2>2
  <1>3. CASE Wrk!BeginRemove(s)
    <2>1. PICK on \in Users : Wrk!MayRemove(on) /\ Wrk!Start(s, "remove", on, "")
      BY <1>3 DEF Wrk!BeginRemove
    <2> QED
      BY <1>1, <2>1
  <1>4. CASE Wrk!BeginUpdate(s)
    <2>1. PICK to \in Users, new \in Users : Wrk!Start(s, "update", to, new)
      BY <1>4 DEF Wrk!BeginUpdate
    <2> QED
      BY <1>1, <2>1
  <1>5. CASE Wrk!BeginFollow(s)
    <2>1. PICK u \in Users, on \in BOOLEAN : Wrk!Start(s, "follow", u, on)
      BY <1>5 DEF Wrk!BeginFollow
    <2> QED
      BY <1>1, <2>1
  <1>6. CASE Wrk!BeginRemind(s)
    <2>1. PICK by \in Users, for \in SUBSET Users :
             /\ \A u \in for : Wrk!Actor(u) \/ Wrk!Present(u)
             /\ Wrk!Start(s, "remind", by, for)
      BY <1>6 DEF Wrk!BeginRemind
    <2>2. \A u \in Users : u \in for => u \notin gone
      BY <2>1 DEF WorkInv, GoneLeft, Wrk!Actor, Wrk!Present
    <2> QED
      BY <1>1, <2>1, <2>2
  <1>7. CASE Wrk!BeginCancel(s)
    <2>1. PICK u \in Users : /\ reminder[u].status # "NONE"
                             /\ Wrk!Start(s, "cancel", u, reminder[u].status)
      BY <1>7 DEF Wrk!BeginCancel
    <2>2. PICK x \in {"ACTIVE", "SENT", "CANCELLED"} : x = reminder[u].status
      BY <2>1 DEF WorkInv, Wrk!TypeOK
    <2>3. Wrk!Start(s, "cancel", u, x)
      BY <2>1, <2>2
    <2>4. ASSUME NEW r, r.op = "cancel", r.on = u, r.x = x PROVE PeopleSound(r) /\ OwnSound(r)
      BY <2>1, <2>2, <2>4
    <2> QED
      BY <1>1, <2>3, <2>4
  <1>8. CASE Wrk!BeginItem(s)
    <2>1. CASE \E i \in Items \ Wrk!Listing : Wrk!Start(s, "add", NoUser, i)
      BY <1>1, <2>1, ChecklistFacts
    <2>2. CASE \E i \in Wrk!Listing : Wrk!Start(s, "drop", NoUser, i)
      BY <1>1, <2>2, ChecklistFacts
    <2>3. CASE \E f \in Wrk!Orders(Wrk!Listing) : Wrk!Start(s, "order", NoUser, f)
      BY <1>1, <2>3
    <2> QED
      BY <1>8, <2>1, <2>2, <2>3 DEF Wrk!BeginItem
  <1>9. CASE Wrk!BeginTimer(s)
    <2>1. PICK u \in Users : timer[u] = 0 /\ Wrk!Start(s, "timer", u, "")
      BY <1>9 DEF Wrk!BeginTimer, Wrk!NoTimer
    <2> QED
      BY <1>1, <2>1
  <1> QED
    BY <1>2, <1>3, <1>4, <1>5, <1>6, <1>7, <1>8, <1>9

LEMMA StepKeepsWork == WorkInv /\ (Wrk!Next \/ UNCHANGED Wrk!vars) => WorkInv'
  <1> SUFFICES ASSUME WorkInv, Wrk!Next \/ UNCHANGED Wrk!vars PROVE WorkInv'
    OBVIOUS
  <1>1. CASE Wrk!PeopleNext
    BY <1>1, BeginsKeepWork, PutKeepsWork, RemoveKeepsWork, UpdateKeepsWork, FollowKeepsWork,
       RemindKeepsWork, CancelKeepsWork, DeliverKeepsWork, HandOverKeepsWork, MoveKeepsWork
       DEF Wrk!PeopleNext
  <1>2. CASE Wrk!OwnNext
    BY <1>2, BeginsKeepWork, MarkKeepsWork, AddKeepsWork, DropKeepsWork, OrderKeepsWork,
       FollowKeepsWork, TimerKeepsWork, StopKeepsWork
       DEF Wrk!OwnNext
  <1>3. CASE UNCHANGED Wrk!vars
    <2>1. UNCHANGED <<version, part, reporter, follows, gone, excused, member, open, reminder, told,
                      pos, timer, mark, asked, req, serial>>
      BY <1>3 DEF Wrk!vars, Wrk!people, Wrk!access, Wrk!calls, Wrk!mine
    <2>2. /\ version' \in Nat \ {0} /\ pos' \in [Items -> {-1} \cup Nat] /\ timer' \in [Users -> Nat]
          /\ mark' \in [Users -> [favorited : BOOLEAN, important : BOOLEAN]]
      BY <2>1 DEF WorkInv, Wrk!TypeOK, Wrk!Off
    <2>3. Advances /\ DOMAIN req' = Slots /\ req' = req
      BY <2>1 DEF Advances, WorkInv, WorkRequestsFit, Wrk!TypeOK
    <2> QED
      BY <2>1, <2>2, <2>3, OwnKeepsPeople, RequestsGoOn, StandingStays, ChecklistStays DEF WorkInv
  <1> QED
    BY <1>1, <1>2, <1>3 DEF Wrk!Next

LEMMA WorkSteps == WorkInv /\ (Wrk!Next \/ UNCHANGED Wrk!vars) => Wrk!CancelIsFinal
  <1> SUFFICES ASSUME WorkInv, Wrk!Next \/ UNCHANGED Wrk!vars,
                      NEW u \in told, reminder'[u].status = "SENT", reminder[u].status # "SENT"
               PROVE  FALSE
    BY DEF Wrk!CancelIsFinal
  <1>1. u \in Users /\ reminder[u].status = "CANCELLED"
    BY DEF WorkInv, ToldEnded
  <1>2. CASE UNCHANGED reminder
    BY <1>1, <1>2
  <1>3. ASSUME NEW v \in Users, Wrk!DeliverRead(v) \/ Wrk!Deliver(v) \/ Wrk!Crash(v) PROVE FALSE
    BY <1>1, <1>3 DEF Wrk!DeliverRead, Wrk!Deliver, Wrk!Crash, Wrk!Send, WorkInv, Wrk!TypeOK
  <1>4. ASSUME NEW s \in Slots, Wrk!CommitRemove(s) \/ Wrk!CommitRemind(s) \/ Wrk!CommitCancel(s)
        PROVE  FALSE
    BY <1>1, <1>4 DEF Wrk!CommitRemove, Wrk!CommitRemind, Wrk!CommitCancel, WorkInv, Wrk!TypeOK
  <1>5. ASSUME NEW s \in Slots,
               \/ Wrk!BeginPut(s) \/ Wrk!BeginRemove(s) \/ Wrk!BeginUpdate(s) \/ Wrk!BeginFollow(s)
               \/ Wrk!BeginRemind(s) \/ Wrk!BeginCancel(s) \/ Wrk!BeginItem(s) \/ Wrk!BeginTimer(s)
        PROVE  UNCHANGED reminder
    BY <1>5 DEF Wrk!BeginPut, Wrk!BeginRemove, Wrk!BeginUpdate, Wrk!BeginFollow, Wrk!BeginRemind,
       Wrk!BeginCancel, Wrk!BeginItem, Wrk!BeginTimer, Wrk!Start, Wrk!calls
  <1>6. ASSUME NEW s \in Slots,
               \/ Wrk!CommitPut(s) \/ Wrk!CommitUpdate(s) \/ Wrk!CommitFollow(s) \/ Wrk!Refuse(s)
               \/ Wrk!CommitAdd(s) \/ Wrk!CommitDrop(s) \/ Wrk!CommitOrder(s)
               \/ Wrk!CommitTimer(s) \/ Wrk!CommitMark(s) \/ Wrk!BeginMark(s)
        PROVE  UNCHANGED reminder
    BY <1>6 DEF Wrk!CommitPut, Wrk!CommitUpdate, Wrk!CommitFollow, Wrk!Refuse, Wrk!CommitAdd,
       Wrk!CommitDrop, Wrk!CommitOrder, Wrk!CommitTimer, Wrk!CommitMark, Wrk!BeginMark, Wrk!calls
  <1>7. ASSUME NEW from \in Users, NEW to \in Users, Wrk!HandOver(from, to) PROVE UNCHANGED reminder
    BY <1>7 DEF Wrk!HandOver, Wrk!calls
  <1>8. ASSUME Wrk!Move \/ Wrk!Comment \/ Wrk!StopTimer \/ UNCHANGED Wrk!vars PROVE UNCHANGED reminder
    BY <1>8 DEF Wrk!Move, Wrk!Comment, Wrk!StopTimer, Wrk!vars, Wrk!calls
  <1> QED
    BY <1>2, <1>3, <1>4, <1>5, <1>6, <1>7, <1>8 DEF Wrk!Next, Wrk!PeopleNext, Wrk!OwnNext

LEMMA WorkInvariant == Spec => [](OnTask => WorkInv)
  <1> DEFINE Inv == OnTask => WorkInv
  <1>1. Init => Inv
    BY InitWork DEF Init, OnTask
  <1>2. Inv /\ [Next]_vars => Inv'
    BY StepKeepsWork DEF Next, vars, Wrk!vars, Wrk!people, Wrk!access, Wrk!calls, Wrk!mine, Wrk!Next,
       from5, from6, from7, OnTask
  <1> QED
    BY <1>1, <1>2, PTL DEF Spec

\* put, remove, update, follow, the hand-over and the reminders: a task keeps a
\* responsible, who was removed is not reminded, and what is listed can be read.
THEOREM TaskPeopleSound == Spec => []PeopleFit
  <1>1. (OnTask => WorkInv) => PeopleFit
    BY WorkInvImplies DEF PeopleFit
  <1> QED
    BY <1>1, WorkInvariant, PTL

\* add, drop and order of checklist items, timers and marks: the positions have
\* no gaps whatever overlaps, and without overlap nobody has two timers and the
\* marks are as asked.
THEOREM OwnWorkSound == Spec => []OwnWorkFits
  <1>1. (OnTask => WorkInv) => OwnWorkFits
    BY WorkInvImplies DEF OwnWorkFits
  <1> QED
    BY <1>1, WorkInvariant, PTL

-----------------------------------------------------------------------------
(* Import datasets.                                                        *)

disk    == x1
out     == x2
run     == x3
changes == x4
USE DEF disk, out, run, changes

Steps   == Dataset!Ends \cup {"hash", "compare", "unlink", "undo", "remove", "manifest",
                              "inventory", "verify", "mapping", "sums"}
Reading == {"inventory", "verify", "mapping", "sums"}

Manifests  == [files : [Paths -> Nat], key : SigningKeys \cup {Nobody}]
Outputs    == [body : Manifests, by : Runs \cup {Nobody}, links : 0 .. 2]
RunRecords == [at : Steps, key : SigningKeys \cup {Nobody}, got : [Paths -> Nat],
               todo : SUBSET (Paths \cup Dataset!Outs), missing : SUBSET Dataset!Outs,
               made : SUBSET Dataset!Outs, man : Manifests, map : Contents[Map] \cup {0},
               bad : BOOLEAN, calm : BOOLEAN, saw : Databases \cup {Nobody}]

DataTyped ==
    /\ disk \in [Paths -> Nat] /\ \A f \in Paths : disk[f] \in Contents[f] \cup {0}
    /\ out \in [Dataset!Outs -> Outputs]
    /\ run \in [Runs -> RunRecords]
    /\ changes \in Nat

\* An output is somebody's just while it is there, and what was sealed is complete.
OutsFit ==
    \A o \in Dataset!Outs : /\ out[o].links # 0 <=> out[o].by # Nobody
                            /\ out[o].by # Nobody => Dataset!Complete(out[o].body.files)

Accepted(x) == IF x.key # Nobody THEN {x.key} ELSE Trusted

\* The rows in use, and no others, are mapped, each to the company it has, which lives.
SaysSo(a, d) ==
    /\ {<<k, a.of[k].id, a.of[k].code>> : k \in Dataset!Mapped(a)}
           = {<<k, d.rows[k], d.company[d.rows[k]].code>> : k \in Dataset!Used(d)}
    /\ \A k \in Dataset!Mapped(a) : d.company[a.of[k].id].live

Signed(x) == x.at = "matched" <=> SaysSo(Artifacts[x.man.files[Map]], x.saw)

\* What a run has found so far, and still holds while nothing was written.
RunSound(d, x) ==
    /\ x.at \in {"compare", "unlink"} => Dataset!Complete(x.got)
    /\ x.at \in {"undo", "remove"} => x.made # {}
    /\ x.at \in Reading \cup {"sealed", "valid", "matched", "unmatched"} => Dataset!Complete(x.man.files)
    /\ x.at \in Reading \cup {"sealed", "valid"} /\ ~x.bad => x.man.key \in Accepted(x)
    /\ x.at = "inventory" => \A f \in Paths : x.man.files[f] # 0 => f \in x.todo
    /\ x.at = "verify" /\ ~x.bad => \A f \in Paths :
           /\ x.calm /\ x.man.files[f] = 0 => d[f] = 0
           /\ x.man.files[f] # 0 /\ f \notin x.todo =>
                  (x.calm => d[f] = x.man.files[f]) /\ (f = Map => x.map = x.man.files[f])
    /\ x.at \in {"mapping", "sums", "sealed", "valid"} /\ ~x.bad =>
           /\ x.map = x.man.files[Map]
           /\ x.calm => \A f \in Paths : d[f] = x.man.files[f]
    /\ x.at \in {"sums", "sealed", "valid"} /\ ~x.bad => Dataset!Resolved(Artifacts[x.map])
    /\ x.at \in {"sealed", "valid"} => ~x.bad
    /\ x.at \in {"matched", "unmatched"} => Signed(x)

\* Without overlap one run is at work.
OneRunning ==
    \A q, r \in Runs : run[q].at \notin Dataset!Ends /\ run[r].at \notin Dataset!Ends => q = r

Whole(x) == /\ out["man"].links = 1 /\ out["sums"].links = 1
            /\ out["man"].body = x.man /\ out["sums"].body = Dataset!Sums(x.man.files)
SealedNow(x) == x.at = "sealed" /\ x.calm

\* It has read the manifest that is there, and a run beside a dataset that is
\* sealed has nothing to write and nothing to take back.
SealStands ==
    /\ \A r \in Runs : run[r].at \in Reading /\ run[r].calm =>
           out["man"].links = 1 /\ out["man"].body = run[r].man
    /\ \A q \in Runs : SealedNow(run[q]) =>
           /\ Whole(run[q])
           /\ \A r \in Runs : run[r].at \notin Dataset!Ends =>
                  run[r].missing = {} /\ run[r].made = {} /\ run[r].at \notin {"unlink", "undo", "remove"}

\* What a run is about to remove is its own unless the dataset was changed since it looked.
Looked(x) == x.at = "remove" /\ x.calm
Removals  == \A r \in Runs : Looked(run[r]) => out[Dataset!Newest(run[r].made)].by = r

DataInv == /\ DataTyped /\ OutsFit /\ \A r \in Runs : RunSound(disk, run[r])
           /\ Removals
           /\ serial => OneRunning /\ SealStands

LEMMA ContentsFacts == Map \in Paths /\ \A f \in Paths : Contents[f] \subseteq Nat
  BY DEF Paths, Contents

LEMMA OutsFacts == Dataset!Outs = {"sums", "man"}
  BY DEF Dataset!Outs

\* A run that has ended or not begun claims nothing.
LEMMA RestingSound ==
    ASSUME NEW step \in Dataset!Ends \cup {"manifest", "hash"},
           step \notin {"sealed", "valid", "matched", "unmatched"}, NEW x, x.at = step, NEW d
    PROVE  RunSound(d, x)
  BY DEF RunSound, Dataset!Ends, Reading

LEMMA UnstartedTyped == Dataset!Unstarted \in RunRecords
  <1>1. [f \in Paths |-> 0] \in [Paths -> Nat]
    OBVIOUS
  <1>2. Dataset!Nothing \in Manifests
    BY <1>1 DEF Dataset!Nothing, Dataset!Empty, Manifests
  <1> QED
    BY <1>1, <1>2 DEF Dataset!Unstarted, Dataset!Empty, RunRecords, Steps, Dataset!Ends

\* The end of a run.
LEMMA EndTyped ==
    ASSUME NEW step \in Steps, NEW x, x = [Dataset!Unstarted EXCEPT !.at = step]
    PROVE  x \in RunRecords /\ x.at = step /\ x.missing = {} /\ x.made = {}
  <1>1. x \in RunRecords /\ x.at = step
    BY UnstartedTyped DEF RunRecords
  <1>2. x.missing = {} /\ x.made = {}
    BY DEF Dataset!Unstarted
  <1> QED
    BY <1>1, <1>2

\* An output that is removed is nobody's.
LEMMA AbsentTyped == Dataset!Absent \in Outputs /\ Dataset!Absent.links = 0 /\ Dataset!Absent.by = Nobody
  <1>1. [f \in Paths |-> 0] \in [Paths -> Nat]
    OBVIOUS
  <1>2. Dataset!Nothing \in Manifests
    BY <1>1 DEF Dataset!Nothing, Dataset!Empty, Manifests
  <1> QED
    BY <1>2 DEF Dataset!Absent, Outputs

LEMMA InitData == Dataset!Init => DataInv
  <1> SUFFICES ASSUME Dataset!Init PROVE DataInv
    OBVIOUS
  <1>1. \A r \in Runs : run[r] = Dataset!Unstarted
    BY DEF Dataset!Init
  <1>2. Dataset!Unstarted.at = "idle"
    BY DEF Dataset!Unstarted
  <1>3. run \in [Runs -> RunRecords]
    BY UnstartedTyped DEF Dataset!Init
  <1>4. /\ disk \in [Paths -> Nat] /\ \A f \in Paths : disk[f] \in Contents[f] \cup {0}
        /\ changes \in Nat
    BY DEF Dataset!Init, Contents, Paths
  <1>6. out \in [Dataset!Outs -> Outputs] /\ OutsFit
    BY AbsentTyped DEF Dataset!Init, OutsFit
  <1>7. \A r \in Runs : RunSound(disk, run[r])
    BY <1>1, <1>2, RestingSound DEF Dataset!Ends
  <1>8. OneRunning /\ SealStands /\ Removals
    BY <1>1, <1>2 DEF OneRunning, SealStands, SealedNow, Reading, Dataset!Ends, Removals, Looked
  <1> QED
    BY <1>3, <1>4, <1>6, <1>7, <1>8 DEF DataInv, DataTyped

LEMMA DataInvImplies ==
    DataInv => /\ Dataset!TypeOK /\ Dataset!AcceptedIsWhole /\ Dataset!SealKept /\ Dataset!MatchedIsSigned
  <1> SUFFICES ASSUME DataInv
               PROVE  /\ Dataset!TypeOK /\ Dataset!AcceptedIsWhole /\ Dataset!SealKept
                      /\ Dataset!MatchedIsSigned
    OBVIOUS
  <1>1. Dataset!TypeOK
    <2>1. ASSUME NEW o \in Dataset!Outs
          PROVE  out[o].links \in 0 .. 2 /\ out[o].by \in Runs \cup {Nobody}
      BY DEF DataInv, DataTyped, Outputs
    <2>2. ASSUME NEW r \in Runs
          PROVE  run[r].map \in Contents[Map] \cup {0} /\ run[r].missing \cup run[r].made \subseteq Dataset!Outs
      BY DEF DataInv, DataTyped, RunRecords
    <2> QED
      BY <2>1, <2>2 DEF DataInv, DataTyped, Dataset!TypeOK
  <1>2. ASSUME NEW r \in Runs, run[r].at \in {"sealed", "valid"}, run[r].calm
        PROVE  /\ disk = run[r].man.files /\ Dataset!Complete(disk)
               /\ run[r].man.key \in Dataset!Accepts(r)
               /\ Dataset!Resolved(Artifacts[disk[Map]])
    <2>1. run[r].man.files \in [Paths -> Nat] /\ disk \in [Paths -> Nat]
      BY DEF DataInv, DataTyped, RunRecords, Manifests
    <2>2. RunSound(disk, run[r])
      BY DEF DataInv
    <2>3. /\ ~run[r].bad /\ Dataset!Complete(run[r].man.files) /\ run[r].man.key \in Accepted(run[r])
          /\ run[r].map = run[r].man.files[Map] /\ Dataset!Resolved(Artifacts[run[r].map])
          /\ \A f \in Paths : disk[f] = run[r].man.files[f]
      BY <1>2, <2>2 DEF RunSound
    <2>4. disk = run[r].man.files
      BY <2>1, <2>3
    <2> QED
      BY <2>3, <2>4 DEF Accepted, Dataset!Accepts, Dataset!Sealing
  <1>3. Dataset!AcceptedIsWhole
    BY <1>2 DEF Dataset!AcceptedIsWhole, Dataset!Resolved
  <1>4. Dataset!SealKept
    BY <1>2 DEF Dataset!SealKept, DataInv, SealStands, SealedNow, Whole
  <1>5. Dataset!MatchedIsSigned
    <2>1. \A r \in Runs : run[r].at \in {"matched", "unmatched"} => Signed(run[r])
      BY DEF DataInv, RunSound
    <2> QED
      BY <2>1, Zenon DEF Dataset!MatchedIsSigned, Signed, SaysSo
  <1> QED
    BY <1>1, <1>3, <1>4, <1>5

-----------------------------------------------------------------------------
(* A run moves by itself, or with an output.                               *)

LEMMA RunMoves ==
    ASSUME DataInv, NEW r \in Runs, NEW x \in RunRecords, run' = [run EXCEPT ![r] = x],
           UNCHANGED <<disk, out, changes, serial>>, RunSound(disk, x),
           serial => \/ run[r].at \notin Dataset!Ends \/ x.at \in Dataset!Ends
                     \/ \A q \in Runs : run[q].at \in Dataset!Ends,
           serial /\ x.at \in Reading /\ x.calm => out["man"].links = 1 /\ out["man"].body = x.man,
           serial /\ SealedNow(x) => Whole(x) /\ run[r].at \notin Dataset!Ends,
           serial /\ x.at \notin Dataset!Ends /\ (\E q \in Runs : SealedNow(run[q])) =>
               x.missing = {} /\ x.made = {} /\ x.at \notin {"unlink", "undo", "remove"},
           x.at = "remove" => out[Dataset!Newest(x.made)].by = r
    PROVE  DataInv'
  <1>1. \A q \in Runs : run'[q] = IF q = r THEN x ELSE run[q]
    BY DEF DataInv, DataTyped
  <1>2. DataTyped' /\ OutsFit'
    BY DEF DataInv, DataTyped, OutsFit
  <1>3. ASSUME NEW q \in Runs PROVE RunSound(disk, run[q])'
    <2>1. RunSound(disk', run'[q])
      BY <1>1 DEF DataInv
    <2> QED
      BY <2>1
  <1>4. ASSUME serial PROVE OneRunning' /\ SealStands'
    <2>1. OneRunning'
      BY <1>1, <1>4 DEF DataInv, OneRunning
    <2>2. (\A q \in Runs : run[q].at \in Reading /\ run[q].calm =>
              out["man"].links = 1 /\ out["man"].body = run[q].man)'
      BY <1>1, <1>4 DEF DataInv, SealStands
    <2>3. ASSUME NEW q \in Runs, SealedNow(run'[q])
          PROVE  /\ Whole(run'[q])
                 /\ \A p \in Runs : run'[p].at \notin Dataset!Ends =>
                        run'[p].missing = {} /\ run'[p].made = {} /\ run'[p].at \notin {"unlink", "undo", "remove"}
      <3>1. CASE q = r
        <4>1. \A p \in Runs : p # r => run[p].at \in Dataset!Ends
          BY <1>1, <1>4, <2>3, <3>1 DEF DataInv, OneRunning
        <4>2. x.at \in Dataset!Ends
          BY <1>1, <2>3, <3>1 DEF SealedNow, Dataset!Ends
        <4> QED
          BY <1>1, <1>4, <2>3, <3>1, <4>1, <4>2
      <3>2. CASE q # r
        BY <1>1, <1>4, <2>3, <3>2 DEF DataInv, SealStands
      <3> QED
        BY <3>1, <3>2
    <2>4. SealStands'
      BY <2>2, <2>3 DEF SealStands, SealedNow, Whole, Dataset!Sums
    <2> QED
      BY <2>1, <2>4
  <1>5. Removals'
    BY <1>1 DEF DataInv, Removals, Looked, Dataset!Newest
  <1> QED
    BY <1>2, <1>3, <1>4, <1>5 DEF DataInv

\* An output changes hands only if it was nobody's, or the run's that is moving.
Handed(r) == \A o \in Dataset!Outs : out[o].by \in {r, Nobody} \/ out'[o].by = out[o].by

LEMMA HandedKeeps ==
    ASSUME DataInv, NEW r \in Runs, Handed(r), NEW q \in Runs, q # r, Looked(run[q])
    PROVE  out'[Dataset!Newest(run[q].made)].by = q
  <1>1. Dataset!Newest(run[q].made) \in Dataset!Outs
    BY DEF Dataset!Newest, Dataset!Outs
  <1>2. out[Dataset!Newest(run[q].made)].by = q
    BY DEF DataInv, Removals
  <1> QED
    BY <1>1, <1>2, NobodyAssumption DEF Handed

LEMMA OutMoves ==
    ASSUME DataInv, NEW r \in Runs, NEW x \in RunRecords, run' = [run EXCEPT ![r] = x],
           UNCHANGED <<disk, changes, serial>>, RunSound(disk, x),
           out' \in [Dataset!Outs -> Outputs], OutsFit',
           run[r].at \in {"compare", "unlink", "undo", "remove"}, Handed(r),
           x.at \in {"compare", "unlink", "undo", "refused"},
           run[r].at = "compare" => run[r].missing # {}
    PROVE  DataInv'
  <1>1. \A q \in Runs : run'[q] = IF q = r THEN x ELSE run[q]
    BY DEF DataInv, DataTyped
  <1>2. DataTyped'
    BY DEF DataInv, DataTyped
  <1>3. ASSUME NEW q \in Runs PROVE RunSound(disk, run[q])'
    <2>1. RunSound(disk', run'[q])
      BY <1>1 DEF DataInv
    <2> QED
      BY <2>1
  <1>4. ASSUME serial PROVE OneRunning' /\ SealStands'
    <2>1. run[r].at \notin Dataset!Ends
      BY DEF Dataset!Ends
    <2>2. OneRunning' /\ \A q \in Runs : q # r => run[q].at \in Dataset!Ends
      BY <1>1, <1>4, <2>1 DEF DataInv, OneRunning
    <2>3. \A q \in Runs : run'[q].at \notin Reading
      BY <1>1, <2>2 DEF Reading, Dataset!Ends
    <2>4. \A q \in Runs : ~SealedNow(run[q])
      BY <1>4, <2>1 DEF DataInv, SealStands
    <2>5. \A q \in Runs : ~SealedNow(run'[q])
      BY <1>1, <2>4 DEF SealedNow
    <2> QED
      BY <2>2, <2>3, <2>5 DEF SealStands, SealedNow
  <1>5. Removals'
    <2> SUFFICES ASSUME NEW q \in Runs, Looked(run'[q])
                 PROVE  out'[Dataset!Newest(run'[q].made)].by = q
      BY DEF Removals, Looked, Dataset!Newest
    <2>1. q # r /\ run'[q] = run[q]
      BY <1>1 DEF Looked
    <2> QED
      BY <2>1, HandedKeeps
  <1> QED
    BY <1>2, <1>3, <1>4, <1>5 DEF DataInv

-----------------------------------------------------------------------------
(* The steps of a run.  An unfinished one is the only one that is serial.   *)

LEMMA RunTyped ==
    ASSUME DataInv, NEW r \in Runs
    PROVE  run[r] \in RunRecords /\ RunSound(disk, run[r])
  BY DEF DataInv, DataTyped

\* Beside a sealed dataset there is nothing to write and nothing to take back.
LEMMA NothingToDo ==
    ASSUME DataInv, serial, NEW r \in Runs, run[r].at \notin Dataset!Ends,
           \E q \in Runs : SealedNow(run[q])
    PROVE  run[r].missing = {} /\ run[r].made = {} /\ run[r].at \notin {"unlink", "undo", "remove"}
  BY DEF DataInv, SealStands

LEMMA EndKeepsData ==
    ASSUME DataInv, NEW r \in Runs, NEW step \in {"refused", "stopped", "invalid"},
           Dataset!End(r, step), UNCHANGED <<disk, out, changes, serial>>
    PROVE  DataInv'
  <1>1. PICK x : x = [Dataset!Unstarted EXCEPT !.at = step]
    OBVIOUS
  <1>2. x \in RunRecords /\ x.at = step
    BY <1>1, EndTyped DEF Steps, Dataset!Ends
  <1>3. RunSound(disk, x)
    BY <1>2, RestingSound DEF Dataset!Ends
  <1>4. run' = [run EXCEPT ![r] = x]
    BY <1>1 DEF Dataset!End, Dataset!Set
  <1>5. x.at \in Dataset!Ends /\ x.at \notin Reading /\ ~SealedNow(x)
    BY <1>2 DEF Dataset!Ends, Reading, SealedNow
  <1> QED
    BY <1>2, <1>3, <1>4, <1>5, RunMoves

LEMMA UndoKeepsData ==
    ASSUME DataInv, NEW r \in Runs, run[r].at \notin Dataset!Ends, Dataset!Undo(r),
           UNCHANGED <<disk, out, changes, serial>>
    PROVE  DataInv'
  <1>1. CASE run[r].made = {}
    BY <1>1, EndKeepsData DEF Dataset!Undo
  <1>2. CASE run[r].made # {}
    <2>1. PICK x : x = [run[r] EXCEPT !.at = "undo"]
      OBVIOUS
    <2>2. x \in RunRecords /\ x.at = "undo" /\ x.made # {}
      BY <1>2, <2>1, RunTyped DEF RunRecords, Steps
    <2>3. RunSound(disk, x)
      BY <2>2 DEF RunSound, Reading
    <2>4. run' = [run EXCEPT ![r] = x]
      BY <1>2, <2>1 DEF Dataset!Undo, Dataset!Go, Dataset!Set
    <2>5. x.at \notin Reading /\ ~SealedNow(x)
      BY <2>2 DEF Reading, SealedNow
    <2>6. serial => \A q \in Runs : ~SealedNow(run[q])
      BY <1>2, NothingToDo
    <2> QED
      BY <2>2, <2>3, <2>4, <2>5, <2>6, RunMoves
  <1> QED
    BY <1>1, <1>2

LEMMA RejectKeepsData ==
    ASSUME DataInv, NEW r \in Runs, run[r].at \notin Dataset!Ends, Dataset!Reject(r),
           UNCHANGED <<disk, out, changes, serial>>
    PROVE  DataInv'
  BY UndoKeepsData, EndKeepsData DEF Dataset!Reject

LEMMA BeginKeepsData ==
    ASSUME DataInv, NEW r \in Runs, Dataset!Begin(r) PROVE DataInv'
  <1>1. serial => \A q \in Runs : run[q].at \in Dataset!Ends
    BY DEF Dataset!Begin
  <1>2. CASE Dataset!End(r, "refused")
    BY <1>2, EndKeepsData DEF Dataset!Begin, Dataset!base
  <1>3. ASSUME NEW x \in RunRecords, x.at \in {"hash", "manifest"}, x.missing = {}, x.made = {}, Dataset!Set(r, x)
        PROVE  DataInv'
    <2>1. RunSound(disk, x)
      BY <1>3, RestingSound
    <2>2. run' = [run EXCEPT ![r] = x]
      BY <1>3 DEF Dataset!Set
    <2>3. UNCHANGED <<disk, out, changes, serial>>
      BY DEF Dataset!Begin, Dataset!base
    <2>4. x.at \notin Reading /\ ~SealedNow(x) /\ x.at \notin {"unlink", "undo", "remove"}
      BY <1>3 DEF Reading, SealedNow
    <2> QED
      BY <1>1, <1>3, <2>1, <2>2, <2>3, <2>4, RunMoves
  <1>4. ASSUME NEW k \in SigningKeys, NEW todo \in SUBSET Paths
        PROVE  LET x == [Dataset!Unstarted EXCEPT !.at = "hash", !.key = k, !.todo = todo]
               IN  x \in RunRecords /\ x.at = "hash" /\ x.missing = {} /\ x.made = {}
    <2>1. PICK u \in RunRecords : u = Dataset!Unstarted
      BY UnstartedTyped
    <2>2. u.missing = {} /\ u.made = {}
      BY <2>1 DEF Dataset!Unstarted
    <2>3. LET x == [u EXCEPT !.at = "hash", !.key = k, !.todo = todo]
          IN  x \in RunRecords /\ x.at = "hash" /\ x.missing = {} /\ x.made = {}
      BY <2>2 DEF RunRecords, Steps
    <2> QED
      BY <2>1, <2>3
  <1>5. LET x == [Dataset!Unstarted EXCEPT !.at = "manifest"]
        IN  x \in RunRecords /\ x.at = "manifest" /\ x.missing = {} /\ x.made = {}
    <2>1. PICK u \in RunRecords : u = Dataset!Unstarted
      BY UnstartedTyped
    <2>2. u.missing = {} /\ u.made = {}
      BY <2>1 DEF Dataset!Unstarted
    <2>3. LET x == [u EXCEPT !.at = "manifest"]
          IN  x \in RunRecords /\ x.at = "manifest" /\ x.missing = {} /\ x.made = {}
      BY <2>2 DEF RunRecords, Steps
    <2> QED
      BY <2>1, <2>3
  <1>6. CASE \E k \in SigningKeys :
                 Dataset!Set(r, [Dataset!Unstarted EXCEPT !.at = "hash", !.key = k, !.todo = Dataset!Files(disk)])
    <2>1. PICK k \in SigningKeys :
              Dataset!Set(r, [Dataset!Unstarted EXCEPT !.at = "hash", !.key = k, !.todo = Dataset!Files(disk)])
      BY <1>6
    <2>2. PICK todo \in SUBSET Paths : todo = Dataset!Files(disk)
      BY DEF Dataset!Files
    <2>3. PICK x : x = [Dataset!Unstarted EXCEPT !.at = "hash", !.key = k, !.todo = todo]
      OBVIOUS
    <2>4. Dataset!Set(r, x)
      BY <2>1, <2>2, <2>3
    <2> QED
      BY <1>3, <1>4, <2>3, <2>4
  <1>7. CASE Dataset!Set(r, [Dataset!Unstarted EXCEPT !.at = "manifest"])
    BY <1>3, <1>5, <1>7
  <1> QED
    BY <1>2, <1>6, <1>7 DEF Dataset!Begin

LEMMA HashKeepsData ==
    ASSUME DataInv, NEW r \in Runs, NEW f \in Paths, Dataset!Hash(r, f) PROVE DataInv'
  <1>1. UNCHANGED <<disk, out, changes, serial>> /\ run[r].at = "hash"
    BY DEF Dataset!Hash, Dataset!base
  <1>2. run[r].at \notin Dataset!Ends
    BY <1>1 DEF Dataset!Ends
  <1>3. PICK got : got = [run[r].got EXCEPT ![f] = disk[f]]
    OBVIOUS
  <1>4. got \in [Paths -> Nat]
    BY <1>3, RunTyped DEF RunRecords, DataInv, DataTyped
  <1>5. CASE Dataset!End(r, "refused")
    BY <1>1, <1>5, EndKeepsData
  <1>6. CASE Dataset!Complete(got) /\
             Dataset!Set(r, [run[r] EXCEPT !.got = got, !.at = "compare", !.todo = Dataset!Outs])
    <2>1. PICK x : x = [run[r] EXCEPT !.got = got, !.at = "compare", !.todo = Dataset!Outs]
      OBVIOUS
    <2>2. /\ x \in RunRecords /\ x.at = "compare" /\ x.got = got
          /\ x.missing = run[r].missing /\ x.made = run[r].made
      BY <1>4, <2>1, RunTyped DEF RunRecords, Steps
    <2>3. RunSound(disk, x)
      BY <1>6, <2>2 DEF RunSound, Reading
    <2>4. run' = [run EXCEPT ![r] = x]
      BY <1>6, <2>1 DEF Dataset!Set
    <2>5. x.at \notin Reading /\ ~SealedNow(x) /\ x.at \notin {"unlink", "undo", "remove"}
      BY <2>2 DEF Reading, SealedNow
    <2> QED
      BY <1>1, <1>2, <2>2, <2>3, <2>4, <2>5, NothingToDo, RunMoves
  <1>7. CASE Dataset!Set(r, [run[r] EXCEPT !.got = got, !.todo = @ \ {f}])
    <2>1. PICK x : x = [run[r] EXCEPT !.got = got, !.todo = @ \ {f}]
      OBVIOUS
    <2>2. /\ x \in RunRecords /\ x.at = "hash"
          /\ x.missing = run[r].missing /\ x.made = run[r].made
      BY <1>1, <1>4, <2>1, RunTyped DEF RunRecords
    <2>3. RunSound(disk, x)
      BY <2>2, RestingSound
    <2>4. run' = [run EXCEPT ![r] = x]
      BY <1>7, <2>1 DEF Dataset!Set
    <2>5. x.at \notin Reading /\ ~SealedNow(x) /\ x.at \notin {"unlink", "undo", "remove"}
      BY <2>2 DEF Reading, SealedNow
    <2> QED
      BY <1>1, <1>2, <2>2, <2>3, <2>4, <2>5, NothingToDo, RunMoves
  <1> QED
    BY <1>3, <1>5, <1>6, <1>7 DEF Dataset!Hash

LEMMA CompareKeepsData ==
    ASSUME DataInv, NEW r \in Runs, NEW o \in Dataset!Outs, Dataset!Compare(r, o) PROVE DataInv'
  <1>1. UNCHANGED <<disk, out, changes, serial>> /\ run[r].at = "compare"
    BY DEF Dataset!Compare, Dataset!base
  <1>2. run[r].at \notin Dataset!Ends
    BY <1>1 DEF Dataset!Ends
  <1>3. Dataset!Complete(run[r].got)
    BY <1>1, RunTyped DEF RunSound
  <1>4. CASE Dataset!End(r, "refused")
    BY <1>1, <1>4, EndKeepsData
  <1>5. CASE Dataset!Set(r, [run[r] EXCEPT !.todo = @ \ {o}])
    <2>1. PICK x : x = [run[r] EXCEPT !.todo = @ \ {o}]
      OBVIOUS
    <2>2. /\ x \in RunRecords /\ x.at = "compare" /\ x.got = run[r].got
          /\ x.missing = run[r].missing /\ x.made = run[r].made
      BY <1>1, <2>1, RunTyped DEF RunRecords
    <2>3. RunSound(disk, x)
      BY <1>3, <2>2 DEF RunSound, Reading
    <2>4. run' = [run EXCEPT ![r] = x]
      BY <1>5, <2>1 DEF Dataset!Set
    <2>5. x.at \notin Reading /\ ~SealedNow(x) /\ x.at \notin {"unlink", "undo", "remove"}
      BY <2>2 DEF Reading, SealedNow
    <2> QED
      BY <1>1, <1>2, <2>2, <2>3, <2>4, <2>5, NothingToDo, RunMoves
  <1>6. CASE ~Dataset!Present(o) /\
             Dataset!Set(r, [run[r] EXCEPT !.missing = @ \cup {o}, !.todo = @ \ {o}])
    <2>1. PICK x : x = [run[r] EXCEPT !.missing = @ \cup {o}, !.todo = @ \ {o}]
      OBVIOUS
    <2>2. /\ x \in RunRecords /\ x.at = "compare" /\ x.got = run[r].got
      BY <1>1, <2>1, RunTyped DEF RunRecords
    <2>3. RunSound(disk, x)
      BY <1>3, <2>2 DEF RunSound, Reading
    <2>4. run' = [run EXCEPT ![r] = x]
      BY <1>6, <2>1 DEF Dataset!Set
    <2>5. x.at \notin Reading /\ ~SealedNow(x)
      BY <2>2 DEF Reading, SealedNow
    <2>6. serial => \A q \in Runs : ~SealedNow(run[q])
      BY <1>6, OutsFacts DEF DataInv, SealStands, Whole, Dataset!Present
    <2> QED
      BY <1>1, <1>2, <2>2, <2>3, <2>4, <2>5, <2>6, RunMoves
  <1> QED
    BY <1>4, <1>5, <1>6 DEF Dataset!Compare

LEMMA LinkKeepsData ==
    ASSUME DataInv, NEW r \in Runs, Dataset!Link(r) PROVE DataInv'
  <1>1. UNCHANGED <<disk, changes, serial>> /\ run[r].at = "compare" /\ run[r].missing # {}
    BY DEF Dataset!Link, Dataset!base
  <1>2. run[r].at \notin Dataset!Ends
    BY <1>1 DEF Dataset!Ends
  <1>3. PICK o : o = Dataset!Next1(run[r].missing)
    OBVIOUS
  <1>4. CASE UNCHANGED out /\ Dataset!Undo(r)
    BY <1>1, <1>2, <1>4, UndoKeepsData
  <1>5. CASE /\ ~Dataset!Present(o) /\ Dataset!Go(r, "unlink")
             /\ out' = [out EXCEPT ![o] = [body |-> Dataset!Body(r, o), by |-> r, links |-> 2]]
    <2>1. PICK x : x = [run[r] EXCEPT !.at = "unlink"]
      OBVIOUS
    <2>2. x \in RunRecords /\ x.at = "unlink" /\ x.got = run[r].got
      BY <2>1, RunTyped DEF RunRecords, Steps
    <2>3. Dataset!Complete(run[r].got)
      BY <1>1, RunTyped DEF RunSound
    <2>4. RunSound(disk, x)
      BY <2>2, <2>3 DEF RunSound, Reading
    <2>5. run' = [run EXCEPT ![r] = x]
      BY <1>5, <2>1 DEF Dataset!Go, Dataset!Set
    <2>6. PICK b : b = Dataset!Body(r, o)
      OBVIOUS
    <2>7. b \in Manifests /\ b.files = run[r].got
      BY <2>6, RunTyped DEF Dataset!Body, Dataset!Sums, Manifests, RunRecords
    <2>8. PICK y : y = [body |-> b, by |-> r, links |-> 2]
      OBVIOUS
    <2>9. y \in Outputs /\ y.body.files = run[r].got /\ y.by # Nobody /\ y.links # 0
      BY <2>7, <2>8, NobodyAssumption DEF Outputs
    <2>10. out' = [out EXCEPT ![o] = y]
      BY <1>5, <2>6, <2>8
    <2>11. out' \in [Dataset!Outs -> Outputs] /\ OutsFit'
      BY <2>3, <2>9, <2>10 DEF DataInv, DataTyped, OutsFit
    <2>12. Handed(r)
      BY <1>5, <2>10 DEF Handed, Dataset!Present, DataInv, DataTyped, OutsFit, Outputs
    <2> QED
      BY <1>1, <2>2, <2>4, <2>5, <2>11, <2>12, OutMoves
  <1> QED
    BY <1>3, <1>4, <1>5 DEF Dataset!Link, Dataset!Free

LEMMA UnlinkKeepsData ==
    ASSUME DataInv, NEW r \in Runs, Dataset!Unlink(r) PROVE DataInv'
  <1>1. UNCHANGED <<disk, changes, serial>> /\ run[r].at = "unlink"
    BY DEF Dataset!Unlink, Dataset!base
  <1>2. PICK o : o = Dataset!Next1(run[r].missing)
    OBVIOUS
  <1>3. o \in Dataset!Outs
    BY <1>2 DEF Dataset!Next1, Dataset!Outs
  <1>4. PICK x : x = [run[r] EXCEPT !.at = "compare", !.missing = @ \ {o}, !.made = @ \cup {o}]
    OBVIOUS
  <1>5. x \in RunRecords /\ x.at = "compare" /\ x.got = run[r].got
    BY <1>3, <1>4, RunTyped DEF RunRecords, Steps
  <1>6. Dataset!Complete(run[r].got)
    BY <1>1, RunTyped DEF RunSound
  <1>7. RunSound(disk, x)
    BY <1>5, <1>6 DEF RunSound, Reading
  <1>8. run' = [run EXCEPT ![r] = x]
    BY <1>2, <1>4 DEF Dataset!Unlink, Dataset!Set
  <1>9. out' \in [Dataset!Outs -> Outputs] /\ OutsFit'
    <2>1. CASE out' = out
      BY <2>1 DEF DataInv, DataTyped, OutsFit
    <2>2. CASE out[o].by = r /\ out' = [out EXCEPT ![o].links = 1]
      <3>1. PICK y : y = [out[o] EXCEPT !.links = 1]
        OBVIOUS
      <3>2. y \in Outputs /\ y.body = out[o].body /\ y.by = out[o].by /\ y.links = 1
        BY <1>3, <3>1 DEF DataInv, DataTyped, Outputs
      <3>3. out' = [out EXCEPT ![o] = y]
        BY <2>2, <3>1
      <3> QED
        BY <1>3, <2>2, <3>2, <3>3, NobodyAssumption DEF DataInv, DataTyped, OutsFit
    <2> QED
      BY <1>2, <2>1, <2>2 DEF Dataset!Unlink
  <1>10. Handed(r)
    BY <1>2 DEF Dataset!Unlink, Handed, DataInv, DataTyped
  <1> QED
    BY <1>1, <1>5, <1>7, <1>8, <1>9, <1>10, OutMoves

\* What a run is left with once it has dealt with its newest output.
LEMMA BackTyped ==
    ASSUME DataInv, NEW r \in Runs, run[r].at \in {"undo", "remove"}, NEW x, x = Dataset!Back(r)
    PROVE  /\ x \in RunRecords /\ RunSound(disk, x) /\ x.at \in {"undo", "refused"}
           /\ x.made # run[r].made
  <1>1. PICK o : o = Dataset!Newest(run[r].made)
    OBVIOUS
  <1>2. run[r].made \subseteq {"man", "sums"} /\ run[r].made # {} /\ o \in run[r].made
    BY <1>1, RunTyped DEF Dataset!Outs, RunRecords, RunSound, Dataset!Newest
  <1>3. CASE x = [Dataset!Unstarted EXCEPT !.at = "refused"]
    <2>1. x \in RunRecords /\ x.at = "refused" /\ x.made = {}
      <3>1. PICK step : step = "refused"
        OBVIOUS
      <3>2. step \in Steps /\ x = [Dataset!Unstarted EXCEPT !.at = step]
        BY <1>3, <3>1 DEF Steps, Dataset!Ends
      <3> QED
        BY <3>1, <3>2, EndTyped
    <2>2. RunSound(disk, x)
      BY <2>1, RestingSound DEF Dataset!Ends
    <2> QED
      BY <1>2, <2>1, <2>2
  <1>4. CASE run[r].made # {o} /\ x = [run[r] EXCEPT !.at = "undo", !.made = @ \ {o}]
    <2>1. x \in RunRecords /\ x.at = "undo" /\ x.made = run[r].made \ {o}
      <3>1. PICK made : made = run[r].made \ {o}
        OBVIOUS
      <3>2. made \in SUBSET Dataset!Outs /\ "undo" \in Steps
        BY <3>1, RunTyped DEF RunRecords, Steps
      <3>3. x = [run[r] EXCEPT !.at = "undo", !.made = made]
        BY <1>4, <3>1
      <3> QED
        BY <3>1, <3>2, <3>3, RunTyped DEF RunRecords
    <2>2. x.made # {} /\ x.made # run[r].made
      BY <1>2, <1>4, <2>1
    <2>3. RunSound(disk, x)
      BY <2>1, <2>2 DEF RunSound, Reading
    <2> QED
      BY <2>1, <2>2, <2>3
  <1> QED
    BY <1>1, <1>3, <1>4 DEF Dataset!Back

LEMMA RollbackKeepsData ==
    ASSUME DataInv, NEW r \in Runs, Dataset!Rollback(r) PROVE DataInv'
  <1>1. UNCHANGED <<disk, out, changes, serial>> /\ run[r].at = "undo" /\ run[r].at \notin Dataset!Ends
    BY DEF Dataset!Rollback, Dataset!base, Dataset!Ends
  <1>2. serial => \A q \in Runs : ~SealedNow(run[q])
    BY <1>1, NothingToDo
  <1>3. CASE /\ Dataset!Own(r, Dataset!Newest(run[r].made))
             /\ Dataset!Set(r, [run[r] EXCEPT !.at = "remove", !.calm = TRUE])
    <2>1. PICK x : x = [run[r] EXCEPT !.at = "remove", !.calm = TRUE]
      OBVIOUS
    <2>2. x \in RunRecords /\ x.at = "remove" /\ x.made = run[r].made
      BY <2>1, RunTyped DEF RunRecords, Steps
    <2>3. RunSound(disk, x) /\ ~SealedNow(x) /\ x.at \notin Reading
      BY <1>1, <2>2, RunTyped DEF RunSound, Reading, SealedNow
    <2>4. out[Dataset!Newest(x.made)].by = r
      BY <1>3, <2>2 DEF Dataset!Own
    <2>5. run' = [run EXCEPT ![r] = x]
      BY <1>3, <2>1 DEF Dataset!Set
    <2> QED
      BY <1>1, <1>2, <2>2, <2>3, <2>4, <2>5, RunMoves
  <1>4. CASE Dataset!Set(r, Dataset!Back(r))
    <2>1. PICK x : x = Dataset!Back(r)
      OBVIOUS
    <2>2. x \in RunRecords /\ RunSound(disk, x) /\ x.at \in {"undo", "refused"}
      BY <1>1, <2>1, BackTyped
    <2>3. ~SealedNow(x) /\ x.at \notin Reading
      BY <2>2 DEF Reading, SealedNow
    <2>4. run' = [run EXCEPT ![r] = x]
      BY <1>4, <2>1 DEF Dataset!Set
    <2> QED
      BY <1>1, <1>2, <2>2, <2>3, <2>4, RunMoves
  <1> QED
    BY <1>3, <1>4 DEF Dataset!Rollback

LEMMA StopKeepsData ==
    ASSUME DataInv, NEW r \in Runs, Dataset!Stop(r) PROVE DataInv'
  BY EndKeepsData DEF Dataset!Stop

LEMMA ReadManifestKeepsData ==
    ASSUME DataInv, NEW r \in Runs, Dataset!ReadManifest(r) PROVE DataInv'
  <1>1. UNCHANGED <<disk, out, changes, serial>> /\ run[r].at \in {"manifest", "compare"}
    BY DEF Dataset!ReadManifest, Dataset!base
  <1>2. run[r].at \notin Dataset!Ends
    BY <1>1 DEF Dataset!Ends
  <1>3. CASE Dataset!Reject(r)
    BY <1>1, <1>2, <1>3, RejectKeepsData
  <1>4. CASE Dataset!Readable("man") /\ ~Dataset!Reject(r)
    <2>1. PICK m : m = out["man"].body
      OBVIOUS
    <2>2. m \in Manifests /\ Dataset!Complete(m.files) /\ out["man"].links = 1
      BY <1>4, <2>1, OutsFacts DEF DataInv, DataTyped, OutsFit, Outputs, Dataset!Readable
    <2>3. PICK todo : todo = Dataset!Files(m.files)
      OBVIOUS
    <2>4. todo \subseteq Paths /\ \A f \in Paths : m.files[f] # 0 => f \in todo
      BY <2>3 DEF Dataset!Files
    <2>5. PICK bad \in BOOLEAN : bad = (m.key \notin Dataset!Accepts(r))
      OBVIOUS
    <2>6. PICK x : x = [run[r] EXCEPT !.at = "inventory", !.man = m, !.todo = todo, !.bad = bad]
      OBVIOUS
    <2>7. /\ x \in RunRecords /\ x.at = "inventory" /\ x.man = m /\ x.todo = todo /\ x.bad = bad
          /\ x.key = run[r].key /\ x.missing = run[r].missing /\ x.made = run[r].made
      BY <2>2, <2>4, <2>6, RunTyped DEF RunRecords, Steps, Reading
    <2>8. ~x.bad => x.man.key \in Accepted(x)
      BY <2>5, <2>7 DEF Accepted, Dataset!Accepts, Dataset!Sealing
    <2>9. RunSound(disk, x)
      BY <2>2, <2>4, <2>7, <2>8 DEF RunSound, Reading
    <2>10. run' = [run EXCEPT ![r] = x]
      BY <1>4, <2>1, <2>3, <2>5, <2>6 DEF Dataset!ReadManifest, Dataset!Set
    <2>11. ~SealedNow(x) /\ x.at \notin {"unlink", "undo", "remove"}
      BY <2>7 DEF SealedNow
    <2> QED
      BY <1>1, <1>2, <2>1, <2>2, <2>7, <2>9, <2>10, <2>11, NothingToDo, RunMoves
  <1> QED
    BY <1>3, <1>4 DEF Dataset!ReadManifest

\* What reads on keeps the manifest it has read, which is still there.
LEMMA ReadingOn ==
    ASSUME DataInv, NEW r \in Runs, NEW x \in RunRecords, run' = [run EXCEPT ![r] = x],
           UNCHANGED <<disk, out, changes, serial>>, RunSound(disk, x),
           run[r].at \in Reading, x.at \in Reading, x.man = run[r].man, x.calm = run[r].calm,
           x.missing = run[r].missing, x.made = run[r].made
    PROVE  DataInv'
  <1>1. run[r].at \notin Dataset!Ends /\ ~SealedNow(x) /\ x.at \notin {"unlink", "undo", "remove"}
    BY DEF Reading, SealedNow, Dataset!Ends
  <1>2. serial /\ x.calm => out["man"].links = 1 /\ out["man"].body = x.man
    BY DEF DataInv, SealStands
  <1> QED
    BY <1>1, <1>2, NothingToDo, RunMoves

LEMMA InventoryKeepsData ==
    ASSUME DataInv, NEW r \in Runs, Dataset!Inventory(r) PROVE DataInv'
  <1>1. UNCHANGED <<disk, out, changes, serial>> /\ run[r].at = "inventory"
    BY DEF Dataset!Inventory, Dataset!base
  <1>2. PICK bad \in BOOLEAN : bad = (run[r].bad \/ Dataset!Undeclared(r) # {})
    OBVIOUS
  <1>3. PICK x : x = [run[r] EXCEPT !.at = "verify", !.bad = bad]
    OBVIOUS
  <1>4. run' = [run EXCEPT ![r] = x]
    BY <1>2, <1>3 DEF Dataset!Inventory, Dataset!Set
  <1>5. /\ x \in RunRecords /\ x.at = "verify" /\ x.bad = bad /\ x.todo = run[r].todo
        /\ x.man = run[r].man /\ x.key = run[r].key /\ x.calm = run[r].calm
        /\ x.missing = run[r].missing /\ x.made = run[r].made
    BY <1>3, RunTyped DEF RunRecords, Steps, Reading
  <1>6. /\ Dataset!Complete(run[r].man.files)
        /\ ~run[r].bad => run[r].man.key \in Accepted(run[r])
        /\ \A f \in Paths : run[r].man.files[f] # 0 => f \in run[r].todo
    BY <1>1, RunTyped DEF RunSound, Reading
  <1>7. ~x.bad => /\ ~run[r].bad
                  /\ \A f \in Paths : run[r].man.files[f] = 0 => disk[f] = 0
    BY <1>2, <1>5 DEF Dataset!Undeclared
  <1>8. RunSound(disk, x)
    BY <1>5, <1>6, <1>7 DEF RunSound, Reading, Accepted
  <1> QED
    BY <1>1, <1>4, <1>5, <1>8, ReadingOn DEF Reading

LEMMA VerifyKeepsData ==
    ASSUME DataInv, NEW r \in Runs, NEW f \in Paths, Dataset!Verify(r, f) PROVE DataInv'
  <1>1. UNCHANGED <<disk, out, changes, serial>> /\ run[r].at = "verify" /\ f \in run[r].todo
    BY DEF Dataset!Verify, Dataset!base
  <1>2. PICK bad \in BOOLEAN : bad = (run[r].bad \/ ~Dataset!Matches(r, f))
    OBVIOUS
  <1>3. PICK map : map = IF f = Map /\ Dataset!Matches(r, f) THEN disk[f] ELSE run[r].map
    OBVIOUS
  <1>4. PICK x : x = [run[r] EXCEPT !.todo = @ \ {f}, !.bad = bad, !.map = map]
    OBVIOUS
  <1>5. run' = [run EXCEPT ![r] = x]
    BY <1>2, <1>3, <1>4 DEF Dataset!Verify, Dataset!Set
  <1>6. map \in Contents[Map] \cup {0}
    BY <1>3, RunTyped DEF RunRecords, DataInv, DataTyped
  <1>7. /\ x \in RunRecords /\ x.at = "verify" /\ x.bad = bad /\ x.todo = run[r].todo \ {f}
        /\ x.map = map /\ x.man = run[r].man /\ x.key = run[r].key /\ x.calm = run[r].calm
        /\ x.missing = run[r].missing /\ x.made = run[r].made
    BY <1>1, <1>4, <1>6, RunTyped DEF RunRecords
  <1>8. /\ Dataset!Complete(run[r].man.files)
        /\ ~run[r].bad => /\ run[r].man.key \in Accepted(run[r])
                          /\ \A g \in Paths :
                                 /\ run[r].calm /\ run[r].man.files[g] = 0 => disk[g] = 0
                                 /\ run[r].man.files[g] # 0 /\ g \notin run[r].todo =>
                                        /\ run[r].calm => disk[g] = run[r].man.files[g]
                                        /\ g = Map => run[r].map = run[r].man.files[g]
    BY <1>1, RunTyped DEF RunSound, Reading
  <1>9. ~x.bad => ~run[r].bad /\ disk[f] = run[r].man.files[f] /\ (f = Map => map = run[r].man.files[f])
                  /\ (f # Map => map = run[r].map)
    BY <1>2, <1>3, <1>7 DEF Dataset!Matches
  <1>10. ~x.bad => \A g \in Paths :
            /\ x.calm /\ x.man.files[g] = 0 => disk[g] = 0
            /\ x.man.files[g] # 0 /\ g \notin x.todo =>
                   (x.calm => disk[g] = x.man.files[g]) /\ (g = Map => x.map = x.man.files[g])
    BY <1>1, <1>7, <1>8, <1>9
  <1>11. RunSound(disk, x)
    BY <1>7, <1>8, <1>9, <1>10 DEF RunSound, Reading, Accepted
  <1> QED
    BY <1>1, <1>5, <1>7, <1>11, ReadingOn DEF Reading

LEMMA VerifySumsKeepsData ==
    ASSUME DataInv, NEW r \in Runs, Dataset!VerifySums(r) PROVE DataInv'
  <1>1. UNCHANGED <<disk, out, changes, serial>> /\ run[r].at = "verify" /\ run[r].todo = {}
    BY DEF Dataset!VerifySums, Dataset!base
  <1>2. PICK bad \in BOOLEAN : bad = (run[r].bad \/ ~Dataset!SumsMatch(r))
    OBVIOUS
  <1>3. PICK x : x = [run[r] EXCEPT !.at = "mapping", !.bad = bad]
    OBVIOUS
  <1>4. run' = [run EXCEPT ![r] = x]
    BY <1>2, <1>3 DEF Dataset!VerifySums, Dataset!Set
  <1>5. /\ x \in RunRecords /\ x.at = "mapping" /\ x.bad = bad /\ x.map = run[r].map
        /\ x.man = run[r].man /\ x.key = run[r].key /\ x.calm = run[r].calm
        /\ x.missing = run[r].missing /\ x.made = run[r].made
    BY <1>3, RunTyped DEF RunRecords, Steps, Reading
  <1>6. /\ Dataset!Complete(run[r].man.files)
        /\ ~run[r].bad => /\ run[r].man.key \in Accepted(run[r])
                          /\ \A g \in Paths :
                                 /\ run[r].calm /\ run[r].man.files[g] = 0 => disk[g] = 0
                                 /\ run[r].man.files[g] # 0 =>
                                        /\ run[r].calm => disk[g] = run[r].man.files[g]
                                        /\ g = Map => run[r].map = run[r].man.files[g]
    BY <1>1, RunTyped DEF RunSound, Reading
  <1>7. run[r].man.files[Map] # 0
    BY <1>6 DEF Dataset!Complete, Dataset!Files
  <1>8. ~x.bad => /\ ~run[r].bad /\ x.map = x.man.files[Map]
                  /\ x.calm => \A f \in Paths : disk[f] = x.man.files[f]
    BY <1>2, <1>5, <1>6, <1>7, ContentsFacts
  <1>9. RunSound(disk, x)
    BY <1>5, <1>6, <1>8 DEF RunSound, Reading, Accepted
  <1> QED
    BY <1>1, <1>4, <1>5, <1>9, ReadingOn DEF Reading

LEMMA ReadMappingKeepsData ==
    ASSUME DataInv, NEW r \in Runs, Dataset!ReadMapping(r) PROVE DataInv'
  <1>1. UNCHANGED <<disk, out, changes, serial>> /\ run[r].at = "mapping"
    BY DEF Dataset!ReadMapping, Dataset!base
  <1>2. /\ Dataset!Complete(run[r].man.files)
        /\ ~run[r].bad => /\ run[r].man.key \in Accepted(run[r])
                          /\ run[r].map = run[r].man.files[Map]
                          /\ run[r].calm => \A f \in Paths : disk[f] = run[r].man.files[f]
    BY <1>1, RunTyped DEF RunSound, Reading
  <1>3. CASE run[r].map = 0
    <2>1. PICK x : x = [run[r] EXCEPT !.at = "sums"]
      OBVIOUS
    <2>2. run' = [run EXCEPT ![r] = x]
      BY <1>3, <2>1 DEF Dataset!ReadMapping, Dataset!Go, Dataset!Set
    <2>3. /\ x \in RunRecords /\ x.at = "sums" /\ x.bad = run[r].bad
          /\ x.man = run[r].man /\ x.key = run[r].key /\ x.calm = run[r].calm
          /\ x.missing = run[r].missing /\ x.made = run[r].made
      BY <2>1, RunTyped DEF RunRecords, Steps, Reading
    <2>4. run[r].bad
      BY <1>2, <1>3 DEF Dataset!Complete, Dataset!Files
    <2>5. RunSound(disk, x)
      BY <1>2, <2>3, <2>4 DEF RunSound, Reading, Accepted
    <2> QED
      BY <1>1, <2>2, <2>3, <2>5, ReadingOn DEF Reading
  <1>4. CASE run[r].map # 0
    <2>1. PICK bad \in BOOLEAN :
             bad = (run[r].bad \/ ~(/\ Dataset!Same(r) /\ Dataset!Strict(Artifacts[disk[Map]])
                                    /\ Dataset!Resolved(Artifacts[disk[Map]])))
      OBVIOUS
    <2>2. PICK map : map = disk[Map]
      OBVIOUS
    <2>3. PICK x : x = [run[r] EXCEPT !.at = "sums", !.bad = bad, !.map = map]
      OBVIOUS
    <2>4. run' = [run EXCEPT ![r] = x]
      BY <1>4, <2>1, <2>2, <2>3 DEF Dataset!ReadMapping, Dataset!Set
    <2>5. map \in Contents[Map] \cup {0}
      BY <2>2, ContentsFacts DEF DataInv, DataTyped
    <2>6. /\ x \in RunRecords /\ x.at = "sums" /\ x.bad = bad /\ x.map = map
          /\ x.man = run[r].man /\ x.key = run[r].key /\ x.calm = run[r].calm
          /\ x.missing = run[r].missing /\ x.made = run[r].made
      BY <2>3, <2>5, RunTyped DEF RunRecords, Steps, Reading
    <2>7. ~bad => /\ ~run[r].bad /\ map = run[r].man.files[Map]
                  /\ Dataset!Resolved(Artifacts[map])
      BY <2>1, <2>2 DEF Dataset!Same
    <2>8. RunSound(disk, x)
      BY <1>2, <2>6, <2>7 DEF RunSound, Reading, Accepted
    <2> QED
      BY <1>1, <2>4, <2>6, <2>8, ReadingOn DEF Reading
  <1> QED
    BY <1>3, <1>4

LEMMA ReportKeepsData ==
    ASSUME DataInv, NEW r \in Runs, Dataset!Report(r) PROVE DataInv'
  <1>1. UNCHANGED <<disk, out, changes, serial>> /\ run[r].at = "sums"
    BY DEF Dataset!Report, Dataset!base
  <1>2. run[r].at \notin Dataset!Ends
    BY <1>1 DEF Dataset!Ends
  <1>3. CASE Dataset!Reject(r)
    BY <1>1, <1>2, <1>3, RejectKeepsData
  <1>4. ASSUME NEW step \in {"sealed", "valid"}, ~run[r].bad, Dataset!SumsMatch(r), Dataset!Go(r, step)
        PROVE  DataInv'
    <2>1. PICK x : x = [run[r] EXCEPT !.at = step]
      OBVIOUS
    <2>2. run' = [run EXCEPT ![r] = x]
      BY <1>4, <2>1 DEF Dataset!Go, Dataset!Set
    <2>3. /\ x \in RunRecords /\ x.at = step /\ x.bad = run[r].bad /\ x.map = run[r].map
          /\ x.man = run[r].man /\ x.key = run[r].key /\ x.calm = run[r].calm
      BY <2>1, RunTyped DEF RunRecords, Steps, Dataset!Ends
    <2>4. /\ Dataset!Complete(run[r].man.files) /\ run[r].man.key \in Accepted(run[r])
          /\ run[r].map = run[r].man.files[Map] /\ Dataset!Resolved(Artifacts[run[r].map])
          /\ run[r].calm => \A f \in Paths : disk[f] = run[r].man.files[f]
      BY <1>1, <1>4, RunTyped DEF RunSound, Reading
    <2>5. RunSound(disk, x)
      BY <1>4, <2>3, <2>4 DEF RunSound, Reading, Accepted
    <2>6. x.at \in Dataset!Ends /\ x.at \notin Reading
      BY <2>3 DEF Reading, Dataset!Ends
    <2>7. serial /\ SealedNow(x) => Whole(x)
      <3> SUFFICES ASSUME serial, SealedNow(x) PROVE Whole(x)
        OBVIOUS
      <3>1. out["man"].links = 1 /\ out["man"].body = x.man
        BY <1>1, <2>3 DEF DataInv, SealStands, SealedNow, Reading
      <3>2. out["sums"].links = 1 /\ out["sums"].body = Dataset!Sums(x.man.files)
        BY <1>4, <2>3 DEF Dataset!SumsMatch, Dataset!Readable
      <3> QED
        BY <3>1, <3>2 DEF Whole
    <2> QED
      BY <1>1, <1>2, <2>2, <2>3, <2>5, <2>6, <2>7, RunMoves
  <1> QED
    BY <1>3, <1>4 DEF Dataset!Report

\* The comparison with the database says just what the signed mapping asks.
LEMMA PreflightSays ==
    ASSUME NEW d, NEW a
    PROVE  (/\ Dataset!Unexpected(d, a) = {}
            /\ \A k \in Dataset!Mapped(a) : k \in Dataset!Used(d) /\ Dataset!Target(d, a, k))
           <=> SaysSo(a, d)
  <1> DEFINE M == Dataset!Mapped(a)
             U == Dataset!Used(d)
             m(k) == <<k, a.of[k].id, a.of[k].code>>
             u(k) == <<k, d.rows[k], d.company[d.rows[k]].code>>
  <1> HIDE DEF M, U
  <1>1. ASSUME U \ M = {}, \A k \in M : k \in U /\ Dataset!Target(d, a, k)
        PROVE  {m(k) : k \in M} = {u(k) : k \in U} /\ \A k \in M : d.company[a.of[k].id].live
    <2>1. M = U
      BY <1>1
    <2>2. \A k \in M : /\ d.rows[k] = a.of[k].id /\ d.company[d.rows[k]].live
                       /\ d.company[d.rows[k]].code = a.of[k].code
      BY <1>1 DEF Dataset!Target
    <2> QED
      BY <2>1, <2>2
  <1>2. ASSUME {m(k) : k \in M} = {u(k) : k \in U}, \A k \in M : d.company[a.of[k].id].live
        PROVE  U \ M = {} /\ \A k \in M : k \in U /\ Dataset!Target(d, a, k)
    <2>1. ASSUME NEW k \in U PROVE k \in M
      <3>1. u(k) \in {m(j) : j \in M}
        BY <1>2
      <3>2. PICK j \in M : m(j) = u(k)
        BY <3>1
      <3> QED
        BY <3>2
    <2>2. ASSUME NEW k \in M PROVE k \in U /\ Dataset!Target(d, a, k)
      <3>1. m(k) \in {u(j) : j \in U}
        BY <1>2
      <3>2. PICK j \in U : u(j) = m(k)
        BY <3>1
      <3>3. j = k /\ d.rows[k] = a.of[k].id /\ d.company[d.rows[k]].code = a.of[k].code
        BY <3>2
      <3> QED
        BY <1>2, <3>3 DEF Dataset!Target
    <2> QED
      BY <2>1, <2>2
  <1> QED
    BY <1>1, <1>2 DEF Dataset!Unexpected, SaysSo, M, U

LEMMA PreflightKeepsData ==
    ASSUME DataInv, NEW r \in Runs, Dataset!Preflight(r) PROVE DataInv'
  <1>1. UNCHANGED <<disk, out, changes, serial>> /\ run[r].at = "valid"
    BY DEF Dataset!Preflight, Dataset!base
  <1>2. PICK d \in Databases :
            Dataset!Set(r, [run[r] EXCEPT !.saw = d, !.at =
                IF /\ Dataset!Unexpected(d, Artifacts[run[r].map]) = {}
                   /\ \A k \in Dataset!Mapped(Artifacts[run[r].map]) :
                          k \in Dataset!Used(d) /\ Dataset!Target(d, Artifacts[run[r].map], k)
                THEN "matched" ELSE "unmatched"])
    BY DEF Dataset!Preflight
  <1>3. PICK a : a = Artifacts[run[r].map]
    OBVIOUS
  <1>4. PICK step : step = IF /\ Dataset!Unexpected(d, a) = {}
                              /\ \A k \in Dataset!Mapped(a) : k \in Dataset!Used(d) /\ Dataset!Target(d, a, k)
                           THEN "matched" ELSE "unmatched"
    OBVIOUS
  <1>5. PICK x : x = [run[r] EXCEPT !.saw = d, !.at = step]
    OBVIOUS
  <1>6. run' = [run EXCEPT ![r] = x]
    BY <1>2, <1>3, <1>4, <1>5 DEF Dataset!Set
  <1>7. step \in {"matched", "unmatched"}
    BY <1>4
  <1>8. x \in RunRecords /\ x.at = step /\ x.saw = d /\ x.man = run[r].man
    BY <1>5, <1>7, RunTyped DEF RunRecords, Steps, Dataset!Ends
  <1>9. Dataset!Complete(run[r].man.files) /\ run[r].map = run[r].man.files[Map]
    BY <1>1, RunTyped DEF RunSound
  <1>10. Signed(x)
    <2>1. Artifacts[x.man.files[Map]] = a /\ x.saw = d
      BY <1>3, <1>8, <1>9
    <2>2. x.at = "matched" <=>
              /\ Dataset!Unexpected(d, a) = {}
              /\ \A k \in Dataset!Mapped(a) : k \in Dataset!Used(d) /\ Dataset!Target(d, a, k)
      BY <1>4, <1>8
    <2>3. x.at = "matched" <=> SaysSo(a, d)
      BY <2>2, PreflightSays, Zenon
    <2> QED
      BY <2>1, <2>3 DEF Signed
  <1>11. RunSound(disk, x)
    BY <1>7, <1>8, <1>9, <1>10 DEF RunSound, Reading
  <1>12. x.at \in Dataset!Ends /\ x.at \notin Reading \cup {"remove"} /\ ~SealedNow(x)
    BY <1>7, <1>8 DEF Dataset!Ends, Reading, SealedNow
  <1> QED
    BY <1>1, <1>6, <1>8, <1>11, <1>12, RunMoves

\* Who is not done claims nothing of the files any more.
LEMMA RestTyped ==
    ASSUME DataInv, NEW rest, rest = Dataset!Restless, NEW d
    PROVE  /\ rest \in [Runs -> RunRecords]
           /\ \A r \in Runs : /\ rest[r].at = run[r].at /\ RunSound(d, rest[r])
                              /\ rest[r].at \in Reading \cup {"sealed", "remove"} => ~rest[r].calm
  <1> SUFFICES ASSUME NEW r \in Runs
               PROVE  /\ rest[r] \in RunRecords /\ rest[r].at = run[r].at /\ RunSound(d, rest[r])
                      /\ rest[r].at \in Reading \cup {"sealed", "remove"} => ~rest[r].calm
    BY DEF Dataset!Restless
  <1>1. run[r] \in RunRecords /\ RunSound(disk, run[r])
    BY RunTyped
  <1>2. CASE run[r].at \in Dataset!Over
    <2>1. rest[r] = run[r]
      BY <1>2 DEF Dataset!Restless
    <2>2. run[r].at \notin Reading \cup {"sealed", "valid", "remove"}
      BY <1>2 DEF Dataset!Over, Dataset!Ends, Reading
    <2>3. RunSound(d, run[r])
      BY <1>1, <2>2 DEF RunSound, Reading
    <2> QED
      BY <1>1, <2>1, <2>2, <2>3
  <1>3. CASE run[r].at \notin Dataset!Over
    <2>1. PICK x : x = [run[r] EXCEPT !.calm = FALSE]
      OBVIOUS
    <2>2. rest[r] = x
      BY <1>3, <2>1 DEF Dataset!Restless
    <2>3. /\ x \in RunRecords /\ ~x.calm /\ x.at = run[r].at /\ x.key = run[r].key /\ x.got = run[r].got
          /\ x.todo = run[r].todo /\ x.missing = run[r].missing /\ x.made = run[r].made
          /\ x.man = run[r].man /\ x.map = run[r].map /\ x.bad = run[r].bad /\ x.saw = run[r].saw
      BY <1>1, <2>1 DEF RunRecords
    <2>4. Accepted(x) = Accepted(run[r]) /\ (Signed(run[r]) => Signed(x))
      BY <2>3 DEF Accepted, Signed
    <2>5. RunSound(d, x)
      BY <1>1, <2>3, <2>4 DEF RunSound
    <2> QED
      BY <2>2, <2>3, <2>5
  <1> QED
    BY <1>2, <1>3

LEMMA RestlessKeeps ==
    ASSUME DataInv, run' = Dataset!Restless, NEW d
    PROVE  /\ run' \in [Runs -> RunRecords]
           /\ \A r \in Runs : /\ run'[r].at = run[r].at /\ RunSound(d, run'[r])
                              /\ run'[r].at \in Reading \cup {"sealed", "remove"} => ~run'[r].calm
  <1>1. PICK rest : rest = run'
    OBVIOUS
  <1> QED
    BY <1>1, RestTyped

LEMMA ChangeKeepsData ==
    ASSUME DataInv, run' = Dataset!Restless, changes' = changes + 1, UNCHANGED serial,
           disk' \in [Paths -> Nat], \A f \in Paths : disk'[f] \in Contents[f] \cup {0},
           out' \in [Dataset!Outs -> Outputs], OutsFit'
    PROVE  DataInv'
  <1>1. DataTyped'
    BY RestlessKeeps DEF DataInv, DataTyped
  <1>2. \A r \in Runs : RunSound(disk', run'[r])
    <2>1. PICK d : d = disk'
      OBVIOUS
    <2> QED
      BY <2>1, RestlessKeeps
  <1>3. ASSUME serial PROVE OneRunning'
    BY <1>3, RestlessKeeps DEF DataInv, OneRunning
  <1>4. SealStands'
    BY RestlessKeeps DEF SealStands, SealedNow
  <1>5. Removals'
    BY RestlessKeeps DEF Removals, Looked
  <1> QED
    BY <1>1, <1>2, <1>3, <1>4, <1>5 DEF DataInv

LEMMA WriteKeepsData ==
    ASSUME DataInv, NEW f \in Paths, NEW b \in Contents[f] \cup {0}, Dataset!Write(f, b)
    PROVE  DataInv'
  <1>1. b \in Nat
    BY ContentsFacts
  <1>2. disk' \in [Paths -> Nat] /\ \A g \in Paths : disk'[g] \in Contents[g] \cup {0}
    BY <1>1 DEF Dataset!Write, DataInv, DataTyped
  <1>3. out' \in [Dataset!Outs -> Outputs] /\ OutsFit'
    BY DEF Dataset!Write, DataInv, DataTyped, OutsFit
  <1> QED
    BY <1>2, <1>3, ChangeKeepsData DEF Dataset!Write, Dataset!Change

LEMMA ClearKeepsData ==
    ASSUME DataInv, NEW o \in Dataset!Outs, Dataset!Clear(o) PROVE DataInv'
  <1>1. disk' \in [Paths -> Nat] /\ \A g \in Paths : disk'[g] \in Contents[g] \cup {0}
    BY DEF Dataset!Clear, DataInv, DataTyped
  <1>2. out' \in [Dataset!Outs -> Outputs] /\ OutsFit'
    BY AbsentTyped DEF Dataset!Clear, DataInv, DataTyped, OutsFit
  <1> QED
    BY <1>1, <1>2, ChangeKeepsData DEF Dataset!Clear, Dataset!Change

LEMMA RemoveKeepsData ==
    ASSUME DataInv, NEW r \in Runs, Dataset!Remove(r) PROVE DataInv'
  <1>1. UNCHANGED <<disk, changes, serial>> /\ run[r].at = "remove"
    BY DEF Dataset!Remove, Dataset!base
  <1>2. PICK o : o = Dataset!Newest(run[r].made)
    OBVIOUS
  <1>3. o \in Dataset!Outs /\ out' = [out EXCEPT ![o] = Dataset!Absent]
    BY <1>2 DEF Dataset!Outs, Dataset!Newest, Dataset!Remove
  <1>4. out' \in [Dataset!Outs -> Outputs] /\ OutsFit'
    BY <1>3, AbsentTyped DEF DataInv, DataTyped, OutsFit
  <1>5. PICK x : x = Dataset!Back(r)
    OBVIOUS
  <1>6. x \in RunRecords /\ RunSound(disk, x) /\ x.at \in {"undo", "refused"}
    BY <1>1, <1>5, BackTyped
  <1>7. CASE out[o].by \in {r, Nobody} /\ run' = [run EXCEPT ![r] = x]
    <2>1. Handed(r)
      BY <1>3, <1>7 DEF Handed, DataInv, DataTyped
    <2> QED
      BY <1>1, <1>4, <1>6, <1>7, <2>1, OutMoves
  <1>8. CASE run' = [Dataset!Restless EXCEPT ![r] = x]
    <2>1. PICK rest : rest = Dataset!Restless
      OBVIOUS
    <2>2. /\ rest \in [Runs -> RunRecords]
          /\ \A q \in Runs : /\ rest[q].at = run[q].at /\ RunSound(disk, rest[q])
                             /\ rest[q].at \in Reading \cup {"sealed", "remove"} => ~rest[q].calm
      BY <2>1, RestTyped
    <2>3. \A q \in Runs : run'[q] = IF q = r THEN x ELSE rest[q]
      BY <1>8, <2>1, <2>2
    <2>4. DataTyped'
      BY <1>1, <1>4, <1>6, <1>8, <2>1, <2>2 DEF DataInv, DataTyped
    <2>5. \A q \in Runs : RunSound(disk', run'[q])
      BY <1>1, <1>6, <2>2, <2>3
    <2>6. serial => OneRunning'
      BY <1>1, <2>2, <2>3 DEF DataInv, OneRunning, Dataset!Ends
    <2>7. SealStands' /\ Removals'
      BY <1>6, <2>2, <2>3 DEF SealStands, SealedNow, Removals, Looked, Reading
    <2> QED
      BY <1>1, <1>4, <2>4, <2>5, <2>6, <2>7 DEF DataInv
  <1> QED
    BY <1>2, <1>5, <1>7, <1>8 DEF Dataset!Remove

LEMMA StepKeepsData == DataInv /\ (Dataset!Next \/ UNCHANGED Dataset!vars) => DataInv'
  <1> SUFFICES ASSUME DataInv, Dataset!Next \/ UNCHANGED Dataset!vars PROVE DataInv'
    OBVIOUS
  <1>1. CASE UNCHANGED Dataset!vars
    <2>1. \A r \in Runs : RunSound(disk', run'[r])
      BY <1>1 DEF Dataset!vars, DataInv
    <2> QED
      BY <1>1, <2>1 DEF Dataset!vars, Dataset!base, DataInv, DataTyped, OutsFit, OneRunning, SealStands,
                        Removals, Looked, SealedNow, Whole, Dataset!Sums
  <1>2. CASE \E f \in Paths : \E b \in Contents[f] \cup {0} : Dataset!Write(f, b)
    BY <1>2, WriteKeepsData
  <1>3. CASE \E o \in Dataset!Outs : Dataset!Clear(o)
    BY <1>3, ClearKeepsData
  <1>4. ASSUME NEW r \in Runs,
               \/ Dataset!Begin(r) \/ Dataset!Link(r) \/ Dataset!Unlink(r) \/ Dataset!Rollback(r)
               \/ Dataset!Remove(r) \/ Dataset!Stop(r) \/ Dataset!ReadManifest(r) \/ Dataset!Inventory(r)
               \/ Dataset!VerifySums(r) \/ Dataset!ReadMapping(r) \/ Dataset!Report(r)
               \/ Dataset!Preflight(r)
        PROVE  DataInv'
    BY <1>4, BeginKeepsData, LinkKeepsData, UnlinkKeepsData, RollbackKeepsData,
       RemoveKeepsData, StopKeepsData,
       ReadManifestKeepsData, InventoryKeepsData, VerifySumsKeepsData, ReadMappingKeepsData,
       ReportKeepsData, PreflightKeepsData
  <1>5. ASSUME NEW r \in Runs, NEW f \in Paths, Dataset!Hash(r, f) \/ Dataset!Verify(r, f)
        PROVE  DataInv'
    BY <1>5, HashKeepsData, VerifyKeepsData
  <1>6. ASSUME NEW r \in Runs, NEW o \in Dataset!Outs, Dataset!Compare(r, o)
        PROVE  DataInv'
    BY <1>6, CompareKeepsData
  <1> QED
    BY <1>1, <1>2, <1>3, <1>4, <1>5, <1>6 DEF Dataset!Next

LEMMA DataInvariant == Spec => [](focus = "import" => DataInv)
  <1> DEFINE Inv == focus = "import" => DataInv
  <1>1. Init => Inv
    BY InitData DEF Init
  <1>2. Inv /\ [Next]_vars => Inv'
    BY StepKeepsData DEF Next, vars, Dataset!vars, Dataset!base, from5, from6, from7
  <1> QED
    BY <1>1, <1>2, PTL DEF Spec

\* sealDataset, validateDataset and the comparison with the database: whatever
\* is written, removed or stopped meanwhile, a dataset is accepted only whole
\* and by its own mapping, and without overlap it stays sealed.
THEOREM DatasetsSound == Spec => []DatasetsHold
  <1>1. (focus = "import" => DataInv) => DatasetsHold
    BY DataInvImplies DEF DatasetsHold
  <1> QED
    BY <1>1, DataInvariant, PTL

-----------------------------------------------------------------------------
(* What no step does.                                                      *)

LEMMA OutKept == UNCHANGED out => Dataset!NeverOverwritten
  BY DEF Dataset!NeverOverwritten

LEMMA RemoveOwn ==
    ASSUME DataInv, NEW r \in Runs, Dataset!Remove(r) PROVE Dataset!NeverOverwritten
  <1>1. run[r].at = "remove"
    BY DEF Dataset!Remove
  <1>2. PICK o : o = Dataset!Newest(run[r].made)
    OBVIOUS
  <1>3. out' = [out EXCEPT ![o] = Dataset!Absent] /\ o \in Dataset!Outs
    BY <1>2 DEF Dataset!Outs, Dataset!Newest, Dataset!Remove
  <1>4. out[o].by = r \/ ~run[r].calm
    BY <1>1, <1>2 DEF DataInv, Removals, Looked
  <1>5. run'[r] # run[r]
    <2>1. PICK x : x = Dataset!Back(r)
      OBVIOUS
    <2>2. x.made # run[r].made
      BY <1>1, <2>1, BackTyped
    <2>3. run'[r] = x
      <3>1. DOMAIN run = Runs /\ DOMAIN Dataset!Restless = Runs
        BY DEF DataInv, DataTyped, Dataset!Restless
      <3> QED
        BY <2>1, <3>1 DEF Dataset!Remove
    <2> QED
      BY <2>2, <2>3
  <1> QED
    BY <1>1, <1>3, <1>4, <1>5 DEF Dataset!NeverOverwritten, DataInv, DataTyped

LEMMA DataSteps == DataInv /\ (Dataset!Next \/ UNCHANGED Dataset!vars) => Dataset!NeverOverwritten
  <1> SUFFICES ASSUME DataInv, Dataset!Next \/ UNCHANGED Dataset!vars PROVE Dataset!NeverOverwritten
    OBVIOUS
  <1>1. CASE UNCHANGED Dataset!vars
    BY <1>1, OutKept DEF Dataset!vars
  <1>2. CASE \E f \in Paths : \E b \in Contents[f] \cup {0} : Dataset!Write(f, b)
    BY <1>2, OutKept DEF Dataset!Write
  <1>3. ASSUME NEW o \in Dataset!Outs, Dataset!Clear(o) PROVE Dataset!NeverOverwritten
    BY <1>3 DEF Dataset!Clear, Dataset!Change, Dataset!NeverOverwritten, DataInv, DataTyped
  <1>4. ASSUME NEW r \in Runs, Dataset!Link(r) PROVE Dataset!NeverOverwritten
    <2>1. PICK o : o = Dataset!Next1(run[r].missing)
      OBVIOUS
    <2>2. CASE UNCHANGED out
      BY <2>2, OutKept
    <2>3. CASE ~Dataset!Present(o) /\ \E y : out' = [out EXCEPT ![o] = y]
      BY <2>3 DEF Dataset!NeverOverwritten, DataInv, DataTyped
    <2> QED
      BY <1>4, <2>1, <2>2, <2>3 DEF Dataset!Link, Dataset!Free
  <1>5. ASSUME NEW r \in Runs, Dataset!Unlink(r) PROVE Dataset!NeverOverwritten
    <2>1. PICK o : o = Dataset!Next1(run[r].missing)
      OBVIOUS
    <2>2. CASE UNCHANGED out
      BY <2>2, OutKept
    <2>3. CASE out' = [out EXCEPT ![o].links = 1]
      <3>1. \A p \in Dataset!Outs : out'[p].body = out[p].body /\ out'[p].by = out[p].by
        BY <2>3 DEF DataInv, DataTyped, Outputs
      <3> QED
        BY <3>1 DEF Dataset!NeverOverwritten
    <2> QED
      BY <1>5, <2>1, <2>2, <2>3 DEF Dataset!Unlink
  <1>6. ASSUME NEW r \in Runs, Dataset!Remove(r) PROVE Dataset!NeverOverwritten
    BY <1>6, RemoveOwn
  <1>7. ASSUME NEW r \in Runs,
               \/ Dataset!Begin(r) \/ Dataset!Rollback(r) \/ Dataset!Stop(r)
               \/ Dataset!ReadManifest(r) \/ Dataset!Inventory(r)
               \/ Dataset!VerifySums(r) \/ Dataset!ReadMapping(r) \/ Dataset!Report(r)
               \/ Dataset!Preflight(r)
        PROVE  Dataset!NeverOverwritten
    BY <1>7, OutKept DEF Dataset!Begin, Dataset!Rollback, Dataset!Stop, Dataset!ReadManifest, Dataset!Inventory,
       Dataset!VerifySums, Dataset!ReadMapping, Dataset!Report, Dataset!Preflight
  <1>8. ASSUME NEW r \in Runs, NEW f \in Paths, Dataset!Hash(r, f) \/ Dataset!Verify(r, f)
        PROVE  Dataset!NeverOverwritten
    BY <1>8, OutKept DEF Dataset!Hash, Dataset!Verify
  <1>9. ASSUME NEW r \in Runs, NEW o \in Dataset!Outs, Dataset!Compare(r, o)
        PROVE  Dataset!NeverOverwritten
    BY <1>9, OutKept DEF Dataset!Compare
  <1> QED
    BY <1>1, <1>2, <1>3, <1>4, <1>5, <1>6, <1>7, <1>8, <1>9 DEF Dataset!Next

\* Whatever overlaps: what was read stays read, a reminder whose cancellation was
\* answered is not sent, and a run of the sealer overwrites nothing and removes only its
\* own outputs, unless one is taken away by hand between its look and its removal.
\* Without overlap an archived announcement stays archived.
THEOREM OfficeStepsHold == Spec => OfficeSteps
  <1> DEFINE Inv == /\ focus = "announcements" => AnnInv
                    /\ OnTask => WorkInv
                    /\ focus = "import" => DataInv
             Kept == /\ focus = "announcements" => Ann!ArchivedLast /\ Ann!ReadStays
                     /\ OnTask => Wrk!CancelIsFinal
                     /\ focus = "import" => Dataset!NeverOverwritten
  <1>1. Init => Inv
    BY InitAnn, InitWork, InitData DEF Init, OnTask
  <1>2. Inv /\ [Next]_vars => Inv' /\ Kept
    <2>1. ASSUME Inv, [Next]_vars PROVE (focus = "announcements" => AnnInv)' /\
              (focus = "announcements" => Ann!ArchivedLast /\ Ann!ReadStays)
      BY <2>1, StepKeepsAnn, AnnSteps DEF Next, vars, Ann!vars, from5, from6, from7
    <2>2. ASSUME Inv, [Next]_vars PROVE (OnTask => WorkInv)' /\ (OnTask => Wrk!CancelIsFinal)
      <3>1. OnTask => WorkInv /\ (Wrk!Next \/ UNCHANGED Wrk!vars)
        BY <2>2 DEF Next, vars, Wrk!vars, Wrk!people, Wrk!access, Wrk!calls, Wrk!mine, Wrk!Next,
           from5, from6, from7, OnTask
      <3>2. UNCHANGED focus
        BY <2>2 DEF Next, vars
      <3> QED
        BY <3>1, <3>2, StepKeepsWork, WorkSteps DEF OnTask
    <2>3. ASSUME Inv, [Next]_vars PROVE (focus = "import" => DataInv)' /\
              (focus = "import" => Dataset!NeverOverwritten)
      BY <2>3, StepKeepsData, DataSteps DEF Next, vars, Dataset!vars, Dataset!base, from5, from6, from7
    <2> QED
      BY <2>1, <2>2, <2>3
  <1>3. Inv /\ [Next]_vars => [Kept]_vars
    BY <1>2
  <1> QED
    BY <1>1, <1>2, <1>3, PTL DEF Spec, OfficeSteps
=============================================================================
