----------------------------- MODULE FormsProofs -----------------------------
(***************************************************************************)
(* Proofs about the two forms of the browser that MCPlatform checks, the   *)
(* form for a new task (TaskDraft, TaskFields) and the drawer of a task    *)
(* (TaskDrawer), for any constants and bounds that MCPlatform assumes, and *)
(* with them the types of all the components of that run.                  *)
(***************************************************************************)
EXTENDS PlatformProofs, SequenceTheorems

(* The fields: what is chosen is among the options last loaded.             *)

draft   == x1
odd     == x2
pick    == x3
options == x5
active  == x6
where   == x7
USE DEF draft, odd, pick, options, active, where

DraftRecords == [part : SUBSET (Fields!People \X Fields!Roles), reporter : Fields!People \cup {NoChoice},
                 project : Fields!Keys, parent : Tasks \cup {NoChoice}, relations : SUBSET Tasks,
                 recurs : BOOLEAN, remind : Fields!People \cup {NoChoice}]
OptionRecords == [users : SUBSET Fields!People, tasks : SUBSET Tasks]

\* Only the creator can be there twice, as the responsible and as something else.
OneRole(d) ==
    /\ \A u \in Colleagues, r, s \in Fields!Roles : <<u, r>> \in d.part /\ <<u, s>> \in d.part => r = s
    /\ \A u \in Fields!People : ~(<<u, "COLLABORATOR">> \in d.part /\ <<u, "WATCHER">> \in d.part)
InPlace(d, o) ==
    /\ d.parent # NoChoice => ~d.recurs /\ where[d.parent] = d.project
    /\ o \/ \A t \in d.relations : where[t] = d.project
Offered(d, users) == (\A x \in d.part : x[1] \in users) /\ d.reporter \in users \cup {NoChoice}

FieldsTyped ==
    /\ draft \in DraftRecords /\ where \in [Tasks -> Fields!Keys] /\ active \in SUBSET Fields!People
    /\ pick \in [task : Tasks \cup {NoChoice}, project : Fields!Keys]
    /\ options \in [Fields!Keys -> OptionRecords \cup {NoChoice}]
FieldsInv ==
    /\ FieldsTyped /\ OneRole(draft) /\ InPlace(draft, odd)
    /\ pick.task # NoChoice => where[pick.task] = pick.project
    /\ \A p \in Fields!Keys : options[p] # NoChoice => options[p].tasks = {t \in Tasks : where[t] = p}
    /\ options[draft.project] # NoChoice => Offered(draft, options[draft.project].users)

LEMMA InitFields == Fields!Init => FieldsInv
  <1> SUFFICES ASSUME Fields!Init PROVE FieldsInv
    OBVIOUS
  <1>1. PICK u \in Fields!People :
           draft = [part |-> {<<u, "RESPONSIBLE">>}, reporter |-> Me, project |-> NoChoice, parent |-> NoChoice,
                    relations |-> {}, recurs |-> FALSE, remind |-> NoChoice]
    BY DEF Fields!Init
  <1>2. FieldsTyped
    BY <1>1 DEF Fields!Init, FieldsTyped, DraftRecords, Fields!People, Fields!Roles, Fields!Keys, Fields!Nothing
  <1>3. OneRole(draft) /\ InPlace(draft, odd)
    BY <1>1 DEF OneRole, InPlace
  <1>4. pick.task = NoChoice /\ \A p \in Fields!Keys : options[p] = NoChoice
    BY DEF Fields!Init, Fields!Nothing
  <1> QED
    BY <1>2, <1>3, <1>4 DEF FieldsInv, FieldsTyped, DraftRecords

\* Putting the people of a list into the draft takes nothing else away.
LEMMA FitFacts ==
    ASSUME NEW d \in DraftRecords, NEW o \in OptionRecords, OneRole(d), FieldsAssumption
    PROVE  LET e == Fields!Fit(d, o) IN
           /\ e \in DraftRecords /\ OneRole(e) /\ Offered(e, o.users)
           /\ \A f \in {"project", "parent", "relations", "recurs", "remind"} : e[f] = d[f]
  <1> DEFINE e == Fields!Fit(d, o)
  <1>1. PICK left_ : left_ = {x \in d.part : x[1] \in o.users}
    OBVIOUS
  <1>2. PICK add : add = IF Me \in o.users /\ ~\E x \in left_ : x[2] = "RESPONSIBLE"
                         THEN {<<Me, "RESPONSIBLE">>} ELSE {}
    OBVIOUS
  <1>3. PICK who : who = IF d.reporter \in o.users THEN d.reporter ELSE IF Me \in o.users THEN Me ELSE NoChoice
    OBVIOUS
  <1>4. e = [d EXCEPT !.part = left_ \cup add, !.reporter = who]
    BY <1>1, <1>2, <1>3 DEF Fields!Fit
  <1>5. left_ \in SUBSET (Fields!People \X Fields!Roles) /\ left_ \subseteq d.part
    BY <1>1 DEF DraftRecords
  <1>6. add \in SUBSET (Fields!People \X Fields!Roles) /\ add \subseteq {<<Me, "RESPONSIBLE">>}
    BY <1>2 DEF Fields!People, Fields!Roles
  <1>7. who \in Fields!People \cup {NoChoice} /\ who \in o.users \cup {NoChoice}
    BY <1>3 DEF OptionRecords
  <1>8. e \in DraftRecords
    BY <1>4, <1>5, <1>6, <1>7 DEF DraftRecords
  <1>9. e.part = left_ \cup add /\ e.reporter = who
        /\ \A f \in {"project", "parent", "relations", "recurs", "remind"} : e[f] = d[f]
    BY <1>4 DEF DraftRecords
  <1>10. OneRole(e)
    <2>1. ASSUME NEW u \in Colleagues, NEW r \in Fields!Roles, <<u, r>> \in e.part PROVE <<u, r>> \in d.part
      BY <1>5, <1>6, <1>9, <2>1 DEF FieldsAssumption
    <2>2. ASSUME NEW u \in Fields!People, NEW r \in {"COLLABORATOR", "WATCHER"}, <<u, r>> \in e.part
          PROVE  <<u, r>> \in d.part
      BY <1>5, <1>6, <1>9, <2>2
    <2> QED
      BY <2>1, <2>2 DEF OneRole
  <1>11. Offered(e, o.users)
    BY <1>1, <1>2, <1>7, <1>9 DEF Offered
  <1> QED
    BY <1>8, <1>9, <1>10, <1>11

\* A step that only puts another draft there.
LEMMA PutKeeps ==
    ASSUME FieldsInv, NEW d \in DraftRecords, draft' = d, d.project = draft.project, OneRole(d), InPlace(d, odd),
           options[draft.project] # NoChoice => Offered(d, options[draft.project].users),
           UNCHANGED <<odd, pick, options, active, where>>
    PROVE  FieldsInv'
  BY DEF FieldsInv, FieldsTyped, DraftRecords, OneRole, InPlace, Offered, Fields!Keys, Fields!People

\* A step that moves the draft to a project, and fits it to the options there are.
LEMMA ShowKeeps ==
    ASSUME FieldsInv, FieldsAssumption, NEW p \in Fields!Keys, Fields!Show(Fields!InProject(draft, p)),
           odd' = FALSE, UNCHANGED <<options, active, where>>
    PROVE  FieldsInv'
  <1>1. PICK d : d = Fields!InProject(draft, p)
    OBVIOUS
  <1>2. /\ d \in DraftRecords /\ d.project = p /\ d.parent = NoChoice /\ d.relations = {} /\ d.part = draft.part
    BY <1>1 DEF Fields!InProject, FieldsInv, FieldsTyped, DraftRecords
  <1>3. OneRole(d)
    BY <1>2 DEF FieldsInv, OneRole
  <1>4. CASE options[p] = NoChoice
    <2>1. draft' = d /\ pick' = Fields!Nothing
      BY <1>1, <1>2, <1>4 DEF Fields!Show
    <2>2. FieldsTyped'
      BY <1>2, <2>1 DEF FieldsInv, FieldsTyped, DraftRecords, Fields!Nothing, Fields!Keys, Fields!People
    <2>3. OneRole(d) /\ InPlace(d, FALSE)
      BY <1>2, <1>3 DEF InPlace
    <2>4. pick'.task = NoChoice
      BY <2>1 DEF Fields!Nothing
    <2> QED
      BY <1>2, <1>4, <2>1, <2>2, <2>3, <2>4 DEF FieldsInv, OneRole, InPlace
  <1>5. CASE options[p] # NoChoice
    <2>1. PICK o \in OptionRecords : o = options[p]
      BY <1>5 DEF FieldsInv, FieldsTyped
    <2>2. PICK e \in DraftRecords :
             /\ e = Fields!Fit(d, o) /\ OneRole(e) /\ Offered(e, o.users)
             /\ \A f \in {"project", "parent", "relations", "recurs", "remind"} : e[f] = d[f]
      BY <1>2, <1>3, FitFacts
    <2>3. draft' = e /\ pick' = pick
      BY <1>1, <1>2, <1>5, <2>1, <2>2 DEF Fields!Show
    <2>4. e.project = p /\ e.parent = NoChoice /\ e.relations = {}
      BY <1>2, <2>2
    <2>5. FieldsTyped'
      BY <2>3 DEF FieldsInv, FieldsTyped, Fields!Keys, Fields!People, DraftRecords
    <2> QED
      BY <2>1, <2>2, <2>3, <2>4, <2>5 DEF FieldsInv, OneRole, InPlace, Offered
  <1> QED
    BY <1>4, <1>5

LEMMA StepKeepsFields ==
    ASSUME FieldsInv, FieldsAssumption, Fields!Next \/ UNCHANGED Fields!vars
    PROVE  FieldsInv'
  <1> USE DEF Fields!Put, Fields!Loaded, Fields!O
  <1>t. /\ FieldsTyped /\ draft \in DraftRecords /\ OneRole(draft) /\ InPlace(draft, odd)
        /\ options[draft.project] # NoChoice => Offered(draft, options[draft.project].users)
    BY DEF FieldsInv, FieldsTyped
  <1>1. CASE Fields!Load
    <2>1. PICK o : o = Fields!Listing(draft.project)
      OBVIOUS
    <2>2. o \in OptionRecords /\ o.users = active /\ o.tasks = {t \in Tasks : where[t] = draft.project}
      BY <2>1, <1>t DEF Fields!Listing, OptionRecords, FieldsTyped
    <2>3. PICK e \in DraftRecords :
             /\ e = Fields!Fit(draft, o) /\ OneRole(e) /\ Offered(e, o.users)
             /\ \A f \in {"project", "parent", "relations", "recurs", "remind"} : e[f] = draft[f]
      BY <1>t, <2>2, FitFacts
    <2>4. draft' = e /\ options' = [options EXCEPT ![draft.project] = o] /\ UNCHANGED <<odd, pick, active, where>>
      BY <1>1, <2>1, <2>3 DEF Fields!Load
    <2>5. /\ e.project = draft.project /\ e.parent = draft.parent /\ e.relations = draft.relations
          /\ e.recurs = draft.recurs
      BY <2>3
    <2>6. options'[draft.project] = o /\ \A p \in Fields!Keys : p # draft.project => options'[p] = options[p]
      BY <1>t, <2>4 DEF FieldsTyped, DraftRecords
    <2>7. FieldsTyped'
      BY <1>t, <2>2, <2>4 DEF FieldsTyped, DraftRecords, OptionRecords, Fields!Keys, Fields!People
    <2>8. OneRole(e) /\ InPlace(e, odd)
      BY <1>t, <2>3, <2>5 DEF InPlace
    <2>9. \A p \in Fields!Keys : options'[p] # NoChoice => options'[p].tasks = {t \in Tasks : where[t] = p}
      BY <2>2, <2>6 DEF FieldsInv
    <2> QED
      BY <2>2, <2>3, <2>4, <2>5, <2>6, <2>7, <2>8, <2>9 DEF FieldsInv, OneRole, InPlace, Offered, Fields!Keys
  <1>2. CASE Fields!Close \/ Fields!BeginProject \/ Fields!RefuseProject \/ UNCHANGED Fields!vars
    <2>1. UNCHANGED <<draft, odd, options, active, where>> /\ pick' \in {pick, Fields!Nothing}
      BY <1>2 DEF Fields!Close, Fields!BeginProject, Fields!RefuseProject, Fields!vars
    <2>2. FieldsTyped'
      BY <1>t, <2>1 DEF FieldsTyped, Fields!Nothing, Fields!Keys, DraftRecords, Fields!People
    <2> QED
      BY <2>1, <2>2 DEF FieldsInv, OneRole, InPlace, Offered, Fields!Nothing, Fields!Keys, Fields!People
  <1>3. ASSUME NEW p \in Fields!Keys, Fields!SelectProject(p) \/ Fields!CommitProject(p) PROVE FieldsInv'
    BY <1>3, ShowKeeps DEF Fields!SelectProject, Fields!CommitProject
  <1>4. ASSUME NEW t \in Tasks \cup {NoChoice}, Fields!SelectParent(t) PROVE FieldsInv'
    <2>1. PICK d : d = Fields!Child(draft, t)
      OBVIOUS
    <2>2. d = [draft EXCEPT !.parent = t, !.recurs = draft.recurs /\ t = NoChoice]
      BY <2>1 DEF Fields!Child
    <2>3. PICK b \in BOOLEAN : b = (draft.recurs /\ t = NoChoice)
      OBVIOUS
    <2>4. d \in DraftRecords
      BY <1>t, <2>2, <2>3 DEF DraftRecords
    <2>5. /\ d.parent = t /\ d.recurs = b /\ d.part = draft.part /\ d.reporter = draft.reporter
          /\ d.project = draft.project /\ d.relations = draft.relations
      BY <1>t, <2>2, <2>3 DEF DraftRecords
    <2>6. t # NoChoice => where[t] = draft.project
      BY <1>4, <1>t DEF Fields!SelectParent, FieldsInv, FieldsTyped, DraftRecords
    <2>7. OneRole(d) /\ InPlace(d, odd)
      BY <1>t, <2>3, <2>5, <2>6 DEF OneRole, InPlace
    <2>8. options[draft.project] # NoChoice => Offered(d, options[draft.project].users)
      BY <1>t, <2>5 DEF Offered
    <2> QED
      BY <1>4, <2>1, <2>4, <2>5, <2>7, <2>8, PutKeeps DEF Fields!SelectParent
  <1>5. ASSUME NEW t \in Tasks, Fields!Pick(t) PROVE FieldsInv'
    <2>1. pick' = [task |-> t, project |-> draft.project] /\ UNCHANGED <<draft, odd, options, active, where>>
      BY <1>5 DEF Fields!Pick
    <2>2. where[t] = draft.project
      BY <1>5, <1>t DEF Fields!Pick, FieldsInv, FieldsTyped, DraftRecords
    <2>3. FieldsTyped'
      BY <1>t, <2>1 DEF FieldsTyped, DraftRecords, Fields!Keys, Fields!People
    <2> QED
      BY <2>1, <2>2, <2>3 DEF FieldsInv, OneRole, InPlace, Offered, Fields!Keys, Fields!People
  <1>6. CASE Fields!Relate
    <2>1. PICK d : d = [draft EXCEPT !.relations = @ \cup {pick.task}]
      OBVIOUS
    <2>2. /\ draft' = d /\ odd' = (odd \/ pick.project # draft.project) /\ pick' = Fields!Nothing
          /\ UNCHANGED <<options, active, where>> /\ pick.task # NoChoice
      BY <1>6, <2>1 DEF Fields!Relate
    <2>3. /\ d.relations = draft.relations \cup {pick.task} /\ d.part = draft.part /\ d.reporter = draft.reporter
          /\ d.project = draft.project /\ d.parent = draft.parent /\ d.recurs = draft.recurs
      BY <1>t, <2>1 DEF DraftRecords
    <2>4. d \in DraftRecords /\ pick.task \in Tasks /\ where[pick.task] = pick.project
      BY <1>t, <2>1, <2>2 DEF DraftRecords, FieldsInv, FieldsTyped
    <2>5. OneRole(d) /\ InPlace(d, odd')
      BY <1>t, <2>2, <2>3, <2>4 DEF OneRole, InPlace
    <2>6. FieldsTyped'
      BY <1>t, <2>2, <2>4 DEF FieldsTyped, Fields!Nothing, Fields!Keys, DraftRecords, Fields!People
    <2>7. options[draft.project] # NoChoice => Offered(d, options[draft.project].users)
      BY <1>t, <2>3 DEF Offered
    <2>8. pick'.task = NoChoice
      BY <2>2 DEF Fields!Nothing
    <2> QED
      BY <2>2, <2>3, <2>5, <2>6, <2>7, <2>8 DEF FieldsInv, OneRole, InPlace, Offered, Fields!Keys, Fields!People
  <1>7. ASSUME NEW t \in Tasks, Fields!Unrelate(t) PROVE FieldsInv'
    <2>1. PICK d : d = [draft EXCEPT !.relations = @ \ {t}]
      OBVIOUS
    <2>2. /\ d.relations = draft.relations \ {t} /\ d.part = draft.part /\ d.reporter = draft.reporter
          /\ d.project = draft.project /\ d.parent = draft.parent /\ d.recurs = draft.recurs /\ d \in DraftRecords
      BY <1>t, <2>1 DEF DraftRecords
    <2>3. OneRole(d) /\ InPlace(d, odd) /\ (options[draft.project] # NoChoice => Offered(d, options[draft.project].users))
      BY <1>t, <2>2 DEF OneRole, InPlace, Offered
    <2> QED
      BY <1>7, <2>1, <2>2, <2>3, PutKeeps DEF Fields!Unrelate
  <1>8. ASSUME NEW S \in SUBSET (Fields!People \X Fields!Roles), Fields!Put([draft EXCEPT !.part = S]),
               \A u \in Colleagues, r, s \in Fields!Roles : <<u, r>> \in S /\ <<u, s>> \in S => r = s,
               \A u \in Fields!People : ~(<<u, "COLLABORATOR">> \in S /\ <<u, "WATCHER">> \in S),
               \A x \in S : x \in draft.part \/
                   (options[draft.project] # NoChoice /\ x[1] \in options[draft.project].users)
        PROVE  FieldsInv'
    <2>1. PICK d : d = [draft EXCEPT !.part = S]
      OBVIOUS
    <2>2. /\ d.part = S /\ d.relations = draft.relations /\ d.reporter = draft.reporter
          /\ d.project = draft.project /\ d.parent = draft.parent /\ d.recurs = draft.recurs /\ d \in DraftRecords
      BY <1>t, <2>1 DEF DraftRecords
    <2>3. OneRole(d) /\ InPlace(d, odd)
      BY <1>8, <1>t, <2>2 DEF OneRole, InPlace
    <2>4. options[draft.project] # NoChoice => Offered(d, options[draft.project].users)
      BY <1>8, <1>t, <2>2 DEF Offered
    <2> QED
      BY <1>8, <2>1, <2>2, <2>3, <2>4, PutKeeps
  <1>9. ASSUME NEW u \in Fields!People,
               Fields!AddResponsible(u) \/ Fields!RemoveResponsible(u) \/ Fields!Check(u) \/ Fields!Uncheck(u)
                   \/ \E r \in Fields!Roles : Fields!Rerole(u, r)
        PROVE  FieldsInv'
    <2> DEFINE Rest == Fields!Without(draft, u)
    <2>1. /\ draft.part \in SUBSET (Fields!People \X Fields!Roles)
          /\ Rest \subseteq draft.part /\ \A r : <<u, r>> \notin Rest
      BY <1>t DEF DraftRecords, Fields!Without
    <2>2. CASE Fields!RemoveResponsible(u) \/ Fields!Uncheck(u)
      <3>1. Fields!Put([draft EXCEPT !.part = Rest])
        BY <2>2 DEF Fields!RemoveResponsible, Fields!Uncheck
      <3> QED
        BY <1>8, <1>t, <2>1, <3>1 DEF OneRole
    <2>3. ASSUME NEW r \in Fields!Roles, Fields!Put([draft EXCEPT !.part = Rest \cup {<<u, r>>}]),
                 options[draft.project] # NoChoice, u \in options[draft.project].users
          PROVE  FieldsInv'
      BY <1>8, <1>t, <2>1, <2>3 DEF OneRole
    <2>4. CASE Fields!AddResponsible(u)
      BY <2>3, <2>4 DEF Fields!AddResponsible, Fields!Add, Fields!Roles
    <2>5. CASE Fields!Check(u)
      <3>1. Rest = draft.part
        BY <1>t, <2>1, <2>5 DEF Fields!Check, Fields!In, Fields!RolesOf, Fields!Without, DraftRecords
      <3> QED
        BY <2>3, <2>5, <3>1 DEF Fields!Check, Fields!Roles
    <2>6. ASSUME NEW r \in Fields!Roles, Fields!Rerole(u, r) PROVE FieldsInv'
      <3>1. u \in options[draft.project].users
        BY <1>t, <2>6 DEF Fields!Rerole, Fields!In, Fields!RolesOf, Offered
      <3> QED
        BY <2>3, <2>6, <3>1 DEF Fields!Rerole
    <2> QED
      BY <1>9, <2>2, <2>4, <2>5, <2>6
  <1>10. ASSUME NEW d, NEW u \in Fields!People \cup {NoChoice}, draft.project = draft.project,
                \/ Fields!Reporter(u) /\ u \in Fields!People /\ d = [draft EXCEPT !.reporter = u]
                \/ Fields!Remind(u) /\ d = [draft EXCEPT !.remind = u]
                \/ Fields!Recur /\ \E b \in BOOLEAN : d = [draft EXCEPT !.recurs = b],
                Fields!Put(d)
         PROVE  FieldsInv'
    <2>1. /\ d.part = draft.part /\ d.relations = draft.relations /\ d.project = draft.project
          /\ d.parent = draft.parent /\ d \in DraftRecords
          /\ d.reporter # draft.reporter => options[draft.project] # NoChoice /\ d.reporter \in options[draft.project].users
          /\ d.recurs # draft.recurs => draft.parent = NoChoice
      BY <1>10, <1>t DEF DraftRecords, Fields!Reporter, Fields!Remind, Fields!Recur
    <2>2. OneRole(d) /\ InPlace(d, odd)
      BY <1>t, <2>1 DEF OneRole, InPlace
    <2>3. options[draft.project] # NoChoice => Offered(d, options[draft.project].users)
      BY <1>t, <2>1 DEF Offered
    <2> QED
      BY <1>10, <2>1, <2>2, <2>3, PutKeeps
  <1>11. CASE Fields!Recur
    <2>1. PICK b \in BOOLEAN : b = ~draft.recurs
      OBVIOUS
    <2>2. Fields!Put([draft EXCEPT !.recurs = b])
      BY <1>11, <2>1 DEF Fields!Recur
    <2> QED
      BY <1>10, <1>11, <2>2
  <1>12. ASSUME NEW u \in Fields!People, Fields!Reporter(u) PROVE FieldsInv'
    BY <1>10, <1>12 DEF Fields!Reporter
  <1>13. ASSUME NEW u \in Fields!People \cup {NoChoice}, Fields!Remind(u) PROVE FieldsInv'
    BY <1>10, <1>13 DEF Fields!Remind
  <1>14. ASSUME NEW u \in Fields!People, Fields!Deactivate(u) PROVE FieldsInv'
    <2>1. UNCHANGED <<draft, odd, pick, options, where>> /\ active' = active \ {u}
      BY <1>14 DEF Fields!Deactivate
    <2>2. FieldsTyped'
      BY <1>t, <2>1 DEF FieldsTyped, Fields!Keys, DraftRecords, Fields!People
    <2> QED
      BY <2>1, <2>2 DEF FieldsInv, OneRole, InPlace, Offered, Fields!Keys, Fields!People
  <1> QED
    BY <1>1, <1>2, <1>3, <1>4, <1>5, <1>6, <1>7, <1>9, <1>11, <1>12, <1>13, <1>14 DEF Fields!Next

\* A set of which no two members differ, or which has two, by its size.
LEMMA RolesAtMostOne ==
    ASSUME NEW d, NEW u, \A r, s \in Fields!RolesOf(d, u) : r = s
    PROVE  Fields!Cardinality(Fields!RolesOf(d, u)) <= 1
  <1>1. PICK S : S = Fields!RolesOf(d, u)
    OBVIOUS
  <1>2. File!Cardinality(S) <= 1
    BY <1>1, AtMostOne
  <1> QED
    BY <1>1, <1>2 DEF Fields!Cardinality, File!Cardinality

LEMMA TwoRoles ==
    ASSUME NEW d \in DraftRecords, NEW u \in Fields!People, OneRole(d),
           ~\A r, s \in Fields!RolesOf(d, u) : r = s
    PROVE  Fields!Cardinality(Fields!RolesOf(d, u)) = 2
  <1>1. PICK r \in Fields!RolesOf(d, u), s \in Fields!RolesOf(d, u) : r # s
    OBVIOUS
  <1>2. Fields!RolesOf(d, u) = {r, s}
    BY <1>1 DEF OneRole, Fields!RolesOf, Fields!Roles
  <1>3. Cardinality({r, s}) = 2
    <2>1. Cardinality({r}) = 1 /\ IsFiniteSet({r})
      BY FS_Singleton
    <2>2. {r, s} = {r} \cup {s}
      OBVIOUS
    <2> QED
      BY <1>1, <2>1, <2>2, FS_AddElement
  <1>4. PICK S : S = {r, s}
    OBVIOUS
  <1>5. Fields!Cardinality(S) = Cardinality(S)
    BY DEF Fields!Cardinality, Cardinality
  <1> QED
    BY <1>2, <1>3, <1>4, <1>5

LEMMA FieldsInvImplies ==
    ASSUME FieldsInv, FieldsAssumption
    PROVE  Fields!TypeOK /\ Fields!OfferedIsAccepted /\ Fields!FieldsFit
  <1>t. draft \in DraftRecords /\ OneRole(draft) /\ InPlace(draft, odd)
    BY DEF FieldsInv, FieldsTyped
  <1>1. Fields!TypeOK
    BY DEF Fields!TypeOK, FieldsInv, FieldsTyped, DraftRecords
  <1>2. Fields!FieldsFit
    <2>1. \A u \in Colleagues : \A r, s \in Fields!RolesOf(draft, u) : r = s
      BY <1>t DEF OneRole, Fields!RolesOf
    <2>2. draft.parent # NoChoice => ~draft.recurs
      BY <1>t DEF InPlace
    <2> QED
      BY <2>1, <2>2, RolesAtMostOne DEF Fields!FieldsFit
  <1>3. Fields!OfferedIsAccepted
    <2> SUFFICES ASSUME options[draft.project] # NoChoice, Fields!O = Fields!Listing(draft.project),
                        Fields!Valid(draft), ~Fields!Twice, ~Fields!Reminded, ~odd
                 PROVE  Fields!Accepts(draft)
      BY Zenon DEF Fields!OfferedIsAccepted, Fields!Loaded, Fields!O
    <2>1. \A u \in Fields!People : \A r, s \in Fields!RolesOf(draft, u) : r = s
      BY <1>t, TwoRoles DEF Fields!Twice, Fields!People, OneRole, Fields!RolesOf
    <2>2. \A u \in Fields!People : Fields!Cardinality(Fields!RolesOf(draft, u)) <= 1
      BY <2>1, RolesAtMostOne
    <2>3. options[draft.project].users = active
      BY DEF Fields!O, Fields!Listing
    <2>4. /\ \E u \in Fields!People : Fields!Responsible(draft, u)
          /\ ~(draft.recurs /\ draft.parent # NoChoice) /\ draft.reporter # NoChoice
      BY DEF Fields!Valid
    <2>5. Offered(draft, active)
      BY <2>3 DEF FieldsInv
    <2>6. \A u \in Fields!People : Fields!In(draft, u) => u \in active
      BY <1>t, <2>5 DEF Offered, Fields!In, Fields!RolesOf
    <2>7. draft.reporter \in active
      BY <2>4, <2>5 DEF Offered
    <2>8. draft.remind # NoChoice => Fields!In(draft, draft.remind)
      BY DEF Fields!Reminded
    <2>9. \A u \in Fields!People : (u \in {draft.reporter, draft.remind} \/ Fields!In(draft, u)) => u \in active
      BY <2>6, <2>7, <2>8 DEF FieldsAssumption, Fields!People
    <2>10. (draft.parent # NoChoice => where[draft.parent] = draft.project)
           /\ \A t \in draft.relations : where[t] = draft.project
      BY <1>t DEF InPlace
    <2> QED
      BY <2>2, <2>4, <2>8, <2>9, <2>10 DEF Fields!Accepts
  <1> QED
    BY <1>1, <1>2, <1>3

-----------------------------------------------------------------------------
(* The form: what was sent under one key is the same text, and nothing      *)
(* waits for an answer unless its form is open.                             *)

form    == x1
saved   == x2
sent    == x3
asking  == x4
tasks   == x5
strayed == x7
USE DEF form, saved, sent, asking, tasks, strayed

Drafts == [text : Texts \cup {0}, file : BOOLEAN]
FormRecords == [n : Nat, at : {"open", "leaving", "closed"}, value : Drafts, key : Nat, last : Drafts,
                timer : BOOLEAN, failed : BOOLEAN, upload : BOOLEAN, closing : BOOLEAN, ask : BOOLEAN,
                pending : BOOLEAN, how : {"open", "left", "saved", "deleted", "reloaded", "created"},
                hot : BOOLEAN]
AskRecords  == [n : 1 .. FormOpenings, key : Nat, value : Drafts, i : Nat,
                done : {"no", "made", "refused"}, live : BOOLEAN]
MadeRecords == [n : 1 .. FormOpenings, key : Nat, value : Drafts, i : Nat]
FormTyped ==
    /\ form \in FormRecords /\ form.n \in 0 .. FormOpenings /\ (form.at # "closed" => form.n \in 1 .. FormOpenings)
    /\ saved \in Drafts /\ sent \in [1 .. FormOpenings -> Seq(Drafts)]
    /\ asking \in SUBSET AskRecords /\ tasks \in SUBSET MadeRecords /\ strayed \in BOOLEAN

\* What is known of a submission by the form it came from, and of two.
Another(n, a, b, v) == \E k \in a .. b : sent[n][k] # v
Submitted(x) ==
    /\ x.n <= form.n /\ x.i \in 1 .. Len(sent[x.n]) /\ sent[x.n][x.i] = x.value /\ x.value # Form!Untouched
    /\ x.n = form.n /\ form.at # "closed" =>
           \/ x.key = form.key /\ x.value = form.last
           \/ x.key < form.key /\ Another(x.n, x.i, Len(sent[x.n]), x.value)
Ordered(x, y) ==
    x.n = y.n /\ x.i < y.i =>
        \/ x.key = y.key /\ x.value = y.value
        \/ x.key # y.key /\ Another(x.n, x.i, y.i, x.value)
Submissions ==
    /\ \A x \in asking \cup tasks : Submitted(x)
    /\ \A x, y \in asking \cup tasks : Ordered(x, y)
    /\ \A a, b \in tasks : a.n = b.n /\ a.key = b.key => a = b

DraftKept ==
    /\ form.at = "open" /\ form.value # Form!Untouched /\ ~form.failed /\ ~form.timer => saved = form.value
    /\ form.at = "leaving" /\ form.how = "saved" /\ ~form.hot => saved = form.value
    /\ form.at # "open" /\ form.how \in {"created", "deleted"} /\ ~form.hot =>
           saved = Form!Untouched /\ (form.at = "leaving" => ~form.timer)
AwaitedHere ==
    /\ \A r \in asking : r.live => form.at = "open" /\ form.pending /\ r.n = form.n
    /\ \A r, q \in asking : r.live /\ q.live => r = q
FormInv ==
    /\ FormTyped /\ Submissions /\ (form.at = "open" => form.how = "open")
    /\ ~strayed => DraftKept /\ AwaitedHere

LEMMA InitForm == FormAssumption /\ Form!Init => FormInv
  <1> SUFFICES ASSUME FormAssumption, Form!Init PROVE FormInv
    OBVIOUS
  <1>1. Form!Untouched \in Drafts
    BY DEF Form!Untouched, Drafts
  <1>2. form \in FormRecords /\ form.n = 0 /\ form.at = "closed" /\ form.how = "open"
    BY <1>1 DEF Form!Init, Form!Closed, Form!Form, FormRecords
  <1>3. sent \in [1 .. FormOpenings -> Seq(Drafts)]
    BY DEF Form!Init
  <1>5. asking = {} /\ tasks = {} /\ saved = Form!Untouched /\ strayed = FALSE
    BY DEF Form!Init
  <1>4. FormTyped
    <2>1. FormOpenings \in Nat
      BY DEF FormAssumption
    <2> QED
      BY <1>1, <1>2, <1>3, <1>5, <2>1, 0 \in 0 .. FormOpenings DEF FormTyped
  <1> QED
    BY <1>2, <1>4, <1>5 DEF FormInv, Submissions, DraftKept, AwaitedHere

\* A step that submits nothing: what is on the way or made was so before.
LEMMA SameSubmissions ==
    ASSUME FormTyped, FormTyped', Submissions, UNCHANGED sent,
           \/ form'.n = form.n /\ form'.key = form.key /\ form'.last = form.last /\ form.at # "closed"
           \/ form'.n >= form.n /\ form'.at = "closed"
           \/ form'.n > form.n,
           \A y \in asking' \cup tasks' : \E x \in asking \cup tasks :
               x.n = y.n /\ x.key = y.key /\ x.value = y.value /\ x.i = y.i,
           \A a, b \in tasks' : a.n = b.n /\ a.key = b.key => a = b
    PROVE  Submissions'
  <1>1. ASSUME NEW y \in asking' \cup tasks' PROVE Submitted(y)'
    <2>1. PICK x \in asking \cup tasks : x.n = y.n /\ x.key = y.key /\ x.value = y.value /\ x.i = y.i
      OBVIOUS
    <2>2. Submitted(x) /\ x.n \in Nat /\ form.n \in Nat /\ form'.n \in Nat
      BY DEF Submissions, FormTyped, AskRecords, MadeRecords, FormRecords
    <2> QED
      BY <2>1, <2>2 DEF Submitted, Another
  <1>2. ASSUME NEW y \in asking' \cup tasks', NEW z \in asking' \cup tasks' PROVE Ordered(y, z)'
    <2>1. PICK x \in asking \cup tasks : x.n = y.n /\ x.key = y.key /\ x.value = y.value /\ x.i = y.i
      OBVIOUS
    <2>2. PICK w \in asking \cup tasks : w.n = z.n /\ w.key = z.key /\ w.value = z.value /\ w.i = z.i
      OBVIOUS
    <2>3. Ordered(x, w)
      BY DEF Submissions
    <2> QED
      BY <2>1, <2>2, <2>3 DEF Ordered, Another
  <1> QED
    BY <1>1, <1>2 DEF Submissions

LEMMA SubmitKeeps ==
    ASSUME FormAssumption, FormInv, Form!Submit
    PROVE  FormInv'
  <1>t. FormTyped /\ form \in FormRecords /\ form.at = "open" /\ form.n \in 1 .. FormOpenings /\ Submissions
        /\ sent \in [1 .. FormOpenings -> Seq(Drafts)] /\ form.value \in Drafts /\ form.value # Form!Untouched
    BY DEF FormInv, FormTyped, FormRecords, Form!Submit, Form!OnTop, Form!Open, Form!Untouched
  <1>1. PICK key \in Nat : key = Form!Key(form)
    BY <1>t DEF Form!Key, FormRecords
  <1>2. PICK i \in Nat : i = Len(sent[form.n]) + 1 /\ Len(sent[form.n]) \in Nat
    BY <1>t, LenProperties
  <1>3. PICK new \in AskRecords : new = [n |-> form.n, key |-> key, value |-> form.value, i |-> i,
                                         done |-> "no", live |-> TRUE]
    BY <1>t DEF AskRecords
  <1>4. /\ form' = [form EXCEPT !.key = key, !.last = form.value, !.pending = TRUE]
        /\ sent' = [sent EXCEPT ![form.n] = Append(@, form.value)]
        /\ asking' = asking \cup {new} /\ UNCHANGED <<saved, tasks, strayed>> /\ ~form.pending
    BY <1>1, <1>2, <1>3 DEF Form!Submit, Form!Sends
  <1>5. /\ form'.n = form.n /\ form'.key = key /\ form'.last = form.value /\ form'.at = "open" /\ form'.pending
        /\ form'.value = form.value /\ form'.how = form.how /\ form'.failed = form.failed
        /\ form'.timer = form.timer /\ form' \in FormRecords
    BY <1>t, <1>4 DEF FormRecords
  <1>6. /\ sent'[form.n] = Append(sent[form.n], form.value) /\ Len(sent'[form.n]) = i
        /\ \A k \in 1 .. Len(sent[form.n]) : sent'[form.n][k] = sent[form.n][k]
        /\ sent'[form.n][i] = form.value
        /\ \A n \in 1 .. FormOpenings : n # form.n => sent'[n] = sent[n]
    BY <1>t, <1>2, <1>4
  <1>7. FormTyped'
    <2>1. sent' \in [1 .. FormOpenings -> Seq(Drafts)]
      BY <1>t, <1>4
    <2> QED
      BY <1>t, <1>4, <1>5, <2>1 DEF FormTyped
  <1>8. ASSUME NEW x \in asking \cup tasks, x.n = form.n
        PROVE  /\ x.i \in Nat /\ 1 <= x.i /\ x.i < i
               /\ \/ x.key = key /\ x.value = form.value
                  \/ x.key < key /\ Another(x.n, x.i, i, x.value)'
    <2>1. Submitted(x) /\ x.key \in Nat /\ x.i \in Nat
      BY <1>t DEF Submissions, FormTyped, AskRecords, MadeRecords
    <2>2. x.i \in 1 .. Len(sent[form.n]) /\ x.value # Form!Untouched
      BY <1>8, <2>1 DEF Submitted
    <2>3. CASE x.key = form.key /\ x.value = form.last
      <3>1. CASE form.last = form.value
        BY <1>1, <1>2, <2>2, <2>3, <3>1, <1>t, LenProperties DEF Form!Key
      <3>2. CASE form.last # form.value
        <4>1. key = form.key + 1
          BY <1>1, <2>2, <2>3, <3>2 DEF Form!Key
        <4>2. i \in x.i .. i /\ sent'[form.n][i] # x.value
          BY <1>2, <1>6, <2>2, <2>3, <3>2, <1>t, LenProperties
        <4> QED
          BY <1>2, <1>8, <2>1, <2>2, <2>3, <4>1, <4>2 DEF Another
      <3> QED
        BY <3>1, <3>2
    <2>4. CASE x.key < form.key /\ Another(x.n, x.i, Len(sent[x.n]), x.value)
      <3>1. PICK k \in x.i .. Len(sent[form.n]) : sent[form.n][k] # x.value
        BY <1>8, <2>4 DEF Another
      <3>2. k \in x.i .. i /\ sent'[form.n][k] # x.value
        BY <1>2, <1>6, <2>1, <2>2, <3>1, <1>t, LenProperties
      <3>3. key >= form.key
        BY <1>1, <1>t DEF Form!Key, FormRecords
      <3> QED
        BY <1>2, <1>8, <1>t, <2>1, <2>2, <2>4, <3>2, <3>3 DEF Another, FormRecords
    <2> QED
      BY <1>8, <1>t, <2>1, <2>3, <2>4 DEF Submitted
  <1>9. ASSUME NEW x \in asking \cup tasks PROVE Submitted(x)'
    <2>1. Submitted(x) /\ x.n \in 1 .. FormOpenings
      BY <1>t DEF Submissions, FormTyped, AskRecords, MadeRecords
    <2>2. CASE x.n # form.n
      BY <1>5, <1>6, <2>1, <2>2 DEF Submitted
    <2>3. CASE x.n = form.n
      <3>1. sent'[x.n][x.i] = x.value /\ x.i \in 1 .. Len(sent'[x.n])
        BY <1>6, <1>8, <2>1, <2>3 DEF Submitted
      <3> QED
        BY <1>5, <1>6, <1>8, <2>1, <2>3, <3>1 DEF Submitted, Another
    <2> QED
      BY <2>2, <2>3
  <1>10. Submitted(new)'
    BY <1>2, <1>3, <1>5, <1>6, <1>t DEF Submitted, FormRecords
  <1>11. ASSUME NEW x \in asking \cup tasks, NEW y \in asking \cup tasks PROVE Ordered(x, y)'
    <2>1. Ordered(x, y) /\ Submitted(x) /\ Submitted(y) /\ x.n \in 1 .. FormOpenings
          /\ x.i \in Nat /\ y.i \in Nat
      BY <1>t DEF Submissions, FormTyped, AskRecords, MadeRecords
    <2>2. CASE x.n # form.n
      BY <1>6, <2>1, <2>2 DEF Ordered, Another
    <2>3. CASE x.n = form.n /\ x.n = y.n /\ x.i < y.i /\ x.key # y.key
      <3>1. PICK k \in x.i .. y.i : sent[form.n][k] # x.value
        BY <2>1, <2>3 DEF Ordered, Another
      <3>2. k \in 1 .. Len(sent[form.n])
        BY <2>1, <2>3, <3>1, <1>t, LenProperties DEF Submitted
      <3> QED
        BY <1>6, <2>3, <3>1, <3>2 DEF Ordered, Another
    <2> QED
      BY <2>1, <2>2, <2>3 DEF Ordered
  <1>12. ASSUME NEW x \in asking \cup tasks PROVE Ordered(x, new)' /\ Ordered(new, x)'
    <2>1. new.n = form.n /\ new.i = i /\ new.key = key /\ new.value = form.value
      BY <1>3
    <2>2. x.n = form.n => x.key \in Nat /\ x.i \in Nat
      BY <1>t DEF FormTyped, AskRecords, MadeRecords
    <2> QED
      BY <1>8, <2>1, <2>2 DEF Ordered, Another
  <1>13. Submissions'
    BY <1>4, <1>9, <1>10, <1>11, <1>12, <1>t DEF Submissions, Ordered
  <1>14. ~strayed => DraftKept' /\ AwaitedHere'
    <2>1. ~strayed => ~\E r \in asking : r.live
      BY <1>4 DEF FormInv, AwaitedHere
    <2>2. ~strayed => \A r \in asking' : r.live => r = new
      BY <1>4, <2>1
    <2>3. ~strayed => AwaitedHere'
      <3>1. new.n = form'.n
        BY <1>3, <1>5
      <3> QED
        BY Zenon, <1>5, <2>2, <3>1 DEF AwaitedHere
    <2>4. ~strayed => DraftKept'
      BY <1>4, <1>5, <1>t DEF FormInv, DraftKept
    <2> QED
      BY <2>3, <2>4
  <1> QED
    BY <1>4, <1>5, <1>7, <1>13, <1>14 DEF FormInv

\* A step of the form alone, and of the draft that is kept.
LEMMA FormAlone ==
    ASSUME FormInv, form.at # "closed", NEW f \in FormRecords, form' = f,
           f.n = form.n, f.key = form.key, f.last = form.last, saved' \in Drafts, strayed' \in BOOLEAN,
           UNCHANGED <<sent, asking, tasks>>, f.at = "open" => f.how = "open",
           ~strayed' => ~strayed /\ DraftKept' /\ ((f.at = form.at /\ f.pending = form.pending) \/ ~form.pending)
    PROVE  FormInv'
  <1>1. FormTyped'
    BY DEF FormInv, FormTyped
  <1>2. Submissions'
    BY <1>1, SameSubmissions DEF FormInv, Submissions
  <1>3. ~strayed' => AwaitedHere'
    <2>1. ~strayed' => AwaitedHere /\ ((f.at = form.at /\ f.pending = form.pending) \/ ~form.pending)
      BY DEF FormInv
    <2>2. CASE f.at = form.at /\ f.pending = form.pending
      BY <2>1, <2>2 DEF AwaitedHere
    <2>3. CASE ~form.pending /\ ~strayed'
      <3>1. ~\E r \in asking : r.live
        BY <2>1, <2>3 DEF AwaitedHere
      <3> QED
        BY <3>1 DEF AwaitedHere
    <2> QED
      BY <2>1, <2>2, <2>3
  <1> QED
    BY <1>1, <1>2, <1>3 DEF FormInv

\* What an edit does to the form.
LEMMA PutFacts ==
    ASSUME NEW f \in FormRecords, NEW v \in Drafts
    PROVE  LET e == Form!Put(f, v) IN
           /\ e \in FormRecords /\ e.value = v /\ e.n = f.n /\ e.key = f.key /\ e.last = f.last /\ e.at = f.at
           /\ e.how = f.how /\ e.pending = f.pending /\ e.hot = f.hot
           /\ e.timer <=> v # Form!Untouched /\ f.how # "created"
  <1>1. PICK again \in BOOLEAN : again = (v # Form!Untouched /\ f.how # "created")
    OBVIOUS
  <1>2. PICK b \in BOOLEAN : b = (f.failed /\ ~again)
    OBVIOUS
  <1>3. Form!Put(f, v) = [f EXCEPT !.value = v, !.timer = again, !.failed = b]
    BY <1>1, <1>2 DEF Form!Put
  <1>4. PICK e : e = [f EXCEPT !.value = v, !.timer = again, !.failed = b]
    OBVIOUS
  <1>5. /\ e \in FormRecords /\ e.value = v /\ e.n = f.n /\ e.key = f.key /\ e.last = f.last /\ e.at = f.at
        /\ e.how = f.how /\ e.pending = f.pending /\ e.hot = f.hot /\ e.timer = again
    BY <1>4 DEF FormRecords
  <1> QED
    BY <1>1, <1>3, <1>4, <1>5

LEMMA EditKeeps ==
    ASSUME FormInv, NEW v \in Drafts, form.at = "open", form' = Form!Put(form, v),
           UNCHANGED <<saved, sent, asking, tasks, strayed>>
    PROVE  FormInv'
  <1>1. form \in FormRecords /\ form.how = "open" /\ saved \in Drafts /\ strayed \in BOOLEAN
    BY DEF FormInv, FormTyped
  <1>2. PICK e \in FormRecords :
           /\ form' = e /\ e.value = v /\ e.n = form.n /\ e.key = form.key /\ e.last = form.last /\ e.at = "open"
           /\ e.how = "open" /\ e.pending = form.pending /\ (v # Form!Untouched => e.timer)
    BY <1>1, PutFacts
  <1>3. DraftKept'
    BY <1>2 DEF DraftKept
  <1> QED
    BY <1>1, <1>2, <1>3, FormAlone

LEMMA AttachKeeps ==
    ASSUME FormInv, Form!Attach
    PROVE  FormInv'
  <1>1. form \in FormRecords /\ saved \in Drafts /\ strayed \in BOOLEAN /\ form.at \in {"open", "leaving"}
        /\ (form.at = "open" => form.how = "open")
    BY DEF FormInv, FormTyped, Form!Attach, FormRecords
  <1>2. PICK v \in Drafts : v = [form.value EXCEPT !.file = TRUE]
    BY <1>1 DEF FormRecords, Drafts
  <1>3. PICK e \in FormRecords :
           /\ e = Form!Put(form, v) /\ e.value = v /\ e.n = form.n /\ e.key = form.key /\ e.last = form.last
           /\ e.at = form.at /\ e.how = form.how /\ e.pending = form.pending
           /\ (e.timer <=> v # Form!Untouched /\ form.how # "created")
    BY <1>1, PutFacts
  <1>5. PICK hot \in BOOLEAN : hot = (e.hot \/ form.at = "leaving")
    OBVIOUS
  <1>6. PICK f : f = [e EXCEPT !.upload = FALSE, !.hot = hot]
    OBVIOUS
  <1>7. form' = f /\ UNCHANGED <<saved, sent, asking, tasks, strayed>>
    <2>1. form' = [e EXCEPT !.upload = FALSE, !.hot = (e.hot \/ form.at = "leaving")]
      BY <1>2, <1>3 DEF Form!Attach
    <2>2. form' = f
      BY <1>5, <1>6, <2>1
    <2> QED
      BY <2>2 DEF Form!Attach, Form!request
  <1>8. /\ f \in FormRecords /\ f.value = v /\ f.n = form.n /\ f.key = form.key /\ f.last = form.last
        /\ f.at = form.at /\ f.how = form.how /\ f.pending = form.pending /\ f.timer = e.timer /\ f.hot = hot
    BY <1>3, <1>6 DEF FormRecords
  <1>9. DraftKept'
    BY <1>1, <1>3, <1>5, <1>7, <1>8 DEF DraftKept
  <1> QED
    BY <1>1, <1>7, <1>8, <1>9, FormAlone

\* Saving, by the timer or the button.
LEMMA SaveKeeps ==
    ASSUME FormInv, form.at # "closed", Form!Save(form), UNCHANGED <<sent, asking, tasks, strayed>>,
           form.at = "leaving" => form.timer
    PROVE  FormInv'
  <1>1. form \in FormRecords /\ saved \in Drafts /\ strayed \in BOOLEAN /\ form.at \in {"open", "leaving"}
        /\ (form.at = "open" => form.how = "open") /\ form.value \in Drafts
    BY DEF FormInv, FormTyped, FormRecords
  <1>2. PICK failed \in BOOLEAN :
           /\ form' = [form EXCEPT !.timer = FALSE, !.failed = failed]
           /\ (~failed /\ saved' = form.value) \/ (failed /\ saved' = saved)
    BY DEF Form!Save, Form!Fault
  <1>3. PICK f : f = [form EXCEPT !.timer = FALSE, !.failed = failed]
    OBVIOUS
  <1>4. /\ f \in FormRecords /\ f.value = form.value /\ f.n = form.n /\ f.key = form.key /\ f.last = form.last
        /\ f.at = form.at /\ f.how = form.how /\ f.pending = form.pending /\ f.failed = failed /\ f.hot = form.hot
        /\ f.timer = FALSE
    BY <1>1, <1>3 DEF FormRecords
  <1>5. ~strayed => DraftKept'
    <2>1. CASE ~failed /\ saved' = form.value
      BY <1>1, <1>2, <1>3, <1>4, <2>1 DEF DraftKept, FormInv
    <2>2. CASE failed /\ saved' = saved
      BY <1>1, <1>2, <1>3, <1>4, <2>2 DEF DraftKept, FormInv
    <2> QED
      BY <1>2, <2>1, <2>2
  <1> QED
    BY <1>1, <1>2, <1>3, <1>4, <1>5, FormAlone

\* Asking before the form is left, or leaving it.
LEMMA LeaveFacts ==
    ASSUME NEW f \in FormRecords, NEW how \in {"left", "saved", "deleted", "created"}
    PROVE  LET e == Form!Leave(f, how) IN
           /\ e \in FormRecords /\ e.at = "leaving" /\ e.how = how /\ e.value = f.value /\ e.n = f.n
           /\ e.key = f.key /\ e.last = f.last /\ e.timer = f.timer /\ e.failed = f.failed /\ e.hot = f.hot
           /\ e.pending = f.pending
  BY DEF Form!Leave, FormRecords

LEMMA GuardedFacts ==
    ASSUME NEW f \in FormRecords, f.at = "open"
    PROVE  LET e == Form!Guarded(f) IN
           /\ e \in FormRecords /\ e.value = f.value /\ e.n = f.n /\ e.key = f.key /\ e.last = f.last
           /\ e.timer = f.timer /\ e.failed = f.failed /\ e.pending = f.pending
           /\ \/ e.at = "open" /\ e.how = f.how
              \/ e.at = "leaving" /\ e.how = "left" /\ f.value = Form!Untouched
  <1>1. CASE Form!Dirty(f)
    BY <1>1 DEF Form!Guarded, FormRecords
  <1>2. CASE ~Form!Dirty(f)
    BY <1>2, LeaveFacts DEF Form!Guarded, Form!Dirty
  <1> QED
    BY <1>1, <1>2

LEMMA GuardedKeeps ==
    ASSUME FormInv, form.at = "open", NEW f \in FormRecords, form' = Form!Guarded(f), f.at = "open",
           f.value = form.value, f.n = form.n, f.key = form.key, f.last = form.last, f.timer = form.timer,
           f.failed = form.failed, f.pending = form.pending, f.how = form.how, Form!Left,
           UNCHANGED <<saved, sent, asking, tasks>>
    PROVE  FormInv'
  <1>1. form \in FormRecords /\ form.how = "open" /\ saved \in Drafts /\ strayed \in BOOLEAN
    BY DEF FormInv, FormTyped
  <1>2. PICK e \in FormRecords :
           /\ form' = e /\ e.value = f.value /\ e.n = f.n /\ e.key = f.key /\ e.last = f.last
           /\ e.timer = f.timer /\ e.failed = f.failed /\ e.pending = f.pending
           /\ \/ e.at = "open" /\ e.how = f.how
              \/ e.at = "leaving" /\ e.how = "left" /\ f.value = Form!Untouched
    BY GuardedFacts
  <1>3. strayed' \in BOOLEAN /\ (~strayed' => ~strayed /\ (e.at = "leaving" => ~form.pending))
    BY <1>1, <1>2 DEF Form!Left
  <1>4. ~strayed' => DraftKept'
    BY <1>1, <1>2, <1>3 DEF FormInv, DraftKept
  <1> QED
    BY <1>1, <1>2, <1>3, <1>4, FormAlone

LEMMA SameForm ==
    ASSUME FormInv, UNCHANGED <<form, saved, sent, asking, tasks, strayed>>
    PROVE  FormInv'
  BY DEF FormInv, FormTyped, Submissions, Submitted, Ordered, Another, DraftKept, AwaitedHere

\* The answer to a request waits for its page, if that is still there.
LEMMA SettleFacts ==
    ASSUME FormTyped, NEW r \in asking, NEW done \in {"made", "refused"}, Form!Settle(r, done)
    PROVE  \A y \in asking' : /\ y \in AskRecords
                              /\ \/ y \in asking
                                 \/ /\ r.live /\ y.live /\ y.n = r.n /\ y.key = r.key
                                    /\ y.value = r.value /\ y.i = r.i /\ y = [r EXCEPT !.done = done]
  <1>1. r \in AskRecords
    BY DEF FormTyped
  <1>2. PICK q : q = [r EXCEPT !.done = done]
    OBVIOUS
  <1>3. /\ q \in AskRecords /\ q.live = r.live /\ q.n = r.n /\ q.key = r.key /\ q.value = r.value /\ q.i = r.i
        /\ asking' = (asking \ {r}) \cup (IF r.live THEN {q} ELSE {})
    BY <1>1, <1>2 DEF AskRecords, Form!Settle
  <1> QED
    BY <1>2, <1>3 DEF FormTyped, AskRecords

LEMMA ServeKeeps ==
    ASSUME FormInv, NEW r \in asking, Form!Serve(r)
    PROVE  FormInv'
  <1>t. /\ FormTyped /\ form \in FormRecords /\ r \in AskRecords /\ UNCHANGED <<form, saved, sent, strayed>>
    BY DEF FormInv, FormTyped, Form!Serve
  <1>1. PICK done \in {"made", "refused"} : Form!Settle(r, done)
    BY DEF Form!Serve, Form!Create
  <1>2. \A y \in asking' : /\ y \in AskRecords
                           /\ \/ y \in asking
                              \/ /\ r.live /\ y.live /\ y.n = r.n /\ y.key = r.key
                                 /\ y.value = r.value /\ y.i = r.i /\ y = [r EXCEPT !.done = done]
    BY <1>t, <1>1, SettleFacts
  <1>m. PICK m : m = [n |-> r.n, key |-> r.key, value |-> r.value, i |-> r.i]
    OBVIOUS
  <1>3. m \in MadeRecords /\ m.n = r.n /\ m.key = r.key /\ m.value = r.value /\ m.i = r.i
    BY <1>t, <1>m DEF AskRecords, MadeRecords
  <1>4. tasks' = tasks \/ (tasks' = tasks \cup {m} /\ Form!Before(r) = {})
    BY <1>m DEF Form!Serve, Form!Create
  <1>5. \A a, b \in tasks' : a.n = b.n /\ a.key = b.key => a = b
    <2>1. \A a, b \in tasks : a.n = b.n /\ a.key = b.key => a = b
      BY DEF FormInv, Submissions
    <2>2. Form!Before(r) = {} => \A a \in tasks : ~(a.n = m.n /\ a.key = m.key)
      BY <1>3 DEF Form!Before
    <2> QED
      BY <1>4, <2>1, <2>2
  <1>6. FormTyped'
    BY <1>t, <1>2, <1>3, <1>4 DEF FormTyped
  <1>7. \A y \in asking' \cup tasks' : \E x \in asking \cup tasks :
            x.n = y.n /\ x.key = y.key /\ x.value = y.value /\ x.i = y.i
    BY <1>2, <1>3, <1>4
  <1>8. form'.n \in Nat /\ form'.n = form.n /\ form'.key = form.key /\ form'.last = form.last
    BY <1>t DEF FormRecords
  <1>9. Submissions'
    BY <1>t, <1>5, <1>6, <1>7, <1>8, SameSubmissions DEF FormInv, FormRecords
  <1>10. ~strayed => AwaitedHere'
    <2> SUFFICES ASSUME ~strayed PROVE AwaitedHere'
      OBVIOUS
    <2>1. AwaitedHere
      BY DEF FormInv
    <2>2. \A y \in asking' : y.live => form.at = "open" /\ form.pending /\ y.n = form.n
      BY <1>2, <2>1 DEF AwaitedHere
    <2>3. r.live => \A y \in asking' : y.live => y = [r EXCEPT !.done = done]
      <3> SUFFICES ASSUME r.live, NEW y \in asking', y.live, y \in asking PROVE y = [r EXCEPT !.done = done]
        BY <1>2
      <3>1. y = r
        BY <2>1 DEF AwaitedHere
      <3>2. asking' = (asking \ {r}) \cup {[r EXCEPT !.done = done]}
        BY <1>1 DEF Form!Settle
      <3> QED
        BY <3>1, <3>2
    <2>4. ~r.live => \A y \in asking' : y \in asking
      BY <1>2
    <2>5. \A y, z \in asking' : y.live /\ z.live => y = z
      BY <2>1, <2>3, <2>4 DEF AwaitedHere
    <2> QED
      BY <1>t, <2>2, <2>5 DEF AwaitedHere
  <1> QED
    BY <1>t, <1>6, <1>9, <1>10 DEF FormInv, DraftKept

\* After an answer nothing waits any more, unless the form was left before it came.
LEMMA SucceedKeeps ==
    ASSUME FormInv, NEW r \in asking, Form!Succeed(r)
    PROVE  FormInv'
  <1>t. /\ FormTyped /\ form \in FormRecords /\ r \in AskRecords /\ form.at \in {"open", "leaving", "closed"}
        /\ UNCHANGED <<sent, tasks>> /\ asking' = asking \ {r} /\ r.live /\ saved' = Form!Untouched
        /\ strayed \in BOOLEAN /\ Form!Untouched \in Drafts
    BY DEF FormInv, FormTyped, FormRecords, Form!Succeed, Form!Spent, Form!Untouched, Drafts
  <1>1. PICK f \in FormRecords :
           /\ form' = f /\ f.n = form.n /\ f.key = form.key /\ f.last = form.last
           /\ f.at = "open" => form.at = "open" /\ f.how = form.how
           /\ form.at = "open" /\ form.n = r.n => f.at = "leaving" /\ f.how = "created" /\ (~f.hot => ~f.timer)
           /\ form.at = "closed" <=> f.at = "closed"
    <2>1. CASE form.at = "closed"
      BY <1>t, <2>1 DEF Form!Succeed
    <2>2. CASE form.at # "closed" /\ form.n = r.n
      <3>1. PICK e \in FormRecords : /\ e = Form!Leave(form, "created") /\ e.at = "leaving" /\ e.how = "created"
                                     /\ e.n = form.n /\ e.key = form.key /\ e.last = form.last /\ e.timer = form.timer
        BY <1>t, LeaveFacts
      <3>2. PICK hot \in BOOLEAN : hot = (e.hot \/ form.timer)
        OBVIOUS
      <3>3. form' = [e EXCEPT !.pending = FALSE, !.hot = (e.hot \/ form.timer)]
        BY <2>2, <3>1 DEF Form!Succeed
      <3>4. PICK f : f = [e EXCEPT !.pending = FALSE, !.hot = hot]
        OBVIOUS
      <3>5. /\ f \in FormRecords /\ f.at = "leaving" /\ f.how = "created" /\ f.n = form.n /\ f.key = form.key
            /\ f.last = form.last /\ f.timer = form.timer /\ f.hot = hot
        BY <3>1, <3>4 DEF FormRecords
      <3> QED
        BY <1>t, <2>2, <3>2, <3>3, <3>4, <3>5
    <2>3. CASE form.at = "open" /\ form.n # r.n
      <3>1. form' = Form!Guarded(form)
        BY <2>3 DEF Form!Succeed, Form!Open
      <3> QED
        BY <1>t, <2>3, <3>1, GuardedFacts
    <2>4. CASE form.at = "leaving" /\ form.n # r.n
      BY <1>t, <2>4 DEF Form!Succeed, Form!Open
    <2> QED
      BY <1>t, <2>1, <2>2, <2>3, <2>4
  <1>2. strayed' \in BOOLEAN /\ (~strayed' => ~strayed)
    BY <1>t DEF Form!Succeed, Form!Left
  <1>3. FormTyped'
    BY <1>t, <1>1, <1>2 DEF FormTyped
  <1>4. Submissions'
    <2>1. \A y \in asking' \cup tasks' : y \in asking \cup tasks
      BY <1>t
    <2>2. \A a, b \in tasks' : a.n = b.n /\ a.key = b.key => a = b
      BY <1>t DEF FormInv, Submissions
    <2>3. form'.n = form.n /\ form'.key = form.key /\ form'.last = form.last
          /\ form'.n \in Nat /\ (form.at = "closed" => form'.at = "closed")
      BY <1>1 DEF FormRecords
    <2> QED
      BY <1>t, <1>3, <2>1, <2>2, <2>3, SameSubmissions DEF FormInv
  <1>5. ~strayed' => AwaitedHere' /\ DraftKept'
    <2> SUFFICES ASSUME ~strayed' PROVE AwaitedHere' /\ DraftKept'
      OBVIOUS
    <2>1. AwaitedHere /\ DraftKept
      BY <1>2 DEF FormInv
    <2>2. form.at = "open" /\ form.n = r.n
      BY <1>t, <2>1 DEF AwaitedHere
    <2>3. \A q \in asking' : ~q.live
      BY <1>t, <2>1 DEF AwaitedHere
    <2> QED
      BY <1>t, <1>1, <2>2, <2>3 DEF AwaitedHere, DraftKept
  <1> QED
    BY <1>1, <1>3, <1>4, <1>5 DEF FormInv

LEMMA UnansweredKeeps ==
    ASSUME FormInv, NEW r \in asking, Form!Fail(r) \/ Form!Lose(r)
    PROVE  FormInv'
  <1>t. /\ FormTyped /\ form \in FormRecords /\ r \in AskRecords /\ r.live
        /\ UNCHANGED <<saved, sent, tasks, strayed>>
    BY DEF FormInv, FormTyped, Form!Fail, Form!Lose
  <1>1. PICK f \in FormRecords :
           /\ form' = f /\ f.n = form.n /\ f.key = form.key /\ f.last = form.last /\ f.at = form.at /\ f.how = form.how
           /\ f.value = form.value /\ f.timer = form.timer /\ f.failed = form.failed /\ f.hot = form.hot
    <2>1. form' = [form EXCEPT !.pending = FALSE] \/ form' = form
      BY DEF Form!Fail, Form!Lose, Form!Unpend
    <2>2. CASE form' = form
      BY <1>t, <2>2
    <2>3. CASE form' = [form EXCEPT !.pending = FALSE]
      <3>1. PICK f : f = [form EXCEPT !.pending = FALSE]
        OBVIOUS
      <3>2. /\ f \in FormRecords /\ f.n = form.n /\ f.key = form.key /\ f.last = form.last /\ f.at = form.at
            /\ f.how = form.how /\ f.value = form.value /\ f.timer = form.timer /\ f.failed = form.failed
            /\ f.hot = form.hot
        BY <1>t, <3>1 DEF FormRecords
      <3> QED
        BY <2>3, <3>1, <3>2
    <2> QED
      BY <2>1, <2>2, <2>3
  <1>d. PICK d : d = Form!Dead(r)
    OBVIOUS
  <1>2. /\ d \in AskRecords /\ d = Form!Dead(r) /\ ~d.live /\ d.n = r.n /\ d.key = r.key
        /\ d.value = r.value /\ d.i = r.i
    BY <1>t, <1>d DEF Form!Dead, AskRecords
  <1>3. asking' \subseteq (asking \ {r}) \cup {d}
    BY <1>2 DEF Form!Fail, Form!Lose
  <1>4. FormTyped'
    BY <1>t, <1>1, <1>2, <1>3 DEF FormTyped
  <1>5. Submissions'
    <2>1. \A y \in asking' \cup tasks' : \E x \in asking \cup tasks :
              x.n = y.n /\ x.key = y.key /\ x.value = y.value /\ x.i = y.i
      BY <1>t, <1>2, <1>3
    <2>2. \A a, b \in tasks' : a.n = b.n /\ a.key = b.key => a = b
      BY <1>t DEF FormInv, Submissions
    <2>3. form'.n = form.n /\ form'.key = form.key /\ form'.last = form.last /\ form'.n \in Nat
          /\ (form.at = "closed" => form'.at = "closed")
      BY <1>1 DEF FormRecords
    <2> QED
      BY <1>t, <1>4, <2>1, <2>2, <2>3, SameSubmissions DEF FormInv
  <1>6. ~strayed => AwaitedHere' /\ DraftKept'
    <2> SUFFICES ASSUME ~strayed PROVE AwaitedHere' /\ DraftKept'
      OBVIOUS
    <2>1. AwaitedHere /\ DraftKept
      BY DEF FormInv
    <2>2. \A q \in asking' : ~q.live
      BY <1>t, <1>2, <1>3, <2>1 DEF AwaitedHere
    <2> QED
      BY <1>t, <1>1, <2>1, <2>2 DEF AwaitedHere, DraftKept
  <1> QED
    BY <1>t, <1>1, <1>4, <1>5, <1>6 DEF FormInv

LEMMA FormStepKeeps ==
    ASSUME FormAssumption, FormInv, Form!Next \/ UNCHANGED Form!vars
    PROVE  FormInv'
  <1>t. /\ FormTyped /\ form \in FormRecords /\ form.value \in Drafts /\ saved \in Drafts /\ strayed \in BOOLEAN
        /\ form.at \in {"open", "leaving", "closed"} /\ (form.at = "open" => form.how = "open")
        /\ Form!Untouched \in Drafts
    BY DEF FormInv, FormTyped, FormRecords, Form!Untouched, Drafts
  <1>1. CASE Form!Start
    <2>1. PICK v \in Drafts :
             /\ form' = Form!Form(form.n + 1, v) /\ saved' \in Drafts /\ form.at = "closed" /\ form.n < FormOpenings
             /\ UNCHANGED <<sent, asking, tasks, strayed>>
      <3>1. [saved EXCEPT !.file = FALSE] \in Drafts
        BY <1>t DEF Drafts
      <3> QED
        BY <1>1, <1>t, <3>1 DEF Form!Start, Form!request
    <2>2. /\ form' \in FormRecords /\ form'.n = form.n + 1 /\ form'.at = "open" /\ form'.how = "open"
          /\ form'.value = v /\ (form'.timer <=> v # Form!Untouched)
      <3>1. PICK b \in BOOLEAN : b = (v # Form!Untouched)
        OBVIOUS
      <3>2. form' = [n |-> form.n + 1, at |-> "open", value |-> v, key |-> 0, last |-> Form!Untouched,
                     timer |-> b, failed |-> FALSE, upload |-> FALSE, closing |-> FALSE, ask |-> FALSE,
                     pending |-> FALSE, how |-> "open", hot |-> FALSE]
        BY <2>1, <3>1 DEF Form!Form
      <3>3. form.n + 1 \in Nat
        BY <1>t DEF FormRecords
      <3> QED
        BY <1>t, <3>1, <3>2, <3>3 DEF FormRecords
    <2>3. form'.n \in 1 .. FormOpenings /\ form'.n \in 0 .. FormOpenings /\ form'.n > form.n
      BY <1>t, <2>1, <2>2 DEF FormTyped, FormAssumption, FormRecords
    <2>4. FormTyped'
      BY <1>t, <2>1, <2>2, <2>3 DEF FormTyped
    <2>5. Submissions'
      BY <2>1, <2>3, <2>4, SameSubmissions, <1>t DEF FormInv, Submissions
    <2>6. ~strayed => \A r \in asking : ~r.live
      BY <2>1 DEF FormInv, AwaitedHere
    <2>7. ~strayed => AwaitedHere'
      BY <2>1, <2>6 DEF AwaitedHere
    <2>8. DraftKept'
      BY <2>2 DEF DraftKept
    <2> QED
      BY <2>1, <2>2, <2>4, <2>5, <2>7, <2>8 DEF FormInv
  <1>2. ASSUME NEW t \in Texts \cup {0}, Form!Edit(t) PROVE FormInv'
    <2>1. [form.value EXCEPT !.text = t] \in Drafts
      BY <1>t DEF Drafts
    <2> QED
      BY <1>2, <2>1, EditKeeps DEF Form!Edit, Form!OnTop, Form!Open, Form!request
  <1>3. CASE Form!Detach
    <2>1. [form.value EXCEPT !.file = FALSE] \in Drafts
      BY <1>t DEF Drafts
    <2> QED
      BY <1>3, <2>1, EditKeeps DEF Form!Detach, Form!OnTop, Form!Open, Form!request
  <1>4. CASE Form!BeginAttach \/ Form!RequestClose \/ Form!Continue
    <2>1. PICK u \in BOOLEAN, c \in BOOLEAN, a \in BOOLEAN :
             form' = [form EXCEPT !.upload = u, !.closing = c, !.ask = a]
      <3>1. form.upload \in BOOLEAN /\ form.closing \in BOOLEAN /\ form.ask \in BOOLEAN
        BY <1>t DEF FormRecords
      <3>2. CASE Form!BeginAttach
        <4>1. form' = [form EXCEPT !.upload = TRUE, !.closing = form.closing, !.ask = form.ask]
          BY <1>t, <3>2 DEF Form!BeginAttach, FormRecords
        <4> QED
          BY <3>1, <4>1
      <3>3. CASE Form!RequestClose
        <4>1. form' = [form EXCEPT !.upload = form.upload, !.closing = TRUE, !.ask = form.ask]
          BY <1>t, <3>3 DEF Form!RequestClose, FormRecords
        <4> QED
          BY <3>1, <4>1
      <3>4. CASE Form!Continue
        <4>1. form' = [form EXCEPT !.upload = form.upload, !.closing = form.closing, !.ask = FALSE]
          BY <1>t, <3>4 DEF Form!Continue, FormRecords
        <4> QED
          BY <3>1, <4>1
      <3> QED
        BY <1>4, <3>2, <3>3, <3>4
    <2>2. form.at = "open" /\ UNCHANGED <<saved, sent, asking, tasks, strayed>>
      BY <1>4 DEF Form!BeginAttach, Form!RequestClose, Form!Continue, Form!OnTop, Form!Open, Form!Asked, Form!request
    <2>3. PICK f : f = [form EXCEPT !.upload = u, !.closing = c, !.ask = a]
      OBVIOUS
    <2>4. /\ f \in FormRecords /\ f.value = form.value /\ f.n = form.n /\ f.key = form.key /\ f.last = form.last
          /\ f.at = form.at /\ f.how = form.how /\ f.pending = form.pending /\ f.failed = form.failed
          /\ f.timer = form.timer /\ f.hot = form.hot
      BY <1>t, <2>3 DEF FormRecords
    <2>5. ~strayed => DraftKept'
      BY <2>1, <2>2, <2>3, <2>4 DEF DraftKept, FormInv
    <2> QED
      BY <1>t, <2>1, <2>2, <2>3, <2>4, <2>5, FormAlone
  <1>5. CASE Form!Attach
    BY <1>5, AttachKeeps
  <1>6. CASE Form!Autosave \/ Form!SaveAgain
    BY <1>6, SaveKeeps DEF Form!Autosave, Form!SaveAgain, Form!OnTop, Form!Open, Form!request
  <1>7. CASE Form!Close \/ Form!Cancel \/ Form!Back
    <2>1. form.at = "open" /\ Form!Left /\ UNCHANGED <<saved, sent, asking, tasks>>
      BY <1>7 DEF Form!Close, Form!Cancel, Form!Back, Form!OnTop, Form!Open, Form!request
    <2>2. PICK f \in {form, [form EXCEPT !.closing = FALSE]} : form' = Form!Guarded(f)
      BY <1>7 DEF Form!Close, Form!Cancel, Form!Back
    <2>3. /\ f \in FormRecords /\ f.value = form.value /\ f.n = form.n /\ f.key = form.key /\ f.last = form.last
          /\ f.at = form.at /\ f.how = form.how /\ f.pending = form.pending /\ f.failed = form.failed
          /\ f.timer = form.timer
      BY <1>t, <2>2 DEF FormRecords
    <2> QED
      BY <2>1, <2>2, <2>3, GuardedKeeps
  <1>8. CASE Form!SaveAndLeave \/ Form!DeleteAndLeave
    <2>1. form.at = "open" /\ Form!Left /\ UNCHANGED <<sent, asking, tasks>>
      BY <1>8 DEF Form!SaveAndLeave, Form!DeleteAndLeave, Form!Asked, Form!Open, Form!request
    <2>a. PICK how \in {"saved", "deleted"}, hot \in BOOLEAN :
             /\ form' = [Form!Leave(form, how) EXCEPT !.hot = hot]
             /\ how = "saved" => saved' = form.value
             /\ how = "deleted" => saved' = Form!Untouched /\ hot = form.timer
      <3>1. CASE Form!SaveAndLeave
        <4>1. PICK f : f = Form!Leave(form, "saved")
          OBVIOUS
        <4>2. f = [f EXCEPT !.hot = form.hot] /\ form.hot \in BOOLEAN
          BY <1>t, <4>1, LeaveFacts DEF FormRecords
        <4> QED
          BY <3>1, <4>1, <4>2 DEF Form!SaveAndLeave
      <3>2. CASE Form!DeleteAndLeave
        BY <3>2, <1>t DEF Form!DeleteAndLeave, FormRecords
      <3> QED
        BY <1>8, <3>1, <3>2
    <2>f. PICK f : f = [Form!Leave(form, how) EXCEPT !.hot = hot]
      OBVIOUS
    <2>2. /\ form' = f /\ f = [Form!Leave(form, how) EXCEPT !.hot = hot]
          /\ how = "saved" => saved' = form.value
          /\ how = "deleted" => saved' = Form!Untouched /\ hot = form.timer
      BY <2>a, <2>f
    <2>3. PICK e \in FormRecords :
             /\ e = Form!Leave(form, how) /\ e.at = "leaving" /\ e.how = how /\ e.value = form.value /\ e.n = form.n
             /\ e.key = form.key /\ e.last = form.last /\ e.timer = form.timer
      BY <1>t, LeaveFacts
    <2>4. /\ f \in FormRecords /\ f.at = "leaving" /\ f.how = how /\ f.value = form.value /\ f.n = form.n
          /\ f.key = form.key /\ f.last = form.last /\ f.timer = form.timer /\ f.hot = hot
      BY <2>2, <2>3 DEF FormRecords
    <2>5. strayed' \in BOOLEAN /\ (~strayed' => ~strayed /\ ~form.pending)
      BY <1>t, <2>1, <2>2, <2>4 DEF Form!Left
    <2>6. DraftKept' /\ saved' \in Drafts
      BY <1>t, <2>2, <2>4 DEF DraftKept
    <2> QED
      BY <1>t, <2>1, <2>2, <2>4, <2>5, <2>6, FormAlone
  <1>9. CASE Form!Unmount \/ Form!Reload
    <2>1. PICK how \in {"open", "left", "saved", "deleted", "reloaded", "created"} :
             /\ form' = Form!Closed([form EXCEPT !.how = how])
             /\ UNCHANGED <<saved, sent, tasks, strayed>> /\ form.at # "closed"
             /\ \/ how = form.how /\ form.at = "leaving" /\ UNCHANGED asking
                \/ how = "reloaded" /\ asking' = {Form!Dead(r) : r \in {q \in asking : q.done = "no"}}
      <3>1. form = [form EXCEPT !.how = form.how]
            /\ form.how \in {"open", "left", "saved", "deleted", "reloaded", "created"}
        BY <1>t DEF FormRecords
      <3>2. CASE Form!Unmount
        BY <3>1, <3>2 DEF Form!Unmount, Form!request
      <3>3. CASE Form!Reload
        BY <3>3 DEF Form!Reload
      <3> QED
        BY <1>9, <3>2, <3>3
    <2>f. PICK f : f = [form EXCEPT !.how = how]
      OBVIOUS
    <2>2. f \in FormRecords /\ f.how = how /\ f.n = form.n /\ f.hot = form.hot
      BY <1>t, <2>f DEF FormRecords
    <2>3. form' \in FormRecords /\ form'.at = "closed" /\ form'.how = how /\ form'.n = form.n /\ form'.hot = form.hot
      <3>1. form' = Form!Closed(f)
        BY <2>1, <2>f
      <3>e. PICK e : e = Form!Form(f.n, Form!Untouched)
        OBVIOUS
      <3>b. PICK b \in BOOLEAN : b = (Form!Untouched # Form!Untouched)
        OBVIOUS
      <3>0. e = [n |-> f.n, at |-> "open", value |-> Form!Untouched, key |-> 0, last |-> Form!Untouched,
                 timer |-> b, failed |-> FALSE, upload |-> FALSE, closing |-> FALSE, ask |-> FALSE,
                 pending |-> FALSE, how |-> "open", hot |-> FALSE]
        BY <3>e, <3>b DEF Form!Form
      <3>2. e \in FormRecords /\ e.n = f.n
        BY <1>t, <2>2, <3>0 DEF FormRecords
      <3>3. form' = [e EXCEPT !.at = "closed", !.how = f.how, !.hot = f.hot]
        BY <3>1, <3>e DEF Form!Closed
      <3> QED
        BY <1>t, <2>2, <3>2, <3>3 DEF FormRecords
    <2>4. ASSUME NEW y \in asking'
          PROVE  y \in AskRecords /\ \E x \in asking : /\ x.n = y.n /\ x.key = y.key /\ x.value = y.value /\ x.i = y.i
                                                       /\ how = "reloaded" \/ y = x
      <3>1. CASE UNCHANGED asking
        BY <1>t, <3>1 DEF FormTyped
      <3>2. CASE how = "reloaded" /\ asking' = {Form!Dead(r) : r \in {q \in asking : q.done = "no"}}
        <4>1. PICK r \in asking : y = Form!Dead(r)
          BY <3>2
        <4> QED
          BY <1>t, <3>2, <4>1 DEF Form!Dead, FormTyped, AskRecords
      <3> QED
        BY <2>1, <3>1, <3>2
    <2>5. \A r \in asking' : ~strayed => ~r.live
      <3>1. CASE form.at = "leaving" /\ UNCHANGED asking
        BY <3>1 DEF FormInv, AwaitedHere
      <3>2. CASE asking' = {Form!Dead(r) : r \in {q \in asking : q.done = "no"}}
        BY <1>t, <3>2 DEF Form!Dead, FormTyped, AskRecords
      <3> QED
        BY <2>1, <3>1, <3>2
    <2>6. FormTyped'
      BY <1>t, <2>1, <2>3, <2>4 DEF FormTyped
    <2>7. Submissions'
      BY <1>t, <2>1, <2>3, <2>4, <2>6, SameSubmissions DEF FormInv, Submissions, FormRecords
    <2>8. ~strayed => DraftKept'
      <3>1. CASE how = form.how /\ form.at = "leaving"
        BY <2>1, <2>3, <3>1 DEF FormInv, DraftKept
      <3>2. CASE how = "reloaded"
        BY <2>3, <3>2 DEF DraftKept
      <3> QED
        BY <2>1, <3>1, <3>2
    <2>9. ~strayed => AwaitedHere'
      BY <2>5 DEF AwaitedHere
    <2> QED
      BY <2>1, <2>3, <2>6, <2>7, <2>8, <2>9 DEF FormInv
  <1>10. CASE Form!Submit
    BY <1>10, SubmitKeeps
  <1>11. ASSUME NEW r \in asking, Form!Serve(r) PROVE FormInv'
    BY <1>11, ServeKeeps
  <1>12. ASSUME NEW r \in asking, Form!Succeed(r) PROVE FormInv'
    BY <1>12, SucceedKeeps
  <1>13. ASSUME NEW r \in asking, Form!Fail(r) \/ Form!Lose(r) PROVE FormInv'
    BY <1>13, UnansweredKeeps
  <1>14. CASE UNCHANGED Form!vars
    BY <1>14, SameForm DEF Form!vars
  <1> QED
    BY <1>1, <1>2, <1>3, <1>4, <1>5, <1>6, <1>7, <1>8, <1>9, <1>10, <1>11, <1>12, <1>13, <1>14 DEF Form!Next

LEMMA FormInvImplies ==
    ASSUME FormInv
    PROVE  Form!TypeOK /\ Form!OneTaskPerChange /\ Form!KeptOnDevice /\ Form!SpentDraftGone
  <1>t. /\ FormTyped /\ form \in FormRecords /\ form.at \in {"open", "leaving", "closed"} /\ saved \in Drafts
        /\ form.value \in Drafts /\ Submissions /\ asking \in SUBSET AskRecords /\ tasks \in SUBSET MadeRecords
    BY DEF FormInv, FormTyped, FormRecords
  <1>1. Form!TypeOK
    BY <1>t DEF Form!TypeOK, FormTyped, Drafts
  <1>2. Form!OneTaskPerChange
    <2>1. ASSUME NEW a \in tasks, NEW b \in tasks, a.n = b.n, a.value = b.value, a.i < b.i
          PROVE  \E k \in a.i .. b.i : sent[a.n][k] # a.value
      <3>1. a.i \in Nat /\ b.i \in Nat
        BY <1>t DEF MadeRecords
      <3>2. a.key # b.key
        BY <1>t, <2>1, <3>1 DEF Submissions
      <3>3. Ordered(a, b)
        BY <1>t DEF Submissions
      <3> QED
        BY <2>1, <3>2, <3>3 DEF Ordered, Another
    <2>2. ASSUME NEW r \in asking, NEW m \in Form!Before(r) PROVE m.value = r.value
      <3>1. m \in tasks /\ m.n = r.n /\ m.key = r.key
        BY DEF Form!Before
      <3>2. m.i \in Nat /\ r.i \in Nat
        BY <1>t, <3>1 DEF MadeRecords, AskRecords
      <3>3. Ordered(m, r) /\ Ordered(r, m) /\ Submitted(m) /\ Submitted(r)
        BY <1>t, <3>1 DEF Submissions
      <3>4. m.i < r.i \/ r.i < m.i \/ m.i = r.i
        BY <3>2
      <3> QED
        BY <3>1, <3>3, <3>4 DEF Ordered, Submitted
    <2> QED
      BY <2>1, <2>2 DEF Form!OneTaskPerChange
  <1>3. Form!KeptOnDevice
    BY DEF FormInv, DraftKept, Form!KeptOnDevice, Form!Open, Form!Dirty
  <1>4. Form!SpentDraftGone
    BY DEF FormInv, DraftKept, Form!SpentDraftGone
  <1> QED
    BY <1>1, <1>2, <1>3, <1>4

\* Only the question, a created task and an untouched form let the form go.
LEMMA FormNeverLeft ==
    ASSUME FormInv, Form!Next \/ UNCHANGED Form!vars
    PROVE  Form!NeverLeftUnasked
  <1> SUFFICES ASSUME form.at = "open", form'.at = "leaving", form.value # Form!Untouched
               PROVE  form.ask \/ form'.how = "created"
    BY DEF Form!NeverLeftUnasked, Form!Open, Form!Dirty
  <1>t. form \in FormRecords
    BY DEF FormInv, FormTyped
  <1>1. ASSUME NEW f \in FormRecords, f.at = "open", f.value = form.value, form' = Form!Guarded(f) PROVE FALSE
    BY <1>1, GuardedFacts
  <1>2. CASE Form!Close \/ Form!Cancel \/ Form!Back
    <2>1. PICK f : f = [form EXCEPT !.closing = FALSE]
      OBVIOUS
    <2>2. f \in FormRecords /\ f.at = "open" /\ f.value = form.value
      BY <1>t, <2>1 DEF FormRecords
    <2>3. form' = Form!Guarded(form) \/ form' = Form!Guarded(f)
      BY <1>2, <2>1 DEF Form!Close, Form!Cancel, Form!Back
    <2> QED
      BY <1>1, <1>t, <2>2, <2>3
  <1>3. CASE Form!SaveAndLeave \/ Form!DeleteAndLeave
    BY <1>3 DEF Form!SaveAndLeave, Form!DeleteAndLeave, Form!Asked
  <1>4. ASSUME NEW r \in asking, Form!Succeed(r) PROVE form'.how = "created"
    <2>1. CASE form.n = r.n
      <3>1. PICK e \in FormRecords : e = Form!Leave(form, "created") /\ e.how = "created"
        BY <1>t, LeaveFacts
      <3>2. form' = [e EXCEPT !.pending = FALSE, !.hot = (e.hot \/ form.timer)]
        BY <1>4, <2>1, <3>1 DEF Form!Succeed
      <3> QED
        BY <3>1, <3>2 DEF FormRecords
    <2>2. CASE form.n # r.n
      <3>1. form' = Form!Guarded(form)
        BY <1>4, <2>2 DEF Form!Succeed, Form!Open
      <3> QED
        BY <1>1, <1>t, <3>1
    <2> QED
      BY <2>1, <2>2
  <1>5. ASSUME NEW e, e.at = form.at, form' = e PROVE FALSE
    BY <1>5
  <1>6. ASSUME NEW v \in Drafts, form' = Form!Put(form, v) PROVE FALSE
    BY <1>6, <1>t, PutFacts
  <1>7. ASSUME NEW t \in Texts \cup {0}, Form!Edit(t) \/ Form!Detach PROVE FALSE
    <2>1. [form.value EXCEPT !.text = t] \in Drafts /\ [form.value EXCEPT !.file = FALSE] \in Drafts
      BY <1>t DEF FormRecords, Drafts
    <2> QED
      BY <1>6, <1>7, <2>1 DEF Form!Edit, Form!Detach
  <1>8. CASE Form!Attach
    <2>1. PICK v \in Drafts : v = [form.value EXCEPT !.file = TRUE]
      BY <1>t DEF FormRecords, Drafts
    <2>2. PICK e \in FormRecords : e = Form!Put(form, v) /\ e.at = form.at
      BY <1>t, PutFacts
    <2>3. form' = [e EXCEPT !.upload = FALSE, !.hot = (e.hot \/ form.at = "leaving")]
      BY <1>8, <2>1, <2>2 DEF Form!Attach
    <2> QED
      BY <2>2, <2>3 DEF FormRecords
  <1>9. CASE Form!BeginAttach \/ Form!RequestClose \/ Form!Continue \/ Form!Autosave \/ Form!SaveAgain \/ Form!Submit
             \/ \E r \in asking : Form!Serve(r) \/ Form!Fail(r) \/ Form!Lose(r)
    BY <1>9, <1>t DEF FormRecords, Form!BeginAttach, Form!RequestClose, Form!Continue, Form!Autosave, Form!SaveAgain,
                      Form!Save, Form!Submit, Form!Serve, Form!Fail, Form!Lose, Form!Unpend
  <1>10. CASE Form!Start \/ Form!Unmount \/ Form!Reload \/ UNCHANGED Form!vars
    BY <1>10 DEF Form!Start, Form!Unmount, Form!Reload, Form!Closed, Form!vars, Form!Form
  <1> QED
    BY <1>2, <1>3, <1>4, <1>7, <1>8, <1>9, <1>10 DEF Form!Next

-----------------------------------------------------------------------------
(* The drawer: what it has read is never newer than the task, a number is   *)
(* accepted once, and an edit holds what its version had.                   *)

task   == x1
shown  == x2
fetch  == x3
people == x4
work   == x5
edit   == x6
dirty  == x7
drawer == x8
wire   == x9
log    == x10
USE DEF task, shown, fetch, people, work, edit, dirty, drawer, wire, log

TaskRecords == [v : Nat, val : [Drawer!Fields -> Values], comments : Nat, more : BOOLEAN]
WorkRecords == [open : BOOLEAN, text : 0 .. DrawerChanges, last : 0 .. DrawerChanges, ok : Nat,
                pending : BOOLEAN, late : BOOLEAN]
EditRecords == [val : [Drawer!Fields -> Values \cup {0}], touched : SUBSET Drawer!Fields,
                stale : BOOLEAN, guess : SUBSET Drawer!Fields]
WireRecords == [i : Drawer!Forms \cup {"tick"}, n : 0 .. DrawerChanges, v : Nat, k : Nat,
                done : {"no", "made", "refused"}, edit : EditRecords]
EntryRecords == [i : Drawer!Forms \cup {"tick"}, n : 0 .. DrawerChanges, k : Nat]
LogRecords  == [made : SUBSET EntryRecords, changes : 0 .. DrawerChanges, sends : Nat, others : Nat,
                lost : Nat, lists : Nat]
FetchRecords == [at : {"none", "asked", "read"}, task : TaskRecords \cup {0}]

DrawerTyped ==
    /\ task \in TaskRecords /\ shown \in TaskRecords /\ people \in SUBSET Values
    /\ fetch \in FetchRecords /\ (fetch.at = "read" => fetch.task \in TaskRecords)
    /\ work \in [Drawer!Forms -> WorkRecords] /\ edit \in EditRecords
    /\ dirty \in SUBSET (Kept \cup Closing) /\ drawer \in {"open", "asking", "left"}
    /\ wire \in SUBSET WireRecords /\ log \in LogRecords

\* Two readings of the task, the older one first.
OlderFirst(a, b) == a.v <= b.v /\ (a.v = b.v => a.val = b.val)
Readings ==
    /\ OlderFirst(shown, task) /\ \A r \in wire : r.v <= task.v
    /\ fetch.at = "read" => OlderFirst(shown, fetch.task) /\ OlderFirst(fetch.task, task)

\* What the drawer has made is shown, or will be read.
Reread ==
    drawer # "left" /\ log.lost = 0 /\ log.others = 0 =>
        \/ \E r \in wire : r.done = "made"
        \/ fetch.at = "asked" \/ (fetch.at = "read" /\ fetch.task = task) \/ (fetch.at = "none" /\ shown = task)

Requests ==
    /\ \A r, q \in wire : r.k = q.k \/ (r.i = q.i /\ r.i \in Drawer!Forms) => r = q
    /\ \A r \in wire : r.k <= log.sends /\ (r.i \in Drawer!Forms => work[r.i].pending /\ r.n <= work[r.i].last)
    /\ \A r \in wire : r.i = "edit" => r.edit.val \in [Drawer!Fields -> Values]
    /\ \A i \in Drawer!Forms : /\ work[i].text <= work[i].last /\ work[i].last <= log.changes
                               /\ work[i].ok <= work[i].last

\* A number of a form that is emptied or goes away is made once, unless an answer is lost.
Made(i, n) == \E m \in log.made : m.i = i /\ m.n = n
MadeOnce ==
    /\ \A m \in log.made : m.i \in Drawer!Forms => m.n <= work[m.i].last
    /\ log.lost = 0 =>
        /\ \A r \in wire : r.done = "no" /\ r.i \in Boxes \cup Closing /\ r.n # 0 => ~Made(r.i, r.n)
        /\ \A i \in Boxes \cup Closing : work[i].text # 0 /\ Made(i, work[i].text) =>
               \E r \in wire : r.i = i /\ r.done = "made"
        /\ \A a, b \in log.made : a.i = b.i /\ a.i \in Boxes \cup Closing /\ a.n = b.n /\ a.n # 0 => a = b

MarkedAll ==
    /\ \A i \in Kept \cup Closing : i \in dirty \/ work[i].text \in {0, work[i].ok} \/ work[i].late
    /\ \A r \in wire : r.i \in Kept => r.n = work[r.i].text \/ work[r.i].late

\* What was not touched in an edit is as in the reading it belongs to.
Fits(e, f, val) == \/ e.val[f] = val[f] \/ (e.stale /\ f \in Fixed \cup Listed) \/ f \in e.guess
                   \/ (f \in Timed /\ val[f] \notin Minutes)
UntouchedFit ==
    /\ Drawer!Editing => \A f \in Drawer!Fields \ edit.touched : Fits(edit, f, shown.val)
    /\ \A r \in wire : r.i = "edit" /\ r.v = task.v => \A f \in Drawer!Fields \ r.edit.touched : Fits(r.edit, f, task.val)

DrawerInv == DrawerTyped /\ Readings /\ Reread /\ Requests /\ MadeOnce /\ MarkedAll /\ UntouchedFit

LEMMA InitDrawer == DrawerAssumption /\ Drawer!Init => DrawerInv
  <1> SUFFICES ASSUME DrawerAssumption, Drawer!Init PROVE DrawerInv
    OBVIOUS
  <1>w. /\ Initial \in Values /\ DrawerChanges \in Nat /\ "tick" \notin Drawer!Forms
        /\ 0 \in 0 .. DrawerChanges
    BY DEF DrawerAssumption, Drawer!Wellformed
  <1>1. task \in TaskRecords /\ shown = task /\ wire = {} /\ dirty = {} /\ drawer = "open" /\ people = {}
    BY <1>w DEF Drawer!Init, TaskRecords
  <1>2. fetch \in FetchRecords /\ fetch.at = "none"
    BY DEF Drawer!Init, Drawer!Quiet, Drawer!Empty, FetchRecords
  <1>3. /\ work \in [Drawer!Forms -> WorkRecords]
        /\ \A i \in Drawer!Forms : /\ work[i].text = 0 /\ work[i].last = 0 /\ work[i].ok = 0
                                   /\ work[i].open = (i \notin Closing)
    <2>1. ASSUME NEW i \in Drawer!Forms, NEW b \in BOOLEAN, b = (i \notin Closing)
          PROVE  /\ [Drawer!Blank EXCEPT !.open = b] \in WorkRecords
                 /\ work[i] = [Drawer!Blank EXCEPT !.open = b]
                 /\ work[i].text = 0 /\ work[i].last = 0 /\ work[i].ok = 0 /\ work[i].open = b
      <3>1. PICK e : e = [Drawer!Blank EXCEPT !.open = b]
        OBVIOUS
      <3>2. e \in WorkRecords /\ e.text = 0 /\ e.last = 0 /\ e.ok = 0 /\ e.open = b
        BY <1>w, <3>1 DEF Drawer!Blank, WorkRecords
      <3>3. work[i] = [Drawer!Blank EXCEPT !.open = i \notin Closing]
        BY DEF Drawer!Init
      <3> QED
        BY <2>1, <3>1, <3>2, <3>3
    <2>2. \A i \in Drawer!Forms : \E b \in BOOLEAN : b = (i \notin Closing)
      OBVIOUS
    <2>3. DOMAIN work = Drawer!Forms /\ work = [i \in Drawer!Forms |-> work[i]]
      BY DEF Drawer!Init
    <2>4. \A i \in Drawer!Forms : work[i] \in WorkRecords
      BY <2>1, <2>2
    <2> QED
      BY <2>1, <2>2, <2>3, <2>4
  <1>4. edit \in EditRecords
    BY DEF Drawer!Init, Drawer!NoEdit, Drawer!Empty, EditRecords
  <1>5. log \in LogRecords /\ log.made = {} /\ log.changes = 0 /\ log.sends = 0
    BY <1>w DEF Drawer!Init, LogRecords
  <1>6. DrawerTyped
    BY <1>1, <1>2, <1>3, <1>4, <1>5 DEF DrawerTyped
  <1>7. Readings /\ Reread
    BY <1>1, <1>2 DEF Readings, OlderFirst, Reread, TaskRecords
  <1>8. Requests /\ MadeOnce /\ MarkedAll
    BY <1>1, <1>3, <1>5 DEF Requests, MadeOnce, Made, MarkedAll, Drawer!Forms
  <1>9. UntouchedFit
    BY <1>1, <1>3 DEF UntouchedFit, Drawer!Editing, Drawer!Forms
  <1> QED
    BY <1>6, <1>7, <1>8, <1>9 DEF DrawerInv

\* Reading: a re-read is asked for, made, and comes in.
LEMMA FetchKeeps ==
    ASSUME DrawerInv, Drawer!BeginFetch \/ Drawer!Read
    PROVE  DrawerInv'
  <1>1. /\ UNCHANGED <<task, shown, people, work, edit, dirty, drawer, wire, log>>
        /\ \/ fetch.at = "none" /\ fetch' = Drawer!Asked
           \/ fetch.at = "asked" /\ fetch' = [at |-> "read", task |-> task]
    BY DEF Drawer!BeginFetch, Drawer!Read, Drawer!typing
  <1>2. fetch' \in FetchRecords /\ \/ fetch.at = "none" /\ fetch'.at = "asked"
                                   \/ fetch.at = "asked" /\ fetch'.at = "read" /\ fetch'.task = task
    BY <1>1 DEF Drawer!Asked, Drawer!Empty, FetchRecords, DrawerInv, DrawerTyped
  <1>3. DrawerTyped'
    BY <1>1, <1>2 DEF DrawerInv, DrawerTyped
  <1>4. Readings' /\ Reread'
    BY <1>1, <1>2 DEF DrawerInv, DrawerTyped, Readings, Reread, OlderFirst, TaskRecords
  <1>5. Requests' /\ MadeOnce' /\ MarkedAll' /\ UntouchedFit'
    BY <1>1 DEF DrawerInv, Requests, MadeOnce, Made, MarkedAll, UntouchedFit, Drawer!Editing
  <1> QED
    BY <1>3, <1>4, <1>5 DEF DrawerInv

\* A control holds a value, and the value it is given unless it has to cut it.
LEMMA NearestIs ==
    ASSUME NEW S, S # {}, NEW x
    PROVE  Drawer!Nearest(S, x) \in S /\ (x \in S => Drawer!Nearest(S, x) = x)
  BY DEF Drawer!Nearest

LEMMA CutIs ==
    ASSUME DrawerAssumption, NEW f, NEW x \in Values
    PROVE  Drawer!Cut(f, x) \in Values /\ (Drawer!Cut(f, x) = x \/ (f \in Timed /\ x \notin Minutes))
  <1>1. Minutes # {} /\ Minutes \subseteq Values
    BY DEF DrawerAssumption, Drawer!Wellformed
  <1> QED
    BY <1>1, NearestIs DEF Drawer!Cut

LEMMA ArriveKeeps ==
    ASSUME DrawerAssumption, DrawerInv, Drawer!Arrive
    PROVE  DrawerInv'
  <1>1. /\ UNCHANGED <<task, people, work, dirty, drawer, wire, log>> /\ fetch.at = "read" /\ shown' = fetch.task
        /\ fetch' = Drawer!Quiet
    BY DEF Drawer!Arrive
  <1>2. fetch' \in FetchRecords /\ fetch'.at = "none" /\ shown' \in TaskRecords
    BY <1>1 DEF Drawer!Quiet, Drawer!Empty, FetchRecords, DrawerInv, DrawerTyped
  <1>3. PICK stale \in BOOLEAN : stale = (edit.stale \/ fetch.task.v # shown.v)
    OBVIOUS
  <1>4. PICK val : val = Drawer!Synced(fetch.task.val)
    OBVIOUS
  <1>5. /\ val \in [Drawer!Fields -> Values \cup {0}]
        /\ \A f \in Drawer!Fields : val[f] = IF f \in Typed \ edit.touched
                                             THEN Drawer!Cut(f, fetch.task.val[f]) ELSE edit.val[f]
    <2>1. \A f \in Drawer!Fields : fetch.task.val[f] \in Values /\ edit.val[f] \in Values \cup {0}
      BY <1>1 DEF DrawerInv, DrawerTyped, EditRecords, TaskRecords
    <2>2. \A f \in Drawer!Fields : Drawer!Cut(f, fetch.task.val[f]) \in Values
      BY <2>1, CutIs
    <2> QED
      BY <1>4, <2>1, <2>2 DEF Drawer!Synced
  <1>6. PICK e : e = IF Drawer!Editing THEN [edit EXCEPT !.val = val, !.stale = stale] ELSE edit
    OBVIOUS
  <1>7. edit' = e
    <2>1. edit' = IF Drawer!Editing
                  THEN [edit EXCEPT !.val = val, !.stale = (edit.stale \/ fetch.task.v # shown.v)]
                  ELSE edit
      BY <1>4 DEF Drawer!Arrive
    <2> QED
      BY <1>3, <1>6, <2>1
  <1>8. e \in EditRecords /\ (Drawer!Editing => /\ e.val = val /\ e.stale = stale
                                                /\ e.touched = edit.touched /\ e.guess = edit.guess)
    BY <1>5, <1>6 DEF EditRecords, DrawerInv, DrawerTyped
  <1>9. DrawerTyped'
    BY <1>1, <1>2, <1>7, <1>8 DEF DrawerInv, DrawerTyped
  <1>10. Readings' /\ Reread'
    BY <1>1, <1>2 DEF DrawerInv, DrawerTyped, Readings, Reread, OlderFirst, TaskRecords
  <1>11. Requests' /\ MadeOnce' /\ MarkedAll'
    BY <1>1 DEF DrawerInv, Requests, MadeOnce, Made, MarkedAll
  <1>12. UntouchedFit'
    <2>1. ASSUME Drawer!Editing, NEW f \in Drawer!Fields \ edit.touched
          PROVE  Fits(e, f, fetch.task.val)
      <3>1. Fits(edit, f, shown.val)
        BY <2>1 DEF DrawerInv, UntouchedFit
      <3>2. CASE f \in Typed
        <4>1. fetch.task.val[f] \in Values
          BY <1>1, <2>1 DEF DrawerInv, DrawerTyped, TaskRecords
        <4> QED
          BY <1>5, <1>8, <2>1, <3>2, <4>1, CutIs DEF Fits
      <3>3. CASE f \notin Typed /\ fetch.task.v # shown.v
        BY <1>3, <1>8, <2>1, <3>3 DEF Fits, Drawer!Fields
      <3>4. CASE f \notin Typed /\ fetch.task.v = shown.v
        <4>1. fetch.task.val = shown.val
          BY <1>1, <3>4 DEF DrawerInv, Readings, OlderFirst
        <4>2. e.val[f] = edit.val[f]
          BY <1>5, <1>8, <2>1, <3>4
        <4>3. e.guess = edit.guess /\ (edit.stale => e.stale)
          <5>1. edit.stale => stale
            BY <1>3, Zenon
          <5> QED
            BY <1>8, <2>1, <5>1, Zenon
        <4> QED
          BY <3>1, <4>1, <4>2, <4>3, Zenon DEF Fits
      <3> QED
        BY <3>2, <3>3, <3>4
    <2>2. Drawer!Editing' = Drawer!Editing
      BY <1>1 DEF Drawer!Editing
    <2>3. Drawer!Editing => edit'.touched = edit.touched
      BY <1>7, <1>8
    <2>4. ASSUME Drawer!Editing', NEW f \in Drawer!Fields \ edit'.touched
          PROVE  Fits(edit', f, shown'.val)
      BY <1>1, <1>7, <2>1, <2>2, <2>3, <2>4 DEF Fits
    <2>5. \A r \in wire' : r.i = "edit" /\ r.v = task'.v =>
              \A f \in Drawer!Fields \ r.edit.touched : Fits(r.edit, f, task'.val)
      BY <1>1 DEF DrawerInv, UntouchedFit
    <2> QED
      BY <2>4, <2>5 DEF UntouchedFit, Fits
  <1> QED
    BY <1>9, <1>10, <1>11, <1>12 DEF DrawerInv

LEMMA LoadKeeps ==
    ASSUME DrawerAssumption, DrawerInv, Drawer!Load
    PROVE  DrawerInv'
  <1>0. PICK list \in SUBSET Values :
          /\ list # {} /\ people' = list /\ log' = [log EXCEPT !.lists = IF people = {} THEN @ ELSE @ + 1]
          /\ edit' = IF Drawer!Editing
                     THEN [edit EXCEPT !.val = Drawer!Picks(list), !.guess = @ \cup Drawer!Gone(list)]
                     ELSE edit
    BY Zenon DEF Drawer!Load
  <1>1. UNCHANGED <<task, shown, fetch, work, dirty, drawer, wire>>
    BY DEF Drawer!Load
  <1>2. /\ log' \in LogRecords /\ log'.made = log.made /\ log'.changes = log.changes
        /\ log'.sends = log.sends /\ log'.others = log.others /\ log'.lost = log.lost
    <2>0. PICK n : n = IF people = {} THEN log.lists ELSE log.lists + 1
      OBVIOUS
    <2>1. n \in Nat /\ log' = [log EXCEPT !.lists = n]
      BY <1>0, <2>0 DEF DrawerInv, DrawerTyped, LogRecords
    <2> QED
      BY <2>1 DEF DrawerInv, DrawerTyped, LogRecords
  <1>3. edit \in EditRecords /\ Drawer!Gone(list) \subseteq Drawer!Fields
    BY DEF DrawerInv, DrawerTyped, Drawer!Gone, Drawer!Fields
  <1>4. PICK val : /\ val = Drawer!Picks(list)
                   /\ val = [f \in Drawer!Fields |-> IF f \in Listed THEN Drawer!Nearest(list, edit.val[f])
                                                      ELSE edit.val[f]]
    BY DEF Drawer!Picks
  <1>5. val \in [Drawer!Fields -> Values \cup {0}]
    <2>1. \A x : Drawer!Nearest(list, x) \in Values
      BY <1>0, NearestIs
    <2> QED
      BY <1>3, <1>4, <2>1 DEF EditRecords
  <1>g. PICK guess : guess = edit.guess \cup Drawer!Gone(list)
    OBVIOUS
  <1>6. PICK e : e = IF Drawer!Editing THEN [edit EXCEPT !.val = val, !.guess = guess] ELSE edit
    OBVIOUS
  <1>7. edit' = e
    BY <1>0, <1>3, <1>4, <1>6, <1>g DEF EditRecords
  <1>8. e \in EditRecords /\ (Drawer!Editing => /\ e.val = val /\ e.guess = guess
                                                /\ e.touched = edit.touched /\ e.stale = edit.stale)
    BY <1>3, <1>5, <1>6, <1>g DEF EditRecords
  <1>9. DrawerTyped'
    BY <1>0, <1>1, <1>2, <1>7, <1>8 DEF DrawerInv, DrawerTyped
  <1>10. Readings' /\ Reread' /\ Requests' /\ MadeOnce' /\ MarkedAll'
    BY <1>1, <1>2 DEF DrawerInv, Readings, Reread, Requests, MadeOnce, Made, MarkedAll
  <1>11. ASSUME Drawer!Editing, NEW f \in Drawer!Fields \ edit.touched PROVE Fits(e, f, shown.val)
    <2>1. Fits(edit, f, shown.val)
      BY <1>11 DEF DrawerInv, UntouchedFit
    <2>2. e.val[f] = edit.val[f] \/ f \in guess
      BY <1>4, <1>8, <1>11, <1>g, NearestIs DEF Drawer!Gone
    <2>3. e.guess = guess /\ edit.guess \subseteq guess /\ e.stale = edit.stale
      BY <1>8, <1>11, <1>g
    <2> QED
      BY <2>1, <2>2, <2>3 DEF Fits
  <1>12. UntouchedFit'
    <2>1. Drawer!Editing' = Drawer!Editing
      BY <1>1 DEF Drawer!Editing
    <2>2. ASSUME Drawer!Editing', NEW f \in Drawer!Fields \ edit'.touched PROVE Fits(edit', f, shown'.val)
      BY <1>1, <1>7, <1>8, <1>11, <2>1, <2>2 DEF Fits
    <2>3. \A r \in wire' : r.i = "edit" /\ r.v = task'.v =>
              \A f \in Drawer!Fields \ r.edit.touched : Fits(r.edit, f, task'.val)
      BY <1>1 DEF DrawerInv, UntouchedFit
    <2> QED
      BY <2>2, <2>3 DEF UntouchedFit, Fits
  <1> QED
    BY <1>9, <1>10, <1>12 DEF DrawerInv

\* A step of one form: what is typed into it and whether it is there.
LEMMA FormAtWork ==
    ASSUME DrawerInv, NEW i \in Drawer!Forms, NEW w \in WorkRecords, work' = [work EXCEPT ![i] = w]
    PROVE  /\ work' \in [Drawer!Forms -> WorkRecords] /\ work'[i] = w
           /\ \A j \in Drawer!Forms : j # i => work'[j] = work[j]
  BY DEF DrawerInv, DrawerTyped

LEMMA OpenKeeps ==
    ASSUME DrawerAssumption, DrawerInv, NEW i \in Drawer!Forms, Drawer!Open(i)
    PROVE  DrawerInv'
  <1>1. UNCHANGED <<task, shown, fetch, people, dirty, drawer, wire, log>> /\ i \in Closing
        /\ work' = [work EXCEPT ![i].open = TRUE]
    BY DEF Drawer!Open
  <1>2. PICK w : w = [work[i] EXCEPT !.open = TRUE]
    OBVIOUS
  <1>3. /\ w \in WorkRecords /\ w.text = work[i].text /\ w.last = work[i].last /\ w.ok = work[i].ok
        /\ w.pending = work[i].pending /\ w.late = work[i].late
    BY <1>2 DEF DrawerInv, DrawerTyped, WorkRecords
  <1>4. work' = [work EXCEPT ![i] = w]
    BY <1>1, <1>2 DEF DrawerInv, DrawerTyped
  <1>5. /\ work' \in [Drawer!Forms -> WorkRecords] /\ work'[i] = w
        /\ \A j \in Drawer!Forms : j # i => work'[j] = work[j]
    BY <1>3, <1>4, FormAtWork
  <1>6. \A j \in Drawer!Forms : /\ work'[j].text = work[j].text /\ work'[j].last = work[j].last
                                /\ work'[j].ok = work[j].ok /\ work'[j].pending = work[j].pending
                                /\ work'[j].late = work[j].late
    BY <1>3, <1>5
  <1>7. PICK val : val = [f \in Drawer!Fields |-> Drawer!Offered(f, shown.val[f])]
    OBVIOUS
  <1>v. \A f \in Drawer!Fields : shown.val[f] \in Values /\ people \subseteq Values
    BY DEF DrawerInv, DrawerTyped, TaskRecords
  <1>o. ASSUME NEW f \in Drawer!Fields
        PROVE  /\ Drawer!Offered(f, shown.val[f]) \in Values \cup {0}
               /\ \/ Drawer!Offered(f, shown.val[f]) = shown.val[f]
                  \/ f \in Listed /\ shown.val[f] \notin people
                  \/ f \in Timed /\ shown.val[f] \notin Minutes
    <2>1. people # {} => /\ Drawer!Nearest(people, shown.val[f]) \in people
                         /\ (shown.val[f] \in people => Drawer!Nearest(people, shown.val[f]) = shown.val[f])
      BY NearestIs
    <2> QED
      BY <1>v, <2>1, CutIs DEF Drawer!Offered, Drawer!Empty
  <1>8. val \in [Drawer!Fields -> Values \cup {0}]
    <2>1. \A f \in Drawer!Fields : Drawer!Offered(f, shown.val[f]) \in Values \cup {0}
      BY <1>o
    <2> QED
      BY <1>7, <2>1, Zenon
  <1>g. PICK guess : guess = {f \in Listed : shown.val[f] \notin people}
    OBVIOUS
  <1>9. PICK e : e = [Drawer!NoEdit EXCEPT !.val = val, !.guess = guess]
    OBVIOUS
  <1>10. e \in EditRecords /\ e.val = val /\ e.touched = {} /\ e.guess = guess
    <2>1. guess \subseteq Drawer!Fields
      BY <1>g DEF Drawer!Fields
    <2> QED
      BY <1>8, <1>9, <2>1 DEF Drawer!NoEdit, EditRecords
  <1>11. edit' = IF i = "edit" THEN e ELSE edit
    BY <1>7, <1>9, <1>g DEF Drawer!Open
  <1>12. DrawerTyped'
    BY <1>1, <1>5, <1>10, <1>11 DEF DrawerInv, DrawerTyped
  <1>13. Readings' /\ Reread'
    BY <1>1 DEF DrawerInv, Readings, Reread
  <1>14. Requests' /\ MadeOnce'
    BY <1>1, <1>6 DEF DrawerInv, Requests, MadeOnce, Made, Drawer!Forms
  <1>15. MarkedAll'
    BY <1>1, <1>6 DEF DrawerInv, MarkedAll, Drawer!Forms
  <1>16. UntouchedFit'
    <2>1. ASSUME Drawer!Editing', NEW f \in Drawer!Fields \ edit'.touched
          PROVE  Fits(edit', f, shown'.val)
      <3>1. CASE i = "edit"
        BY <1>1, <1>7, <1>10, <1>11, <1>g, <1>o, <2>1, <3>1 DEF Fits
      <3>2. CASE i # "edit"
        <4>1. Drawer!Editing
          BY <1>5, <2>1, <3>2 DEF Drawer!Editing, Drawer!Forms
        <4> QED
          BY <1>1, <1>11, <2>1, <3>2, <4>1 DEF DrawerInv, UntouchedFit, Fits
      <3> QED
        BY <3>1, <3>2
    <2>2. \A r \in wire' : r.i = "edit" /\ r.v = task'.v =>
              \A f \in Drawer!Fields \ r.edit.touched : Fits(r.edit, f, task'.val)
      BY <1>1 DEF DrawerInv, UntouchedFit
    <2> QED
      BY <2>1, <2>2 DEF UntouchedFit, Fits
  <1> QED
    BY <1>12, <1>13, <1>14, <1>15, <1>16 DEF DrawerInv

LEMMA ShutKeeps ==
    ASSUME DrawerAssumption, DrawerInv, NEW i \in Drawer!Forms, Drawer!Shut(i)
    PROVE  DrawerInv'
  <1>1. /\ UNCHANGED <<task, shown, fetch, people, drawer, wire, log>> /\ i \in Closing /\ dirty' = dirty \ {i}
        /\ work' = [work EXCEPT ![i] = [@ EXCEPT !.open = FALSE, !.text = 0, !.late = FALSE]]
        /\ edit' = IF i = "edit" THEN Drawer!NoEdit ELSE edit
    BY DEF Drawer!Shut, Drawer!Closed
  <1>w. 0 \in 0 .. DrawerChanges /\ Kept \cap Closing = {}
    BY DEF DrawerAssumption, Drawer!Wellformed
  <1>2. PICK w : w = [work[i] EXCEPT !.open = FALSE, !.text = 0, !.late = FALSE]
    OBVIOUS
  <1>3. /\ w \in WorkRecords /\ w.text = 0 /\ w.last = work[i].last /\ w.ok = work[i].ok
        /\ w.pending = work[i].pending /\ w.open = FALSE
    BY <1>w, <1>2 DEF DrawerInv, DrawerTyped, WorkRecords
  <1>4. work' = [work EXCEPT ![i] = w]
    BY <1>1, <1>2 DEF DrawerInv, DrawerTyped
  <1>5. /\ work' \in [Drawer!Forms -> WorkRecords] /\ work'[i] = w
        /\ \A j \in Drawer!Forms : j # i => work'[j] = work[j]
    BY <1>3, <1>4, FormAtWork
  <1>6. \A j \in Drawer!Forms : /\ work'[j].last = work[j].last /\ work'[j].ok = work[j].ok
                                /\ work'[j].pending = work[j].pending
                                /\ work'[j].text = work[j].text \/ work'[j].text = 0
    BY <1>3, <1>5
  <1>7. edit' \in EditRecords
    BY <1>1 DEF Drawer!NoEdit, Drawer!Empty, EditRecords, DrawerInv, DrawerTyped
  <1>8. DrawerTyped'
    BY <1>1, <1>5, <1>7 DEF DrawerInv, DrawerTyped
  <1>9. Readings' /\ Reread'
    BY <1>1 DEF DrawerInv, Readings, Reread
  <1>10. Requests'
    BY <1>1, <1>6 DEF DrawerInv, DrawerTyped, Requests, WorkRecords
  <1>11. MadeOnce'
    BY <1>1, <1>6 DEF DrawerInv, MadeOnce, Made, Drawer!Forms
  <1>12. MarkedAll'
    BY <1>w, <1>1, <1>3, <1>5 DEF DrawerInv, DrawerTyped, WireRecords, MarkedAll, Drawer!Forms
  <1>13. UntouchedFit'
    BY <1>1, <1>3, <1>5 DEF DrawerInv, UntouchedFit, Fits, Drawer!Editing, Drawer!Forms
  <1> QED
    BY <1>8, <1>9, <1>10, <1>11, <1>12, <1>13 DEF DrawerInv

LEMMA TypeKeeps ==
    ASSUME DrawerAssumption, DrawerInv, NEW i \in Drawer!Forms, Drawer!Type(i)
    PROVE  DrawerInv'
  <1>1. /\ UNCHANGED <<task, shown, fetch, people, drawer, wire>> /\ log.changes < DrawerChanges
        /\ log' = [log EXCEPT !.changes = @ + 1] /\ dirty' = IF i \in Boxes THEN dirty ELSE dirty \cup {i}
    BY Zenon DEF Drawer!Type, Drawer!Marked
  <1>w. /\ Boxes \cap (Kept \cup Closing) = {} /\ DrawerChanges \in Nat /\ Values \subseteq Values \cup {0}
    BY DEF DrawerAssumption, Drawer!Wellformed
  <1>2. PICK w : w = [work[i] EXCEPT !.text = work[i].last + 1, !.last = work[i].last + 1, !.late = work[i].pending]
    OBVIOUS
  <1>3. /\ work[i] \in WorkRecords /\ work[i].last <= log.changes /\ log \in LogRecords
        /\ work[i].ok <= work[i].last
    BY DEF DrawerInv, DrawerTyped, Requests
  <1>4. /\ w \in WorkRecords /\ w.text = work[i].last + 1 /\ w.last = work[i].last + 1 /\ w.ok = work[i].ok
        /\ w.pending = work[i].pending /\ w.open = work[i].open /\ w.late = work[i].pending
    <2>1. work[i].last + 1 \in 0 .. DrawerChanges
      BY <1>w, <1>1, <1>3 DEF WorkRecords, LogRecords
    <2> QED
      BY <1>2, <1>3, <2>1 DEF WorkRecords
  <1>5. work' = [work EXCEPT ![i] = w]
    BY <1>2, Zenon DEF Drawer!Type, Drawer!Typing
  <1>6. /\ work' \in [Drawer!Forms -> WorkRecords] /\ work'[i] = w
        /\ \A j \in Drawer!Forms : j # i => work'[j] = work[j]
    BY <1>4, <1>5, FormAtWork
  <1>7. /\ log' \in LogRecords /\ log'.made = log.made /\ log'.changes = log.changes + 1
        /\ log'.sends = log.sends /\ log'.others = log.others /\ log'.lost = log.lost
    BY <1>w, <1>1, <1>3 DEF LogRecords
  <1>8. i # "edit" => edit' = edit
    BY DEF Drawer!Type
  <1>9. ASSUME i = "edit"
        PROVE  /\ edit' \in EditRecords /\ edit'.stale = edit.stale /\ edit'.guess = edit.guess
               /\ edit.touched \subseteq edit'.touched
               /\ \A f \in Drawer!Fields \ edit'.touched : edit'.val[f] = edit.val[f]
    <2>1. \E f \in Drawer!Fields, x \in Values : edit' = [edit EXCEPT !.val[f] = x, !.touched = @ \cup {f}]
      BY <1>9, Zenon DEF Drawer!Type
    <2>2. PICK f \in Drawer!Fields, x \in Values : edit' = [edit EXCEPT !.val[f] = x, !.touched = @ \cup {f}]
      BY <2>1, Zenon
    <2>3. PICK val : val = [edit.val EXCEPT ![f] = x]
      OBVIOUS
    <2>4. edit \in EditRecords
      BY DEF DrawerInv, DrawerTyped
    <2>5. val \in [Drawer!Fields -> Values \cup {0}] /\ \A g \in Drawer!Fields : g # f => val[g] = edit.val[g]
      BY <2>3, <2>4 DEF EditRecords
    <2>6. edit' = [edit EXCEPT !.val = val, !.touched = edit.touched \cup {f}]
      BY <2>2, <2>3, <2>4 DEF EditRecords
    <2>7. /\ edit' \in EditRecords /\ edit'.stale = edit.stale /\ edit'.guess = edit.guess
          /\ edit'.val = val /\ edit'.touched = edit.touched \cup {f}
      BY <2>4, <2>5, <2>6 DEF EditRecords
    <2> QED
      BY <2>5, <2>7
  <1>10. dirty' \in SUBSET (Kept \cup Closing) /\ dirty \subseteq dirty' /\ (i \notin Boxes => i \in dirty')
    BY <1>1 DEF DrawerInv, DrawerTyped, Drawer!Forms
  <1>11. DrawerTyped'
    BY <1>1, <1>6, <1>7, <1>8, <1>9, <1>10 DEF DrawerInv, DrawerTyped
  <1>12. Readings' /\ Reread'
    BY <1>1, <1>7 DEF DrawerInv, Readings, Reread
  <1>13. \A j \in Drawer!Forms : /\ work'[j].pending = work[j].pending /\ work'[j].ok = work[j].ok
                                 /\ work[j].last <= work'[j].last /\ work'[j].open = work[j].open
    BY <1>4, <1>6 DEF DrawerInv, DrawerTyped, WorkRecords
  <1>14. Requests'
    <2>1. \A r \in wire : r.i \in Drawer!Forms => r.n <= work'[r.i].last
      BY <1>6, <1>13 DEF DrawerInv, DrawerTyped, Requests, WorkRecords, WireRecords
    <2>2. \A j \in Drawer!Forms : work'[j].text <= work'[j].last /\ work'[j].last <= log'.changes
                                 /\ work'[j].ok <= work'[j].last
      BY <1>3, <1>4, <1>6, <1>7 DEF DrawerInv, DrawerTyped, Requests, WorkRecords, LogRecords
    <2> QED
      BY <1>1, <1>7, <1>13, <2>1, <2>2 DEF DrawerInv, Requests
  <1>15. MadeOnce'
    <2>1. \A m \in log.made : m.i \in Drawer!Forms => m.n <= work[m.i].last /\ m.n \in Nat
      BY DEF DrawerInv, DrawerTyped, LogRecords, EntryRecords, MadeOnce
    <2>2. \A m \in log.made : m.i \in Drawer!Forms => m.n <= work'[m.i].last
      BY <1>6, <1>13, <2>1 DEF DrawerInv, DrawerTyped, WorkRecords
    <2>3. ~Made(i, w.text)
      BY <1>3, <1>4, <2>1 DEF Made, WorkRecords
    <2> QED
      BY <1>1, <1>4, <1>6, <1>7, <2>2, <2>3 DEF DrawerInv, MadeOnce, Made, Drawer!Forms
  <1>16. MarkedAll'
    <2>1. \A r \in wire : r.i = i => work[i].pending
      BY DEF DrawerInv, Requests
    <2> QED
      BY <1>w, <1>1, <1>4, <1>6, <1>10, <2>1 DEF DrawerInv, DrawerTyped, WireRecords, MarkedAll, Drawer!Forms
  <1>17. UntouchedFit'
    <2>1. Drawer!Editing' = Drawer!Editing
      BY <1>13 DEF Drawer!Editing, Drawer!Forms
    <2> QED
      BY <1>1, <1>8, <1>9, <2>1 DEF DrawerInv, UntouchedFit, Fits
  <1> QED
    BY <1>11, <1>12, <1>14, <1>15, <1>16, <1>17 DEF DrawerInv

\* A request goes out: from a form, which waits for its answer, or for a tick.
Going(q) ==
    /\ q \in WireRecords /\ q.done = "no" /\ q.k = log.sends + 1 /\ q.v = shown.v
    /\ UNCHANGED <<task, shown, fetch, people, edit, dirty, drawer>>
    /\ wire' = wire \cup {q} /\ log' = [log EXCEPT !.sends = @ + 1]
    /\ work' \in [Drawer!Forms -> WorkRecords]
    /\ \A j \in Drawer!Forms : /\ work'[j].text = work[j].text /\ work'[j].last = work[j].last
                               /\ work'[j].ok = work[j].ok /\ work'[j].late = work[j].late
                               /\ work'[j].open = work[j].open
                               /\ (j # q.i => work'[j].pending = work[j].pending)
    /\ q.i \in Drawer!Forms => ~work[q.i].pending /\ work'[q.i].pending /\ q.n = work[q.i].text
    /\ q.i = "edit" => /\ q.edit.val \in [Drawer!Fields -> Values]
                       /\ \A f \in Drawer!Fields \ q.edit.touched : Fits(q.edit, f, shown.val)

LEMMA GoingKeeps ==
    ASSUME DrawerAssumption, DrawerInv, NEW q, Going(q)
    PROVE  DrawerInv'
  <1> USE DEF Going
  <1>1. /\ log' \in LogRecords /\ log'.made = log.made /\ log'.changes = log.changes
        /\ log'.sends = log.sends + 1 /\ log'.others = log.others /\ log'.lost = log.lost
    BY DEF DrawerInv, DrawerTyped, LogRecords
  <1>2. DrawerTyped'
    BY <1>1 DEF DrawerInv, DrawerTyped
  <1>3. Readings'
    BY DEF DrawerInv, Readings, OlderFirst
  <1>4. Reread'
    BY <1>1 DEF DrawerInv, Reread
  <1>5. \A r \in wire : r.k # q.k /\ (r.i \in Drawer!Forms => r.i # q.i /\ work'[r.i].pending)
    BY DEF DrawerInv, DrawerTyped, Requests, WireRecords, LogRecords
  <1>6. Requests'
    <2>1. \A r, p \in wire' : r.k = p.k \/ (r.i = p.i /\ r.i \in Drawer!Forms) => r = p
      BY <1>5 DEF DrawerInv, Requests
    <2>2. ASSUME NEW r \in wire'
          PROVE  r.k <= log'.sends /\ (r.i \in Drawer!Forms => work'[r.i].pending /\ r.n <= work'[r.i].last)
      <3>1. CASE r \in wire
        BY <1>1, <1>5, <3>1 DEF DrawerInv, DrawerTyped, Requests, WireRecords, LogRecords
      <3>2. CASE r = q
        BY <1>1, <3>2 DEF DrawerInv, DrawerTyped, Requests, WireRecords, LogRecords
      <3> QED
        BY <3>1, <3>2
    <2>3. \A r \in wire' : r.i = "edit" => r.edit.val \in [Drawer!Fields -> Values]
      BY DEF DrawerInv, Requests
    <2> QED
      BY <1>1, <2>1, <2>2, <2>3 DEF DrawerInv, Requests
  <1>7. MadeOnce'
    <2>1. ASSUME log.lost = 0, q.i \in Boxes \cup Closing, q.n # 0 PROVE ~Made(q.i, q.n)
      <3>1. q.i \in Drawer!Forms /\ \A r \in wire : r.i # q.i
        BY <1>5, <2>1 DEF Drawer!Forms
      <3> QED
        BY <2>1, <3>1 DEF DrawerInv, MadeOnce
    <2>2. \A m \in log.made : m.i \in Drawer!Forms => m.n <= work'[m.i].last
      BY DEF DrawerInv, MadeOnce
    <2>3. ASSUME log.lost = 0, NEW j \in Boxes \cup Closing, work'[j].text # 0, Made(j, work'[j].text)
          PROVE  \E r \in wire' : r.i = j /\ r.done = "made"
      BY <2>3 DEF DrawerInv, MadeOnce, Drawer!Forms
    <2>4. log.lost = 0 => \A r \in wire' : r.done = "no" /\ r.i \in Boxes \cup Closing /\ r.n # 0 => ~Made(r.i, r.n)
      BY <2>1 DEF DrawerInv, MadeOnce
    <2>5. log'.lost = 0 => \A a, b \in log'.made :
              a.i = b.i /\ a.i \in Boxes \cup Closing /\ a.n = b.n /\ a.n # 0 => a = b
      BY <1>1 DEF DrawerInv, MadeOnce
    <2> QED
      BY <1>1, <2>2, <2>3, <2>4, <2>5 DEF MadeOnce, Made
  <1>8. MarkedAll'
    BY DEF DrawerInv, MarkedAll, Drawer!Forms
  <1>9. UntouchedFit'
    <2>1. Drawer!Editing' = Drawer!Editing
      BY DEF Drawer!Editing, Drawer!Forms
    <2>2. q.i = "edit" /\ q.v = task.v => \A f \in Drawer!Fields \ q.edit.touched : Fits(q.edit, f, task.val)
      BY DEF DrawerInv, Readings, OlderFirst
    <2>3. \A r \in wire' : r.i = "edit" /\ r.v = task'.v =>
              \A f \in Drawer!Fields \ r.edit.touched : Fits(r.edit, f, task'.val)
      BY <2>2 DEF DrawerInv, UntouchedFit
    <2> QED
      BY <2>1, <2>3 DEF DrawerInv, UntouchedFit, Fits
  <1> QED
    BY <1>2, <1>3, <1>4, <1>6, <1>7, <1>8, <1>9 DEF DrawerInv

LEMMA SendKeeps ==
    ASSUME DrawerAssumption, DrawerInv, NEW i \in Drawer!Forms, Drawer!Send(i)
    PROVE  DrawerInv'
  <1>1. /\ UNCHANGED <<task, shown, fetch, people, edit, dirty, drawer>> /\ log' = [log EXCEPT !.sends = @ + 1]
        /\ work' = [work EXCEPT ![i].pending = TRUE] /\ ~work[i].pending /\ work[i].open
    BY DEF Drawer!Send, Drawer!MaySend
  <1>2. PICK w : w = [work[i] EXCEPT !.pending = TRUE]
    OBVIOUS
  <1>3. /\ w \in WorkRecords /\ w.text = work[i].text /\ w.last = work[i].last /\ w.ok = work[i].ok
        /\ w.pending /\ w.open = work[i].open /\ w.late = work[i].late
    BY <1>2 DEF DrawerInv, DrawerTyped, WorkRecords
  <1>4. work' = [work EXCEPT ![i] = w]
    BY <1>1, <1>2 DEF DrawerInv, DrawerTyped
  <1>5. /\ work' \in [Drawer!Forms -> WorkRecords] /\ work'[i] = w
        /\ \A j \in Drawer!Forms : j # i => work'[j] = work[j]
    BY <1>3, <1>4, FormAtWork
  <1>6. PICK e : e = IF i = "edit" THEN edit ELSE Drawer!NoEdit
    OBVIOUS
  <1>7. e \in EditRecords
    BY <1>6 DEF Drawer!NoEdit, Drawer!Empty, EditRecords, DrawerInv, DrawerTyped
  <1>8. PICK q : q = [i |-> i, n |-> work[i].text, v |-> shown.v, k |-> log.sends + 1, done |-> "no", edit |-> e]
    OBVIOUS
  <1>9. q.i = i /\ q.n = work[i].text /\ q.v = shown.v /\ q.k = log.sends + 1 /\ q.done = "no" /\ q.edit = e
    BY <1>8
  <1>10. q \in WireRecords
    BY <1>7, <1>8 DEF WireRecords, DrawerInv, DrawerTyped, WorkRecords, TaskRecords, LogRecords
  <1>11. wire' = wire \cup {q}
    BY <1>6, <1>8 DEF Drawer!Send, Drawer!Request
  <1>12. ASSUME i = "edit"
         PROVE  /\ e.val \in [Drawer!Fields -> Values]
                /\ \A f \in Drawer!Fields \ e.touched : Fits(e, f, shown.val)
    <2>1. people # {} /\ \A f \in Drawer!Fields : edit.val[f] # 0
      BY <1>12 DEF Drawer!Send, Drawer!MaySend, Drawer!Empty
    <2>2. Drawer!Editing
      BY <1>1, <1>12 DEF Drawer!Editing, Drawer!Forms, DrawerAssumption, Drawer!Wellformed
    <2> QED
      BY <1>6, <1>12, <2>1, <2>2 DEF DrawerInv, DrawerTyped, EditRecords, UntouchedFit
  <1>13. q.i = "edit" => /\ q.edit.val \in [Drawer!Fields -> Values]
                         /\ \A f \in Drawer!Fields \ q.edit.touched : Fits(q.edit, f, shown.val)
    BY <1>9, <1>12
  <1>14. \A j \in Drawer!Forms : /\ work'[j].text = work[j].text /\ work'[j].last = work[j].last
                                 /\ work'[j].ok = work[j].ok /\ work'[j].late = work[j].late
                                 /\ work'[j].open = work[j].open
                                 /\ (j # q.i => work'[j].pending = work[j].pending)
    BY <1>3, <1>5, <1>9
  <1> QED
    BY <1>1, <1>3, <1>5, <1>9, <1>10, <1>11, <1>13, <1>14, GoingKeeps, Zenon DEF Going

LEMMA TickKeeps ==
    ASSUME DrawerAssumption, DrawerInv, Drawer!Tick
    PROVE  DrawerInv'
  <1>1. UNCHANGED <<task, shown, fetch, people, work, edit, dirty, drawer>> /\ log' = [log EXCEPT !.sends = @ + 1]
    BY DEF Drawer!Tick, Drawer!typing
  <1>2. Drawer!NoEdit \in EditRecords
    BY DEF Drawer!NoEdit, Drawer!Empty, EditRecords
  <1>3. PICK q : q = [i |-> "tick", n |-> 0, v |-> shown.v, k |-> log.sends + 1, done |-> "no",
                      edit |-> Drawer!NoEdit]
    OBVIOUS
  <1>4. q.i = "tick" /\ q.v = shown.v /\ q.k = log.sends + 1 /\ q.done = "no"
    BY <1>3
  <1>5. 0 \in 0 .. DrawerChanges /\ "tick" \notin Drawer!Forms
    BY DEF DrawerAssumption, Drawer!Wellformed
  <1>6. q \in WireRecords
    BY <1>2, <1>3, <1>5 DEF WireRecords, DrawerInv, DrawerTyped, TaskRecords, LogRecords
  <1>7. wire' = wire \cup {q}
    BY <1>3 DEF Drawer!Tick, Drawer!Request
  <1>8. work' \in [Drawer!Forms -> WorkRecords]
    BY <1>1 DEF DrawerInv, DrawerTyped
  <1> QED
    BY <1>1, <1>4, <1>5, <1>6, <1>7, <1>8, GoingKeeps, Zenon DEF Going

\* The server's verdict on a request; nothing but the verdict on it changes.
LEMMA MovedFacts ==
    ASSUME DrawerInv, NEW r \in wire, NEW d \in {"made", "refused"}, Drawer!Moved(r, d)
    PROVE  \E s \in WireRecords : /\ wire' = (wire \ {r}) \cup {s} /\ s.done = d /\ s.i = r.i /\ s.n = r.n
                                  /\ s.v = r.v /\ s.k = r.k /\ s.edit = r.edit
  <1>1. PICK s : s = [r EXCEPT !.done = d]
    OBVIOUS
  <1>2. r \in WireRecords
    BY DEF DrawerInv, DrawerTyped
  <1>3. s \in WireRecords /\ s.done = d /\ s.i = r.i /\ s.n = r.n /\ s.v = r.v /\ s.k = r.k /\ s.edit = r.edit
    BY <1>1, <1>2 DEF WireRecords
  <1>4. wire' = (wire \ {r}) \cup {s}
    BY <1>1 DEF Drawer!Moved
  <1> QED
    BY <1>3, <1>4

LEMMA AcceptKeeps ==
    ASSUME DrawerAssumption, DrawerInv, NEW r \in wire, Drawer!Accept(r)
    PROVE  DrawerInv'
  <1>1. /\ UNCHANGED <<shown, fetch, people, work, edit, dirty, drawer>> /\ r.done = "no" /\ Drawer!Current(r)
        /\ Drawer!Moved(r, "made") /\ task' = Drawer!Written(r)
        /\ log' = [log EXCEPT !.made = @ \cup {[i |-> r.i, n |-> r.n, k |-> r.k]}]
    BY DEF Drawer!Accept, Drawer!typing
  <1>2. r \in WireRecords
    BY DEF DrawerInv, DrawerTyped
  <1>3. PICK s \in WireRecords : /\ wire' = (wire \ {r}) \cup {s} /\ s.done = "made" /\ s.i = r.i /\ s.n = r.n
                                 /\ s.v = r.v /\ s.k = r.k /\ s.edit = r.edit
    BY <1>1, MovedFacts
  <1>4. PICK m : m = [i |-> r.i, n |-> r.n, k |-> r.k]
    OBVIOUS
  <1>5. m \in EntryRecords /\ m.i = r.i /\ m.n = r.n /\ m.k = r.k
    BY <1>2, <1>4 DEF EntryRecords, WireRecords
  <1>6. /\ log' \in LogRecords /\ log'.made = log.made \cup {m} /\ log'.changes = log.changes
        /\ log'.sends = log.sends /\ log'.others = log.others /\ log'.lost = log.lost
    BY <1>1, <1>4, <1>5 DEF DrawerInv, DrawerTyped, LogRecords
  <1>7. /\ task' \in TaskRecords
        /\ task'.v = IF r.i = "comment" THEN task.v ELSE task.v + 1
        /\ r.i # "edit" => task'.val = task.val
    <2>1. task \in TaskRecords /\ (r.i = "edit" => r.edit.val \in [Drawer!Fields -> Values])
      BY DEF DrawerInv, DrawerTyped, Requests
    <2>2. PICK v : v = IF r.i = "comment" THEN task.v ELSE task.v + 1
      OBVIOUS
    <2>3. PICK c : c = IF r.i = "comment" THEN task.comments + 1 ELSE task.comments
      OBVIOUS
    <2>4. PICK val : val = IF r.i = "edit" THEN r.edit.val ELSE task.val
      OBVIOUS
    <2>m. PICK more : more = IF r.i = "edit" THEN FALSE ELSE task.more
      OBVIOUS
    <2>5. task' = [task EXCEPT !.v = v, !.comments = c, !.more = more, !.val = val]
      BY <1>1, <2>2, <2>3, <2>4, <2>m DEF Drawer!Written
    <2>b. more \in BOOLEAN
      BY <2>1, <2>m DEF TaskRecords
    <2>6. v \in Nat /\ c \in Nat /\ val \in [Drawer!Fields -> Values]
      BY <2>1, <2>2, <2>3, <2>4 DEF TaskRecords
    <2>7. task' \in TaskRecords /\ task'.v = v /\ task'.val = val
      BY <2>1, <2>5, <2>6, <2>b DEF TaskRecords
    <2> QED
      BY <2>2, <2>4, <2>7
  <1>8. task.v <= task'.v /\ (task'.v = task.v => r.i = "comment" /\ task'.val = task.val)
    BY <1>7 DEF DrawerInv, DrawerTyped, TaskRecords
  <1>9. DrawerTyped'
    BY <1>1, <1>3, <1>6, <1>7 DEF DrawerInv, DrawerTyped
  <1>10. Readings'
    <2>1. ASSUME NEW t \in TaskRecords, OlderFirst(t, task) PROVE OlderFirst(t, task')
      BY <1>7, <1>8, <2>1 DEF DrawerInv, DrawerTyped, TaskRecords, OlderFirst
    <2>2. OlderFirst(shown, task')
      BY <2>1 DEF DrawerInv, DrawerTyped, Readings
    <2>3. fetch.at = "read" => OlderFirst(shown, fetch.task) /\ OlderFirst(fetch.task, task')
      BY <2>1 DEF DrawerInv, DrawerTyped, Readings
    <2>4. \A q \in wire : q.v <= task'.v
      BY <1>7, <1>8 DEF DrawerInv, DrawerTyped, WireRecords, TaskRecords, Readings
    <2> QED
      BY <1>1, <1>3, <2>2, <2>3, <2>4 DEF Readings, OlderFirst
  <1>11. Reread'
    BY <1>3 DEF Reread
  <1>12. \A q \in wire \ {r} : q.k # r.k /\ (q.i \in Drawer!Forms => q.i # r.i)
    BY DEF DrawerInv, Requests
  <1>13. Requests'
    <2>1. \A q, p \in wire' : q.k = p.k \/ (q.i = p.i /\ q.i \in Drawer!Forms) => q = p
      BY <1>3, <1>12 DEF DrawerInv, Requests
    <2> QED
      BY <1>1, <1>3, <1>6, <2>1 DEF DrawerInv, Requests
  <1>14. MadeOnce'
    <2>1. \A x \in log'.made : x.i \in Drawer!Forms => x.n <= work[x.i].last
      BY <1>5, <1>6 DEF DrawerInv, MadeOnce, Requests
    <2>2. log.lost = 0 /\ r.i \in Boxes \cup Closing /\ r.n # 0 => ~Made(r.i, r.n)
      BY <1>1 DEF DrawerInv, MadeOnce
    <2>3. \A q \in wire' : log.lost = 0 /\ q.done = "no" /\ q.i \in Boxes \cup Closing /\ q.n # 0 =>
              ~\E x \in log'.made : x.i = q.i /\ x.n = q.n
      BY <1>3, <1>5, <1>6, <1>12 DEF DrawerInv, MadeOnce, Made, Drawer!Forms
    <2>4. ASSUME log.lost = 0, NEW j \in Boxes \cup Closing, work[j].text # 0,
                 \E x \in log'.made : x.i = j /\ x.n = work[j].text
          PROVE  \E q \in wire' : q.i = j /\ q.done = "made"
      BY <1>1, <1>3, <1>5, <1>6, <2>4 DEF DrawerInv, MadeOnce, Made
    <2>5. log.lost = 0 => \A a, b \in log'.made :
              a.i = b.i /\ a.i \in Boxes \cup Closing /\ a.n = b.n /\ a.n # 0 => a = b
      BY <1>5, <1>6, <2>2 DEF DrawerInv, MadeOnce, Made
    <2> QED
      BY <1>1, <1>6, <2>1, <2>3, <2>4, <2>5 DEF MadeOnce, Made
  <1>15. MarkedAll'
    BY <1>1, <1>3 DEF DrawerInv, MarkedAll
  <1>16. UntouchedFit'
    <2>1. ASSUME NEW q \in wire', q.i = "edit", q.v = task'.v, NEW f \in Drawer!Fields \ q.edit.touched
          PROVE  Fits(q.edit, f, task'.val)
      <3>1. q.v <= task.v /\ q.v \in Nat
        BY <1>2, <1>3, <2>1 DEF DrawerInv, DrawerTyped, WireRecords, Readings
      <3>2. task'.v = task.v /\ r.i = "comment"
        BY <1>7, <1>8, <2>1, <3>1 DEF DrawerInv, DrawerTyped, TaskRecords
      <3>3. q \in wire
        BY <1>3, <2>1, <3>2
      <3> QED
        BY <1>8, <2>1, <3>2, <3>3 DEF DrawerInv, UntouchedFit
    <2>2. Drawer!Editing' = Drawer!Editing
      BY <1>1 DEF Drawer!Editing
    <2> QED
      BY <1>1, <2>1, <2>2 DEF DrawerInv, UntouchedFit, Fits
  <1> QED
    BY <1>9, <1>10, <1>11, <1>13, <1>14, <1>15, <1>16 DEF DrawerInv

LEMMA RefuseKeeps ==
    ASSUME DrawerAssumption, DrawerInv, NEW r \in wire, Drawer!Refuse(r)
    PROVE  DrawerInv'
  <1>1. /\ UNCHANGED <<task, shown, fetch, people, work, edit, dirty, drawer, log>> /\ r.done = "no"
        /\ Drawer!Moved(r, "refused")
    BY DEF Drawer!Refuse, Drawer!typing
  <1>2. PICK s \in WireRecords : /\ wire' = (wire \ {r}) \cup {s} /\ s.done = "refused" /\ s.i = r.i /\ s.n = r.n
                                 /\ s.v = r.v /\ s.k = r.k /\ s.edit = r.edit
    BY <1>1, MovedFacts
  <1>3. DrawerTyped'
    BY <1>1, <1>2 DEF DrawerInv, DrawerTyped
  <1>4. Readings' /\ Reread'
    BY <1>1, <1>2 DEF DrawerInv, Readings, OlderFirst, Reread
  <1>5. Requests'
    <2>1. \A q, p \in wire' : q.k = p.k \/ (q.i = p.i /\ q.i \in Drawer!Forms) => q = p
      BY <1>2 DEF DrawerInv, Requests
    <2> QED
      BY <1>1, <1>2, <2>1 DEF DrawerInv, Requests
  <1>6. MadeOnce'
    BY <1>1, <1>2 DEF DrawerInv, MadeOnce, Made
  <1>7. MarkedAll'
    BY <1>1, <1>2 DEF DrawerInv, MarkedAll
  <1>8. UntouchedFit'
    <2>1. Drawer!Editing' = Drawer!Editing
      BY <1>1 DEF Drawer!Editing
    <2> QED
      BY <1>1, <1>2, <2>1 DEF DrawerInv, UntouchedFit, Fits
  <1> QED
    BY <1>3, <1>4, <1>5, <1>6, <1>7, <1>8 DEF DrawerInv

\* A success: the task is read again, and the form it came from is emptied, stays or goes away.
LEMMA SuccessKeeps ==
    ASSUME DrawerAssumption, DrawerInv, NEW r \in wire, Drawer!Succeed(r)
    PROVE  DrawerInv'
  <1>1. /\ UNCHANGED <<task, shown, people, drawer, log>> /\ r.done = "made" /\ wire' = wire \ {r}
        /\ fetch' = Drawer!Asked
    BY DEF Drawer!Succeed, Drawer!Again
  <1>2. fetch' \in FetchRecords /\ fetch'.at = "asked"
    BY <1>1 DEF Drawer!Asked, Drawer!Empty, FetchRecords
  <1>w. /\ Boxes \cap (Kept \cup Closing) = {} /\ Kept \cap Closing = {} /\ DrawerChanges \in Nat
        /\ "edit" \notin Boxes \cup Kept
    BY DEF DrawerAssumption, Drawer!Wellformed
  <1>3. Readings' /\ Reread'
    BY <1>1, <1>2 DEF DrawerInv, Readings, OlderFirst, Reread
  <1>4. \A q \in wire' : q \in wire /\ q # r /\ (q.i \in Drawer!Forms => q.i # r.i)
    BY <1>1 DEF DrawerInv, Requests
  <1>5. \A q \in wire : q.done = "made" => q = r \/ q \in wire'
    BY <1>1
  <1>6. CASE r.i \in Drawer!Forms
    <2> DEFINE i == r.i
    <2>1. /\ work' = Drawer!After(i, r.n) /\ dirty' = dirty \ {i}
          /\ edit' = IF i = "edit" THEN Drawer!NoEdit ELSE edit
      BY <1>6 DEF Drawer!Succeed
    <2>2. /\ work[i] \in WorkRecords /\ r.n \in 0 .. DrawerChanges /\ r.n <= work[i].last
      BY <1>6 DEF DrawerInv, DrawerTyped, Requests, WireRecords
    <2>3. PICK kept_open \in BOOLEAN : kept_open = (i \notin Closing /\ work[i].open)
      OBVIOUS
    <2>4. PICK still \in BOOLEAN : still = (i \in Kept /\ work[i].late)
      OBVIOUS
    <2>5. PICK text : text = IF i \in Kept THEN work[i].text ELSE 0
      OBVIOUS
    <2>6. PICK w : w = [work[i] EXCEPT !.pending = FALSE, !.ok = r.n, !.open = kept_open, !.text = text, !.late = still]
      OBVIOUS
    <2>7. /\ w \in WorkRecords /\ w.pending = FALSE /\ w.ok = r.n /\ w.open = kept_open /\ w.text = text
          /\ w.late = still /\ w.last = work[i].last
      <3>1. text \in 0 .. DrawerChanges /\ r.n \in Nat /\ FALSE \in BOOLEAN
        BY <1>w, <2>2, <2>5 DEF WorkRecords
      <3> HIDE DEF i
      <3> QED
        BY <2>2, <2>6, <3>1 DEF WorkRecords
    <2>8. work' = [work EXCEPT ![i] = w]
      <3>1. CASE i \in Boxes
        <4>1. work' = [work EXCEPT ![i] = [work[i] EXCEPT !.pending = FALSE, !.ok = r.n, !.text = 0, !.late = FALSE]]
          BY <1>w, <2>1, <3>1 DEF Drawer!After
        <4>2. w = [work[i] EXCEPT !.pending = FALSE, !.ok = r.n, !.text = 0, !.late = FALSE]
          BY <1>w, <2>2, <2>3, <2>4, <2>5, <2>6, <3>1 DEF WorkRecords
        <4> QED
          BY <4>1, <4>2
      <3>2. CASE i \in Kept
        <4>1. work' = [work EXCEPT ![i] = [work[i] EXCEPT !.pending = FALSE, !.ok = r.n]]
          BY <1>w, <2>1, <3>2 DEF Drawer!After
        <4>2. w = [work[i] EXCEPT !.pending = FALSE, !.ok = r.n]
          BY <1>w, <2>2, <2>3, <2>4, <2>5, <2>6, <3>2 DEF WorkRecords
        <4> QED
          BY <4>1, <4>2
      <3>3. CASE i \in Closing
        <4>1. work' = [work EXCEPT ![i] = [work[i] EXCEPT !.pending = FALSE, !.ok = r.n, !.open = FALSE,
                                                          !.text = 0, !.late = FALSE]]
          BY <1>w, <2>1, <3>3 DEF Drawer!After
        <4>2. w = [work[i] EXCEPT !.pending = FALSE, !.ok = r.n, !.open = FALSE, !.text = 0, !.late = FALSE]
          BY <1>w, <2>2, <2>3, <2>4, <2>5, <2>6, <3>3 DEF WorkRecords
        <4> QED
          BY <4>1, <4>2
      <3> QED
        BY <1>6, <3>1, <3>2, <3>3 DEF Drawer!Forms
    <2>9. /\ work' \in [Drawer!Forms -> WorkRecords] /\ work'[i] = w
          /\ \A j \in Drawer!Forms : j # i => work'[j] = work[j]
      BY <1>6, <2>7, <2>8, FormAtWork
    <2>10. edit' \in EditRecords
      BY <2>1 DEF Drawer!NoEdit, Drawer!Empty, EditRecords, DrawerInv, DrawerTyped
    <2>11. DrawerTyped'
      BY <1>1, <1>2, <2>1, <2>9, <2>10 DEF DrawerInv, DrawerTyped
    <2>12. text <= work[i].last
      BY <1>6, <2>2, <2>5 DEF DrawerInv, Requests, WorkRecords
    <2>13. Requests'
      <3>1. \A j \in Drawer!Forms : /\ work'[j].text <= work'[j].last /\ work'[j].last <= log'.changes
                                    /\ work'[j].ok <= work'[j].last
        BY <1>1, <2>2, <2>7, <2>9, <2>12 DEF DrawerInv, Requests
      <3>2. \A q \in wire' : q.k <= log'.sends
                             /\ (q.i \in Drawer!Forms => work'[q.i].pending /\ q.n <= work'[q.i].last)
        BY <1>1, <1>4, <2>9 DEF DrawerInv, Requests
      <3> QED
        BY <1>4, <3>1, <3>2 DEF DrawerInv, Requests
    <2>14. MadeOnce'
      <3>1. \A m \in log.made : m.i \in Drawer!Forms => m.n <= work'[m.i].last
        BY <2>7, <2>9 DEF DrawerInv, MadeOnce
      <3>2. ASSUME log.lost = 0, NEW j \in Boxes \cup Closing, work'[j].text # 0, Made(j, work'[j].text)
            PROVE  \E q \in wire' : q.i = j /\ q.done = "made"
        <4>1. j # i
          BY <1>w, <2>5, <2>7, <2>9, <3>2
        <4>2. PICK q \in wire : q.i = j /\ q.done = "made"
          BY <2>9, <3>2, <4>1 DEF DrawerInv, MadeOnce, Drawer!Forms
        <4> QED
          BY <1>5, <4>1, <4>2
      <3> QED
        BY <1>1, <1>4, <3>1, <3>2 DEF DrawerInv, MadeOnce, Made
    <2>15. MarkedAll'
      <3>1. ASSUME NEW j \in Kept \cup Closing
            PROVE  j \in dirty' \/ work'[j].text \in {0, work'[j].ok} \/ work'[j].late
        <4>1. CASE j # i
          BY <2>1, <2>9, <4>1 DEF DrawerInv, MarkedAll, Drawer!Forms
        <4>2. CASE j = i /\ i \in Kept
          <5>1. r.n = work[i].text \/ work[i].late
            BY <4>2 DEF DrawerInv, MarkedAll
          <5> QED
            BY <2>4, <2>5, <2>7, <2>9, <4>2, <5>1
        <4>3. CASE j = i /\ i \in Closing
          BY <1>w, <2>5, <2>7, <2>9, <4>3
        <4> QED
          BY <4>1, <4>2, <4>3
      <3>2. \A q \in wire' : q.i \in Kept => q.n = work'[q.i].text \/ work'[q.i].late
        BY <1>4, <2>9 DEF DrawerInv, MarkedAll, Drawer!Forms
      <3> QED
        BY <3>1, <3>2 DEF MarkedAll
    <2>16. UntouchedFit'
      <3>1. Drawer!Editing' => Drawer!Editing /\ i # "edit"
        BY <2>3, <2>7, <2>9 DEF Drawer!Editing, Drawer!Forms
      <3> QED
        BY <1>1, <2>1, <3>1 DEF DrawerInv, UntouchedFit, Fits
    <2> QED
      BY <1>3, <2>11, <2>13, <2>14, <2>15, <2>16 DEF DrawerInv
  <1>7. CASE r.i \notin Drawer!Forms
    <2>1. UNCHANGED <<work, edit, dirty>>
      BY <1>7 DEF Drawer!Succeed, Drawer!typing
    <2>2. DrawerTyped'
      BY <1>1, <1>2, <2>1 DEF DrawerInv, DrawerTyped
    <2>3. Requests' /\ MarkedAll'
      BY <1>1, <2>1 DEF DrawerInv, Requests, MarkedAll
    <2>4. MadeOnce'
      <3>1. \A j \in Boxes \cup Closing :
                (\E q \in wire : q.i = j /\ q.done = "made") => \E q \in wire' : q.i = j /\ q.done = "made"
        BY <1>5, <1>7 DEF Drawer!Forms
      <3> QED
        BY <1>1, <2>1, <3>1 DEF DrawerInv, MadeOnce, Made
    <2>5. UntouchedFit'
      <3>1. Drawer!Editing' = Drawer!Editing
        BY <2>1 DEF Drawer!Editing
      <3> QED
        BY <1>1, <2>1, <3>1 DEF DrawerInv, UntouchedFit, Fits
    <2> QED
      BY <1>3, <2>2, <2>3, <2>4, <2>5 DEF DrawerInv
  <1> QED
    BY <1>6, <1>7

\* A failure that is answered, or an answer that is lost: the form may be sent again.
Dropped(r) ==
    /\ UNCHANGED <<task, shown, fetch, people, edit, dirty, drawer>> /\ wire' = wire \ {r}
    /\ work' = Drawer!Unpend(r)
    /\ (r.done = "refused" /\ log' = log) \/ log' = [log EXCEPT !.lost = @ + 1]
LEMMA DropKeeps ==
    ASSUME DrawerInv, NEW r \in wire, Dropped(r)
    PROVE  DrawerInv'
  <1>1. /\ UNCHANGED <<task, shown, fetch, people, edit, dirty, drawer>> /\ wire' = wire \ {r}
        /\ work' = Drawer!Unpend(r)
    BY DEF Dropped
  <1>2. /\ log' \in LogRecords /\ log'.made = log.made /\ log'.changes = log.changes
        /\ log'.sends = log.sends /\ log'.others = log.others
        /\ (log'.lost = log.lost /\ r.done = "refused") \/ log'.lost # 0
    BY DEF Dropped, DrawerInv, DrawerTyped, LogRecords
  <1>3. log'.lost = 0 => log.lost = 0 /\ r.done = "refused"
    BY <1>2
  <1>4. \A q \in wire' : q \in wire /\ q # r /\ (q.i \in Drawer!Forms => q.i # r.i)
    BY <1>1 DEF DrawerInv, Requests
  <1>5. /\ work' \in [Drawer!Forms -> WorkRecords]
        /\ \A j \in Drawer!Forms : /\ work'[j].text = work[j].text /\ work'[j].last = work[j].last
                                   /\ work'[j].ok = work[j].ok /\ work'[j].late = work[j].late
                                   /\ work'[j].open = work[j].open
                                   /\ (j # r.i => work'[j].pending = work[j].pending)
    <2>1. CASE r.i \in Drawer!Forms
      <3>1. PICK w : w = [work[r.i] EXCEPT !.pending = FALSE]
        OBVIOUS
      <3>2. /\ w \in WorkRecords /\ w.text = work[r.i].text /\ w.last = work[r.i].last
            /\ w.ok = work[r.i].ok /\ w.late = work[r.i].late /\ w.open = work[r.i].open
        BY <2>1, <3>1 DEF DrawerInv, DrawerTyped, WorkRecords
      <3>3. work' = [work EXCEPT ![r.i] = w]
        BY <1>1, <2>1, <3>1 DEF Drawer!Unpend, DrawerInv, DrawerTyped
      <3>4. /\ work' \in [Drawer!Forms -> WorkRecords] /\ work'[r.i] = w
            /\ \A j \in Drawer!Forms : j # r.i => work'[j] = work[j]
        BY <2>1, <3>2, <3>3, FormAtWork
      <3> QED
        BY <3>2, <3>4
    <2>2. CASE r.i \notin Drawer!Forms
      BY <1>1, <2>2 DEF Drawer!Unpend, DrawerInv, DrawerTyped
    <2> QED
      BY <2>1, <2>2
  <1>6. DrawerTyped'
    BY <1>1, <1>2, <1>5 DEF DrawerInv, DrawerTyped
  <1>7. Readings'
    BY <1>1 DEF DrawerInv, Readings, OlderFirst
  <1>8. Reread'
    BY <1>1, <1>2, <1>3 DEF DrawerInv, Reread
  <1>9. Requests'
    BY <1>1, <1>2, <1>4, <1>5 DEF DrawerInv, Requests
  <1>10. MadeOnce'
    BY <1>1, <1>2, <1>3, <1>5 DEF DrawerInv, MadeOnce, Made, Drawer!Forms
  <1>11. MarkedAll'
    BY <1>1, <1>5 DEF DrawerInv, MarkedAll, Drawer!Forms
  <1>12. UntouchedFit'
    <2>1. Drawer!Editing' = Drawer!Editing
      BY <1>5 DEF Drawer!Editing, Drawer!Forms
    <2> QED
      BY <1>1, <2>1 DEF DrawerInv, UntouchedFit, Fits
  <1> QED
    BY <1>6, <1>7, <1>8, <1>9, <1>10, <1>11, <1>12 DEF DrawerInv

\* Somebody else changes the task.
LEMMA ChangedKeeps ==
    ASSUME DrawerInv, Drawer!Others
    PROVE  DrawerInv'
  <1>1. UNCHANGED <<shown, fetch, people, work, edit, dirty, drawer, wire>> /\ log' = [log EXCEPT !.others = @ + 1]
    BY DEF Drawer!Others, Drawer!typing
  <1>2. /\ log' \in LogRecords /\ log'.made = log.made /\ log'.changes = log.changes
        /\ log'.sends = log.sends /\ log'.others # 0 /\ log'.lost = log.lost
    BY <1>1 DEF DrawerInv, DrawerTyped, LogRecords
  <1>3. PICK f \in Drawer!Fields, x \in Values : task' = [task EXCEPT !.v = @ + 1, !.val[f] = x]
    BY Zenon DEF Drawer!Others
  <1>4. task' \in TaskRecords /\ task'.v = task.v + 1 /\ task.v \in Nat
    <2>1. PICK val : val = [task.val EXCEPT ![f] = x]
      OBVIOUS
    <2>2. task \in TaskRecords
      BY DEF DrawerInv, DrawerTyped
    <2>3. val \in [Drawer!Fields -> Values] /\ task' = [task EXCEPT !.v = task.v + 1, !.val = val]
      BY <1>3, <2>1, <2>2 DEF TaskRecords
    <2>4. PICK n \in Nat : n = task.v + 1
      BY <2>2 DEF TaskRecords
    <2>5. task' = [task EXCEPT !.v = n, !.val = val]
      BY <2>3, <2>4
    <2>6. task' \in TaskRecords /\ task'.v = n
      BY <2>2, <2>3, <2>5 DEF TaskRecords
    <2> QED
      BY <2>2, <2>4, <2>6 DEF TaskRecords
  <1>5. DrawerTyped'
    BY <1>1, <1>2, <1>4 DEF DrawerInv, DrawerTyped
  <1>6. Readings'
    <2>1. ASSUME NEW t \in TaskRecords, OlderFirst(t, task) PROVE OlderFirst(t, task')
      BY <1>4, <2>1 DEF TaskRecords, OlderFirst
    <2>2. OlderFirst(shown, task') /\ (fetch.at = "read" => OlderFirst(fetch.task, task'))
      BY <2>1 DEF DrawerInv, DrawerTyped, Readings
    <2>3. \A r \in wire : r.v <= task'.v
      BY <1>4 DEF DrawerInv, DrawerTyped, WireRecords, Readings
    <2> QED
      BY <1>1, <2>2, <2>3 DEF DrawerInv, Readings, OlderFirst
  <1>7. Reread' /\ Requests' /\ MadeOnce' /\ MarkedAll'
    BY <1>1, <1>2 DEF DrawerInv, Reread, Requests, MadeOnce, Made, MarkedAll
  <1>8. UntouchedFit'
    <2>1. \A r \in wire : r.v # task'.v
      BY <1>4 DEF DrawerInv, DrawerTyped, WireRecords, Readings
    <2>2. Drawer!Editing' = Drawer!Editing
      BY <1>1 DEF Drawer!Editing
    <2> QED
      BY <1>1, <2>1, <2>2 DEF DrawerInv, UntouchedFit, Fits
  <1> QED
    BY <1>5, <1>6, <1>7, <1>8 DEF DrawerInv

\* The drawer is closed, or the question is answered; a step may also change nothing.
LEMMA ClosingKeeps ==
    ASSUME DrawerInv, Drawer!Close \/ Drawer!Answer \/ UNCHANGED Drawer!vars
    PROVE  DrawerInv'
  <1>1. /\ UNCHANGED <<task, shown, fetch, people, work, edit, dirty, wire, log>>
        /\ drawer' = drawer \/ (drawer # "left" /\ drawer' \in {"open", "asking", "left"})
    BY DEF Drawer!Close, Drawer!Answer, Drawer!OnTop, Drawer!typing, Drawer!vars
  <1>2. DrawerTyped'
    BY <1>1 DEF DrawerInv, DrawerTyped
  <1>3. Readings' /\ Reread' /\ Requests' /\ MadeOnce' /\ MarkedAll'
    BY <1>1 DEF DrawerInv, Readings, OlderFirst, Reread, Requests, MadeOnce, Made, MarkedAll
  <1>4. UntouchedFit'
    <2>1. Drawer!Editing' = Drawer!Editing
      BY <1>1 DEF Drawer!Editing
    <2> QED
      BY <1>1, <2>1 DEF DrawerInv, UntouchedFit, Fits
  <1> QED
    BY <1>2, <1>3, <1>4 DEF DrawerInv

LEMMA DrawerStepKeeps ==
    ASSUME DrawerAssumption, DrawerInv, Drawer!Next \/ UNCHANGED Drawer!vars
    PROVE  DrawerInv'
  <1>1. CASE Drawer!BeginFetch \/ Drawer!Read
    BY <1>1, FetchKeeps
  <1>2. CASE Drawer!Arrive
    BY <1>2, ArriveKeeps
  <1>3. CASE Drawer!Load
    BY <1>3, LoadKeeps
  <1>4. CASE Drawer!Tick
    BY <1>4, TickKeeps
  <1>5. CASE Drawer!Others
    BY <1>5, ChangedKeeps
  <1>6. CASE Drawer!Close \/ Drawer!Answer \/ UNCHANGED Drawer!vars
    BY <1>6, ClosingKeeps
  <1>7. ASSUME NEW i \in Drawer!Forms, Drawer!Open(i) \/ Drawer!Shut(i) \/ Drawer!Type(i) \/ Drawer!Send(i)
        PROVE  DrawerInv'
    BY <1>7, OpenKeeps, ShutKeeps, TypeKeeps, SendKeeps
  <1>8. ASSUME NEW r \in wire,
               \/ Drawer!Accept(r) \/ Drawer!Refuse(r) \/ Drawer!Succeed(r) \/ Drawer!Fail(r) \/ Drawer!Lose(r)
        PROVE  DrawerInv'
    <2>1. Drawer!Fail(r) \/ Drawer!Lose(r) => Dropped(r)
      BY DEF Drawer!Fail, Drawer!Lose, Dropped
    <2> QED
      BY <1>8, <2>1, AcceptKeeps, RefuseKeeps, SuccessKeeps, DropKeeps
  <1> QED
    BY <1>1, <1>2, <1>3, <1>4, <1>5, <1>6, <1>7, <1>8 DEF Drawer!Next, Drawer!NextOn

\* A user who keeps to some of the forms takes steps of the drawer.
LEMMA NextOnForms ==
    ASSUME NEW F, F \subseteq Drawer!Forms, Drawer!NextOn(F)
    PROVE  Drawer!Next
  BY DEF Drawer!Next, Drawer!NextOn

LEMMA DrawerInvImplies ==
    DrawerAssumption /\ DrawerInv => Drawer!TypeOK /\ Drawer!ShownCurrent /\ Drawer!TwiceOnlyAfterLoss
  <1> SUFFICES ASSUME DrawerAssumption, DrawerInv
               PROVE  Drawer!TypeOK /\ Drawer!ShownCurrent /\ Drawer!TwiceOnlyAfterLoss
    OBVIOUS
  <1>1. Drawer!TypeOK
    BY DEF DrawerInv, DrawerTyped, Readings, OlderFirst, Requests, TaskRecords, WorkRecords, Drawer!TypeOK
  <1>2. Drawer!ShownCurrent
    BY DEF DrawerInv, Reread, Drawer!ShownCurrent, Drawer!Alive
  <1>3. Drawer!TwiceOnlyAfterLoss
    <2>1. log.lost # 0 => log.lost > 0
      BY DEF DrawerInv, DrawerTyped, LogRecords
    <2> QED
      BY <2>1 DEF DrawerInv, MadeOnce, Drawer!TwiceOnlyAfterLoss
  <1> QED
    BY <1>1, <1>2, <1>3

\* What a step may change: what is shown by an answered reading, whether the drawer is
\* there by closing it, what was made by a write that is accepted.
LEMMA DrawerFrame ==
    ASSUME DrawerInv, Drawer!Next \/ UNCHANGED Drawer!vars
    PROVE  /\ shown' = shown \/ Drawer!Arrive
           /\ drawer' = drawer \/ Drawer!Close \/ Drawer!Answer
           /\ log'.made = log.made \/ \E r \in wire : Drawer!Accept(r)
  <1>1. \A n : /\ [log EXCEPT !.changes = n].made = log.made /\ [log EXCEPT !.sends = n].made = log.made
               /\ [log EXCEPT !.others = n].made = log.made /\ [log EXCEPT !.lost = n].made = log.made
               /\ [log EXCEPT !.lists = n].made = log.made
    BY DEF DrawerInv, DrawerTyped, LogRecords
  <1>2. CASE Drawer!BeginFetch \/ Drawer!Read \/ Drawer!Arrive \/ Drawer!Close \/ Drawer!Answer
             \/ UNCHANGED Drawer!vars
    BY <1>2 DEF Drawer!BeginFetch, Drawer!Read, Drawer!Arrive, Drawer!Close, Drawer!Answer, Drawer!vars
  <1>3. CASE Drawer!Tick \/ Drawer!Others \/ Drawer!Load
    <2>1. CASE Drawer!Tick \/ Drawer!Others
      <3>1. UNCHANGED <<shown, drawer>> /\ \E n : log' = [log EXCEPT !.sends = n] \/ log' = [log EXCEPT !.others = n]
        BY <2>1, Zenon DEF Drawer!Tick, Drawer!Others
      <3> QED
        BY <1>1, <3>1
    <2>2. CASE Drawer!Load
      <3>1. UNCHANGED <<shown, drawer>> /\ \E n : log' = [log EXCEPT !.lists = n]
        BY <2>2, Zenon DEF Drawer!Load
      <3> QED
        BY <1>1, <3>1
    <2> QED
      BY <1>3, <2>1, <2>2
  <1>4. ASSUME NEW i \in Drawer!Forms, Drawer!Open(i) \/ Drawer!Shut(i) \/ Drawer!Type(i) \/ Drawer!Send(i)
        PROVE  shown' = shown /\ drawer' = drawer /\ log'.made = log.made
    <2>1. CASE Drawer!Open(i) \/ Drawer!Shut(i)
      BY <2>1 DEF Drawer!Open, Drawer!Shut
    <2>2. CASE Drawer!Type(i)
      BY <1>1, <2>2, Zenon DEF Drawer!Type
    <2>3. CASE Drawer!Send(i)
      BY <1>1, <2>3 DEF Drawer!Send
    <2> QED
      BY <1>4, <2>1, <2>2, <2>3
  <1>5. ASSUME NEW r \in wire, Drawer!Refuse(r) \/ Drawer!Succeed(r) \/ Drawer!Fail(r) \/ Drawer!Lose(r)
        PROVE  shown' = shown /\ drawer' = drawer /\ log'.made = log.made
    BY <1>1, <1>5 DEF Drawer!Refuse, Drawer!Succeed, Drawer!Fail, Drawer!Lose
  <1>6. ASSUME NEW r \in wire, Drawer!Accept(r) PROVE shown' = shown /\ drawer' = drawer
    BY <1>6 DEF Drawer!Accept
  <1> QED
    BY <1>2, <1>3, <1>4, <1>5, <1>6 DEF Drawer!Next, Drawer!NextOn

LEMMA DrawerSteps ==
    ASSUME DrawerAssumption, DrawerInv, Drawer!Next \/ UNCHANGED Drawer!vars
    PROVE  Drawer!LeavesNothing /\ Drawer!UntouchedKept
  <1>1. shown'.v >= shown.v
    <2>1. CASE shown' = shown
      BY <2>1 DEF DrawerInv, DrawerTyped, TaskRecords
    <2>2. CASE Drawer!Arrive
      BY <2>2 DEF Drawer!Arrive, DrawerInv, DrawerTyped, TaskRecords, Readings, OlderFirst
    <2> QED
      BY <2>1, <2>2, DrawerFrame
  <1>2. ASSUME drawer = "open", drawer' = "left", NEW i \in Drawer!Forms
        PROVE  work[i].text \in {0, work[i].ok} \/ work[i].late
    <2>1. Drawer!Close
      BY <1>2, DrawerFrame DEF Drawer!Answer
    <2>2. dirty = {} /\ (i \in Boxes => work[i].text = 0)
      BY <1>2, <2>1 DEF Drawer!Close, Drawer!Dirty
    <2> QED
      BY <2>2 DEF DrawerInv, MarkedAll, Drawer!Forms
  <1>3. ASSUME NEW r \in wire, r.i = "edit", NEW m \in log'.made \ log.made, m.k = r.k,
               NEW f \in Drawer!Fields \ r.edit.touched
        PROVE  \/ task'.val[f] = task.val[f]
               \/ r.edit.stale /\ f \in Fixed \cup Listed
               \/ f \in r.edit.guess
               \/ f \in Timed /\ task.val[f] \notin Minutes
    <2>1. PICK q \in wire : Drawer!Accept(q)
      BY <1>3, DrawerFrame
    <2>2. log'.made = log.made \cup {[i |-> q.i, n |-> q.n, k |-> q.k]}
      BY <2>1 DEF Drawer!Accept, DrawerInv, DrawerTyped, LogRecords
    <2>3. m = [i |-> q.i, n |-> q.n, k |-> q.k]
      BY <1>3, <2>2
    <2>4. q = r
      BY <1>3, <2>3 DEF DrawerInv, Requests
    <2>5. r.v = task.v /\ task'.val = r.edit.val
      BY <1>3, <2>1, <2>4 DEF Drawer!Accept, Drawer!Current, Drawer!Written, DrawerInv, DrawerTyped, TaskRecords
    <2> QED
      BY <1>3, <2>5 DEF DrawerInv, UntouchedFit, Fits
  <1> QED
    BY <1>1, <1>2, <1>3 DEF Drawer!LeavesNothing, Drawer!UntouchedKept

-----------------------------------------------------------------------------
(* Both forms of the browser together.                                      *)

BrowserInv ==
    /\ focus = "form" => FormInv
    /\ focus = "fields" => FieldsInv
    /\ focus \in {"edit", "drawer"} => DrawerInv

LEMMA InitBrowser == Init => BrowserInv
  BY InitForm, InitFields, InitDrawer, FormAssumption, DrawerAssumption DEF Init, BrowserInv

LEMMA StepKeepsBrowser == BrowserInv /\ [Next]_vars => BrowserInv'
  <1> SUFFICES ASSUME BrowserInv, [Next]_vars PROVE BrowserInv'
    OBVIOUS
  <1>1. focus' = focus
    BY DEF Next, vars
  <1>2. CASE focus = "form"
    <2>1. Form!Next \/ UNCHANGED Form!vars
      BY <1>2 DEF Next, vars, slots, from5, from8, Form!vars
    <2> QED
      BY <1>1, <1>2, <2>1, FormStepKeeps, FormAssumption DEF BrowserInv
  <1>3. CASE focus = "fields"
    <2>1. Fields!Next \/ UNCHANGED Fields!vars
      BY <1>3 DEF Next, vars, slots, from5, from8, Fields!vars
    <2> QED
      BY <1>1, <1>3, <2>1, StepKeepsFields, FieldsAssumption DEF BrowserInv
  <1>4. CASE focus \in {"edit", "drawer"}
    <2>1. Drawer!Next \/ UNCHANGED Drawer!vars
      BY <1>4, NextOnForms DEF Next, vars, slots, from5, from8, Drawer!vars
    <2> QED
      BY <1>1, <1>4, <2>1, DrawerStepKeeps, DrawerAssumption DEF BrowserInv
  <1> QED
    BY <1>1, <1>2, <1>3, <1>4 DEF BrowserInv

\* What a user types into the form for a new task becomes one task and no more, or stays
\* kept on the device, and a draft that is spent goes; a form filled from the options it
\* was given is accepted; the drawer of a task shows what it has written once all is
\* read, and writes the same text twice only after a lost answer (CreateTaskModal and
\* TaskDrawer), for any number of forms, fields, colleagues, tasks and sends.
THEOREM FormsSound == Spec => []FormsHold
  <1>1. BrowserInv => FormsHold
    BY FormInvImplies, FieldsInvImplies, DrawerInvImplies, FieldsAssumption, DrawerAssumption
       DEF BrowserInv, FormsHold
  <1> QED
    BY <1>1, InitBrowser, StepKeepsBrowser, PTL DEF Spec

\* A form for a new task is left with something in it only after the question; the
\* drawer never goes back to an older reading, closes without a question only over text
\* that was accepted or typed under way, and an accepted edit leaves alone what its user
\* did not touch, but for selects after a re-read or without the person on their list,
\* and the seconds of a deadline.
THEOREM FormStepsHold == Spec => FormSteps
  <1> DEFINE Held == /\ focus = "form" => Form!NeverLeftUnasked
                     /\ focus \in {"edit", "drawer"} => Drawer!LeavesNothing /\ Drawer!UntouchedKept
  <1>1. BrowserInv /\ [Next]_vars => [Held]_vars
    <2> SUFFICES ASSUME BrowserInv, Next PROVE Held
      OBVIOUS
    <2>1. focus = "form" => Form!NeverLeftUnasked
      BY FormNeverLeft DEF BrowserInv, Next
    <2>2. focus \in {"edit", "drawer"} => Drawer!LeavesNothing /\ Drawer!UntouchedKept
      BY NextOnForms, DrawerSteps, DrawerAssumption DEF BrowserInv, Next
    <2> QED
      BY <2>1, <2>2
  <1> QED
    BY <1>1, InitBrowser, StepKeepsBrowser, PTL DEF Spec, FormSteps

\* Every part keeps its types: rows, sessions, forms and the versions they carry, the
\* bytes of a file in one directory at a time, no more attempts of a job than it has.
THEOREM PlatformTyped == Spec => []TypesOK
  <1> DEFINE Inv == /\ focus = "purge" => PurgeInv
                    /\ focus = "files" => FilesInv /\ Places /\ Tries
                    /\ focus = "accounts" => AccountInv /\ AccountCounts
                    /\ focus = "admins" => AdminInv
                    /\ BrowserInv
  <1>1. Init => Inv
    BY InitPurge, InitFiles, InitPlaces, InitAccount, InitCounts, InitAdmin, InitBrowser, AdminAssumption,
       CountsAssumption DEF Init, BrowserInv
  <1>2. Inv /\ [Next]_vars => Inv'
    <2> SUFFICES ASSUME Inv, [Next]_vars PROVE Inv'
      OBVIOUS
    <2>1. focus' = focus
      BY DEF Next, vars
    <2>2. CASE focus = "purge"
      BY <2>1, <2>2, StepKeepsPurge DEF Next, vars, Purge!vars, from5, from7, BrowserInv
    <2>3. CASE focus = "files"
      <3>1. File!Next \/ UNCHANGED File!vars
        BY <2>3 DEF Next, vars, slots, File!vars, File!disk, File!data, from5
      <3> QED
        BY <2>1, <2>3, <3>1, StepKeepsFiles, StepKeepsPlaces, StepKeepsTries, CountsAssumption DEF BrowserInv
    <2>4. CASE focus = "accounts"
      <3>1. Account!Next \/ UNCHANGED Account!vars
        BY <2>4 DEF Next, vars, slots, Account!vars, from5, from7, from8
      <3> QED
        BY <2>1, <2>4, <3>1, StepKeepsAccount, StepKeepsCounts, CountsAssumption DEF BrowserInv
    <2>5. CASE focus = "admins"
      <3>1. Admin!Next \/ UNCHANGED Admin!vars
        BY <2>5 DEF Next, vars, slots, Admin!vars, Admin!people, Admin!resets, Admin!settings, from5, from7, from8
      <3> QED
        BY <2>1, <2>5, <3>1, StepKeepsAdmin DEF BrowserInv
    <2>6. CASE focus \notin {"purge", "files", "accounts", "admins"}
      BY <2>1, <2>6, StepKeepsBrowser
    <2> QED
      BY <2>2, <2>3, <2>4, <2>5, <2>6
  <1>3. Inv => TypesOK
    BY FilesTypes, AccountTypes, FormInvImplies, FieldsInvImplies, DrawerInvImplies, CountsAssumption,
       FieldsAssumption, DrawerAssumption DEF TypesOK, PurgeInv, AdminInv, BrowserInv
  <1> QED
    BY <1>1, <1>2, <1>3, PTL DEF Spec
====
