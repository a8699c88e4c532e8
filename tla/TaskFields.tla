----------------------------- MODULE TaskFields -----------------------------
(***************************************************************************)
(* The fields of the form that creates a task (the sections of             *)
(* features/tasks/create) and the options they offer, which are loaded for *)
(* each project and kept (TaskCatalogService.options), against what the    *)
(* server accepts (createTaskSchema, TaskValidationService).               *)
(*                                                                         *)
(* Left out: texts, numbers and dates, tags, checklist and files; the      *)
(* details of reminders and recurrence; limits of length.                  *)
(***************************************************************************)
EXTENDS Naturals, FiniteSets

CONSTANTS Me, Others, Tasks, Projects, None

People == Others \cup {Me}
Roles  == {"RESPONSIBLE", "COLLABORATOR", "WATCHER"}

VARIABLES
    draft,   \* [part, reporter, project, parent, relations, recurs, remind]
    odd,     \* a relation was added that had been chosen under another project
    pick,    \* the task chosen in the list of relations, and the project it was listed for
    creating,\* the request for a new project is under way
    options, \* [project -> what was loaded for it], None if nothing was
    active,  \* the people the server has for this form
    where    \* [Tasks -> project]; tasks stay where they are

vars == <<draft, odd, pick, creating, options, active, where>>

Keys      == Projects \cup {None}
Nothing   == [task |-> None, project |-> None]
Listing(p) == [users |-> active, tasks |-> {t \in Tasks : where[t] = p}]
Loaded    == options[draft.project] # None
O         == options[draft.project]
RolesOf(d, u) == {r \in Roles : <<u, r>> \in d.part}
In(d, u)  == RolesOf(d, u) # {}
Responsible(d, u) == <<u, "RESPONSIBLE">> \in d.part
Without(d, u) == {x \in d.part : x[1] # u}

Init ==
    /\ \E u \in People : \* the form can be opened for a colleague
           draft = [part |-> {<<u, "RESPONSIBLE">>}, reporter |-> Me, project |-> None, parent |-> None,
                    relations |-> {}, recurs |-> FALSE, remind |-> None]
    /\ odd = FALSE /\ pick = Nothing /\ creating = FALSE /\ options = [p \in Keys |-> None]
    /\ active = People /\ where \in [Tasks -> Keys]

-----------------------------------------------------------------------------
(* Options.  M_ definitions are deliberate mistakes.                       *)

\* Whenever other options are shown, people they do not have are taken off.
M_Fit(d, o) == d
Fit(d, o) == LET kept == {x \in d.part : x[1] \in o.users} IN
    [d EXCEPT !.part = IF Me \in o.users /\ ~\E x \in kept : x[2] = "RESPONSIBLE"
                       THEN kept \cup {<<Me, "RESPONSIBLE">>} ELSE kept,
              !.reporter = IF @ \in o.users THEN @ ELSE IF Me \in o.users THEN Me ELSE None]
Load ==
    /\ O # Listing(draft.project)
    /\ options' = [options EXCEPT ![draft.project] = Listing(draft.project)]
    /\ draft' = Fit(draft, Listing(draft.project))
    /\ UNCHANGED <<odd, pick, creating, active, where>>

\* The section of relations, and what was chosen in it, is there with its options.
Show(d) ==
    /\ draft' = IF options[d.project] = None THEN d ELSE Fit(d, options[d.project])
    /\ pick' = IF options[d.project] = None THEN Nothing ELSE pick
Close == pick # Nothing /\ pick' = Nothing /\ UNCHANGED <<draft, odd, creating, options, active, where>>

-----------------------------------------------------------------------------
(* The fields.                                                             *)

Put(d) == draft' = d /\ UNCHANGED <<odd, pick, creating, options, active, where>>

M_InProject(d, p) == [d EXCEPT !.project = p]
InProject(d, p)   == [d EXCEPT !.project = p, !.parent = None, !.relations = {}]
SelectProject(p) ==
    /\ Loaded /\ p # draft.project
    /\ Show(InProject(draft, p)) /\ odd' = FALSE /\ UNCHANGED <<creating, options, active, where>>
BeginProject ==
    /\ Loaded /\ ~creating /\ creating' = TRUE
    /\ UNCHANGED <<draft, odd, pick, options, active, where>>
\* The answer to it comes whatever the form shows by then.
CommitProject(p) ==
    /\ creating /\ creating' = FALSE
    /\ Show(InProject(draft, p)) /\ odd' = FALSE /\ UNCHANGED <<options, active, where>>
RefuseProject == creating /\ creating' = FALSE /\ UNCHANGED <<draft, odd, pick, options, active, where>>

M_Child(d, t) == [d EXCEPT !.parent = t]
Child(d, t)   == [d EXCEPT !.parent = t, !.recurs = @ /\ t = None]
SelectParent(t) == Loaded /\ t \in O.tasks \cup {None} /\ t # draft.parent /\ Put(Child(draft, t))

Pick(t) ==
    /\ Loaded /\ t \in O.tasks \ (draft.relations \cup {draft.parent}) /\ pick.task # t
    /\ pick' = [task |-> t, project |-> draft.project]
    /\ UNCHANGED <<draft, odd, creating, options, active, where>>
Relate ==
    /\ Loaded /\ pick.task \notin draft.relations \cup {None}
    /\ draft' = [draft EXCEPT !.relations = @ \cup {pick.task}]
    /\ odd' = (odd \/ pick.project # draft.project) /\ pick' = Nothing
    /\ UNCHANGED <<creating, options, active, where>>
Unrelate(t) == Loaded /\ t \in draft.relations /\ Put([draft EXCEPT !.relations = @ \ {t}])

M_Add(d, u) == d.part \cup {<<u, "RESPONSIBLE">>}
Add(d, u)   == Without(d, u) \cup {<<u, "RESPONSIBLE">>}
AddResponsible(u) ==
    Loaded /\ u \in O.users /\ ~Responsible(draft, u) /\ Put([draft EXCEPT !.part = Add(draft, u)])
RemoveResponsible(u) == Responsible(draft, u) /\ Put([draft EXCEPT !.part = Without(draft, u)])
Check(u) ==
    /\ Loaded /\ u \in O.users /\ ~In(draft, u)
    /\ Put([draft EXCEPT !.part = @ \cup {<<u, "COLLABORATOR">>}])
Uncheck(u) == Loaded /\ In(draft, u) /\ ~Responsible(draft, u) /\ Put([draft EXCEPT !.part = Without(draft, u)])
Rerole(u, r) ==
    /\ Loaded /\ In(draft, u) /\ ~Responsible(draft, u) /\ r \in {"COLLABORATOR", "WATCHER"} \ RolesOf(draft, u)
    /\ Put([draft EXCEPT !.part = Without(draft, u) \cup {<<u, r>>}])
Reporter(u) == Loaded /\ u \in O.users /\ u # draft.reporter /\ Put([draft EXCEPT !.reporter = u])

Recur == Loaded /\ draft.parent = None /\ Put([draft EXCEPT !.recurs = ~@])
Remind(u) ==
    /\ Loaded /\ u # draft.remind
    /\ u = None \/ (u \in O.users /\ (u = draft.reporter \/ In(draft, u)))
    /\ Put([draft EXCEPT !.remind = u])

-----------------------------------------------------------------------------
(* The server's side.                                                      *)

Deactivate(u) == u # Me /\ u \in active /\ active' = active \ {u}
                 /\ UNCHANGED <<draft, odd, pick, creating, options, where>>

\* What the form asks for, and what the server does.
Valid(d) ==
    /\ d.reporter # None /\ \E u \in People : Responsible(d, u)
    /\ ~(d.recurs /\ d.parent # None)
Accepts(d) ==
    /\ \A u \in People : Cardinality(RolesOf(d, u)) <= 1
    /\ \E u \in People : Responsible(d, u)
    /\ ~(d.recurs /\ d.parent # None)
    /\ \A u \in People : (u \in {d.reporter, d.remind} \/ In(d, u)) => u \in active
    /\ d.remind # None => d.remind \in {Me, d.reporter} \/ In(d, d.remind)
    /\ d.parent # None => where[d.parent] = d.project
    /\ \A t \in d.relations : where[t] = d.project

Next ==
    \/ Load \/ Close \/ BeginProject \/ RefuseProject \/ Relate \/ Recur
    \/ \E p \in Keys : SelectProject(p) \/ (p # None /\ CommitProject(p))
    \/ \E t \in Tasks \cup {None} : SelectParent(t)
    \/ \E t \in Tasks : Pick(t) \/ Unrelate(t)
    \/ \E u \in People :
          \/ AddResponsible(u) \/ RemoveResponsible(u) \/ Check(u) \/ Uncheck(u) \/ Reporter(u)
          \/ Deactivate(u) \/ \E r \in Roles : Rerole(u, r)
    \/ \E u \in People \cup {None} : Remind(u)
Spec == Init /\ [][Next]_vars

-----------------------------------------------------------------------------
TypeOK ==
    /\ draft.part \subseteq People \X Roles /\ draft.reporter \in People \cup {None}
    /\ draft.project \in Keys /\ draft.relations \subseteq Tasks /\ pick.task \in Tasks \cup {None}

\* The form can leave three things to the server: the creator as a participant
\* twice, a reminder for somebody taken off again, a relation of another project.
Twice    == Cardinality(RolesOf(draft, Me)) = 2
Reminded == draft.remind # None /\ ~In(draft, draft.remind)

\* Otherwise, with current options what it lets through is accepted.
OfferedIsAccepted ==
    (Loaded /\ O = Listing(draft.project) /\ Valid(draft)) => Accepts(draft) \/ Twice \/ Reminded \/ odd

\* A subtask never recurs, even before it is sent; nobody else is there twice.
FieldsFit ==
    /\ draft.parent # None => ~draft.recurs
    /\ \A u \in Others : Cardinality(RolesOf(draft, u)) <= 1
=============================================================================
