------------------------------ MODULE TaskTree ------------------------------
(***************************************************************************)
(* Tasks, their subtasks and the BLOCKS relations between them.            *)
(* tasks/task-command.service.ts, task-compatibility.service.ts,           *)
(* task-hierarchy.service.ts and task-relations.service.ts.                *)
(*                                                                         *)
(* A handler reads and checks first and writes in a later transaction that *)
(* is guarded by the version of one task; a request slot holds what was    *)
(* checked.  A client sends the version it has seen, and versions only     *)
(* grow, so a request that commits has read its own task at that version;  *)
(* the rows of other tasks it has read are guarded by nothing.             *)
(*                                                                         *)
(* OPEN stands for every status that is not terminal.  archivedAt is kept  *)
(* apart from the status because it is never taken back.  Left out: who    *)
(* may edit, the other relation types, the ids of relations (one removed   *)
(* and put back counts as the same), other companies, and operations that  *)
(* only advance a version (a request that meets one is refused).           *)
(***************************************************************************)
EXTENDS Integers, FiniteSets

CONSTANTS
    Tasks,
    Existing,    \* tasks there are from the start, roots without relations
    Scopes,      \* pairs of a group and a project
    Slots,       \* requests being served at the same time
    NoTask, Idle,
    MaxRequests  \* bound on started requests

ASSUME ConstantsAssumption ==
    /\ Existing \subseteq Tasks
    /\ NoTask \notin Tasks
    /\ MaxRequests \in Nat

VARIABLES
    status,   \* Task.status, "ABSENT" before the task is created
    archived, \* tasks whose archivedAt is set
    parent,   \* Task.parentTaskId
    scope,    \* Task.groupId and Task.projectId
    version,  \* Task.version
    blocks,   \* TaskRelation rows of type BLOCKS: <<source, target>>
    moved,    \* tasks an update has given another parent
    crossed,  \* tasks created with blocking relations in both directions
    req,      \* per slot, the request between its checks and its writes
    started,  \* requests started, bounded by MaxRequests
    serial    \* requests do not overlap in this behaviour

tree    == <<status, archived, parent, scope, version>>
history == <<moved, crossed>>
vars    == <<tree, blocks, history, req, started, serial>>

Statuses == {"OPEN", "DONE", "CANCELLED", "ARCHIVED"}

Exists(t)       == status[t] # "ABSENT"
Live(t)         == Exists(t) /\ t \notin archived
Terminal(t)     == status[t] \in {"DONE", "CANCELLED", "ARCHIVED"}
Children(t)     == {c \in Tasks : parent[c] = t}
OpenChildren(t) == {c \in Children(t) : Live(c) /\ ~Terminal(c)}

\* What edges of R lead to from x, x included: the least set closed under R.
From(R, x) ==
    {y \in Tasks : \A S \in SUBSET Tasks :
        x \in S /\ (\A e \in R : e[1] \in S => e[2] \in S) => y \in S}

Acyclic(R) == \A e \in R : e[1] \notin From(R, e[2])

Parents == {<<c, parent[c]>> : c \in {t \in Tasks : parent[t] # NoTask}}

Init ==
    /\ status = [t \in Tasks |-> IF t \in Existing THEN "OPEN" ELSE "ABSENT"]
    /\ archived = {}
    /\ parent = [t \in Tasks |-> NoTask]
    /\ scope \in [Tasks -> Scopes]
    /\ version = [t \in Tasks |-> IF t \in Existing THEN 1 ELSE 0]
    /\ blocks = {}
    /\ moved = {} /\ crossed = {}
    /\ req = [s \in Slots |-> Idle]
    /\ started = 0 /\ serial \in BOOLEAN

-----------------------------------------------------------------------------
(* The checks.  Definitions named M_ are deliberate mistakes: no action    *)
(* uses them, they stand in for the definition after them to show what a   *)
(* property catches.                                                       *)

Free(s) ==
    /\ started < MaxRequests
    /\ req[s] = Idle
    /\ serial => \A o \in Slots : req[o] = Idle

Start(s, r) ==
    /\ started' = started + 1
    /\ req' = [req EXCEPT ![s] = r]
    /\ UNCHANGED <<tree, blocks, history>>

\* Ids are random: no two requests create the same task.
Fresh(t) == ~Exists(t) /\ \A s \in Slots : req[s] # Idle => req[s].task # t

\* validateCreate: the parent and the related tasks are live and of the scope
\* asked for.  The relations are not looked at as edges.
BeginCreate(s, t, p, g, out, in) ==
    /\ Fresh(t)
    /\ p # NoTask => Live(p) /\ scope[p] = g
    /\ out \cap in = {}
    /\ \A u \in out \cup in : Live(u) /\ scope[u] = g
    /\ Start(s, [op |-> "create", task |-> t, parent |-> p, scope |-> g,
                 out |-> out, in |-> in, seen |-> 0])

\* createSubtask: an open root, of which the client has seen the version.
BeginSubtask(s, t, p) ==
    /\ Fresh(t)
    /\ Live(p) /\ parent[p] = NoTask /\ ~Terminal(p)
    /\ Start(s, [op |-> "subtask", task |-> t, parent |-> p, scope |-> scope[p],
                 out |-> {}, in |-> {}, seen |-> version[p]])

M_AcceptsAny(t, p, g) == p # t

\* assertValidParent: the live children stay in the scope, and the walk from
\* the new parent to its root meets live tasks of the scope, and t nowhere.
Accepts(t, p, g) ==
    /\ \A c \in Children(t) : c \notin archived => scope[c] = g
    /\ p # NoTask =>
        \A u \in From(Parents, p) :
            /\ u # t /\ Live(u) /\ scope[u] = g
            /\ parent[u] # NoTask => u \notin From(Parents, parent[u])

BeginUpdate(s, t, p, g) ==
    /\ Exists(t)
    /\ Accepts(t, p, g)
    /\ Start(s, [op |-> "update", task |-> t, parent |-> p, scope |-> g,
                 seen |-> version[t]])

\* changeStatus, from any status to any status; DONE needs closed subtasks.
BeginStatus(s, t, to) ==
    /\ Exists(t)
    /\ to = "DONE" => OpenChildren(t) = {}
    /\ Start(s, [op |-> "status", task |-> t, parent |-> parent[t], to |-> to,
                 seen |-> version[t]])

BeginArchive(s, t) ==
    /\ Exists(t)
    /\ Start(s, [op |-> "archive", task |-> t, seen |-> version[t]])

M_NoBlockingPath(e) == e[1] # e[2] /\ <<e[2], e[1]>> \notin blocks

\* assertNoBlockingCycle
NoBlockingPath(e) == e[1] \notin From(blocks, e[2])

\* add: the task is one end of the relation (normalize), the other end has to
\* be live and of the same scope.
Between(t, u)    == {<<t, u>>, <<u, t>>}
Compatible(t, u) == Live(u) /\ scope[u] = scope[t]
BeginRelate(s, t, u, e) ==
    /\ Exists(t)
    /\ Compatible(t, u)
    /\ e \in Between(t, u)
    /\ NoBlockingPath(e)
    /\ Start(s, [op |-> "relate", task |-> t, edge |-> e, seen |-> version[t]])

BeginUnrelate(s, t, e) ==
    /\ Exists(t)
    /\ e \in blocks /\ t \in {e[1], e[2]}
    /\ Start(s, [op |-> "unrelate", task |-> t, edge |-> e, seen |-> version[t]])

-----------------------------------------------------------------------------
(* The transactions.                                                       *)

Holds(s, op) == req[s] # Idle /\ req[s].op = op
Done(s)      == req' = [req EXCEPT ![s] = Idle] /\ UNCHANGED started

M_ParentUnmoved(r) == TRUE

\* Only createSubtask says which version of the parent it expects.
ParentUnmoved(r) == r.seen # 0 => version[r.parent] = r.seen

M_Advanced(ts) == [t \in Tasks |-> IF t \in ts /\ Exists(t) THEN version[t] + 1 ELSE version[t]]
Advanced(ts)   == [t \in Tasks |-> IF t \in ts THEN version[t] + 1 ELSE version[t]]

\* A new subtask and a new status of a subtask are a new version of its parent.
M_Concerned(r) == {r.task}
Concerned(r)   == {r.task, r.parent}

\* create: the task and its relations.
CommitCreate(s) ==
    LET r == req[s]
    IN  /\ Holds(s, "create") \/ Holds(s, "subtask")
        /\ ParentUnmoved(r)
        /\ status' = [status EXCEPT ![r.task] = "OPEN"]
        /\ parent' = [parent EXCEPT ![r.task] = r.parent]
        /\ scope' = [scope EXCEPT ![r.task] = r.scope]
        /\ version' = Advanced(Concerned(r))
        /\ blocks' = blocks \cup ({r.task} \X r.out) \cup (r.in \X {r.task})
        /\ crossed' = IF r.in # {} /\ r.out # {} THEN crossed \cup {r.task} ELSE crossed
        /\ Done(s)
        /\ UNCHANGED <<archived, moved>>

Unmoved(r) == version[r.task] = r.seen

CommitUpdate(s) ==
    LET r == req[s]
    IN  /\ Holds(s, "update")
        /\ Unmoved(r)
        /\ parent' = [parent EXCEPT ![r.task] = r.parent]
        /\ scope' = [scope EXCEPT ![r.task] = r.scope]
        /\ version' = Advanced({r.task})
        /\ moved' = IF parent[r.task] # r.parent THEN moved \cup {r.task} ELSE moved
        /\ Done(s)
        /\ UNCHANGED <<status, archived, blocks, crossed>>

CommitStatus(s) ==
    LET r == req[s]
    IN  /\ Holds(s, "status")
        /\ Unmoved(r)
        /\ status' = [status EXCEPT ![r.task] = r.to]
        /\ archived' = IF r.to = "ARCHIVED" THEN archived \cup {r.task} ELSE archived
        /\ version' = Advanced(Concerned(r))
        /\ Done(s)
        /\ UNCHANGED <<parent, scope, blocks, history>>

CommitArchive(s) ==
    LET r == req[s]
    IN  /\ Holds(s, "archive")
        /\ Unmoved(r) /\ r.task \notin archived
        /\ status' = [status EXCEPT ![r.task] = "ARCHIVED"]
        /\ archived' = archived \cup {r.task}
        /\ version' = Advanced({r.task})
        /\ Done(s)
        /\ UNCHANGED <<parent, scope, blocks, history>>

\* (source, target) is unique.
CommitRelate(s) ==
    LET r == req[s]
    IN  /\ Holds(s, "relate")
        /\ Unmoved(r) /\ r.edge \notin blocks
        /\ blocks' = blocks \cup {r.edge}
        /\ version' = Advanced({r.task})
        /\ Done(s)
        /\ UNCHANGED <<status, archived, parent, scope, history>>

CommitUnrelate(s) ==
    LET r == req[s]
    IN  /\ Holds(s, "unrelate")
        /\ Unmoved(r) /\ r.edge \in blocks
        /\ blocks' = blocks \ {r.edge}
        /\ version' = Advanced({r.task})
        /\ Done(s)
        /\ UNCHANGED <<status, archived, parent, scope, history>>

Admissible(r) ==
    CASE r.op \in {"create", "subtask"} -> ParentUnmoved(r)
      [] r.op = "archive"  -> Unmoved(r) /\ r.task \notin archived
      [] r.op = "relate"   -> Unmoved(r) /\ r.edge \notin blocks
      [] r.op = "unrelate" -> Unmoved(r) /\ r.edge \in blocks
      [] OTHER             -> Unmoved(r)

\* The transaction is rolled back.
Refuse(s) ==
    /\ req[s] # Idle
    /\ ~Admissible(req[s])
    /\ Done(s)
    /\ UNCHANGED <<tree, blocks, history>>

-----------------------------------------------------------------------------
Begin(s) ==
    \/ \E t \in Tasks, p \in Tasks \cup {NoTask}, g \in Scopes,
          out, in \in SUBSET Tasks : BeginCreate(s, t, p, g, out, in)
    \/ \E t, p \in Tasks : BeginSubtask(s, t, p)
    \/ \E t \in Tasks, p \in Tasks \cup {NoTask}, g \in Scopes : BeginUpdate(s, t, p, g)
    \/ \E t \in Tasks, to \in Statuses : BeginStatus(s, t, to)
    \/ \E t \in Tasks : BeginArchive(s, t)
    \/ \E t, u \in Tasks : \E e \in Between(t, u) : BeginRelate(s, t, u, e)
    \/ \E t \in Tasks, e \in blocks : BeginUnrelate(s, t, e)

Commit(s) == \/ CommitCreate(s) \/ CommitUpdate(s) \/ CommitStatus(s) \/ CommitArchive(s)
             \/ CommitRelate(s) \/ CommitUnrelate(s)

Next ==
    /\ \E s \in Slots : (Free(s) /\ Begin(s)) \/ Commit(s) \/ Refuse(s)
    /\ UNCHANGED serial

Spec == Init /\ [][Next]_vars

-----------------------------------------------------------------------------
(* Properties.                                                             *)

\* Every variable stays within its type.
TypeOK ==
    /\ status \in [Tasks -> Statuses \cup {"ABSENT"}]
    /\ archived \subseteq {t \in Tasks : Exists(t)}
    /\ parent \in [Tasks -> Tasks \cup {NoTask}]
    /\ scope \in [Tasks -> Scopes]
    /\ version \in [Tasks -> Nat]
    /\ \A t \in Tasks : Exists(t) <=> version[t] > 0
    /\ blocks \subseteq Tasks \X Tasks
    /\ moved \subseteq Tasks /\ crossed \subseteq Tasks
    /\ started \in 0..MaxRequests

\* No task is its own ancestor, and live subtasks are in the scope of a live
\* parent, whatever moves, archives and status changes came before.  Requests
\* that overlap can tie a knot: each checks rows the other one changes.
TreeShape ==
    serial =>
        /\ Acyclic(Parents)
        /\ \A c \in Tasks :
              Live(c) /\ parent[c] # NoTask /\ Live(parent[c])
                  => scope[c] = scope[parent[c]]

\* A task becomes DONE over an open subtask only if an overlapping update moved
\* the subtask under it: a new, or a reopened, subtask changes the version the
\* completion is guarded by.  (Decision record: "A parent cannot enter DONE
\* while any child is outside DONE|CANCELLED|ARCHIVED".)
DoneOverlooksMovedOnly ==
    [][\A t \in Tasks : status[t] # "DONE" /\ status'[t] = "DONE" =>
          \A c \in OpenChildren(t) : ~serial /\ c \in moved]_vars

\* A subtask is added to an open root only, also when the parent is closed,
\* archived or moved while the request is served.
SubtasksUnderOpenRoots ==
    [][\A s \in Slots : Holds(s, "subtask") /\ ~Exists(req[s].task) =>
          LET p == req[s].parent
          IN  parent'[req[s].task] = p => Live(p) /\ ~Terminal(p) /\ parent[p] = NoTask]_vars

\* Without overlap a cycle of blocking relations runs through a task that was
\* created inside it.
CyclesAreCreated == serial => Acyclic({e \in blocks : e[1] \notin crossed})

\* Without overlap neither subtasks nor, but for a task created inside one,
\* blocking relations form a cycle, and subtasks share the scope of the parent.
TreeHolds == TypeOK /\ TreeShape /\ CyclesAreCreated

\* Blocking relations have no cycle.  (task-relations.service.ts refuses one
\* with task_relation_cycle.)
NoBlockingCycle == Acyclic(blocks)
=============================================================================
