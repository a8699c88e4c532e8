--------------------------- MODULE TaskTreeProofs ---------------------------
(***************************************************************************)
(* Proofs about TaskTree, for any tasks, scopes, requests and bounds.      *)
(*                                                                         *)
(* A request reads rows of other tasks that nothing guards, so neither     *)
(* theorem follows from its transaction alone.  The invariants below say   *)
(* what a request still knows when it commits: as long as the one version  *)
(* it is guarded by stands, so does what it has read.                      *)
(***************************************************************************)
EXTENDS TaskTree, TLAPS

\* A request has the fields of its operation, names a parent that exists, and
\* has seen a version that is not ahead of the row.
Sound(r) ==
    /\ r.task \in Tasks
    /\ r.op \in {"create", "subtask", "update", "status", "archive", "relate", "unrelate"}
    /\ r.op \in {"create", "subtask", "update", "status"} =>
          /\ r.parent \in Tasks \cup {NoTask}
          /\ r.parent # NoTask => Exists(r.parent)
    /\ r.op \in {"create", "subtask", "update"} => r.scope \in Scopes
    /\ r.op \in {"create", "subtask"} => r.out \subseteq Tasks /\ r.in \subseteq Tasks
    /\ r.op = "create" => r.seen = 0
    /\ r.op = "subtask" => r.parent \in Tasks /\ r.seen \in 1..version[r.parent]
    /\ r.op \notin {"create", "subtask"} => r.seen \in 1..version[r.task]
    /\ r.op = "status" => r.to \in Statuses
    /\ r.op \in {"relate", "unrelate"} => r.edge \in Tasks \X Tasks

RequestsSound == DOMAIN req = Slots /\ \A s \in Slots : req[s] # Idle => Sound(req[s])

\* Parents exist, and tasks to come have none.
ParentsExist == \A t \in Tasks : parent[t] # NoTask => Exists(t) /\ Exists(parent[t])

TypeInv == TypeOK /\ RequestsSound /\ ParentsExist

-----------------------------------------------------------------------------
(* Types.                                                                  *)

LEMMA InitTypeInv == Init => TypeInv
  BY ConstantsAssumption
  DEF Init, TypeInv, TypeOK, RequestsSound, ParentsExist, Exists, Statuses

\* A request that starts with checked fields leaves the invariant alone.
LEMMA StartKeepsTypes ==
    ASSUME TypeInv, NEW s \in Slots, NEW r, Sound(r), Free(s), Start(s, r)
    PROVE  TypeInv'
  <1> USE DEF TypeInv
  <1>1. TypeOK'
    BY ConstantsAssumption DEF Start, Free, TypeOK, Exists, tree, history
  <1>2. RequestsSound'
    BY DEF Start, RequestsSound, Sound, Exists, tree
  <1>3. ParentsExist'
    BY DEF Start, ParentsExist, Exists, tree
  <1> QED
    BY <1>1, <1>2, <1>3

\* A version only grows, and a row changes only with its version.
Grows ==
    \A t \in Tasks :
        /\ version'[t] >= version[t]
        /\ Exists(t) => status'[t] # "ABSENT"
        /\ version'[t] = version[t] =>
              /\ status'[t] = status[t] /\ parent'[t] = parent[t]
              /\ t \in archived' <=> t \in archived

\* The requests that go on, after rows have grown.
LEMMA SoundStays ==
    ASSUME TypeOK, NEW r, Sound(r), Grows, version' \in [Tasks -> Nat]
    PROVE  Sound(r)'
  BY DEF TypeOK, Sound, Grows, Exists

\* Done empties one slot and leaves the others.
LEMMA DoneKeepsRequests ==
    ASSUME TypeInv, NEW s \in Slots, Done(s), Grows, version' \in [Tasks -> Nat]
    PROVE  RequestsSound'
  <1>1. \A o \in Slots : req'[o] # Idle => req'[o] = req[o] /\ Sound(req[o])
    BY DEF Done, TypeInv, RequestsSound
  <1>2. \A o \in Slots : req'[o] # Idle => Sound(req[o])'
    BY <1>1, SoundStays DEF TypeInv
  <1> QED
    BY <1>1, <1>2 DEF Done, TypeInv, RequestsSound

\* What every transaction leaves behind.
LEMMA CommitKeepsTypes ==
    ASSUME TypeInv, NEW s \in Slots, Commit(s)
    PROVE  TypeInv' /\ Grows
  <1> DEFINE r == req[s]
  <1> USE DEF TypeInv
  <1>0. r # Idle /\ Sound(r)
    BY DEF Commit, CommitCreate, CommitUpdate, CommitStatus, CommitArchive, CommitRelate,
           CommitUnrelate, Holds, RequestsSound
  <1> USE <1>0
  <1>1. TypeOK' /\ ParentsExist' /\ Grows /\ Done(s)
    <2>1. CASE CommitCreate(s)
      BY <2>1, ConstantsAssumption
      DEF CommitCreate, Holds, Sound, TypeOK, ParentsExist, Grows, Exists, Advanced, Concerned,
          Done, Statuses
    <2>2. CASE CommitUpdate(s)
      BY <2>2, ConstantsAssumption
      DEF CommitUpdate, Unmoved, Holds, Sound, TypeOK, ParentsExist, Grows, Exists, Advanced,
          Done
    <2>3. CASE CommitStatus(s)
      BY <2>3, ConstantsAssumption
      DEF CommitStatus, Unmoved, Holds, Sound, TypeOK, ParentsExist, Grows, Exists, Advanced,
          Concerned, Done, history, Statuses
    <2>4. CASE CommitArchive(s)
      BY <2>4, ConstantsAssumption
      DEF CommitArchive, Unmoved, Holds, Sound, TypeOK, ParentsExist, Grows, Exists, Advanced,
          Done, history, Statuses
    <2>5. CASE CommitRelate(s) \/ CommitUnrelate(s)
      BY <2>5, ConstantsAssumption
      DEF CommitRelate, CommitUnrelate, Unmoved, Holds, Sound, TypeOK, ParentsExist, Grows,
          Exists, Advanced, Done, history
    <2> QED
      BY <2>1, <2>2, <2>3, <2>4, <2>5 DEF Commit
  <1> QED
    BY <1>1, DoneKeepsRequests DEF TypeOK

LEMMA RefuseKeepsTypes ==
    ASSUME TypeInv, NEW s \in Slots, Refuse(s)
    PROVE  TypeInv'
  <1>1. Grows
    BY DEF TypeInv, TypeOK, Refuse, Grows, Exists, tree
  <1>2. TypeOK' /\ ParentsExist'
    BY DEF TypeInv, TypeOK, ParentsExist, Refuse, Done, tree, history, Exists
  <1>3. RequestsSound'
    BY <1>1, <1>2, DoneKeepsRequests DEF Refuse, TypeOK
  <1> QED
    BY <1>2, <1>3 DEF TypeInv

\* What the checks of a request establish when it starts.
OpenRoot(p) == Live(p) /\ ~Terminal(p) /\ parent[p] = NoTask

\* The tasks a request relates exist, ...
EndsExist(r) ==
    /\ r.op \in {"create", "subtask"} => \A u \in r.out \cup r.in : Exists(u)
    /\ r.op = "relate" => Exists(r.edge[1]) /\ Exists(r.edge[2])

\* ... and the place it asks for is free.
Stands(r) ==
    /\ r.op \in {"create", "subtask"} /\ r.parent # NoTask => scope[r.parent] = r.scope
    /\ r.op = "update" => Accepts(r.task, r.parent, r.scope)
    /\ r.op = "relate" => NoBlockingPath(r.edge)

Informed(r) ==
    /\ IF r.op \in {"create", "subtask"} THEN Fresh(r.task) ELSE Exists(r.task)
    /\ r.op = "subtask" => OpenRoot(r.parent)
    /\ r.op = "status" => /\ r.parent = parent[r.task]
                          /\ r.to = "DONE" => OpenChildren(r.task) = {}
    /\ EndsExist(r) /\ Stands(r)

LEMMA BeginIsSound ==
    ASSUME TypeInv, NEW s \in Slots, Begin(s)
    PROVE  \E r : Sound(r) /\ Informed(r) /\ Start(s, r)
  <1> USE DEF TypeInv, TypeOK, Exists, Informed, EndsExist, Stands
  <1>1. ASSUME NEW t \in Tasks, NEW p \in Tasks \cup {NoTask}, NEW g \in Scopes,
               NEW out \in SUBSET Tasks, NEW in \in SUBSET Tasks,
               BeginCreate(s, t, p, g, out, in)
        PROVE  \E r : Sound(r) /\ Informed(r) /\ Start(s, r)
    <2> DEFINE r == [op |-> "create", task |-> t, parent |-> p, scope |-> g,
                     out |-> out, in |-> in, seen |-> 0]
    <2>1. Sound(r)
      BY <1>1 DEF BeginCreate, Sound, Live
    <2> QED
      BY <1>1, <2>1 DEF BeginCreate, Live
  <1>2. ASSUME NEW t \in Tasks, NEW p \in Tasks, BeginSubtask(s, t, p)
        PROVE  \E r : Sound(r) /\ Informed(r) /\ Start(s, r)
    <2> DEFINE r == [op |-> "subtask", task |-> t, parent |-> p, scope |-> scope[p],
                     out |-> {}, in |-> {}, seen |-> version[p]]
    <2>1. Sound(r)
      BY <1>2 DEF BeginSubtask, Sound, Live
    <2> QED
      BY <1>2, <2>1 DEF BeginSubtask, OpenRoot
  <1>3. ASSUME NEW t \in Tasks, NEW p \in Tasks \cup {NoTask}, NEW g \in Scopes,
               BeginUpdate(s, t, p, g)
        PROVE  \E r : Sound(r) /\ Informed(r) /\ Start(s, r)
    <2> DEFINE r == [op |-> "update", task |-> t, parent |-> p, scope |-> g,
                     seen |-> version[t]]
    <2>1. p # NoTask => p \in From(Parents, p)
      BY DEF From
    <2>2. p # NoTask => Exists(p)
      BY <1>3, <2>1 DEF BeginUpdate, Accepts, Live
    <2>3. Sound(r)
      BY <1>3, <2>2 DEF BeginUpdate, Sound
    <2> QED
      BY <1>3, <2>3 DEF BeginUpdate
  <1>4. ASSUME NEW t \in Tasks, NEW to \in Statuses, BeginStatus(s, t, to)
        PROVE  \E r : Sound(r) /\ Informed(r) /\ Start(s, r)
    <2> DEFINE r == [op |-> "status", task |-> t, parent |-> parent[t], to |-> to,
                     seen |-> version[t]]
    <2>1. Sound(r)
      BY <1>4 DEF BeginStatus, Sound, ParentsExist
    <2> QED
      BY <1>4, <2>1 DEF BeginStatus
  <1>5. ASSUME NEW t \in Tasks, BeginArchive(s, t)
        PROVE  \E r : Sound(r) /\ Informed(r) /\ Start(s, r)
    <2> DEFINE r == [op |-> "archive", task |-> t, seen |-> version[t]]
    <2>1. Sound(r)
      BY <1>5 DEF BeginArchive, Sound
    <2> QED
      BY <1>5, <2>1 DEF BeginArchive
  <1>6. ASSUME NEW t \in Tasks, NEW u \in Tasks, NEW e \in Between(t, u),
               BeginRelate(s, t, u, e)
        PROVE  \E r : Sound(r) /\ Informed(r) /\ Start(s, r)
    <2> DEFINE r == [op |-> "relate", task |-> t, edge |-> e, seen |-> version[t]]
    <2>1. Sound(r)
      BY <1>6 DEF BeginRelate, Between, Sound
    <2> QED
      BY <1>6, <2>1 DEF BeginRelate, Between, Compatible, Live
  <1>7. ASSUME NEW t \in Tasks, NEW e \in blocks, BeginUnrelate(s, t, e)
        PROVE  \E r : Sound(r) /\ Informed(r) /\ Start(s, r)
    <2> DEFINE r == [op |-> "unrelate", task |-> t, edge |-> e, seen |-> version[t]]
    <2>1. Sound(r)
      BY <1>7 DEF BeginUnrelate, Sound
    <2> QED
      BY <1>7, <2>1 DEF BeginUnrelate
  <1> QED
    BY <1>1, <1>2, <1>3, <1>4, <1>5, <1>6, <1>7 DEF Begin

\* Only transactions write rows.
LEMMA RowsWritten ==
    ASSUME TypeInv, Next, tree' # tree
    PROVE  \E s \in Slots : Commit(s)
  <1>1. \A s \in Slots : Begin(s) => UNCHANGED tree
    BY BeginIsSound DEF Start
  <1> QED
    BY <1>1 DEF Next, Refuse

LEMMA StepKeepsTypes == TypeInv /\ [Next]_vars => TypeInv'
  <1>1. ASSUME TypeInv, NEW s \in Slots, Free(s), Begin(s)
        PROVE  TypeInv'
    BY <1>1, BeginIsSound, StartKeepsTypes
  <1>2. ASSUME TypeInv, UNCHANGED vars
        PROVE  TypeInv'
    BY <1>2 DEF TypeInv, TypeOK, RequestsSound, ParentsExist, Sound, Exists, vars, tree, history
  <1> QED
    BY <1>1, <1>2, CommitKeepsTypes, RefuseKeepsTypes DEF Next

-----------------------------------------------------------------------------
(* What requests still know when they commit.                              *)

\* The task of a creation is its own and does not exist yet.
Unborn ==
    \A s \in Slots : Holds(s, "create") \/ Holds(s, "subtask") =>
        /\ ~Exists(req[s].task)
        /\ \A o \in Slots \ {s} : req[o] # Idle => req[o].task # req[s].task

\* While the version stands that the client has seen, a subtask's parent is
\* still an open root, ...
KnowsParent ==
    \A s \in Slots :
        Holds(s, "subtask") /\ version[req[s].parent] = req[s].seen => OpenRoot(req[s].parent)

\* ... a task that changes its status has the parent it had, ...
KnowsTask ==
    \A s \in Slots :
        Holds(s, "status") /\ version[req[s].task] = req[s].seen
            => parent[req[s].task] = req[s].parent

\* ... and a task about to be DONE has no open subtask but one moved to it.
KnowsSubtasks ==
    \A s \in Slots :
        Holds(s, "status") /\ req[s].to = "DONE" /\ version[req[s].task] = req[s].seen
            => \A c \in OpenChildren(req[s].task) : ~serial /\ c \in moved

Alone == serial => \A s, o \in Slots : req[s] # Idle /\ req[o] # Idle => s = o

IInv == TypeInv /\ Unborn /\ KnowsParent /\ KnowsTask /\ KnowsSubtasks /\ Alone

LEMMA InitIInv == Init => IInv
  BY InitTypeInv
  DEF Init, IInv, Unborn, KnowsParent, KnowsTask, KnowsSubtasks, Alone, Holds

\* A request that starts knows what its checks have established.
LEMMA StartKeepsIInv ==
    ASSUME IInv, NEW s \in Slots, NEW r, Sound(r), Informed(r), Free(s), Start(s, r),
           UNCHANGED serial
    PROVE  IInv'
  <1> USE DEF IInv
  <1>1. TypeInv'
    BY StartKeepsTypes
  <1>2. /\ \A o \in Slots : req'[o] = IF o = s THEN r ELSE req[o]
        /\ UNCHANGED <<tree, moved>>
    BY DEF Start, TypeInv, RequestsSound, history
  <1>3. Unborn'
    BY <1>2 DEF Unborn, Informed, Fresh, Holds, Exists, tree
  <1>4. KnowsParent'
    BY <1>2 DEF KnowsParent, Informed, OpenRoot, Live, Terminal, Holds, Exists, tree
  <1>5. KnowsTask'
    BY <1>2 DEF KnowsTask, Informed, Holds, tree
  <1>6. KnowsSubtasks'
    BY <1>2 DEF KnowsSubtasks, Informed, Holds, OpenChildren, Children, Live, Terminal,
                Exists, tree
  <1>7. Alone'
    BY <1>2 DEF Alone, Free
  <1> QED
    BY <1>1, <1>3, <1>4, <1>5, <1>6, <1>7

\* A task that becomes an open subtask of t in a transaction is moved to it by
\* an update, or t gets a new version.
LEMMA NewOpenChild ==
    ASSUME IInv, NEW s \in Slots, Commit(s), NEW t \in Tasks, NEW c \in Tasks,
           c \in OpenChildren(t)', c \notin OpenChildren(t), version'[t] = version[t]
    PROVE  Holds(s, "update") /\ c \in moved'
  <1> DEFINE r == req[s]
  <1> USE DEF IInv, TypeInv, OpenChildren, Children, Live, Terminal, Exists
  <1>0. r # Idle => Sound(r)
    BY DEF RequestsSound
  <1>1. CASE CommitCreate(s)
    BY <1>0, <1>1, ConstantsAssumption
    DEF CommitCreate, Holds, Sound, TypeOK, Advanced, Concerned
  <1>2. CASE CommitUpdate(s)
    BY <1>0, <1>2 DEF CommitUpdate, Holds, Sound, TypeOK
  <1>3. CASE CommitStatus(s)
    BY <1>0, <1>3, ConstantsAssumption
    DEF CommitStatus, Unmoved, KnowsTask, Holds, Sound, TypeOK, Advanced, Concerned, Statuses
  <1>4. CASE CommitArchive(s)
    BY <1>0, <1>4 DEF CommitArchive, Holds, Sound, TypeOK
  <1>5. CASE CommitRelate(s) \/ CommitUnrelate(s)
    BY <1>5 DEF CommitRelate, CommitUnrelate
  <1> QED
    BY <1>1, <1>2, <1>3, <1>4, <1>5 DEF Commit

\* A transaction empties its slot; what the other requests know stays true.
LEMMA CommitKeepsIInv ==
    ASSUME IInv, NEW s \in Slots, Commit(s), UNCHANGED serial
    PROVE  IInv'
  <1> USE DEF IInv
  <1>1. TypeInv' /\ Grows
    BY CommitKeepsTypes
  <1>2. \A o \in Slots : req'[o] = IF o = s THEN Idle ELSE req[o]
    BY DEF Commit, CommitCreate, CommitUpdate, CommitStatus, CommitArchive, CommitRelate,
           CommitUnrelate, Done, TypeInv, RequestsSound
  <1>3. \A o \in Slots : req'[o] # Idle => o # s /\ req'[o] = req[o] /\ Sound(req[o])
    BY <1>2 DEF TypeInv, RequestsSound
  \* A version that a request has seen and that stands has stood all along.
  <1>4. ASSUME NEW t \in Tasks, NEW n \in Nat, n <= version[t], version'[t] = n
        PROVE  /\ version[t] = n /\ version'[t] = version[t]
               /\ status'[t] = status[t] /\ parent'[t] = parent[t]
               /\ t \in archived' <=> t \in archived
    BY <1>1, <1>4 DEF Grows, TypeInv, TypeOK
  <1>5. Unborn'
    <2>1. ASSUME NEW o \in Slots, o # s, Holds(o, "create") \/ Holds(o, "subtask"),
                 ~Exists(req[o].task)
          PROVE  ~Exists(req[o].task)'
      <3>0. req[s] # Idle /\ req[s].task # req[o].task
        BY <2>1 DEF Unborn, Commit, CommitCreate, CommitUpdate, CommitStatus, CommitArchive,
                    CommitRelate, CommitUnrelate, Holds
      <3> QED
        BY <1>2, <1>3, <2>1, <3>0
        DEF Commit, CommitCreate, CommitUpdate, CommitStatus, CommitArchive,
            CommitRelate, CommitUnrelate, Holds, Exists, TypeInv, TypeOK, Sound
    <2> QED
      BY <1>3, <2>1 DEF Unborn, Holds
  <1>6. KnowsParent'
    BY <1>3, <1>4 DEF KnowsParent, OpenRoot, Live, Terminal, Exists, Holds, Sound
  <1>7. KnowsTask'
    BY <1>3, <1>4 DEF KnowsTask, Holds, Sound
  <1>8. KnowsSubtasks'
    <2> SUFFICES ASSUME NEW o \in Slots, Holds(o, "status")', req'[o].to = "DONE",
                        version'[req'[o].task] = req'[o].seen,
                        NEW c \in OpenChildren(req[o].task)'
                 PROVE  ~serial' /\ c \in moved'
      BY DEF KnowsSubtasks
    <2> DEFINE t == req[o].task
    <2>1. o # s /\ req'[o] = req[o] /\ Sound(req[o]) /\ Holds(o, "status")
      BY <1>3 DEF Holds
    <2>2. t \in Tasks /\ version[t] = req[o].seen /\ version'[t] = version[t]
      BY <1>4, <2>1 DEF Holds, Sound
    <2>3. ~serial'
      BY <2>1 DEF Alone, Holds, Commit, CommitCreate, CommitUpdate, CommitStatus,
                  CommitArchive, CommitRelate, CommitUnrelate
    <2>4. c \in Tasks
      BY DEF OpenChildren, Children
    <2>5. CASE c \in OpenChildren(t)
      <3>1. c \in moved
        BY <2>1, <2>2, <2>5 DEF KnowsSubtasks
      <3> QED
        BY <2>3, <3>1 DEF Commit, CommitCreate, CommitUpdate, CommitStatus, CommitArchive,
                          CommitRelate, CommitUnrelate, history
    <2>6. CASE c \notin OpenChildren(t)
      BY <2>1, <2>2, <2>3, <2>4, <2>6, NewOpenChild DEF OpenChildren, Children
    <2> QED
      BY <2>5, <2>6
  <1>9. Alone'
    BY <1>3 DEF Alone
  <1> QED
    BY <1>1, <1>5, <1>6, <1>7, <1>8, <1>9

LEMMA RefuseKeepsIInv ==
    ASSUME IInv, NEW s \in Slots, Refuse(s), UNCHANGED serial
    PROVE  IInv'
  <1> USE DEF IInv
  <1>1. TypeInv'
    BY RefuseKeepsTypes
  <1>2. /\ \A o \in Slots : req'[o] = IF o = s THEN Idle ELSE req[o]
        /\ UNCHANGED <<tree, moved>>
    BY DEF Refuse, Done, TypeInv, RequestsSound, history
  <1>3. Unborn' /\ KnowsParent' /\ KnowsTask' /\ KnowsSubtasks' /\ Alone'
    BY <1>2 DEF Unborn, KnowsParent, KnowsTask, KnowsSubtasks, Alone, OpenRoot, OpenChildren,
                Children, Live, Terminal, Exists, Holds, tree
  <1> QED
    BY <1>1, <1>3

LEMMA StepKeepsIInv == IInv /\ [Next]_vars => IInv'
  <1>1. ASSUME IInv, NEW s \in Slots, Free(s), Begin(s), UNCHANGED serial
        PROVE  IInv'
    BY <1>1, BeginIsSound, StartKeepsIInv DEF IInv
  <1>2. ASSUME IInv, UNCHANGED vars
        PROVE  IInv'
    BY <1>2, StepKeepsTypes
    DEF IInv, Unborn, KnowsParent, KnowsTask, KnowsSubtasks, Alone, OpenRoot, OpenChildren,
        Children, Live, Terminal, Exists, Holds, vars, tree, history
  <1> QED
    BY <1>1, <1>2, CommitKeepsIInv, RefuseKeepsIInv DEF Next

LEMMA Invariance == Spec => []IInv
  BY InitIInv, StepKeepsIInv, PTL DEF Spec

-----------------------------------------------------------------------------
(* Paths.  From is the least set closed under the edges, so what cannot be *)
(* left is shown by naming a closed set, and no induction is needed.       *)

Closed(S, R) == \A e \in R : e[1] \in S => e[2] \in S

\* A closed set that holds the start holds whatever is reached.
LEMMA FromLeast ==
    ASSUME NEW R, NEW x, NEW S \in SUBSET Tasks, x \in S, Closed(S, R)
    PROVE  From(R, x) \subseteq S
  BY DEF From, Closed

\* What is reached holds the start and cannot be left.
LEMMA FromClosed ==
    ASSUME NEW R \in SUBSET (Tasks \X Tasks), NEW x \in Tasks
    PROVE  /\ From(R, x) \in SUBSET Tasks
           /\ x \in From(R, x)
           /\ Closed(From(R, x), R)
  BY DEF From, Closed

\* What is reached from a place that is reached is reached.
LEMMA FromOnward ==
    ASSUME NEW R \in SUBSET (Tasks \X Tasks), NEW x \in Tasks, NEW y \in From(R, x)
    PROVE  From(R, y) \subseteq From(R, x)
  BY FromClosed, FromLeast

\* Fewer edges reach no more, ...
LEMMA FromFewer ==
    ASSUME NEW R \in SUBSET (Tasks \X Tasks), NEW Q \in SUBSET R, NEW x \in Tasks
    PROVE  From(Q, x) \subseteq From(R, x)
  <1>1. Closed(From(R, x), Q)
    BY FromClosed DEF Closed
  <1> QED
    BY <1>1, FromClosed, FromLeast

\* ... and close no cycle.
LEMMA AcyclicFewer ==
    ASSUME NEW R \in SUBSET (Tasks \X Tasks), NEW Q \in SUBSET R, Acyclic(R)
    PROVE  Acyclic(Q)
  BY FromFewer DEF Acyclic

\* An edge closes no cycle if its end does not lead back to its start.
LEMMA AcyclicWithEdge ==
    ASSUME NEW R \in SUBSET (Tasks \X Tasks), Acyclic(R),
           NEW a \in Tasks, NEW b \in Tasks, a \notin From(R, b)
    PROVE  Acyclic(R \cup {<<a, b>>})
  <1> DEFINE Q == R \cup {<<a, b>>}
  <1>1. ASSUME NEW x \in Tasks
        PROVE  /\ a \notin From(R, x) => From(Q, x) \subseteq From(R, x)
               /\ From(Q, x) \subseteq From(R, x) \cup From(R, b)
    <2>1. CASE a \notin From(R, x)
      <3>1. Closed(From(R, x), Q)
        BY <2>1, FromClosed DEF Closed
      <3> QED
        BY <2>1, <3>1, FromClosed, FromLeast
    <2>2. CASE a \in From(R, x)
      <3>1. Closed(From(R, x) \cup From(R, b), Q)
        BY FromClosed DEF Closed
      <3>2. From(R, x) \cup From(R, b) \in SUBSET Tasks /\ x \in From(R, x)
        BY FromClosed
      <3> QED
        BY <2>2, <3>1, <3>2, FromLeast
    <2> QED
      BY <2>1, <2>2
  <1>2. ASSUME NEW e \in R
        PROVE  e[1] \notin From(Q, e[2])
    <2>0. e[1] \in Tasks /\ e[2] \in Tasks /\ e[1] \notin From(R, e[2])
      BY DEF Acyclic
    <2>1. CASE a \notin From(R, e[2])
      BY <1>1, <2>0, <2>1
    <2>2. CASE a \in From(R, e[2]) /\ e[1] \in From(R, b)
      <3>1. e[2] \in From(R, b)
        BY <2>2, FromClosed DEF Closed
      <3> QED
        BY <2>2, <3>1, FromOnward
    <2> QED
      BY <1>1, <2>0, <2>1, <2>2
  <1>3. a \notin From(Q, b)
    BY <1>1
  <1>4. \A e \in Q : e[1] \notin From(Q, e[2])
    BY <1>2, <1>3
  <1> QED
    BY <1>4 DEF Acyclic

\* Edges out of a place nothing leads to close no cycle, ...
LEMMA AcyclicWithSource ==
    ASSUME NEW R \in SUBSET (Tasks \X Tasks), Acyclic(R), NEW t \in Tasks,
           NEW N \in SUBSET (Tasks \X Tasks), \A e \in N : e[1] = t,
           \A e \in R \cup N : e[2] # t
    PROVE  Acyclic(R \cup N)
  <1> DEFINE Q == R \cup N
  <1>1. ASSUME NEW x \in Tasks, x # t
        PROVE  t \notin From(R, x) /\ From(Q, x) \subseteq From(R, x)
    <2>1. t \notin From(R, x)
      <3>1. Closed(Tasks \ {t}, R)
        BY DEF Closed
      <3>2. Tasks \ {t} \in SUBSET Tasks /\ x \in Tasks \ {t}
        BY <1>1
      <3> QED
        BY <3>1, <3>2, FromLeast
    <2>2. Closed(From(R, x), Q)
      BY <2>1, FromClosed DEF Closed
    <2> QED
      BY <2>1, <2>2, FromClosed, FromLeast
  <1>2. \A e \in Q : e[1] \in Tasks /\ e[2] \in Tasks /\ e[2] # t
    OBVIOUS
  <1>3. \A e \in Q : e[1] \notin From(Q, e[2])
    BY <1>1, <1>2 DEF Acyclic
  <1> QED
    BY <1>3 DEF Acyclic

\* ... nor do edges into a place that leads nowhere.
LEMMA AcyclicWithSink ==
    ASSUME NEW R \in SUBSET (Tasks \X Tasks), Acyclic(R), NEW t \in Tasks,
           NEW N \in SUBSET (Tasks \X Tasks), \A e \in N : e[2] = t,
           \A e \in R \cup N : e[1] # t
    PROVE  Acyclic(R \cup N)
  <1> DEFINE Q == R \cup N
  <1>1. ASSUME NEW x \in Tasks
        PROVE  From(Q, x) \subseteq From(R, x) \cup {t}
    <2>1. Closed(From(R, x) \cup {t}, Q)
      BY FromClosed DEF Closed
    <2>2. From(R, x) \cup {t} \in SUBSET Tasks /\ x \in From(R, x)
      BY FromClosed
    <2> QED
      BY <2>1, <2>2, FromLeast
  <1>2. From(Q, t) \subseteq {t}
    <2>1. Closed({t}, Q)
      BY DEF Closed
    <2>2. {t} \in SUBSET Tasks /\ t \in {t}
      OBVIOUS
    <2> QED
      BY <2>1, <2>2, FromLeast
  <1>3. \A e \in Q : e[1] \in Tasks /\ e[2] \in Tasks /\ e[1] # t
    OBVIOUS
  <1>4. \A e \in R : e[1] \notin From(Q, e[2])
    BY <1>1, <1>3 DEF Acyclic
  <1>5. \A e \in N : e[1] \notin From(Q, e[2])
    BY <1>2, <1>3
  <1> QED
    BY <1>4, <1>5 DEF Acyclic

-----------------------------------------------------------------------------
(* Without overlap nothing moves between the checks of a request and its   *)
(* transaction, and the checks are what keeps trees and relations sound.   *)

BlocksExist == \A e \in blocks : Exists(e[1]) /\ Exists(e[2])

RequestsInformed ==
    \A s \in Slots : req[s] # Idle => EndsExist(req[s]) /\ (serial => Stands(req[s]))

NoKnots == TreeShape /\ CyclesAreCreated

ShapeInv == IInv /\ BlocksExist /\ RequestsInformed /\ NoKnots

\* The relations in which a cycle is a mistake.
Plain == {e \in blocks : e[1] \notin crossed}

LEMMA InitShapeInv == Init => ShapeInv
  <1> SUFFICES ASSUME Init PROVE ShapeInv
    OBVIOUS
  <1>1. IInv
    BY InitIInv
  <1>2. Parents = {}
    BY DEF Init, Parents
  <1>3. BlocksExist /\ RequestsInformed
    BY DEF Init, BlocksExist, RequestsInformed
  <1>4. TreeShape
    BY <1>2 DEF Init, TreeShape, Acyclic
  <1>5. CyclesAreCreated
    BY DEF Init, CyclesAreCreated, Acyclic
  <1> QED
    BY <1>1, <1>3, <1>4, <1>5 DEF ShapeInv, NoKnots

\* What is true of rows stays true while no row is written.
LEMMA RowsAlone ==
    ASSUME UNCHANGED <<tree, blocks, history, serial>>
    PROVE  /\ BlocksExist => BlocksExist'
           /\ NoKnots => NoKnots'
           /\ \A r : (EndsExist(r) => EndsExist(r)') /\ (Stands(r) => Stands(r)')
  <1> USE DEF tree, history
  <1>1. Parents' = Parents
    BY DEF Parents
  <1>2. BlocksExist => BlocksExist'
    BY DEF BlocksExist, Exists
  <1>3. NoKnots => NoKnots'
    BY <1>1 DEF NoKnots, TreeShape, CyclesAreCreated, Live, Exists
  <1>4. ASSUME NEW r, EndsExist(r)
        PROVE  EndsExist(r)'
    BY <1>4 DEF EndsExist, Exists
  <1>5. ASSUME NEW r, Stands(r)
        PROVE  Stands(r)'
    BY <1>1, <1>5 DEF Stands, Accepts, NoBlockingPath, Children, Live, Exists
  <1> QED
    BY <1>2, <1>3, <1>4, <1>5

LEMMA StartKeepsShape ==
    ASSUME ShapeInv, NEW s \in Slots, NEW r, Sound(r), Informed(r), Free(s), Start(s, r),
           UNCHANGED serial
    PROVE  ShapeInv'
  <1>1. IInv'
    BY StartKeepsIInv DEF ShapeInv
  <1>2. /\ \A o \in Slots : req'[o] = IF o = s THEN r ELSE req[o]
        /\ UNCHANGED <<tree, blocks, history, serial>>
    BY DEF Start, ShapeInv, IInv, TypeInv, RequestsSound
  <1>3. \A o \in Slots : req'[o] # Idle =>
            EndsExist(req'[o]) /\ (serial => Stands(req'[o]))
    BY <1>2 DEF ShapeInv, RequestsInformed, Informed
  <1>4. \A o \in Slots : req'[o] # Idle =>
            EndsExist(req[o])' /\ (serial' => Stands(req[o])')
    BY <1>2, <1>3, RowsAlone
  <1>5. RequestsInformed'
    BY <1>4 DEF RequestsInformed
  <1> QED
    BY <1>1, <1>2, <1>5, RowsAlone DEF ShapeInv

\* A transaction leaves requests only where they overlap.
LEMMA EndKeepsInformed ==
    ASSUME ShapeInv, NEW s \in Slots, req[s] # Idle, Done(s), Grows, UNCHANGED serial
    PROVE  RequestsInformed'
  <1>1. \A o \in Slots : req'[o] # Idle => o # s /\ req'[o] = req[o]
    BY DEF Done, ShapeInv, IInv, TypeInv, RequestsSound
  <1>2. \A o \in Slots : req'[o] # Idle => ~serial' /\ EndsExist(req[o]) /\ Sound(req[o])
    BY <1>1 DEF ShapeInv, IInv, TypeInv, Alone, RequestsInformed, RequestsSound
  <1>3. ASSUME NEW r, Sound(r), EndsExist(r)
        PROVE  EndsExist(r)'
    BY <1>3 DEF EndsExist, Sound, Grows, Exists
  <1>4. \A o \in Slots : req'[o] # Idle => EndsExist(req[o])'
    BY <1>1, <1>2, <1>3
  <1> QED
    BY <1>1, <1>2, <1>4 DEF RequestsInformed

\* The new task has edges one way only, or its own relations are not plain.
LEMMA CreateKeepsShape ==
    ASSUME ShapeInv, NEW s \in Slots, CommitCreate(s), UNCHANGED serial
    PROVE  BlocksExist' /\ NoKnots'
  <1> DEFINE r == req[s]  t == r.task
  <1> USE DEF ShapeInv, IInv, TypeInv
  <1>1. /\ r # Idle /\ Sound(r) /\ EndsExist(r) /\ (serial => Stands(r))
        /\ r.op \in {"create", "subtask"}
        /\ t \in Tasks /\ ~Exists(t)
    BY DEF CommitCreate, Holds, RequestsSound, RequestsInformed, Unborn, Sound
  <1>2. r.parent \in Tasks \cup {NoTask} /\ r.out \in SUBSET Tasks /\ r.in \in SUBSET Tasks
    BY <1>1 DEF Sound
  <1>3. status'[t] # "ABSENT" /\ \A u \in Tasks : u # t => status'[u] = status[u]
    BY <1>1 DEF CommitCreate, TypeOK, Exists
  <1>4. t \notin r.out \cup r.in /\ \A u \in r.out \cup r.in : Exists(u)
    BY <1>1 DEF EndsExist
  <1>5. BlocksExist'
    BY <1>2, <1>3, <1>4 DEF CommitCreate, BlocksExist, TypeOK, Exists
  <1>6. ASSUME serial
        PROVE  Acyclic(Parents')
    <2>1. parent[t] = NoTask /\ \A c \in Tasks : parent[c] # t
      BY <1>1, ConstantsAssumption DEF ParentsExist
    <2>2. Parents \in SUBSET (Tasks \X Tasks) /\ Acyclic(Parents)
      BY <1>6 DEF Parents, TypeOK, NoKnots, TreeShape
    <2>3. CASE r.parent = NoTask
      <3>1. Parents' = Parents
        BY <1>1, <2>1, <2>3 DEF Parents, CommitCreate, TypeOK
      <3> QED
        BY <2>2, <3>1
    <2>4. CASE r.parent # NoTask
      <3>1. Parents' = Parents \cup {<<t, r.parent>>}
        BY <1>1, <2>1, <2>4, ConstantsAssumption DEF Parents, CommitCreate, TypeOK
      <3>2. Exists(r.parent) /\ r.parent # t
        BY <1>1, <2>4 DEF Sound
      <3>3. \A e \in Parents \cup {<<t, r.parent>>} : e[2] # t
        BY <2>1, <3>2 DEF Parents
      <3>4. PICK N : N = {<<t, r.parent>>}
        OBVIOUS
      <3>5. N \in SUBSET (Tasks \X Tasks) /\ \A e \in N : e[1] = t
        BY <1>1, <1>2, <2>4, <3>4
      <3>6. Acyclic(Parents \cup N)
        BY <1>1, <2>2, <3>3, <3>4, <3>5, AcyclicWithSource
      <3> QED
        BY <3>1, <3>4, <3>6
    <2> QED
      BY <2>3, <2>4
  <1>7. ASSUME serial, NEW c \in Tasks, Live(c)', parent'[c] # NoTask, Live(parent[c])'
        PROVE  scope'[c] = scope'[parent'[c]]
    <2>1. CASE c = t
      <3>1. parent'[c] = r.parent /\ r.parent # t /\ scope'[c] = r.scope
        BY <1>1, <1>7, <2>1 DEF CommitCreate, TypeOK, Sound
      <3>2. scope[r.parent] = r.scope
        BY <1>1, <1>7, <3>1 DEF Stands
      <3> QED
        BY <1>2, <1>7, <3>1, <3>2 DEF CommitCreate, TypeOK
    <2>2. CASE c # t
      <3>1. /\ parent'[c] = parent[c] /\ parent[c] # t /\ parent[c] \in Tasks
            /\ Live(c) /\ Live(parent[c])
            /\ scope'[c] = scope[c] /\ scope'[parent[c]] = scope[parent[c]]
        BY <1>1, <1>3, <1>7, <2>2 DEF CommitCreate, TypeOK, ParentsExist, Live, Exists
      <3> QED
        BY <1>7, <3>1 DEF NoKnots, TreeShape
    <2> QED
      BY <2>1, <2>2
  <1>8. ASSUME serial
        PROVE  Acyclic(Plain')
    <2>1. Plain \in SUBSET (Tasks \X Tasks) /\ Acyclic(Plain)
      BY <1>8 DEF Plain, TypeOK, NoKnots, CyclesAreCreated
    <2>2. \A e \in Plain : e[1] # t /\ e[2] # t
      BY <1>1 DEF Plain, BlocksExist
    <2>3. CASE r.in = {}
      <3>1. PICK N : N = {t} \X r.out
        OBVIOUS
      <3>2. /\ N \in SUBSET (Tasks \X Tasks)
            /\ \A e \in N : e[1] = t
            /\ \A e \in Plain \cup N : e[2] # t
        BY <1>1, <1>2, <1>4, <2>2, <3>1
      <3>3. Acyclic(Plain \cup N)
        BY <1>1, <2>1, <3>2, AcyclicWithSource
      <3>4. Plain' \in SUBSET (Plain \cup N) /\ Plain \cup N \in SUBSET (Tasks \X Tasks)
        BY <2>1, <2>3, <3>1, <3>2 DEF Plain, CommitCreate
      <3> QED
        BY <3>3, <3>4, AcyclicFewer
    <2>4. CASE r.in # {}
      <3>1. PICK N : N = r.in \X {t}
        OBVIOUS
      <3>2. /\ N \in SUBSET (Tasks \X Tasks)
            /\ \A e \in N : e[2] = t
            /\ \A e \in Plain \cup N : e[1] # t
        BY <1>1, <1>2, <1>4, <2>2, <3>1
      <3>3. Acyclic(Plain \cup N)
        BY <1>1, <2>1, <3>2, AcyclicWithSink
      <3>4. Plain \cup N \in SUBSET (Tasks \X Tasks)
        BY <2>1, <3>2
      <3>5. Plain' \in SUBSET (Plain \cup N)
        BY <2>4, <3>1 DEF Plain, CommitCreate
      <3> QED
        BY <3>3, <3>4, <3>5, AcyclicFewer
    <2> QED
      BY <2>3, <2>4
  <1> QED
    BY <1>5, <1>6, <1>7, <1>8 DEF NoKnots, TreeShape, CyclesAreCreated, Plain

\* The new place of a task is not below it, and is in the scope it takes on.
LEMMA UpdateKeepsShape ==
    ASSUME ShapeInv, NEW s \in Slots, CommitUpdate(s), UNCHANGED serial
    PROVE  BlocksExist' /\ NoKnots'
  <1> DEFINE r == req[s]  t == r.task
  <1> USE DEF ShapeInv, IInv, TypeInv
  <1>1. /\ Sound(r) /\ (serial => Accepts(t, r.parent, r.scope))
        /\ t \in Tasks /\ r.parent \in Tasks \cup {NoTask}
        /\ UNCHANGED <<status, archived, blocks, crossed>>
    BY DEF CommitUpdate, Holds, RequestsSound, RequestsInformed, Stands, Sound
  <1>2. BlocksExist'
    BY <1>1 DEF BlocksExist, Exists
  <1>3. \A c \in Tasks : /\ parent'[c] = IF c = t THEN r.parent ELSE parent[c]
                         /\ scope'[c] = IF c = t THEN r.scope ELSE scope[c]
    BY <1>1 DEF CommitUpdate, TypeOK
  <1>4. r.parent # NoTask => r.parent \in From(Parents, r.parent)
    BY <1>1 DEF From
  <1>5. ASSUME serial
        PROVE  Acyclic(Parents')
    <2>1. Parents \in SUBSET (Tasks \X Tasks) /\ Acyclic(Parents)
      BY <1>5 DEF Parents, TypeOK, NoKnots, TreeShape
    <2>2. CASE r.parent = NoTask
      <3>1. Parents' \in SUBSET Parents
        BY <1>3, <2>2 DEF Parents
      <3> QED
        BY <2>1, <3>1, AcyclicFewer
    <2>3. CASE r.parent # NoTask
      <3>1. t \notin From(Parents, r.parent)
        BY <1>1, <1>5, <2>3 DEF Accepts
      <3>2. Acyclic(Parents \cup {<<t, r.parent>>})
        BY <1>1, <2>1, <2>3, <3>1, AcyclicWithEdge
      <3>3. Parents' \in SUBSET (Parents \cup {<<t, r.parent>>})
        BY <1>3 DEF Parents
      <3>4. Parents \cup {<<t, r.parent>>} \in SUBSET (Tasks \X Tasks)
        BY <1>1, <2>1, <2>3
      <3> QED
        BY <3>2, <3>3, <3>4, AcyclicFewer
    <2> QED
      BY <2>2, <2>3
  <1>6. ASSUME serial, NEW c \in Tasks, Live(c)', parent'[c] # NoTask, Live(parent[c])'
        PROVE  scope'[c] = scope'[parent'[c]]
    <2>0. Live(c) /\ Live(parent'[c])
      BY <1>1, <1>6 DEF Live, Exists
    <2>1. CASE c = t
      <3>1. r.parent # t /\ scope[r.parent] = r.scope
        BY <1>1, <1>3, <1>4, <1>6, <2>1 DEF Accepts
      <3> QED
        BY <1>1, <1>3, <1>6, <2>1, <3>1
    <2>2. CASE c # t /\ parent[c] = t
      <3>1. scope[c] = r.scope
        BY <1>1, <1>6, <2>0, <2>2 DEF Accepts, Children, Live
      <3> QED
        BY <1>1, <1>3, <2>2, <3>1
    <2>3. CASE c # t /\ parent[c] # t
      <3>1. parent'[c] = parent[c] /\ parent[c] \in Tasks /\ scope[c] = scope[parent[c]]
        BY <1>3, <1>6, <2>0, <2>3 DEF NoKnots, TreeShape, TypeOK
      <3> QED
        BY <1>3, <2>3, <3>1
    <2> QED
      BY <2>1, <2>2, <2>3
  <1>7. CyclesAreCreated'
    BY <1>1 DEF NoKnots, CyclesAreCreated
  <1> QED
    BY <1>2, <1>5, <1>6, <1>7 DEF NoKnots, TreeShape

\* The transactions that move nothing.
LEMMA OthersKeepShape ==
    ASSUME ShapeInv, NEW s \in Slots, UNCHANGED serial,
           CommitStatus(s) \/ CommitArchive(s) \/ CommitRelate(s) \/ CommitUnrelate(s)
    PROVE  BlocksExist' /\ NoKnots'
  <1> DEFINE r == req[s]
  <1> USE DEF ShapeInv, IInv, TypeInv
  <1>1. Sound(r) /\ EndsExist(r) /\ (serial => Stands(r))
    BY DEF CommitStatus, CommitArchive, CommitRelate, CommitUnrelate, Holds, RequestsSound,
           RequestsInformed
  <1>2. UNCHANGED <<parent, scope, crossed>> /\ Grows
    BY CommitKeepsTypes
    DEF Commit, CommitStatus, CommitArchive, CommitRelate, CommitUnrelate, history
  <1>3. archived \subseteq archived'
    BY DEF CommitStatus, CommitArchive, CommitRelate, CommitUnrelate
  <1>4. blocks' \subseteq blocks \/ CommitRelate(s)
    BY DEF CommitStatus, CommitArchive, CommitUnrelate
  <1>5. CommitRelate(s) => blocks' = blocks \cup {r.edge} /\ r.op = "relate"
    BY DEF CommitRelate, Holds
  <1>6. BlocksExist'
    BY <1>1, <1>2, <1>4, <1>5 DEF BlocksExist, EndsExist, Grows, TypeOK, Sound, Exists
  <1>7. TreeShape'
    <2>1. Parents' = Parents
      BY <1>2 DEF Parents
    <2>2. \A c \in Tasks : Live(c)' => Live(c)
      BY <1>3 DEF Live, Exists, TypeOK, CommitStatus, CommitArchive, CommitRelate,
                  CommitUnrelate, Unmoved, Holds, RequestsSound, Sound
    <2> QED
      BY <1>2, <2>1, <2>2 DEF NoKnots, TreeShape, TypeOK
  <1>8. ASSUME serial
        PROVE  Acyclic(Plain')
    <2>1. /\ Plain \in SUBSET (Tasks \X Tasks) /\ Plain \in SUBSET blocks
          /\ blocks \in SUBSET (Tasks \X Tasks) /\ Acyclic(Plain)
      BY <1>8 DEF Plain, TypeOK, NoKnots, CyclesAreCreated
    <2>2. CASE blocks' \subseteq blocks
      <3>1. Plain' \in SUBSET Plain
        BY <1>2, <2>2 DEF Plain
      <3> QED
        BY <2>1, <3>1, AcyclicFewer
    <2>3. CASE CommitRelate(s)
      <3>1. PICK a \in Tasks, b \in Tasks : r.edge = <<a, b>>
        BY <1>1, <1>5, <2>3 DEF Sound
      <3>2. a \notin From(blocks, b)
        BY <1>1, <1>5, <1>8, <2>3, <3>1 DEF Stands, NoBlockingPath
      <3>3. a \notin From(Plain, b)
        BY <2>1, <3>2, FromFewer
      <3>4. Acyclic(Plain \cup {<<a, b>>})
        BY <2>1, <3>3, AcyclicWithEdge
      <3>5. Plain' \in SUBSET (Plain \cup {<<a, b>>})
        BY <1>2, <1>5, <2>3, <3>1 DEF Plain
      <3>6. Plain \cup {<<a, b>>} \in SUBSET (Tasks \X Tasks)
        BY <2>1
      <3> QED
        BY <3>4, <3>5, <3>6, AcyclicFewer
    <2> QED
      BY <1>4, <2>2, <2>3
  <1> QED
    BY <1>6, <1>7, <1>8 DEF NoKnots, CyclesAreCreated, Plain

LEMMA StepKeepsShape == ShapeInv /\ [Next]_vars => ShapeInv'
  <1>1. ASSUME ShapeInv, NEW s \in Slots, Free(s), Begin(s), UNCHANGED serial
        PROVE  ShapeInv'
    BY <1>1, BeginIsSound, StartKeepsShape DEF ShapeInv, IInv
  <1>2. ASSUME ShapeInv, NEW s \in Slots, Commit(s), UNCHANGED serial
        PROVE  ShapeInv'
    <2>1. IInv' /\ Grows /\ req[s] # Idle /\ Done(s)
      BY <1>2, CommitKeepsIInv, CommitKeepsTypes
      DEF ShapeInv, IInv, Commit, CommitCreate, CommitUpdate, CommitStatus, CommitArchive,
          CommitRelate, CommitUnrelate, Holds
    <2>2. RequestsInformed'
      BY <1>2, <2>1, EndKeepsInformed
    <2>3. BlocksExist' /\ NoKnots'
      BY <1>2, CreateKeepsShape, UpdateKeepsShape, OthersKeepShape DEF Commit
    <2> QED
      BY <2>1, <2>2, <2>3 DEF ShapeInv
  <1>3. ASSUME ShapeInv, NEW s \in Slots, Refuse(s), UNCHANGED serial
        PROVE  ShapeInv'
    <2>1. IInv' /\ Grows /\ req[s] # Idle /\ Done(s) /\ UNCHANGED <<tree, blocks, history>>
      BY <1>3, RefuseKeepsIInv
      DEF ShapeInv, IInv, TypeInv, TypeOK, Refuse, Grows, tree, Exists
    <2>2. RequestsInformed'
      BY <1>3, <2>1, EndKeepsInformed
    <2> QED
      BY <1>3, <2>1, <2>2, RowsAlone DEF ShapeInv
  <1>4. ASSUME ShapeInv, UNCHANGED vars
        PROVE  ShapeInv'
    <2>1. IInv' /\ UNCHANGED <<tree, blocks, history, serial, req>>
      BY <1>4, StepKeepsIInv DEF ShapeInv, vars
    <2>2. RequestsInformed'
      BY <1>4, <2>1, RowsAlone DEF ShapeInv, RequestsInformed
    <2> QED
      BY <1>4, <2>1, <2>2, RowsAlone DEF ShapeInv
  <1> QED
    BY <1>1, <1>2, <1>3, <1>4 DEF Next

LEMMA ShapeInvariance == Spec => []ShapeInv
  BY InitShapeInv, StepKeepsShape, PTL DEF Spec

-----------------------------------------------------------------------------
(* The theorems.                                                           *)

\* Every variable stays within its type.
THEOREM TypeCorrect == Spec => []TypeOK
  BY Invariance, PTL DEF IInv, TypeInv

\* Subtasks and blocking relations: assertValidParent and assertNoBlockingCycle
\* keep out every cycle but the one a task is created with, however deep moves have
\* made the tree, and subtasks stay in the scope of their parent, as long as requests do
\* not overlap.
THEOREM TreeSound == Spec => []TreeHolds
  <1>1. ShapeInv => TreeHolds
    BY DEF ShapeInv, NoKnots, IInv, TypeInv, TreeHolds
  <1> QED
    BY <1>1, ShapeInvariance, PTL

\* createSubtask never adds to a parent that was closed, archived or moved
\* while it was being served: it is guarded by the parent's version.
THEOREM SubtaskParents == Spec => SubtasksUnderOpenRoots
  <1> DEFINE Under(s) == Holds(s, "subtask") /\ ~Exists(req[s].task) =>
                            (parent'[req[s].task] = req[s].parent => OpenRoot(req[s].parent))
  <1>1. IInv /\ [Next]_vars => [\A s \in Slots : Under(s)]_vars
    <2> SUFFICES ASSUME IInv, Next, NEW s \in Slots, Holds(s, "subtask"),
                        ~Exists(req[s].task), parent'[req[s].task] = req[s].parent
                 PROVE  OpenRoot(req[s].parent)
      OBVIOUS
    <2> DEFINE t == req[s].task
    <2>1. Sound(req[s])
      BY DEF IInv, TypeInv, RequestsSound, Holds
    <2>2. t \in Tasks /\ req[s].parent \in Tasks /\ parent[t] = NoTask
      BY <2>1 DEF Sound, Holds, IInv, TypeInv, TypeOK, ParentsExist
    <2>3. parent'[t] # parent[t]
      BY <2>2, ConstantsAssumption
    <2>4. PICK o \in Slots : CommitCreate(o) \/ CommitUpdate(o)
      BY <2>3, RowsWritten
      DEF IInv, tree, Commit, CommitStatus, CommitArchive, CommitRelate, CommitUnrelate
    <2>5. req[o] # Idle /\ req[o].task = t
      BY <2>2, <2>3, <2>4 DEF CommitCreate, CommitUpdate, Holds, IInv, TypeInv, TypeOK
    <2>6. o = s
      BY <2>5 DEF IInv, Unborn
    <2>7. version[req[s].parent] = req[s].seen
      BY <2>1, <2>4, <2>6 DEF CommitCreate, CommitUpdate, Holds, ParentUnmoved, Sound
    <2> QED
      BY <2>7 DEF IInv, KnowsParent
  <1> QED
    BY <1>1, Invariance, PTL DEF Spec, SubtasksUnderOpenRoots, OpenRoot

\* changeStatus completes a task over an open subtask only if an update moved
\* the subtask to it meanwhile: all else changes the version of the task.
THEOREM CompletionGuard == Spec => DoneOverlooksMovedOnly
  <1> DEFINE Guarded(t) == status[t] # "DONE" /\ status'[t] = "DONE" =>
                              \A c \in OpenChildren(t) : ~serial /\ c \in moved
  <1>1. IInv /\ [Next]_vars => [\A t \in Tasks : Guarded(t)]_vars
    <2> SUFFICES ASSUME IInv, Next, NEW t \in Tasks, status[t] # "DONE", status'[t] = "DONE"
                 PROVE  \A c \in OpenChildren(t) : ~serial /\ c \in moved
      OBVIOUS
    <2>1. PICK s \in Slots : CommitStatus(s) \/ CommitCreate(s) \/ CommitArchive(s)
      BY RowsWritten DEF IInv, tree, Commit, CommitUpdate, CommitRelate, CommitUnrelate
    <2>2. CommitStatus(s) /\ req[s].task = t /\ req[s].to = "DONE"
      BY <2>1 DEF CommitStatus, CommitCreate, CommitArchive, IInv, TypeInv, TypeOK
    <2> QED
      BY <2>2 DEF CommitStatus, Unmoved, IInv, KnowsSubtasks
  <1> QED
    BY <1>1, Invariance, PTL DEF Spec, DoneOverlooksMovedOnly
=============================================================================
