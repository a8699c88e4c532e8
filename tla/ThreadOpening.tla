--------------------------- MODULE ThreadOpening ---------------------------
(***************************************************************************)
(* How chat threads come into being: create (DIRECT and GROUP) and         *)
(* groupThread (the CONTEXTUAL thread of a work group) of                  *)
(* communication/messages.service.ts.                                      *)
(*                                                                         *)
(* A request reads, decides and writes in several awaits, and other        *)
(* requests run between them.  What keeps them apart are two unique        *)
(* indexes, on MessageThread.directKey and on the (userId, key, operation) *)
(* of IdempotencyRecord; a CONTEXTUAL thread has neither.                  *)
(*                                                                         *)
(* A thread made by request r is called r.  Titles, company checks, audit  *)
(* and outbox rows are left out; ChatThread takes over from here.          *)
(***************************************************************************)
EXTENDS Integers, FiniteSets

CONSTANTS
    Users,
    Keys,      \* Idempotency-Key values
    Requests,  \* requests; each is served once
    Legacy,    \* direct threads stored before directKey was introduced
    Pair,      \* the participants of each of them
    Founders   \* the members of the work group at the start

NoThread == "none"

Wellformed ==
    /\ NoThread \notin Requests \cup Legacy
    /\ Requests \cap Legacy = {}
    /\ Pair \in [Legacy -> {w \in SUBSET Users : Cardinality(w) = 2}]
    /\ \A t, u \in Legacy : Pair[t] = Pair[u] => t = u
    /\ Founders \subseteq Users

VARIABLES
    kind,       \* MessageThread.kind, "NONE" while there is no such thread
    keyed,      \* whether MessageThread.directKey is set
    joined,     \* the active participants of a thread
    oldest,     \* the CONTEXTUAL thread with the least createdAt
    idem,       \* IdempotencyRecord: what a key of a user stands for
    group,      \* the active members of the work group
    pc, req     \* of each request: how far it is, and its input and findings

threads == <<kind, keyed, joined, oldest>>
vars    == <<threads, idem, group, pc, req>>

Threads == Requests \cup Legacy
NoRecord == [kind |-> "NONE", who |-> {}, thread |-> NoThread]

Init ==
    /\ kind = [t \in Threads |-> IF t \in Legacy THEN "DIRECT" ELSE "NONE"]
    /\ keyed = [t \in Threads |-> FALSE]
    /\ joined = [t \in Threads |-> IF t \in Legacy THEN Pair[t] ELSE {}]
    /\ oldest = NoThread
    /\ idem = [p \in Users \X Keys |-> NoRecord]
    /\ group = Founders
    /\ pc = [r \in Requests |-> "idle"]
    /\ req = [r \in Requests |-> NoRecord]

Go(r, place) == pc' = [pc EXCEPT ![r] = place]
Answer(r, t) == Go(r, "done") /\ req' = [req EXCEPT ![r].thread = t]

-----------------------------------------------------------------------------
(* create.  Definitions named M_ are deliberate mistakes: no action uses   *)
(* them, they stand in for the definition after them to show what a        *)
(* property catches.                                                       *)

\* The fingerprint of a request is made of its kind and its participants.
SameRequest(a, b) == a.kind = b.kind /\ a.who = b.who

Name(r)      == <<req[r].by, req[r].key>>
Recorded(r)  == idem[Name(r)]
Directs(who) == {t \in Threads : kind[t] = "DIRECT" /\ joined[t] = who}

\* upsert with an empty update: the first record of a key stays.
Record(r, t) ==
    idem' = IF Recorded(r) # NoRecord THEN idem
            ELSE [idem EXCEPT ![Name(r)] =
                     [kind |-> req[r].kind, who |-> req[r].who, thread |-> t]]

\* Requests that have not arrived are alike, and so are keys not yet used.
First(r) == r = CHOOSE q \in Requests : pc[q] = "idle"
Used     == {req[q].key : q \in {q \in Requests : req[q].kind \in {"DIRECT", "GROUP"}}}
Usual(k) == k \notin Used => k = CHOOSE j \in Keys : j \notin Used

Arrive(r) ==
    /\ pc[r] = "idle" /\ First(r)
    /\ \E u \in Users, k \in Keys, kd \in {"DIRECT", "GROUP"}, others \in SUBSET Users :
          /\ Usual(k) /\ u \notin others
          /\ IF kd = "DIRECT" THEN Cardinality(others) = 1 ELSE Cardinality(others) >= 2
          /\ req' = [req EXCEPT ![r] = [kind |-> kd, who |-> others \cup {u},
                                        by |-> u, key |-> k, thread |-> NoThread]]
    /\ Go(r, "lookup")
    /\ UNCHANGED <<threads, idem, group>>

\* A known key answers again, or is refused for a different request.
Replay(r) ==
    /\ pc[r] = "lookup"
    /\ Recorded(r) # NoRecord
    /\ IF SameRequest(Recorded(r), req[r])
       THEN Answer(r, Recorded(r).thread)
       ELSE Go(r, "refused") /\ UNCHANGED req
    /\ UNCHANGED <<threads, idem, group>>

LookUp(r) ==
    /\ pc[r] = "lookup"
    /\ Recorded(r) = NoRecord
    /\ Go(r, IF req[r].kind = "DIRECT" THEN "find" ELSE "insert")
    /\ UNCHANGED <<threads, idem, group, req>>

\* findDirectThread: by the key, else by the participants.
Find(r) ==
    /\ pc[r] = "find"
    /\ \/ \E t \in Directs(req[r].who) :
             /\ req' = [req EXCEPT ![r].thread = t]
             /\ Go(r, "attach")
       \/ /\ Directs(req[r].who) = {}
          /\ Go(r, "insert") /\ UNCHANGED req
    /\ UNCHANGED <<threads, idem, group>>

\* A thread found without a key gets it; no other thread of the pair has it.
Attach(r) ==
    /\ pc[r] = "attach"
    /\ keyed' = [keyed EXCEPT ![req[r].thread] = TRUE]
    /\ Record(r, req[r].thread)
    /\ Go(r, "done")
    /\ UNCHANGED <<kind, joined, oldest, group, req>>

M_InsertableByKey(r) == Recorded(r) = NoRecord
M_InsertableByPair(r) ==
    req[r].kind = "DIRECT" => \A t \in Directs(req[r].who) : ~keyed[t]

\* Both unique indexes accept the rows.
Insertable(r) ==
    /\ req[r].kind = "DIRECT" => \A t \in Directs(req[r].who) : ~keyed[t]
    /\ Recorded(r) = NoRecord

Insert(r) ==
    /\ pc[r] = "insert" /\ Insertable(r)
    /\ kind' = [kind EXCEPT ![r] = req[r].kind]
    /\ keyed' = [keyed EXCEPT ![r] = (req[r].kind = "DIRECT")]
    /\ joined' = [joined EXCEPT ![r] = req[r].who]
    /\ Record(r, r)
    /\ Answer(r, r)
    /\ UNCHANGED <<oldest, group>>

M_InsertGivesUp(r) ==
    /\ pc[r] = "insert" /\ ~Insertable(r)
    /\ Go(r, "refused")
    /\ UNCHANGED <<threads, idem, group, req>>

\* Rolled back.  For a pair the thread that won is looked up once more.
InsertFails(r) ==
    /\ pc[r] = "insert" /\ ~Insertable(r)
    /\ Go(r, IF req[r].kind = "DIRECT" THEN "again" ELSE "refused")
    /\ UNCHANGED <<threads, idem, group, req>>

FindAgain(r) ==
    /\ pc[r] = "again"
    /\ \/ \E t \in Directs(req[r].who) :
             /\ req' = [req EXCEPT ![r].thread = t]
             /\ Go(r, "record")
       \/ /\ Directs(req[r].who) = {}
          /\ Go(r, "refused") /\ UNCHANGED req
    /\ UNCHANGED <<threads, idem, group>>

RecordWinner(r) ==
    /\ pc[r] = "record"
    /\ Record(r, req[r].thread)
    /\ Go(r, "done")
    /\ UNCHANGED <<threads, group, req>>

-----------------------------------------------------------------------------
(* groupThread                                                             *)

\* groups.service takes in a new member (not modelled further).
GroupJoin(u) ==
    /\ u \notin group
    /\ group' = group \cup {u}
    /\ UNCHANGED <<threads, idem, pc, req>>

\* The group and its members are read first.
ArriveContext(r) ==
    /\ pc[r] = "idle" /\ First(r)
    /\ \E u \in group :
          req' = [req EXCEPT ![r] = [kind |-> "CONTEXTUAL", who |-> group,
                                     by |-> u, thread |-> NoThread]]
    /\ Go(r, "context")
    /\ UNCHANGED <<threads, idem, group>>

M_ReadContextAnswersUser(r) ==
    /\ pc[r] = "context" /\ oldest # NoThread
    /\ req' = [req EXCEPT ![r].thread = req[r].by]
    /\ Go(r, IF req[r].by \in joined[oldest] THEN "done" ELSE "join")
    /\ UNCHANGED <<threads, idem, group>>

\* The oldest thread of the group answers; who is missing there comes in.
ReadContext(r) ==
    /\ pc[r] = "context" /\ oldest # NoThread
    /\ req' = [req EXCEPT ![r].thread = oldest]
    /\ Go(r, IF req[r].by \in joined[oldest] THEN "done" ELSE "join")
    /\ UNCHANGED <<threads, idem, group>>

ContextMissing(r) ==
    /\ pc[r] = "context" /\ oldest = NoThread
    /\ Go(r, "open")
    /\ UNCHANGED <<threads, idem, group, req>>

M_JoinNothing(r) ==
    /\ pc[r] = "join"
    /\ Go(r, "done")
    /\ UNCHANGED <<threads, idem, group, req>>

Join(r) ==
    /\ pc[r] = "join"
    /\ joined' = [joined EXCEPT ![req[r].thread] = @ \cup {req[r].by}]
    /\ Go(r, "done")
    /\ UNCHANGED <<kind, keyed, oldest, idem, group, req>>

\* No index keeps a second thread of the same group out.
Open(r) ==
    /\ pc[r] = "open"
    /\ kind' = [kind EXCEPT ![r] = "CONTEXTUAL"]
    /\ joined' = [joined EXCEPT ![r] = req[r].who]
    /\ oldest' = IF oldest = NoThread THEN r ELSE oldest
    /\ Answer(r, r)
    /\ UNCHANGED <<keyed, idem, group>>

-----------------------------------------------------------------------------
Create(r) ==
    \/ Arrive(r) \/ Replay(r) \/ LookUp(r) \/ Find(r) \/ Attach(r) \/ Insert(r)
    \/ InsertFails(r) \/ FindAgain(r) \/ RecordWinner(r)

GroupThread(r) ==
    ArriveContext(r) \/ ReadContext(r) \/ ContextMissing(r) \/ Join(r) \/ Open(r)

Next == \/ \E r \in Requests : Create(r) \/ GroupThread(r)
        \/ \E u \in Users : GroupJoin(u)

Spec == Init /\ [][Next]_vars

-----------------------------------------------------------------------------
(* Properties.                                                             *)

\* Every variable stays within its type.
TypeOK ==
    /\ kind \in [Threads -> {"NONE", "DIRECT", "GROUP", "CONTEXTUAL"}]
    /\ keyed \in [Threads -> BOOLEAN]
    /\ joined \in [Threads -> SUBSET Users]
    /\ oldest \in Threads \cup {NoThread}
    /\ \A p \in Users \X Keys : idem[p].thread \in Threads \cup {NoThread}
    /\ group \in SUBSET Users
    /\ pc \in [Requests -> {"idle", "lookup", "find", "attach", "insert", "again",
                            "record", "context", "join", "open", "done", "refused"}]
    /\ \A r \in Requests : req[r].thread \in Threads \cup {NoThread}

\* Two people share one direct thread, however many requests open it at once
\* and whether or not an unkeyed one was stored before.
OneDirectPerPair ==
    \A t, u \in Threads :
        kind[t] = "DIRECT" /\ kind[u] = "DIRECT" /\ joined[t] = joined[u] => t = u

\* Retries of a GROUP create under one key, overlapping ones included, make one
\* thread.
OneGroupPerKey ==
    \A t, u \in Requests :
        /\ kind[t] = "GROUP" /\ kind[u] = "GROUP"
        /\ req[t].by = req[u].by /\ req[t].key = req[u].key
        => t = u

\* An answer is an existing thread the caller takes part in, of the kind and,
\* for create, with the participants asked for.
AnswersFit ==
    \A r \in Requests : pc[r] = "done" =>
        /\ req[r].thread # NoThread
        /\ kind[req[r].thread] = req[r].kind
        /\ req[r].by \in joined[req[r].thread]
        /\ req[r].kind # "CONTEXTUAL" => joined[req[r].thread] = req[r].who

\* Losing the race for a pair is no error: a direct request is refused only
\* when its key stands for something else.
DirectRefusedForKeyOnly ==
    \A r \in Requests : pc[r] = "refused" /\ req[r].kind = "DIRECT" =>
        Recorded(r) # NoRecord /\ ~SameRequest(Recorded(r), req[r])

\* A work group has one contextual thread.  (Migration plan: "one canonical
\* contextual chat".)
OneThreadPerGroup ==
    \A t, u \in Threads : kind[t] = "CONTEXTUAL" /\ kind[u] = "CONTEXTUAL" => t = u
=============================================================================
